SPECIFICATION FairSpec
CONSTANTS
  Apps = {a1}
  Tags = {t1}
  Cons = {c1}
  MaxDeliver = 2
  Features = {"close", "context"}
INVARIANT InOrder
INVARIANT CompleteAfterCancel
PROPERTY EachIsReceived
PROPERTY CloseEnds
PROPERTY OutsClose
PROPERTY ContextGoroutinesEnd
CHECK_DEADLOCK FALSE
