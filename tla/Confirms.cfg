SPECIFICATION FairSpec
CONSTANTS
  Publishers = {p1, p2}
  Listeners = {l1}
  Cap = 1
  MaxPublish = 3
  LazyReceiver = FALSE
INVARIANT TagAgreement
INVARIANT ListenerOrder
INVARIANT DeferredFaithful
INVARIANT NoOrphanDeferred
PROPERTY PublishReturns
PROPERTY ShutdownCompletes
PROPERTY Resequenced
CHECK_DEADLOCK FALSE
