SPECIFICATION Spec
CONSTANTS
  Apps = {a1}
  Tags = {t1}
  Cons = {c1, c2}
  MaxDeliver = 1
  Features = {"context"}
PROPERTY ContextCancelsItsOwn
CHECK_DEADLOCK FALSE
