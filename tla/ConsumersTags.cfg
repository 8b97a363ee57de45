SPECIFICATION Spec
CONSTANTS
  Apps = {a1}
  Tags = {t1}
  Cons = {c1, c2}
  MaxDeliver = 1
  Features = {"close", "nowait", "conflict"}
SYMMETRY Symmetric
INVARIANT OpenChanIsRegistered
INVARIANT SendMeetsReceiver
CHECK_DEADLOCK FALSE
