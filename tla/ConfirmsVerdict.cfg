SPECIFICATION Spec
CONSTANTS
  Publishers = {p1}
  Listeners = {l1}
  Cap = 1
  MaxPublish = 3
  LazyReceiver = FALSE
INVARIANT ListenerFaithful
CHECK_DEADLOCK FALSE
