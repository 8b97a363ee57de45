SPECIFICATION FairSpec
CONSTANTS
  Publishers = {"p1", "p2"}
  Ackers = {"a"}
  Calls = {"confirm", "declare", "bind"}
  NoWait = {"confirm"}
  FrameSize = 10
  BodyLen <- MCBodyLen
  Operation <- MCOperation
  Listeners <- MCListeners
  Scenes <- MCScenes
  MaxEvents = 2
PROPERTY NoWaitReturns
CHECK_DEADLOCK FALSE
