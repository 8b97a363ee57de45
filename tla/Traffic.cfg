SPECIFICATION FairSpec
CONSTANTS
  Publishers = {"p1", "p2"}
  Ackers = {"a"}
  Calls = {"confirm", "declare", "bind"}
  NoWait = {"bind"}
  FrameSize = 10
  BodyLen <- MCBodyLen
  Operation <- MCOperation
  Listeners <- MCListeners
  Scenes <- MCScenes
  MaxEvents = 2
INVARIANTS ContentsUnbroken WholeWhenNil SilentAfterCloseOk ReplyIsMine TagsAgree NoSendOnClosed
PROPERTIES OperationsReturn
CHECK_DEADLOCK FALSE
