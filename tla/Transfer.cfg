SPECIFICATION Spec
CONSTANTS
  Channels = {1, 2}
  FrameSize = 10
  Scripts <- MCScripts
  MaxCuts = 300
  Depth = 3
  ParseMethod <- parseMethod
  ParseHeader <- parseHeaderFrame
  KeptArgs <- keptArgs
  KeptProps <- keptProps
INVARIANTS FramesReadBack MessagesArrive NoHalfPublishing
CHECK_DEADLOCK FALSE
