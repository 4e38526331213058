\* calls and exceptions without closures
CONSTANTS
  ARC_STACK_MAX = 5
  ARC_FRAMES_MAX = 3
  ARC_HANDLER_MAX = 2
  Ints <- OneInt
  MaxCalls = 4
  MaxClosures = 0
  ReturnInTry = FALSE
  ThrowPastCapture = FALSE
SPECIFICATION Spec
INVARIANTS FramesNested HandlersMatchTries
PROPERTIES ThrowUnwinds
CHECK_DEADLOCK FALSE
