\* code may return from inside a try
CONSTANTS
  ARC_STACK_MAX = 4
  ARC_FRAMES_MAX = 2
  ARC_HANDLER_MAX = 2
  Ints <- OneInt
  MaxCalls = 3
  MaxClosures = 0
  ReturnInTry = TRUE
  ThrowPastCapture = FALSE
SPECIFICATION Spec
PROPERTIES ThrowUnwinds
CHECK_DEADLOCK FALSE
