\* calls and closures, one try
CONSTANTS
  ARC_STACK_MAX = 4
  ARC_FRAMES_MAX = 2
  ARC_HANDLER_MAX = 1
  Ints <- OneInt
  MaxCalls = 3
  MaxClosures = 2
  ReturnInTry = FALSE
  ThrowPastCapture = FALSE
SPECIFICATION Spec
INVARIANTS TypeOK LocalsKeepValues CapturesKeepValues CalleeUnderFrame
CHECK_DEADLOCK FALSE
