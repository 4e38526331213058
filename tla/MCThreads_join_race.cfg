\* handles are shared
CONSTANTS
  m = m  a = a  b = b
  Threads <- ThreeThreads
  Main = m
  NoThread = NoThread
  MaxOps = 1
  Structured = FALSE
SPECIFICATION Spec
INVARIANTS JoinedOnce
\* every program ends
CHECK_DEADLOCK FALSE
