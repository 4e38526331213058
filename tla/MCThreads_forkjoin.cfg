\* fork-join programs of up to three threads
CONSTANTS
  m = m  a = a  b = b
  Threads <- ThreeThreads
  Main = m
  NoThread = NoThread
  MaxOps = 3
  Structured = TRUE
SPECIFICATION FairSpec
INVARIANTS JoinReturnsResult FlagMatchesLock HeapOutlivesThreads
PROPERTIES EveryoneEnds
\* every program ends
CHECK_DEADLOCK FALSE
