\* three VMs on a channel of capacity 2
CONSTANTS
  t1 = t1  t2 = t2  t3 = t3  v1 = v1  v2 = v2
  Threads <- ThreeThreads
  Values <- TwoValues
  Capacity = 2
  NoThread = NoThread
  NoValue = NoValue
  MaxCalls = 3
  MaxSpurious = 1
SPECIFICATION FairSpec
INVARIANTS RingConsistent NoLostWakeup NoMutualWait
PROPERTIES IsFifoQueue BlockedForCause
\* all three may end up receiving from an empty channel for ever
CHECK_DEADLOCK FALSE
