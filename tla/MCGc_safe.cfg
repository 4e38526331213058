\* three addresses, five allocations, addresses may be reused
CONSTANTS
  o1 = o1  o2 = o2  o3 = o3
  Objects <- ThreeObjects
  ARC_GC_INITIAL_THRESHOLD = 2
  MaxAllocs = 5
SPECIFICATION Spec
SYMMETRY Symmetry
INVARIANTS NoReachableFreed
PROPERTIES AllGarbageFreed CollectionAdvances
\* a program may end by destroying its VM
CHECK_DEADLOCK FALSE
