\* three coroutines that resume each other
CONSTANTS
  c1 = c1  c2 = c2  c3 = c3
  Coroutines <- Three
  Main = Main
  ARC_STACK_MAX = 3
  MaxSwitches = 6
  Reenter = FALSE
SPECIFICATION Spec
SYMMETRY Symmetry
INVARIANTS HeightsAgree StatusTrue
\* a run of the main VM ends
CHECK_DEADLOCK FALSE
