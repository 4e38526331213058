SPECIFICATION Spec
CONSTANTS
  ARC_INTERP_VARS_MAX = 12
  ARC_INTERP_FRAMES_MAX = 4
  MaxIterations = 6
  MaxArgs = 2
  ARC_STACK_MAX = 24
  ARC_FRAMES_MAX = 5
  ARC_HANDLER_MAX = 2
  NullValue <- arc_val_null
  Texts <- AllTexts
  Interpret <- arc_interpret
  Compile <- arc_compile
  Typecheck <- arc_typecheck
  Verify <- arc_verify
  Lower <- arc_semantic_lower
CHECK_DEADLOCK FALSE
INVARIANTS
  CompiledAgrees
  LoweringPreserves
  LoweredValid
  VerifierAccepts
  StackWithinDeclared
  InOwnCode
  FileRunsSame
  ServiceContract
  
  TypeSound
PROPERTY
  Terminates
