\* functions of up to five instructions that do what the verifier counts
CONSTANTS
  MaxLen = 5
  Programs <- NoArguments
  MAX_CODE_LEN = 5
  ARC_STACK_MAX = 5
  ARC_HANDLER_MAX = 2
  Below = 1
SPECIFICATION Spec
INVARIANTS DepthMatchesVerifier NoUnderflow
\* a function is rejected or stops
CHECK_DEADLOCK FALSE
