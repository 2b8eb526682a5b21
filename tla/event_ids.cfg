\* Event ids of four bits.
\* Every id is bound in the end.
SPECIFICATION Spec
CONSTANTS
  Half = 8
  Null = Null
INVARIANTS
  EveryIdFound
CHECK_DEADLOCK FALSE
