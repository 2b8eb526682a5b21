\* Every configuration of up to 4 rules in chains of three names.
\* The parse ends.
SPECIFICATION Spec
CONSTANTS
  Names <- MCNames
  Kept <- MCKept
  MaxRules = 4
  MaxDepth = 2
INVARIANTS
  TypeOK
  CountsPointers
  KeptExactly
  WaysEnd
  ErrorExitsReadNoFreedRule
CHECK_DEADLOCK FALSE
