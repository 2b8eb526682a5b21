\* Is a chain kept while something points to it?
\* The parse ends.
SPECIFICATION Spec
CONSTANTS
  Names <- MCNames
  Kept <- MCKept
  MaxRules = 3
  MaxDepth = 2
INVARIANTS
  NoUseAfterFree
CHECK_DEADLOCK FALSE
