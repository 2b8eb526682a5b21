\* An address with the digit 0.
\* main ends with an exit, or is in its loop.
SPECIFICATION Spec
CONSTANTS
  Octets = 2
  Files <- MCFiles
  Kind <- MCKind
  Exports <- MCExports
  Routines <- MCRoutines
  Configs <- MCConfigs
  Word <- MCWord
INVARIANTS
  MatchesAsWritten
CHECK_DEADLOCK FALSE
