\* From main to the loop that reads frames, with configurations of up to two rules.
\* main ends with an exit, or is in its loop.
SPECIFICATION Spec
CONSTANTS
  Octets = 2
  Files <- MCFiles
  Kind <- MCKind
  Exports <- MCExports
  Routines <- MCRoutines
  Configs <- MCConfigs
  Word <- MCWord
INVARIANTS
  TypeOK
  PluginsWhole
  CallsLinked
  ReadAsWritten
  NoPartOfAChain
  MatchesWithoutZeros
CHECK_DEADLOCK FALSE
