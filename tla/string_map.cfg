\* A map of ten strings; no call may follow string_map_free.
SPECIFICATION Spec
CONSTANTS
  Keys <- MCKeys
  ValuesOf <- MCValuesOf
  Null = Null
INVARIANTS
  TypeOK
  Balanced
  AllFreed
PROPERTIES
  ImplementsMap
CHECK_DEADLOCK FALSE
