\* main binds while the bus thread is at work.
\* It ends when MaxEvents events were raised and dispatched.
SPECIFICATION Spec
CONSTANTS
  Types <- MCTypes
  Ids <- MCIds
  InitialSlots = 1
  Concurrent = TRUE
  MaxBinds = 2
  MaxEvents = 1
INVARIANTS
  BindsAreFound
CHECK_DEADLOCK FALSE
