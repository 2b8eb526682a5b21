\* main binds before it raises anything, and handlers bind on the bus thread.
\* It ends when MaxEvents events were raised and dispatched.
SPECIFICATION Spec
CONSTANTS
  Types <- MCTypes
  Ids <- MCIds
  InitialSlots = 1
  Concurrent = FALSE
  MaxBinds = 4
  MaxEvents = 3
INVARIANTS
  TypeOK
  BindsAreFound
  AllWaitingCalled
  NoStaleArray
CHECK_DEADLOCK FALSE
