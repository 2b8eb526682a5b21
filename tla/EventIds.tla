-------------------------------- MODULE EventIds --------------------------------
(***************************************************************************)
(* The tree of the ids of one event type (struct bus_event_tree of         *)
(* src/impl/bus.c), which is searched with bus_event_node_cmp.             *)
(***************************************************************************)
EXTENDS EventIdOrder

CONSTANT Null   \* the null pointer

VARIABLES
  tree,   \* the bus_event_tree
  bound   \* the ids to which a handler was bound

vars == <<tree, bound>>

RB == INSTANCE RBTree WITH Nodes <- Id, Cmp <- bus_event_node_cmp

Init == tree = RB!EmptyTree /\ bound = {}

(* bus_event_tree_insert_handler for an id that has no handler yet *)
Bind(id) ==
  /\ id \notin bound
  /\ tree' = IF RB!Find(tree, id) = Null THEN RB!Insert(tree, id) ELSE tree
  /\ bound' = bound \cup {id}

Next == \E id \in Id : Bind(id)

Spec == Init /\ [][Next]_vars

(* bus.h:15 lets client code choose any id: "Each event is given an event  *)
(* ID provided by the client code, a user can then bind a handler to an    *)
(* event with the correct type and ID".  So an event with an id that has a *)
(* handler finds the node of its id.                                       *)
EveryIdFound == \A id \in bound : RB!Find(tree, id) = id
================================================================================
