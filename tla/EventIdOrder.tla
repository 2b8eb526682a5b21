----------------------------- MODULE EventIdOrder -----------------------------
(***************************************************************************)
(* The comparison of event ids in src/impl/bus.c, which the tree of the    *)
(* ids of an event type is built with.  An event_id_t is an unsigned int,  *)
(* and the comparison returns the difference of two as an int.             *)
(***************************************************************************)
EXTENDS Integers, TLAPS

CONSTANT Half   \* half the number of event ids: 2^31, and smaller for TLC

Id == 0..(2 * Half - 1)

(* v1->key - v2->key wraps around, and is returned through an int. *)
Unsigned(d) == IF d < 0 THEN d + 2 * Half ELSE d
Signed(u) == IF u < Half THEN u ELSE u - 2 * Half
bus_event_node_cmp(v1, v2) == Signed(Unsigned(v1 - v2))

------------------------------------------------------------------------------
(* The comparison never takes two ids for one: an event is not dispatched  *)
(* to the handlers of another id.                                          *)
THEOREM OnlyEqualIdsCompareEqual ==
  ASSUME Half \in Nat, NEW a \in Id, NEW b \in Id
  PROVE  bus_event_node_cmp(a, b) = 0 <=> a = b
BY DEF Id, bus_event_node_cmp, Signed, Unsigned

(* Between ids less than half the range apart it is the order of the       *)
(* numbers, as strcmp is that of the strings: for an event type with such  *)
(* ids the tree is the one that StringMap has for its keys.                *)
THEOREM NearIdsAreOrdered ==
  ASSUME Half \in Nat, NEW a \in Id, NEW b \in Id, a - b \in (1 - Half)..(Half - 1)
  PROVE  bus_event_node_cmp(a, b) = a - b
BY DEF Id, bus_event_node_cmp, Signed, Unsigned

(* Over all ids it is no order: there are three of which each comes before *)
(* the next and the last before the first.                                 *)
THEOREM FarIdsGoRound ==
  ASSUME Half \in Nat, Half > 1
  PROVE  \E a, b, c \in Id : /\ bus_event_node_cmp(a, b) < 0
                             /\ bus_event_node_cmp(b, c) < 0
                             /\ bus_event_node_cmp(c, a) < 0
<1>1. 0 \in Id /\ Half - 1 \in Id /\ 2 * Half - 2 \in Id
  BY DEF Id
<1>2. bus_event_node_cmp(0, Half - 1) < 0
  BY DEF bus_event_node_cmp, Signed, Unsigned
<1>3. bus_event_node_cmp(Half - 1, 2 * Half - 2) < 0
  BY DEF bus_event_node_cmp, Signed, Unsigned
<1>4. bus_event_node_cmp(2 * Half - 2, 0) < 0
  BY DEF bus_event_node_cmp, Signed, Unsigned
<1> QED
  BY <1>1, <1>2, <1>3, <1>4
================================================================================
