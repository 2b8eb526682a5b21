------------------------------- MODULE FiniteMap -------------------------------
(***************************************************************************)
(* What string_map.h offers its callers: a map from strings to values, and *)
(* in the end each value once, in the order of the keys.  A string is its  *)
(* rank in the order of strcmp.                                            *)
(***************************************************************************)
EXTENDS Naturals, Sequences

CONSTANTS
  Keys,      \* the strings
  ValuesOf,  \* ValuesOf[k]: the pointers stored under k
  Null       \* what string_map_get answers for a key that is not in the map

VARIABLES
  map,     \* the answer of string_map_get for each key
  handed   \* the values handed to the callback of string_map_free

mapVars == <<map, handed>>

Init == map = [k \in Keys |-> Null] /\ handed = <<>>

(* A call of insert or remove leaves the map one of these. *)
Inserted(m, k, v) == [m EXCEPT ![k] = v]
Without(m, k) == [m EXCEPT ![k] = Null]

(* The map may be costly to evaluate: `before` and `after` are its values. *)
InsertOrRemove ==
  /\ UNCHANGED handed
  /\ \E before \in {map}, after \in {map'}, k \in Keys :
       \/ \E v \in ValuesOf[k] : after = Inserted(before, k, v)
       \/ after = Without(before, k)

(* string_map_free, one value at a time *)
HandOver(k) ==
  /\ map[k] # Null /\ \A j \in Keys : map[j] # Null => k <= j
  /\ handed' = Append(handed, map[k])
  /\ map' = Without(map, k)

Next == InsertOrRemove \/ \E k \in Keys : HandOver(k)

Spec == Init /\ [][Next]_mapVars
================================================================================
