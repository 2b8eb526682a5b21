------------------------------ MODULE MCStringMap ------------------------------
(***************************************************************************)
(* StringMap for TLC: ten keys are the fewest with a tree in which a       *)
(* removal has to go up twice.  Each has a value of its own, and the first *)
(* may get another.                                                        *)
(***************************************************************************)
EXTENDS StringMap

MCKeys == 1..10
MCValuesOf == [k \in MCKeys |-> IF k = 1 THEN {k, 10 + k} ELSE {k}]
================================================================================
