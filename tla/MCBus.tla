--------------------------------- MODULE MCBus ---------------------------------
(***************************************************************************)
(* Bus for TLC: two types and two ids of each, in arrays that start with   *)
(* one slot, so that the second bind to an event makes its array grow and  *)
(* the third makes it grow again.                                          *)
(***************************************************************************)
EXTENDS Bus

MCTypes == {"packet_event", "ip_event"}
MCIds == {0, 1}
================================================================================
