------------------------------ MODULE MCPipeline ------------------------------
(***************************************************************************)
(* Pipeline for TLC, with a configuration whose chains use every type of   *)
(* rule, with and without a pattern that matches (the end of a chain is    *)
(* handled as `continue`):                                                 *)
(*                                                                         *)
(*   ether { LOG (src = m1); GOTO sub (dest = m1); DROP; }                 *)
(*   sub   { DROP (src = m1, dest = m1); CALL f (src = m2); LOG; }         *)
(*   other { CALL f (dest = m2); RETURN (src = m1); }                      *)
(*                                                                         *)
(* Every frame that enters at ether meets implemented rules only; none     *)
(* that enters at other does.                                              *)
(***************************************************************************)
EXTENDS Pipeline

CONSTANTS m1, m2

MCMacs == {m1, m2}
MCRules == 1..8
MCNoRule == 0

Any == NullPattern(m1)
Src(m) == [Any EXCEPT !.features = {"HAS_SRC_MAC_ADDR"}, !.src_mac_addr = m]
Dest(m) == [Any EXCEPT !.features = {"HAS_DEST_MAC_ADDR"}, !.dest_mac_addr = m]
Both(m, n) == [features |-> Features, src_mac_addr |-> m, dest_mac_addr |-> n]
R(type, pattern, next, goto) ==
  [m_type |-> type, m_pattern |-> pattern, next |-> next, goto_chain |-> goto]

MCRule == <<
  R("LOG", Src(m1), 2, 0), R("GOTO", Dest(m1), 3, 4), R("DROP", Any, 0, 0),
  R("DROP", Both(m1, m1), 5, 0), R("CALL", Src(m2), 6, 0), R("LOG", Any, 0, 0),
  R("CALL", Dest(m2), 8, 0), R("RETURN", Src(m1), 0, 0) >>
MCRank == [r \in MCRules |-> 8 - r]
==============================================================================
