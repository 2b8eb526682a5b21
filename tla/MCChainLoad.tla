----------------------------- MODULE MCChainLoad -----------------------------
(***************************************************************************)
(* ChainLoad for TLC: three names of chains, one before and one after that *)
(* of a chain the chain set keeps, in the order of strcmp.                 *)
(***************************************************************************)
EXTENDS ChainLoad

MCNames == {1, 2, 3}
MCKept == {2}
==============================================================================
