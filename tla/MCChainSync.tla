----------------------------- MODULE MCChainSync -----------------------------
(* Instance of ChainSync for TLC: two branches, the node first started on  *)
(* the first block of one.                                                 *)
EXTENDS ChainSync

CONSTANTS x, y

MCBranches == {x, y}
MCStart == <<x>>
=============================================================================
