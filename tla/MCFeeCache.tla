----------------------------- MODULE MCFeeCache -----------------------------
(* Instances of FeeCache for TLC. *)
EXTENDS FeeCache
=============================================================================
