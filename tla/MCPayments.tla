----------------------------- MODULE MCPayments -----------------------------
(* Instance of Payments for TLC. *)
EXTENDS Payments
=============================================================================
