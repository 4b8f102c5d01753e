-------------------------- MODULE MCWalletScripts --------------------------
(* Instance of WalletScripts for TLC. *)
EXTENDS WalletScripts
=============================================================================
