----------------------------- MODULE MCPeerDial -----------------------------
(* Instance of PeerDial for TLC.  Locks outnumber what the map and the     *)
(* tasks can refer to together, so an allocation never fails.              *)
EXTENDS PeerDial
=============================================================================
