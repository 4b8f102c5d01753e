---------------------------- MODULE MCPeerStore ----------------------------
(* Instances of PeerStore for TLC. *)
EXTENDS PeerStore

CONSTANTS n1, n2, h1, h2

MCNodes == {n1, n2}
MCHosts == {h1, h2}
MCHome == [n \in MCNodes |-> IF n = n1 THEN h1 ELSE h2]
=============================================================================
