--------------------------- MODULE MCCloseChannel ---------------------------
(* Instances of CloseChannel for TLC: two channels of one peer, one of     *)
(* another.                                                                *)
EXTENDS CloseChannel

CONSTANTS p, q, x, y, z

MCPeers == {p, q}
MCChannels == {x, y, z}
MCPeerOf == [ch \in MCChannels |-> IF ch = z THEN q ELSE p]
=============================================================================
