\* Two calls, two channels of one peer and one of another.
CONSTANTS
    p = p
    q = q
    x = x
    y = y
    z = z
    Calls = {c1, c2}
    Channels <- MCChannels
    Peers <- MCPeers
    PeerOf <- MCPeerOf
    None = None
SPECIFICATION FairSpec
INVARIANTS CloseNotMissed CloseTakesEffect
PROPERTIES Answered
CHECK_DEADLOCK FALSE
