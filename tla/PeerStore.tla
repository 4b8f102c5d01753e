----------------------------- MODULE PeerStore -----------------------------
(***************************************************************************)
(* peers.json: where `connect` remembers the address of a peer, and where  *)
(* the reconnect loop finds it again.  remember_peer runs after the dial   *)
(* locks are released: it reads the file, inserts its entry and writes the *)
(* file back, and nothing keeps two of them apart.                         *)
(*                                                                         *)
(* The file is a map, or it is Truncated (emptied by a writer that has not *)
(* written yet), or Garbled (does not parse).  A peer can only be reached  *)
(* at its Home address: the handshake authenticates it.                    *)
(***************************************************************************)
EXTENDS FiniteSets

CONSTANTS
    Nodes, Hosts,
    Home,       \* the address each node listens at
    Callers,    \* concurrent `connect` calls and ConnectionNeeded tasks
    CanCrash,   \* may the daemon be killed and restarted?
    CanFail,    \* may writing the file fail half-way?
    None, Truncated, Garbled

ASSUME HomeAssumption == Home \in [Nodes -> Hosts]
ASSUME CanAssumption == CanCrash \in BOOLEAN /\ CanFail \in BOOLEAN
ASSUME NoneAssumption == None \notin Nodes \cup Hosts

VARIABLES
    pc,        \* where each call is
    job,       \* the node and the host it was given
    more,      \* addresses it has left to try for the node
    copy,      \* its copy of the map
    file,      \* peers.json
    peers,     \* connected nodes (external)
    answered   \* history: jobs of the calls whose dial succeeded

vars == <<pc, job, more, copy, file, peers, answered>>

NoPeers == [n \in Nodes |-> None]
NoJob == [node |-> None, host |-> None]

TypeOK ==
    /\ pc \in [Callers -> {"idle", "dial", "load", "truncate", "write"}]
    /\ job \in [Callers -> [node : Nodes \cup {None}, host : Hosts \cup {None}]]
    /\ \A c \in Callers : pc[c] # "idle" => job[c] \in [node : Nodes, host : Hosts]
    /\ more \in [Callers -> SUBSET Hosts]
    /\ copy \in [Callers -> [Nodes -> Hosts \cup {None}]]
    /\ file \in [Nodes -> Hosts \cup {None}] \cup {Truncated, Garbled}
    /\ peers \subseteq Nodes
    /\ answered \subseteq [node : Nodes, host : Hosts]

Init ==
    /\ pc = [c \in Callers |-> "idle"]
    /\ job = [c \in Callers |-> NoJob]
    /\ more = [c \in Callers |-> {}]
    /\ copy = [c \in Callers |-> NoPeers]
    /\ file = NoPeers
    /\ peers = {}
    /\ answered = {}

Goto(c, step) == pc' = [pc EXCEPT ![c] = step]

(* Mutant: the call goes on without its arguments. *)
ReturnJob(c) ==
    /\ Goto(c, "dial")
    /\ job' = [job EXCEPT ![c] = NoJob]
    /\ more' = [more EXCEPT ![c] = {}]
    /\ copy' = [copy EXCEPT ![c] = NoPeers]

(* The call returns and its locals are gone. *)
Return(c) ==
    /\ Goto(c, "idle")
    /\ job' = [job EXCEPT ![c] = NoJob]
    /\ more' = [more EXCEPT ![c] = {}]
    /\ copy' = [copy EXCEPT ![c] = NoPeers]

-----------------------------------------------------------------------------
Connect(c, n, h) ==
    /\ pc[c] = "idle"
    /\ Goto(c, "dial")
    /\ job' = [job EXCEPT ![c] = [node |-> n, host |-> h]]
    /\ UNCHANGED <<more, copy, file, peers, answered>>

(* LDK has an onion message for a node it is not connected to: a task of   *)
(* its own tries the addresses LDK knows until one connects.               *)
ConnectionNeeded(c, n) ==
    /\ pc[c] = "idle"
    /\ \E known \in SUBSET Hosts : \E h \in known :
          /\ job' = [job EXCEPT ![c] = [node |-> n, host |-> h]]
          /\ more' = [more EXCEPT ![c] = known \ {h}]
    /\ Goto(c, "dial")
    /\ UNCHANGED <<copy, file, peers, answered>>

(* The handshake completes on the socket to the host ... *)
Handshake(c) ==
    /\ job[c].host = Home[job[c].node]
    /\ peers' = peers \cup {job[c].node}

(* ... or the peer is connected already, and the host was never tried. *)
AlreadyPeer(c) ==
    /\ job[c].node \in peers
    /\ UNCHANGED peers

DialSucceeds(c) ==
    /\ pc[c] = "dial"
    /\ Handshake(c) \/ AlreadyPeer(c)
    /\ answered' = answered \cup {job[c]}
    /\ Goto(c, "load")
    /\ UNCHANGED <<job, more, copy, file>>

(* Mutant: a failed dial is remembered too. *)
DialFailsRemembered(c) ==
    /\ pc[c] = "dial"
    /\ Goto(c, "load")
    /\ UNCHANGED <<job, more, copy, file, peers, answered>>

(* The next address, if there is one. *)
DialFails(c) ==
    /\ pc[c] = "dial"
    /\ IF more[c] = {}
       THEN Return(c)
       ELSE /\ \E h \in more[c] :
                  /\ job' = [job EXCEPT ![c].host = h]
                  /\ more' = [more EXCEPT ![c] = @ \ {h}]
            /\ UNCHANGED <<pc, copy>>
    /\ UNCHANGED <<file, peers, answered>>

(* load_peers: a file that does not parse is read as no peers at all. *)
Loaded == IF file \in {Truncated, Garbled} THEN NoPeers ELSE file

(* remember_peer: load the map and insert the entry ... *)
Load(c) ==
    /\ pc[c] = "load"
    /\ copy' = [copy EXCEPT ![c] = [Loaded EXCEPT ![job[c].node] = job[c].host]]
    /\ Goto(c, "truncate")
    /\ UNCHANGED <<job, more, file, peers, answered>>

(* ... then fs::write empties the file ... *)
Truncate(c) ==
    /\ pc[c] = "truncate"
    /\ file' = Truncated
    /\ Goto(c, "write")
    /\ UNCHANGED <<job, more, copy, peers, answered>>

(* ... and writes the copy from the start.  Over what another call wrote   *)
(* in between, a shorter text leaves the tail of the longer one.           *)
Write(c) ==
    /\ pc[c] = "write"
    /\ \/ file' = copy[c]
       \/ file' = Garbled /\ (file # Truncated \/ CanFail)
    /\ Return(c)
    /\ UNCHANGED <<peers, answered>>

(* The reconnect loop reads the file and dials a peer where it says. *)
Reconnect(n) ==
    /\ n \notin peers
    /\ Loaded[n] = Home[n]
    /\ peers' = peers \cup {n}
    /\ UNCHANGED <<pc, job, more, copy, file, answered>>

-----------------------------------------------------------------------------
(* LDK and the peers (external): an inbound connection, a lost one. *)
PeerChanges(n) ==
    /\ peers' = IF n \in peers THEN peers \ {n} ELSE peers \cup {n}
    /\ UNCHANGED <<pc, job, more, copy, file, answered>>

(* The process dies and starts again: the file is all that is left. *)
Restart ==
    /\ CanCrash
    /\ pc' = [c \in Callers |-> "idle"]
    /\ job' = [c \in Callers |-> NoJob]
    /\ more' = [c \in Callers |-> {}]
    /\ copy' = [c \in Callers |-> NoPeers]
    /\ peers' = {}
    /\ UNCHANGED <<file, answered>>

-----------------------------------------------------------------------------
Remember(c) == Load(c) \/ Truncate(c) \/ Write(c)

Next ==
    \/ \E c \in Callers :
          \/ DialSucceeds(c) \/ DialFails(c) \/ Remember(c)
          \/ \E n \in Nodes, h \in Hosts : Connect(c, n, h)
    \/ \E c \in Callers, n \in Nodes : ConnectionNeeded(c, n)
    \/ \E n \in Nodes : Reconnect(n) \/ PeerChanges(n)
    \/ Restart

Spec == Init /\ [][Next]_vars

-----------------------------------------------------------------------------
(* What the store says, if it can be read.                                 *)
Stored(n) == Loaded[n]

(* The store, and every copy of it on its way back to the file, only says  *)
(* of a peer what some successful `connect` was told.                      *)
StoreAnswered ==
    /\ \A n \in Nodes : Stored(n) # None => [node |-> n, host |-> Stored(n)] \in answered
    /\ \A c \in Callers, n \in Nodes :
          copy[c][n] # None => [node |-> n, host |-> copy[c][n]] \in answered

(* Said of remember_peer: the file is the durable record of how to get     *)
(* back to a peer.  Once the calls for it have returned, it is there.      *)
PeersRemembered ==
    \A j \in answered :
        (\A c \in Callers : pc[c] = "idle") => Stored(j.node) # None

=============================================================================
