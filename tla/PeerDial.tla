------------------------------ MODULE PeerDial ------------------------------
(***************************************************************************)
(* Outbound dials of LampoPeerManager: `connect` calls (from the RPC and   *)
(* from ConnectionNeeded events) and the reconnect loop, serialised per    *)
(* node by a map of reference-counted locks, and capped by a semaphore.    *)
(*                                                                         *)
(* A task's pc names the code it runs next, and also tells what it owns:   *)
(* its dial permit, its reference to the lock, the lock itself.            *)
(* A caller that is done is free to make the next call.                    *)
(***************************************************************************)
EXTENDS Naturals, FiniteSets

CONSTANTS
    Nodes,    \* peers a task may dial
    Callers,  \* concurrent `connect` calls
    Loop,     \* the reconnect loop
    Locks,    \* identities of the allocated locks
    Permits,  \* MAX_CONCURRENT_DIALS
    None

ASSUME LoopAssumption == Loop \notin Callers
ASSUME NoneAssumption == None \notin Nodes \cup Locks
ASSUME PermitsAssumption == Permits \in Nat \ {0}

Tasks == Callers \cup {Loop}

VARIABLES
    pc,      \* where each task is
    node,    \* the node it dials
    lockOf,  \* the lock its OutboundDialLockGuard refers to
    locks,   \* outbound_dial_locks
    peers    \* nodes LDK has a handshaken connection with (external)

vars == <<pc, node, lockOf, locks, peers>>

(* Between lock().await and the drop of its guard. *)
Holds(t) == pc[t] \in {"dial", "check", "cleanup", "unlock"}

(* Between acquire and the end of the guard's drop, and a little longer:   *)
(* the reference itself goes after drop() has returned.                    *)
Guards(t) == Holds(t) \/ pc[t] \in {"lock", "drop"}
Refers(t) == Guards(t) \/ pc[t] = "release"

TypeOK ==
    /\ pc \in [Tasks -> {"idle", "acquire", "lock", "dial", "check",
                         "cleanup", "unlock", "drop", "release"}]
    /\ node \in [Tasks -> Nodes \cup {None}]
    /\ \A t \in Tasks : node[t] # None <=> pc[t] # "idle"
    /\ lockOf \in [Tasks -> Locks \cup {None}]
    /\ \A t \in Tasks : lockOf[t] # None <=> Refers(t)
    /\ locks \in [Nodes -> Locks \cup {None}]
    /\ peers \subseteq Nodes

Init ==
    /\ pc = [t \in Tasks |-> "idle"]
    /\ node = [t \in Tasks |-> None]
    /\ lockOf = [t \in Tasks |-> None]
    /\ locks = [n \in Nodes |-> None]
    /\ peers = {}

Goto(t, step) == pc' = [pc EXCEPT ![t] = step]

-----------------------------------------------------------------------------
(* `connect` takes a permit or fails at once; it keeps it to its end. *)
Connect(c, n) ==
    /\ pc[c] = "idle"
    /\ Cardinality({d \in Callers : pc[d] # "idle"}) < Permits
    /\ node' = [node EXCEPT ![c] = n]
    /\ Goto(c, "acquire")
    /\ UNCHANGED <<lockOf, locks, peers>>

(* The reconnect loop comes to a channel peer that is not connected. *)
Reconnect(n) ==
    /\ pc[Loop] = "idle"
    /\ n \notin peers
    /\ node' = [node EXCEPT ![Loop] = n]
    /\ Goto(Loop, "acquire")
    /\ UNCHANGED <<lockOf, locks, peers>>

(* A lock nobody refers to: newly allocated. *)
Fresh(l) == l \notin {locks[n] : n \in Nodes} \cup {lockOf[t] : t \in Tasks}

(* Mutant: the entry is looked up under another key. *)
AcquireAnyGuard(t) ==
    /\ pc[t] = "acquire"
    /\ \E n \in Nodes, l \in Locks :
          /\ IF locks[n] = None THEN Fresh(l) ELSE l = locks[n]
          /\ locks' = [locks EXCEPT ![n] = l]
          /\ lockOf' = [lockOf EXCEPT ![t] = l]
    /\ Goto(t, "lock")
    /\ UNCHANGED <<node, peers>>

(* OutboundDialLockGuard::acquire, under the map's mutex. *)
AcquireGuard(t) ==
    /\ pc[t] = "acquire"
    /\ \E l \in Locks :
          /\ IF locks[node[t]] = None THEN Fresh(l) ELSE l = locks[node[t]]
          /\ locks' = [locks EXCEPT ![node[t]] = l]
          /\ lockOf' = [lockOf EXCEPT ![t] = l]
    /\ Goto(t, "lock")
    /\ UNCHANGED <<node, peers>>

LockNode(t) ==
    /\ pc[t] = "lock"
    /\ \A u \in Tasks : ~(Holds(u) /\ lockOf[u] = lockOf[t])
    /\ Goto(t, "dial")
    /\ UNCHANGED <<node, lockOf, locks, peers>>

(* The dial ends before its timeout: the peer is connected, however that   *)
(* came about, or the socket failed or was closed.                         *)
DialEnds(t) ==
    /\ pc[t] = "dial"
    /\ Goto(t, "unlock")
    /\ UNCHANGED <<node, lockOf, locks, peers>>

DialTimesOut(t) ==
    /\ pc[t] = "dial"
    /\ Goto(t, "check")
    /\ UNCHANGED <<node, lockOf, locks, peers>>

(* Is the peer there all the same? ... *)
CheckPeer(t) ==
    /\ pc[t] = "check"
    /\ Goto(t, IF node[t] \in peers THEN "unlock" ELSE "cleanup")
    /\ UNCHANGED <<node, lockOf, locks, peers>>

(* Mutant: the dial is tried again, the lock still held. *)
CleanupAndRetry(t) ==
    /\ pc[t] = "cleanup"
    /\ peers' = peers \ {node[t]}
    /\ Goto(t, "dial")
    /\ UNCHANGED <<node, lockOf, locks>>

(* ... if it was not, disconnect_by_node_id. *)
Cleanup(t) ==
    /\ pc[t] = "cleanup"
    /\ peers' = peers \ {node[t]}
    /\ Goto(t, "unlock")
    /\ UNCHANGED <<node, lockOf, locks>>

(* The future of a `connect` is dropped at one of its awaits. *)
Cancel(c) ==
    /\ pc[c] \in {"lock", "dial"}
    /\ Goto(c, IF pc[c] = "lock" THEN "drop" ELSE "unlock")
    /\ UNCHANGED <<node, lockOf, locks, peers>>

UnlockNode(t) ==
    /\ pc[t] = "unlock"
    /\ Goto(t, "drop")
    /\ UNCHANGED <<node, lockOf, locks, peers>>

(* strong_count == 2: the map's reference and this guard's. *)
SoleGuard(t) == \A u \in Tasks \ {t} : lockOf[u] # lockOf[t]

(* Mutant: the entry goes whoever else refers to the lock. *)
DropEntry(t) ==
    /\ pc[t] = "drop"
    /\ locks' = [locks EXCEPT ![node[t]] = None]
    /\ Goto(t, "release")
    /\ UNCHANGED <<node, lockOf, peers>>

(* OutboundDialLockGuard::drop, under the map's mutex. *)
DropGuard(t) ==
    /\ pc[t] = "drop"
    /\ locks' = IF locks[node[t]] = lockOf[t] /\ SoleGuard(t)
                THEN [locks EXCEPT ![node[t]] = None]
                ELSE locks
    /\ Goto(t, "release")
    /\ UNCHANGED <<node, lockOf, peers>>

(* Mutant: the reference to the lock is leaked. *)
ReleaseNothing(t) ==
    /\ pc[t] = "release"
    /\ node' = [node EXCEPT ![t] = None]
    /\ Goto(t, "idle")
    /\ UNCHANGED <<lockOf, locks, peers>>

(* The guard's fields are dropped, and the call or the loop's turn ends. *)
Release(t) ==
    /\ pc[t] = "release"
    /\ lockOf' = [lockOf EXCEPT ![t] = None]
    /\ node' = [node EXCEPT ![t] = None]
    /\ Goto(t, "idle")
    /\ UNCHANGED <<locks, peers>>

-----------------------------------------------------------------------------
(* LDK and the peers (external): a handshake completes, inbound or on an   *)
(* outbound socket; a connection is lost.                                  *)

PeerConnects(n) ==
    /\ n \notin peers
    /\ peers' = peers \cup {n}
    /\ UNCHANGED <<pc, node, lockOf, locks>>

PeerLost(n) ==
    /\ n \in peers
    /\ peers' = peers \ {n}
    /\ UNCHANGED <<pc, node, lockOf, locks>>

-----------------------------------------------------------------------------
Dialing(t) == DialEnds(t) \/ DialTimesOut(t) \/ CheckPeer(t) \/ Cleanup(t)

Releasing(t) == UnlockNode(t) \/ DropGuard(t) \/ Release(t)

Task(t) == AcquireGuard(t) \/ LockNode(t) \/ Dialing(t) \/ Releasing(t)

Next ==
    \/ \E t \in Tasks : Task(t)
    \/ \E c \in Callers : Cancel(c) \/ \E n \in Nodes : Connect(c, n)
    \/ \E n \in Nodes : Reconnect(n) \/ PeerConnects(n) \/ PeerLost(n)

Spec == Init /\ [][Next]_vars

(* The runtime keeps polling a task that can run, a dial runs into its     *)
(* timeout at the latest, and tokio's mutex serves its waiters in order.   *)
FairSpec ==
    /\ Spec
    /\ \A t \in Tasks : WF_vars(Task(t)) /\ SF_vars(LockNode(t))

-----------------------------------------------------------------------------
(* No two tasks dial one node at a time: a timed-out dial's cleanup cannot *)
(* tear down a sibling's attempt, although entries of the lock map come    *)
(* and go.                                                                 *)
DialsExclusive ==
    \A t, u \in Tasks :
        t # u /\ Holds(t) /\ Holds(u) => node[t] # node[u]

(* A task never queues behind a dial of another node.                      *)
DialsIndependent ==
    \A t, u \in Tasks :
        pc[t] = "lock" /\ Holds(u) /\ lockOf[u] = lockOf[t] => node[u] = node[t]

(* Every `connect` returns and every turn of the reconnect loop ends,      *)
(* however silent the peers and however many tasks dial the same node.     *)
DialsEnd == \A t \in Tasks : pc[t] = "acquire" ~> pc[t] = "idle"

(* Said of the timeout's cleanup: an inbound peer (or a completed sibling  *)
(* dial) is not killed with the timed-out socket.                          *)
PeersSurviveCleanup ==
    [][\A t \in Tasks : pc[t] = "cleanup" /\ pc'[t] # "cleanup"
                            => node[t] \notin peers]_vars

(* Said of the guard's drop: an entry nothing else references is removed,  *)
(* so that the map holds no entry without a task at its node.              *)
EntriesPruned ==
    \A n \in Nodes : locks[n] # None => \E t \in Tasks : lockOf[t] = locks[n]

-----------------------------------------------------------------------------
(* The inductive invariant: a guard's lock is its node's entry in the map  *)
(* until its drop has looked, no lock serves two nodes, and a lock has one *)
(* holder.                                                                 *)
GuardMapped == \A t \in Tasks : Guards(t) => locks[node[t]] = lockOf[t]

LocksDistinct ==
    \A m, n \in Nodes : m # n /\ locks[m] # None => locks[m] # locks[n]

OneHolder ==
    \A t, u \in Tasks :
        t # u /\ Holds(t) /\ Holds(u) => lockOf[t] # lockOf[u]

IndInv == GuardMapped /\ LocksDistinct /\ OneHolder

=============================================================================
