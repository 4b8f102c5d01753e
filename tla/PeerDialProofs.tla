--------------------------- MODULE PeerDialProofs ---------------------------
(***************************************************************************)
(* Proofs about PeerDial: type correctness, the exclusion the map of locks *)
(* gives to the dials of a node, and their independence of other nodes.    *)
(***************************************************************************)
EXTENDS PeerDial, TLAPS

(* Every step of a task, of a caller or of a peer keeps the state well     *)
(* typed, and a task refers to a lock exactly while its guard exists.      *)
THEOREM TypeCorrect == Spec => []TypeOK
  <1>1. Init => TypeOK
    BY NoneAssumption DEF Init, TypeOK, Refers, Guards, Holds
  <1>2. TypeOK /\ [Next]_vars => TypeOK'
    <2>. SUFFICES ASSUME TypeOK, [Next]_vars
                  PROVE  TypeOK'
      OBVIOUS
    <2>. USE NoneAssumption DEF TypeOK, Refers, Guards, Holds, Goto, Tasks
    <2>1. CASE UNCHANGED vars
      BY <2>1 DEF vars
    <2>2. ASSUME NEW t \in Tasks, AcquireGuard(t)
          PROVE  TypeOK'
      BY <2>2 DEF AcquireGuard
    <2>3. ASSUME NEW t \in Tasks, LockNode(t)
          PROVE  TypeOK'
      BY <2>3 DEF LockNode
    <2>4. ASSUME NEW t \in Tasks, Dialing(t)
          PROVE  TypeOK'
      BY <2>4 DEF Dialing, DialEnds, DialTimesOut, CheckPeer, Cleanup
    <2>5. ASSUME NEW t \in Tasks, Releasing(t)
          PROVE  TypeOK'
      <3>1. CASE UnlockNode(t)
        BY <3>1 DEF UnlockNode
      <3>2. CASE DropGuard(t)
        BY <3>2 DEF DropGuard
      <3>3. CASE Release(t)
        BY <3>3 DEF Release
      <3>. QED
        BY <2>5, <3>1, <3>2, <3>3 DEF Releasing
    <2>6. ASSUME NEW c \in Callers, Cancel(c)
          PROVE  TypeOK'
      BY <2>6 DEF Cancel
    <2>7. ASSUME NEW c \in Callers, NEW n \in Nodes, Connect(c, n)
          PROVE  TypeOK'
      BY <2>7 DEF Connect
    <2>8. ASSUME NEW n \in Nodes, Reconnect(n)
          PROVE  TypeOK'
      BY <2>8 DEF Reconnect
    <2>9. ASSUME NEW n \in Nodes, PeerConnects(n) \/ PeerLost(n)
          PROVE  TypeOK'
      BY <2>9 DEF PeerConnects, PeerLost
    <2>. QED
      BY <2>1, <2>2, <2>3, <2>4, <2>5, <2>6, <2>7, <2>8, <2>9 DEF Next, Task
  <1>. QED
    BY <1>1, <1>2, PTL DEF Spec

(* The steps of the lock discipline: whatever a step is, it does one of    *)
(* these to the guards, the map and the holders.  A task that stops        *)
(* guarding or holding disturbs nobody.                                    *)
LEMMA QuietSteps ==
    ASSUME TypeOK, IndInv, UNCHANGED locks,
           \A t \in Tasks : Guards(t)' => /\ Guards(t)
                                          /\ node'[t] = node[t]
                                          /\ lockOf'[t] = lockOf[t],
           \A t \in Tasks : Holds(t)' => Holds(t)
    PROVE  IndInv'
  <1>1. GuardMapped'
    BY DEF GuardMapped, IndInv
  <1>2. LocksDistinct'
    BY DEF LocksDistinct, IndInv
  <1>3. OneHolder'
    BY DEF OneHolder, IndInv, Guards
  <1>. QED
    BY <1>1, <1>2, <1>3 DEF IndInv

(* OutboundDialLockGuard::acquire gives a task the lock its node already   *)
(* has, or one that serves no other node and that nobody holds.            *)
LEMMA IndAcquire ==
    ASSUME TypeOK, IndInv, NEW t \in Tasks, AcquireGuard(t)
    PROVE  IndInv'
  <1>. USE NoneAssumption DEF TypeOK, AcquireGuard, Goto, Guards, Holds
  <1>n. node[t] \in Nodes
    OBVIOUS
  <1>1. GuardMapped'
    <2>. SUFFICES ASSUME NEW u \in Tasks, Guards(u)'
                  PROVE  locks'[node'[u]] = lockOf'[u]
      BY DEF GuardMapped
    <2>1. CASE u = t
      BY <2>1, <1>n
    <2>2. CASE u # t
      <3>1. Guards(u) /\ locks[node[u]] = lockOf[u] /\ lockOf[u] # None
        BY <2>2 DEF IndInv, GuardMapped, Refers
      <3>2. node[u] \in Nodes /\ node'[u] = node[u] /\ lockOf'[u] = lockOf[u]
        BY <3>1, <2>2
      <3>3. CASE node[u] = node[t]
        BY <3>1, <3>2, <3>3
      <3>4. CASE node[u] # node[t]
        BY <3>1, <3>2, <3>4
      <3>. QED
        BY <3>3, <3>4
    <2>. QED
      BY <2>1, <2>2
  <1>2. LocksDistinct'
    <2>. SUFFICES ASSUME NEW m \in Nodes, NEW n \in Nodes, m # n, locks'[m] # None
                  PROVE  locks'[m] # locks'[n]
      BY DEF LocksDistinct
    <2>1. CASE locks[node[t]] = None
      BY <2>1 DEF IndInv, LocksDistinct, Fresh
    <2>2. CASE locks[node[t]] # None
      <3>1. locks' = locks
        BY <2>2
      <3>. QED
        BY <3>1 DEF IndInv, LocksDistinct
    <2>. QED
      BY <2>1, <2>2
  <1>3. OneHolder'
    BY DEF IndInv, OneHolder
  <1>. QED
    BY <1>1, <1>2, <1>3 DEF IndInv

(* Locking the node's mutex keeps it at one holder.                        *)
LEMMA IndLock ==
    ASSUME TypeOK, IndInv, NEW t \in Tasks, LockNode(t)
    PROVE  IndInv'
  <1>. USE DEF TypeOK, LockNode, Goto, Guards, Holds
  <1>1. GuardMapped'
    BY DEF IndInv, GuardMapped
  <1>2. LocksDistinct'
    BY DEF IndInv, LocksDistinct
  <1>3. OneHolder'
    BY DEF IndInv, OneHolder
  <1>. QED
    BY <1>1, <1>2, <1>3 DEF IndInv

(* OutboundDialLockGuard::drop removes an entry only if no other guard     *)
(* refers to its lock, so no other guard loses its entry.                  *)
LEMMA IndDrop ==
    ASSUME TypeOK, IndInv, NEW t \in Tasks, DropGuard(t)
    PROVE  IndInv'
  <1>. USE DEF TypeOK, DropGuard, Goto, Guards, Holds
  <1>1. GuardMapped'
    <2>. SUFFICES ASSUME NEW u \in Tasks, Guards(u)'
                  PROVE  locks'[node[u]] = lockOf[u]
      BY DEF GuardMapped
    <2>1. u # t /\ Guards(u) /\ locks[node[u]] = lockOf[u]
      BY DEF IndInv, GuardMapped
    <2>2. CASE locks' = locks
      BY <2>1, <2>2
    <2>3. CASE /\ locks[node[t]] = lockOf[t]
               /\ SoleGuard(t)
               /\ locks' = [locks EXCEPT ![node[t]] = None]
      <3>1. lockOf[u] # lockOf[t]
        BY <2>1, <2>3 DEF SoleGuard
      <3>2. node[u] # node[t]
        BY <2>1, <2>3, <3>1
      <3>. QED
        BY <2>1, <2>3, <3>2
    <2>. QED
      BY <2>2, <2>3
  <1>2. LocksDistinct'
    BY DEF IndInv, LocksDistinct
  <1>3. OneHolder'
    BY DEF IndInv, OneHolder
  <1>. QED
    BY <1>1, <1>2, <1>3 DEF IndInv

(* Every step keeps the lock discipline.                                   *)
LEMMA IndNext == TypeOK /\ IndInv /\ [Next]_vars => IndInv'
  <1>. SUFFICES ASSUME TypeOK, IndInv, [Next]_vars
                PROVE  IndInv'
    OBVIOUS
  <1>1. CASE UNCHANGED vars
    BY <1>1, QuietSteps DEF vars, Guards, Holds
  <1>2. ASSUME NEW t \in Tasks, Dialing(t) \/ UnlockNode(t) \/ Release(t)
        PROVE  IndInv'
    BY <1>2, QuietSteps
       DEF TypeOK, Dialing, DialEnds, DialTimesOut, CheckPeer, Cleanup, UnlockNode,
           Release, Goto, Guards, Holds
  <1>3. ASSUME NEW c \in Callers, Cancel(c)
        PROVE  IndInv'
    BY <1>3, QuietSteps DEF TypeOK, Cancel, Goto, Guards, Holds, Tasks
  <1>4. ASSUME NEW c \in Callers, NEW n \in Nodes, Connect(c, n)
        PROVE  IndInv'
    BY <1>4, QuietSteps DEF TypeOK, Connect, Goto, Guards, Holds, Tasks
  <1>5. ASSUME NEW n \in Nodes, Reconnect(n)
        PROVE  IndInv'
    BY <1>5, QuietSteps DEF TypeOK, Reconnect, Goto, Guards, Holds, Tasks
  <1>6. ASSUME NEW n \in Nodes, PeerConnects(n) \/ PeerLost(n)
        PROVE  IndInv'
    BY <1>6, QuietSteps DEF PeerConnects, PeerLost, Guards, Holds
  <1>. QED
    BY <1>1, <1>2, <1>3, <1>4, <1>5, <1>6, IndAcquire, IndLock, IndDrop
       DEF Next, Task, Releasing

(* In every reachable state the guards and the map agree.                  *)
THEOREM Inductive == Spec => []IndInv
  <1>1. Init => IndInv
    BY DEF Init, IndInv, GuardMapped, LocksDistinct, OneHolder, Guards, Holds
  <1>. QED
    BY <1>1, IndNext, TypeCorrect, PTL DEF Spec

(* LampoPeerManager::connect and the reconnect loop: no two tasks ever     *)
(* dial one node at a time, whatever their number.                         *)
THEOREM DialsExcluded == Spec => []DialsExclusive
  <1>1. TypeOK /\ IndInv => DialsExclusive
    BY DEF TypeOK, IndInv, DialsExclusive, GuardMapped, OneHolder, Guards, Holds
  <1>. QED
    BY <1>1, TypeCorrect, Inductive, PTL

(* OutboundDialLockGuard::acquire: no task queues behind the dial of       *)
(* another node.                                                           *)
THEOREM DialsApart == Spec => []DialsIndependent
  <1>1. TypeOK /\ IndInv => DialsIndependent
    BY NoneAssumption
       DEF TypeOK, IndInv, DialsIndependent, GuardMapped, LocksDistinct, Refers, Guards, Holds
  <1>. QED
    BY <1>1, TypeCorrect, Inductive, PTL

=============================================================================
