--------------------------- MODULE PeerStoreProofs ---------------------------
(***************************************************************************)
(* Proofs about PeerStore: what it says is what successful calls were      *)
(* told, for any nodes, addresses and calls, whatever crashes and failing  *)
(* writes do to the file.                                                  *)
(***************************************************************************)
EXTENDS PeerStore, TLAPS

(* The state of the store and of its calls stays well typed. *)
THEOREM TypeCorrect == Spec => []TypeOK
<1>1. Init => TypeOK
  BY NoneAssumption DEF Init, TypeOK, NoJob, NoPeers
<1>2. TypeOK /\ [Next]_vars => TypeOK'
  <2> SUFFICES ASSUME TypeOK, [Next]_vars PROVE TypeOK'
    OBVIOUS
  <2>1. ASSUME NEW c \in Callers, NEW n \in Nodes, NEW h \in Hosts, Connect(c, n, h)
        PROVE TypeOK'
    BY <2>1 DEF TypeOK, Connect, Goto
  <2>0. ASSUME NEW c \in Callers, NEW n \in Nodes, ConnectionNeeded(c, n)
        PROVE TypeOK'
    <3> PICK known \in SUBSET Hosts : \E h \in known :
             /\ job' = [job EXCEPT ![c] = [node |-> n, host |-> h]]
             /\ more' = [more EXCEPT ![c] = known \ {h}]
      BY <2>0 DEF ConnectionNeeded
    <3> PICK h \in known :
             /\ job' = [job EXCEPT ![c] = [node |-> n, host |-> h]]
             /\ more' = [more EXCEPT ![c] = known \ {h}]
      OBVIOUS
    <3> QED
      BY <2>0 DEF TypeOK, ConnectionNeeded, Goto
  <2>2. ASSUME NEW c \in Callers, DialSucceeds(c)
        PROVE TypeOK'
    BY <2>2 DEF TypeOK, DialSucceeds, Handshake, AlreadyPeer, Goto
  <2>3. ASSUME NEW c \in Callers, DialFails(c)
        PROVE TypeOK'
    <3>1. CASE more[c] = {}
      <4>1. Return(c) /\ UNCHANGED <<file, peers, answered>>
        BY <2>3, <3>1 DEF DialFails
      <4> QED
        BY <4>1, NoneAssumption DEF TypeOK, Return, Goto, NoJob, NoPeers
    <3>2. CASE more[c] # {}
      <4> PICK h \in more[c] :
               /\ job' = [job EXCEPT ![c].host = h]
               /\ more' = [more EXCEPT ![c] = @ \ {h}]
        BY <2>3, <3>2 DEF DialFails
      <4> QED
        BY <2>3, <3>2 DEF TypeOK, DialFails
    <3> QED
      BY <3>1, <3>2
  <2>4. ASSUME NEW c \in Callers, Load(c)
        PROVE TypeOK'
    <3>1. Loaded \in [Nodes -> Hosts \cup {None}]
      BY DEF TypeOK, Loaded, NoPeers
    <3>2. job[c] \in [node : Nodes, host : Hosts]
      BY <2>4 DEF TypeOK, Load
    <3> QED
      BY <2>4, <3>1, <3>2 DEF TypeOK, Load, Goto
  <2>5. ASSUME NEW c \in Callers, Truncate(c)
        PROVE TypeOK'
    BY <2>5 DEF TypeOK, Truncate, Goto
  <2>6. ASSUME NEW c \in Callers, Write(c)
        PROVE TypeOK'
    BY <2>6, NoneAssumption DEF TypeOK, Write, Return, Goto, NoJob, NoPeers
  <2>7. ASSUME NEW n \in Nodes, Reconnect(n) \/ PeerChanges(n)
        PROVE TypeOK'
    BY <2>7 DEF TypeOK, Reconnect, PeerChanges
  <2>8. ASSUME Restart
        PROVE TypeOK'
    BY <2>8 DEF TypeOK, Restart, NoJob, NoPeers
  <2>9. CASE UNCHANGED vars
    BY <2>9 DEF TypeOK, vars
  <2> QED
    BY <2>0, <2>1, <2>2, <2>3, <2>4, <2>5, <2>6, <2>7, <2>8, <2>9 DEF Next, Remember
<1> QED
  BY <1>1, <1>2, PTL DEF Spec

-----------------------------------------------------------------------------
(* A call that is past its dial is one of the answered ones. *)
PastDial ==
    \A c \in Callers : pc[c] \in {"load", "truncate", "write"} => job[c] \in answered

(* The strengthening of StoreAnswered that each step preserves. *)
StoreInv == StoreAnswered /\ PastDial

(* An entry comes from a dial that succeeded, through the copy of the call *)
(* that remembers it.                                                      *)
LEMMA StoreInit == Init => StoreInv
  BY NoneAssumption DEF Init, StoreInv, StoreAnswered, PastDial, Stored, Loaded, NoPeers

(* Every step keeps it. *)
LEMMA StoreNext == TypeOK /\ StoreInv /\ [Next]_vars => StoreInv'
<1> SUFFICES ASSUME TypeOK, StoreInv, [Next]_vars PROVE StoreInv'
  OBVIOUS
<1> USE DEF StoreInv, StoreAnswered, PastDial, Stored
<1>1. ASSUME NEW c \in Callers, NEW n \in Nodes, NEW h \in Hosts, Connect(c, n, h)
      PROVE StoreInv'
  BY <1>1 DEF TypeOK, Connect, Goto, Loaded
<1>0. ASSUME NEW c \in Callers, NEW n \in Nodes, ConnectionNeeded(c, n)
      PROVE StoreInv'
  BY <1>0 DEF TypeOK, ConnectionNeeded, Goto, Loaded
<1>2. ASSUME NEW c \in Callers, DialSucceeds(c)
      PROVE StoreInv'
  BY <1>2 DEF TypeOK, DialSucceeds, Goto, Loaded
<1>3. ASSUME NEW c \in Callers, DialFails(c)
      PROVE StoreInv'
  <2>1. CASE more[c] = {}
    <3>1. Return(c) /\ UNCHANGED <<file, peers, answered>>
      BY <1>3, <2>1 DEF DialFails
    <3> QED
      BY <3>1 DEF TypeOK, Return, Goto, Loaded, NoPeers
  <2>2. CASE more[c] # {}
    <3>1. PICK h \in more[c] : job' = [job EXCEPT ![c].host = h]
      BY <1>3, <2>2 DEF DialFails
    <3>2. pc[c] = "dial" /\ UNCHANGED <<pc, copy, file, peers, answered>>
      BY <1>3, <2>2 DEF DialFails
    <3> QED
      BY <3>1, <3>2 DEF TypeOK, Loaded
  <2> QED
    BY <2>1, <2>2
<1>4. ASSUME NEW c \in Callers, Load(c)
      PROVE StoreInv'
  <2>1. Loaded \in [Nodes -> Hosts \cup {None}]
    BY DEF TypeOK, Loaded, NoPeers
  <2>2. job[c] \in [node : Nodes, host : Hosts] /\ job[c] \in answered
    BY <1>4 DEF TypeOK, Load
  <2>3. job[c] = [node |-> job[c].node, host |-> job[c].host]
    BY <2>2
  <2>4. \A n \in Nodes : copy'[c][n] = IF n = job[c].node THEN job[c].host ELSE Loaded[n]
    BY <1>4, <2>1 DEF TypeOK, Load
  <2>5. \A d \in Callers \ {c} : copy'[d] = copy[d]
    BY <1>4 DEF TypeOK, Load
  <2>6. StoreAnswered'
    BY <1>4, <2>2, <2>3, <2>4, <2>5 DEF Load, Loaded
  <2>7. PastDial'
    BY <1>4, <2>2 DEF TypeOK, Load, Goto
  <2> QED
    BY <2>6, <2>7
<1>5. ASSUME NEW c \in Callers, Truncate(c)
      PROVE StoreInv'
  BY <1>5 DEF TypeOK, Truncate, Goto, Loaded, NoPeers
<1>6. ASSUME NEW c \in Callers, Write(c)
      PROVE StoreInv'
  <2>1. \A n \in Nodes : Loaded'[n] # None => [node |-> n, host |-> Loaded'[n]] \in answered
    BY <1>6 DEF TypeOK, Write, Loaded, NoPeers
  <2>2. \A d \in Callers : copy'[d] = IF d = c THEN NoPeers ELSE copy[d]
    BY <1>6 DEF TypeOK, Write, Return
  <2>3. answered' = answered
    BY <1>6 DEF Write
  <2>4. StoreAnswered'
    BY <2>1, <2>2, <2>3 DEF NoPeers
  <2>5. PastDial'
    BY <1>6 DEF TypeOK, Write, Return, Goto
  <2> QED
    BY <2>4, <2>5
<1>7. ASSUME NEW n \in Nodes, Reconnect(n) \/ PeerChanges(n)
      PROVE StoreInv'
  BY <1>7 DEF Reconnect, PeerChanges, Loaded
<1>8. ASSUME Restart
      PROVE StoreInv'
  BY <1>8 DEF Restart, Loaded, NoPeers
<1>9. CASE UNCHANGED vars
  BY <1>9 DEF vars, Loaded
<1> QED
  BY <1>0, <1>1, <1>2, <1>3, <1>4, <1>5, <1>6, <1>7, <1>8, <1>9 DEF Next, Remember

(* Neither the file nor a copy of it ever names an address no successful   *)
(* `connect` to that peer was given, whatever the calls, crashes and       *)
(* failing writes.                                                         *)
THEOREM StoreTruthful == Spec => []StoreAnswered
<1>1. StoreInv => StoreAnswered
  BY DEF StoreInv
<1> QED
  BY <1>1, StoreInit, StoreNext, TypeCorrect, PTL DEF Spec

=============================================================================
