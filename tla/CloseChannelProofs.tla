------------------------- MODULE CloseChannelProofs -------------------------
(***************************************************************************)
(* Safety of CloseChannel for any number of calls, channels and peers: no  *)
(* call waits for a close that was never asked for, or that has passed.    *)
(***************************************************************************)
EXTENDS CloseChannel, TLAPS

LEMMA InAppended ==
    ASSUME NEW S, NEW s \in Seq(S), NEW y \in S, NEW x
    PROVE  InSeq(x, Append(s, y)) <=> InSeq(x, s) \/ x = y
<1>1. /\ Len(Append(s, y)) = Len(s) + 1
      /\ Append(s, y)[Len(s) + 1] = y
      /\ \A i \in 1 .. Len(s) : Append(s, y)[i] = s[i]
      /\ Len(s) \in Nat
  OBVIOUS
<1>2. InSeq(x, s) => InSeq(x, Append(s, y))
  BY <1>1 DEF InSeq
<1>3. x = y => InSeq(x, Append(s, y))
  <2>1. Len(s) + 1 \in 1 .. Len(Append(s, y))
    BY <1>1
  <2> QED
    BY <1>1, <2>1 DEF InSeq
<1>4. InSeq(x, Append(s, y)) => InSeq(x, s) \/ x = y
  <2>1. ASSUME NEW i \in 1 .. Len(Append(s, y)), Append(s, y)[i] = x
        PROVE  InSeq(x, s) \/ x = y
    <3>1. i \in 1 .. Len(s) \/ i = Len(s) + 1
      BY <1>1
    <3> QED
      BY <1>1, <2>1, <3>1 DEF InSeq
  <2> QED
    BY <2>1 DEF InSeq
<1> QED
  BY <1>2, <1>3, <1>4

LEMMA InHeadOrTail ==
    ASSUME NEW S, NEW s \in Seq(S), s # <<>>, NEW x, InSeq(x, s)
    PROVE  x = Head(s) \/ InSeq(x, Tail(s))
<1>1. PICK i \in 1 .. Len(s) : s[i] = x
  BY DEF InSeq
<1>2. CASE i = 1
  BY <1>1, <1>2
<1>3. CASE i > 1
  <2>1. /\ i - 1 \in 1 .. Len(Tail(s))
        /\ Tail(s)[i - 1] = s[i]
    BY <1>1, <1>3
  <2> QED
    BY <1>1, <2>1 DEF InSeq
<1> QED
  BY <1>1, <1>2, <1>3

(* What a call has at each step. *)
CallInv ==
    \A c \in Calls :
        /\ pc[c] = "close" => answer[c] = None
        /\ Waits(c) => chosen[c] \in Channels

Inv == TypeOK /\ CallInv /\ CloseNotMissed /\ CloseTakesEffect

LEMMA InitInv == Init => Inv
  BY DEF Init, Inv, TypeOK, CallInv, CloseNotMissed, CloseTakesEffect, Waits

LEMMA ChoiceType ==
    ASSUME TypeOK, NEW c \in Calls
    PROVE  Choice(c) \in Channels \cup {None}
<1>1. CASE Cardinality(Listed(c)) > 1
  BY <1>1 DEF Choice, TypeOK
<1>2. CASE ~(Cardinality(Listed(c)) > 1) /\ Listed(c) = {}
  BY <1>2 DEF Choice
<1>3. CASE ~(Cardinality(Listed(c)) > 1) /\ Listed(c) # {}
  <2>1. Choice(c) = CHOOSE ch \in Listed(c) : TRUE
    BY <1>3 DEF Choice
  <2>2. Choice(c) \in Listed(c)
    BY <1>3, <2>1
  <2> QED
    BY <2>2 DEF Listed, TypeOK
<1> QED
  BY <1>1, <1>2, <1>3

(* A call that ends with no channel to report. *)
LEMMA FailKeeps ==
    ASSUME Inv, NEW c \in Calls, pc[c] \in {"list", "close"}, Fail(c),
           UNCHANGED ldkVars
    PROVE  Inv'
<1>1. /\ pc' = [pc EXCEPT ![c] = "done"]
      /\ inbox' = [inbox EXCEPT ![c] = <<>>]
      /\ UNCHANGED <<peer, named, chosen, answer, open, closing, events>>
  BY DEF Fail, Goto, ldkVars
<1>2. TypeOK'
  BY <1>1 DEF Inv, TypeOK
<1>3. /\ pc'[c] = "done" /\ answer[c] = None
      /\ \A d \in Calls \ {c} : pc'[d] = pc[d] /\ inbox'[d] = inbox[d]
  BY <1>1 DEF Inv, TypeOK
<1>4. CallInv' /\ CloseNotMissed' /\ CloseTakesEffect'
  BY <1>1, <1>3 DEF Inv, CallInv, CloseNotMissed, CloseTakesEffect, Waits
<1> QED
  BY <1>2, <1>4 DEF Inv

LEMMA CloseKeeps ==
    ASSUME Inv, NEW c \in Calls, NEW p \in Peers, NEW ch \in Channels \cup {None},
           Close(c, p, ch)
    PROVE  Inv'
<1>1. /\ pc[c] = "idle"
      /\ pc' = [pc EXCEPT ![c] = "list"]
      /\ peer' = [peer EXCEPT ![c] = p]
      /\ named' = [named EXCEPT ![c] = ch]
      /\ UNCHANGED <<chosen, inbox, answer, open, closing, events>>
  BY DEF Close, Goto, ldkVars
<1>2. TypeOK'
  BY <1>1 DEF Inv, TypeOK
<1>3. /\ pc'[c] = "list" /\ answer[c] = None
      /\ \A d \in Calls \ {c} : pc'[d] = pc[d] /\ peer'[d] = peer[d]
  BY <1>1 DEF Inv, TypeOK
<1>4. CallInv' /\ CloseNotMissed' /\ CloseTakesEffect'
  BY <1>1, <1>3 DEF Inv, CallInv, CloseNotMissed, CloseTakesEffect, Waits
<1> QED
  BY <1>2, <1>4 DEF Inv

LEMMA ListKeeps ==
    ASSUME Inv, NEW c \in Calls, ListChannels(c)
    PROVE  Inv'
<1>1. CASE Choice(c) = None
  BY <1>1, FailKeeps DEF ListChannels
<1>2. CASE Choice(c) # None
  <2>1. /\ pc[c] = "list"
        /\ chosen' = [chosen EXCEPT ![c] = Choice(c)]
        /\ pc' = [pc EXCEPT ![c] = "close"]
        /\ UNCHANGED <<peer, named, inbox, answer, open, closing, events>>
    BY <1>2 DEF ListChannels, Goto, ldkVars
  <2>2. TypeOK'
    BY <2>1, ChoiceType DEF Inv, TypeOK
  <2>3. /\ pc'[c] = "close" /\ answer[c] = None
        /\ \A d \in Calls \ {c} : pc'[d] = pc[d] /\ chosen'[d] = chosen[d]
    BY <2>1 DEF Inv, TypeOK
  <2>4. CallInv' /\ CloseNotMissed' /\ CloseTakesEffect'
    BY <2>1, <2>3 DEF Inv, CallInv, CloseNotMissed, CloseTakesEffect, Waits
  <2> QED
    BY <2>2, <2>4 DEF Inv
<1> QED
  BY <1>1, <1>2

(* The close LDK accepts is being negotiated as the wait begins. *)
LEMMA CloseCallKeeps ==
    ASSUME Inv, NEW c \in Calls, close_channel(c)
    PROVE  Inv'
<1>1. CASE ~Accepted(c)
  BY <1>1, FailKeeps DEF close_channel, ldkVars
<1>2. CASE Accepted(c)
  <2>1. /\ pc[c] = "close"
        /\ closing' = closing \cup {chosen[c]}
        /\ pc' = [pc EXCEPT ![c] = "asked"]
        /\ UNCHANGED <<peer, named, chosen, inbox, answer, open, events>>
        /\ chosen[c] \in open /\ PeerOf[chosen[c]] = peer[c]
    BY <1>2 DEF close_channel, Goto, Accepted
  <2>2. TypeOK'
    BY <2>1 DEF Inv, TypeOK, CallInv
  <2>3. /\ pc'[c] = "asked"
        /\ \A d \in Calls \ {c} : pc'[d] = pc[d]
    BY <2>1 DEF Inv, TypeOK
  <2>4. CallInv'
    BY <2>1, <2>3 DEF Inv, TypeOK, CallInv, Waits
  <2>5. CloseNotMissed' /\ CloseTakesEffect'
    BY <2>1, <2>3 DEF Inv, CloseNotMissed, CloseTakesEffect, Waits
  <2> QED
    BY <2>2, <2>4, <2>5 DEF Inv
<1> QED
  BY <1>1, <1>2

LEMMA AwaitKeeps ==
    ASSUME Inv, NEW c \in Calls, AwaitClosed(c)
    PROVE  Inv'
<1>1. /\ pc[c] = "asked"
      /\ pc' = [pc EXCEPT ![c] = "wait"]
      /\ UNCHANGED <<peer, named, chosen, inbox, answer, open, closing, events>>
  BY DEF AwaitClosed, Goto, ldkVars
<1>2. TypeOK'
  BY <1>1 DEF Inv, TypeOK
<1>3. \A d \in Calls : (Waits(d)' <=> Waits(d)) /\ (pc'[d] = "close" <=> pc[d] = "close")
  BY <1>1 DEF Inv, TypeOK, Waits
<1>4. CallInv' /\ CloseNotMissed' /\ CloseTakesEffect'
  BY <1>1, <1>3 DEF Inv, CallInv, CloseNotMissed, CloseTakesEffect, Waits
<1> QED
  BY <1>2, <1>4 DEF Inv

LEMMA HearKeeps ==
    ASSUME Inv, NEW c \in Calls, HearClosed(c)
    PROVE  Inv'
<1>1. /\ pc[c] = "wait" /\ inbox[c] # <<>>
      /\ answer' = [answer EXCEPT ![c] = Head(inbox[c])]
      /\ inbox' = [inbox EXCEPT ![c] = <<>>]
      /\ pc' = [pc EXCEPT ![c] = "done"]
      /\ UNCHANGED <<peer, named, chosen, open, closing, events>>
  BY DEF HearClosed, Goto, ldkVars
<1>2. Head(inbox[c]) \in Channels
  BY <1>1 DEF Inv, TypeOK
<1>3. TypeOK'
  BY <1>1, <1>2 DEF Inv, TypeOK
<1>4. /\ pc'[c] = "done"
      /\ \A d \in Calls \ {c} :
            pc'[d] = pc[d] /\ inbox'[d] = inbox[d] /\ answer'[d] = answer[d]
  BY <1>1 DEF Inv, TypeOK
<1>5. CallInv' /\ CloseNotMissed' /\ CloseTakesEffect'
  BY <1>1, <1>4 DEF Inv, CallInv, CloseNotMissed, CloseTakesEffect, Waits
<1> QED
  BY <1>3, <1>5 DEF Inv

(* What is announced goes from LDK's queue to that of every listener. *)
LEMMA AnnounceKeeps ==
    ASSUME Inv, ChannelClosed
    PROVE  Inv'
<1>1. /\ events # <<>>
      /\ inbox' = [c \in Calls |->
            IF c \in Listening THEN Append(inbox[c], Head(events)) ELSE inbox[c]]
      /\ events' = Tail(events)
      /\ UNCHANGED <<pc, peer, named, chosen, answer, open, closing>>
  BY DEF ChannelClosed
<1>2. events \in Seq(Channels) /\ Head(events) \in Channels /\ Tail(events) \in Seq(Channels)
      /\ inbox \in [Calls -> Seq(Channels)]
  BY <1>1 DEF Inv, TypeOK
<1>3. TypeOK'
  <2>1. \A c \in Calls : Append(inbox[c], Head(events)) \in Seq(Channels)
    BY <1>2
  <2>2. inbox' \in [Calls -> Seq(Channels)]
    BY <1>1, <1>2, <2>1
  <2> QED
    BY <1>1, <1>2, <2>2 DEF Inv, TypeOK
<1>4. CallInv' /\ CloseTakesEffect'
  BY <1>1 DEF Inv, CallInv, CloseTakesEffect, Waits
<1>5. ASSUME NEW c \in Calls, Waits(c)
      PROVE  chosen[c] \in closing \/ InSeq(chosen[c], events') \/ InSeq(chosen[c], inbox'[c])
  <2>1. inbox'[c] = Append(inbox[c], Head(events)) /\ inbox[c] \in Seq(Channels)
    BY <1>1, <1>2, <1>5 DEF Listening, Waits
  <2>2. chosen[c] \in closing \/ InSeq(chosen[c], events) \/ InSeq(chosen[c], inbox[c])
    BY <1>5 DEF Inv, CloseNotMissed, Waits
  <2> QED
    BY <1>1, <1>2, <2>1, <2>2, InAppended, InHeadOrTail
<1>6. CloseNotMissed'
  BY <1>1, <1>5 DEF CloseNotMissed, Waits
<1> QED
  BY <1>3, <1>4, <1>6 DEF Inv

LEMMA ClosedKeeps ==
    ASSUME Inv, NEW ch \in Channels, Closed(ch)
    PROVE  Inv'
<1>1. /\ open' = open \ {ch}
      /\ closing' = closing \ {ch}
      /\ events' = Append(events, ch)
      /\ UNCHANGED <<pc, peer, named, chosen, inbox, answer>>
  BY DEF Closed, callVars
<1>2. events \in Seq(Channels) /\ events' \in Seq(Channels)
  BY <1>1 DEF Inv, TypeOK
<1>3. TypeOK' /\ CallInv'
  BY <1>1, <1>2 DEF Inv, TypeOK, CallInv, Waits
<1>4. \A x : InSeq(x, events') <=> InSeq(x, events) \/ x = ch
  BY <1>1, <1>2, InAppended
<1>5. CloseNotMissed' /\ CloseTakesEffect'
  BY <1>1, <1>4 DEF Inv, CloseNotMissed, CloseTakesEffect, Waits
<1> QED
  BY <1>3, <1>5 DEF Inv

LEMMA NextInv == Inv /\ [Next]_vars => Inv'
<1>1. SUFFICES ASSUME Inv, [Next]_vars PROVE Inv'
  OBVIOUS
<1>2. CASE UNCHANGED vars
  BY <1>1, <1>2
     DEF vars, callVars, ldkVars, Inv, TypeOK, CallInv, CloseNotMissed, CloseTakesEffect,
         Waits
<1>3. ASSUME NEW c \in Calls, Call(c) PROVE Inv'
  BY <1>1, <1>3, CloseKeeps, FailKeeps, ListKeeps, CloseCallKeeps, AwaitKeeps, HearKeeps
     DEF Call, ReactFails
<1> QED
  BY <1>1, <1>2, <1>3, ClosedKeeps, AnnounceKeeps DEF Next

LEMMA Invariance == Spec => []Inv
  BY InitInv, NextInv, PTL DEF Spec

(* The calls, the list of channels and LDK's queue are of their types.     *)
THEOREM TypeCorrect == Spec => []TypeOK
<1>1. Inv => TypeOK
  BY DEF Inv
<1> QED
  BY <1>1, Invariance, PTL

(* json_close: the subscription comes before the list and the close, so    *)
(* the event of a close LDK accepted is never missed, whatever closes      *)
(* meanwhile.                                                              *)
THEOREM NoCloseMissed == Spec => []CloseNotMissed
<1>1. Inv => CloseNotMissed
  BY DEF Inv
<1> QED
  BY <1>1, Invariance, PTL

(* json_close and close_channel: a call that waits, or reports a channel,  *)
(* has closed one of the peer it names.                                    *)
THEOREM ClosesTakeEffect == Spec => []CloseTakesEffect
<1>1. Inv => CloseTakesEffect
  BY DEF Inv
<1> QED
  BY <1>1, Invariance, PTL
=============================================================================
