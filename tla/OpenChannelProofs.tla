------------------------- MODULE OpenChannelProofs -------------------------
(***************************************************************************)
(* Proofs about OpenChannel: type correctness, the inductive invariant,    *)
(* the safety properties it implies and the refinement of OpenPromise.     *)
(***************************************************************************)
EXTENDS OpenChannel, SequenceTheorems, TLAPS

(* An element of a queue stays where it is when another is appended.       *)
LEMMA ContainsAppend ==
    ASSUME NEW S, NEW q \in Seq(S), NEW x \in S, NEW e
    PROVE  Contains(Append(q, x), e) <=> Contains(q, e) \/ e = x
  BY AppendProperties DEF Contains

(* Reading the head of a queue adds nothing to it.                         *)
LEMMA ContainsTail ==
    ASSUME NEW S, NEW q \in Seq(S), q # <<>>, NEW e, Contains(Tail(q), e)
    PROVE  Contains(q, e)
  <1>1. PICK i \in 1..Len(Tail(q)) : Tail(q)[i] = e
    BY DEF Contains
  <1>2. i + 1 \in 1..Len(q) /\ q[i + 1] = e
    BY <1>1, HeadTailProperties
  <1>. QED
    BY <1>2 DEF Contains

(* The head of a queue is one of its elements.                             *)
LEMMA ContainsHead ==
    ASSUME NEW S, NEW q \in Seq(S), q # <<>>
    PROVE  Head(q) \in S /\ Contains(q, Head(q))
  BY HeadTailProperties DEF Contains

(* Nothing is in the empty queue.                                          *)
LEMMA ContainsEmpty == \A e : ~Contains(<<>>, e)
  BY DEF Contains

(* Emitting an event keeps every subscription well typed and puts nothing  *)
(* else in it.                                                             *)
LEMMA EmitProperties ==
    ASSUME inbox \in [Opens -> Seq(Event)], NEW e \in Event, Emit(e)
    PROVE  /\ inbox' \in [Opens -> Seq(Event)]
           /\ \A o \in Opens : \A f :
                 Contains(inbox'[o], f) => Contains(inbox[o], f) \/ f = e
  <1>1. ASSUME NEW o \in Opens
        PROVE  /\ inbox'[o] \in Seq(Event)
               /\ \A f : Contains(inbox'[o], f) => Contains(inbox[o], f) \/ f = e
    <2>1. inbox[o] \in Seq(Event)
      OBVIOUS
    <2>2. CASE inbox'[o] = inbox[o]
      BY <2>1, <2>2
    <2>3. CASE inbox'[o] = Append(inbox[o], e)
      <3>1. Append(inbox[o], e) \in Seq(Event)
        BY <2>1, AppendProperties
      <3>2. \A f : Contains(Append(inbox[o], e), f) => Contains(inbox[o], f) \/ f = e
        BY <2>1, ContainsAppend
      <3>. QED
        BY <2>3, <3>1, <3>2
    <2>. QED
      BY <2>2, <2>3 DEF Emit
  <1>. QED
    BY <1>1 DEF Emit

(* The events the actors emit are events.                                  *)
LEMMA EventTypes ==
    /\ \A t \in Txs :
          /\ Ev("FundingChannelEnd", t) \in Event
          /\ Ev("SendRawTransaction", t) \in Event
          /\ Ev("FailedChannel", t) \in Event
          /\ Ev("FailedTx", t) \in Event
          /\ Ev("CloseChannel", t) \in Event
    /\ \A o \in Opens :
          /\ o \in Txs
          /\ o # NoTx
          /\ FundGen(o) \in LdkEvent
          /\ Ev("ChannelClosed", o) \in LdkEvent
  BY OpensAssumption DEF Ev, Event, LdkEvent, FundGen, Txs

-----------------------------------------------------------------------------
(* Type correctness. *)

(* The initial state, before any request runs, is well typed.              *)
LEMMA TypeInit == Init => TypeOK
  BY BoundAssumption, EmptySeq DEF Init, TypeOK, Txs

(* A waiter that reads one event keeps every variable well typed.          *)
LEMMA TypeHear ==
    ASSUME TypeOK, NEW o \in Opens, Hear(o)
    PROVE  TypeOK'
  <1>. DEFINE e == Head(inbox[o])
              q == Tail(inbox[o])
  <1>1. e \in Event /\ q \in Seq(Event)
    BY HeadTailProperties DEF Hear, TypeOK
  <1>2. e.id \in Txs
    BY <1>1 DEF Event
  <1>3. HearEnd(o, e) \/ HearSent(o, e) \/ HearFailedTx(o, e) \/ HearFailure(o, e)
        \/ HearOther(o, e)
    BY DEF Hear
  <1>4. <<>> \in Seq(Event)
    BY EmptySeq
  <1>5. (\E v \in Verdicts : EndWait(o, v)) \/ KeepWaiting(o)
    BY <1>3 DEF HearEnd, HearSent, HearFailedTx, HearFailure, HearOther, Verdicts
  <1>6. /\ inbox' \in [Opens -> Seq(Event)]
        /\ pc' \in [Opens -> {"start", "subscribed", "wait", "drain", "abandon",
                              "close", "clear", "done"}]
        /\ verdict' \in [Opens -> Verdicts \cup {"none"}]
    <2>1. ASSUME NEW v \in Verdicts, EndWait(o, v)
          PROVE  /\ inbox' \in [Opens -> Seq(Event)]
                 /\ pc' \in [Opens -> {"start", "subscribed", "wait", "drain",
                                       "abandon", "close", "clear", "done"}]
                 /\ verdict' \in [Opens -> Verdicts \cup {"none"}]
      BY <2>1, <1>4 DEF EndWait, TypeOK
    <2>2. CASE KeepWaiting(o)
      BY <2>2, <1>1 DEF KeepWaiting, TypeOK
    <2>. QED
      BY <1>5, <2>1, <2>2
  <1>7. /\ handed' \subseteq Opens
        /\ early' \in [Opens -> Txs \cup {NoTx}]
        /\ heard' \subseteq Opens \X {"end", "sent", "overtaken", "failed"}
    <2>. HIDE DEF e
    <2>. USE DEF TypeOK
    <2>1. CASE HearEnd(o, e)
      BY <2>1 DEF HearEnd
    <2>2. CASE HearSent(o, e)
      BY <2>2, <1>2 DEF HearSent, HeardSent
    <2>3. CASE HearFailedTx(o, e)
      BY <2>3 DEF HearFailedTx
    <2>4. CASE HearFailure(o, e)
      BY <2>4 DEF HearFailure
    <2>5. CASE HearOther(o, e)
      BY <2>5 DEF HearOther
    <2>. QED
      BY <1>3, <2>1, <2>2, <2>3, <2>4, <2>5
  <1>. QED
    BY <1>6, <1>7 DEF Hear, TypeOK, ldkVars, txVars

(* Force-closing changes LDK's two variables within their types.           *)
LEMMA TypeForceClose ==
    ASSUME TypeOK, NEW o \in Opens, ForceCloseSucceeds(o) \/ ForceCloseFails(o)
    PROVE  /\ ldk' \in [Opens -> {"none", "negotiating", "ready", "funded",
                                  "closed", "lost", "killed"}]
           /\ ldkQueue' \in Seq(LdkEvent)
  <1>1. CASE ForceCloseFails(o)
    BY <1>1 DEF ForceCloseFails, ldkVars, TypeOK
  <1>2. CASE ForceCloseSucceeds(o)
    <2>1. Append(ldkQueue, Ev("ChannelClosed", o)) \in Seq(LdkEvent)
      BY EventTypes, AppendProperties DEF TypeOK
    <2>. QED
      BY <1>2, <2>1 DEF ForceCloseSucceeds, TypeOK
  <1>. QED
    BY <1>1, <1>2

(* Every step of open_channel keeps the state well typed.                  *)
LEMMA TypeWaiter ==
    ASSUME TypeOK, NEW o \in Opens, Waiter(o)
    PROVE  TypeOK'
  <1>. USE DEF TypeOK, ldkVars, txVars, Verdicts
  <1>1. CASE Subscribe(o)
    BY <1>1 DEF Subscribe
  <1>2. CASE CreateChannel(o)
    <2>1. <<>> \in Seq(Event)
      BY EmptySeq
    <2>2. inbox' \in [Opens -> Seq(Event)]
      <3>. HIDE DEF TypeOK
      <3>1. inbox \in [Opens -> Seq(Event)]
        BY DEF TypeOK
      <3>2. inbox' = inbox \/ inbox' = [inbox EXCEPT ![o] = <<>>]
        BY <1>2 DEF CreateChannel
      <3>. QED
        BY <2>1, <3>1, <3>2
    <2>. QED
      BY <1>2, <2>2 DEF CreateChannel
  <1>3. CASE Hear(o)
    BY <1>3, TypeHear
  <1>4. CASE StartDrain(o)
    BY <1>4 DEF StartDrain
  <1>5. CASE EndDrain(o)
    BY <1>5 DEF EndDrain
  <1>6. CASE AbandonIfUnaccepted(o)
    BY <1>6 DEF AbandonIfUnaccepted
  <1>7. CASE CloseAbandoned(o)
    BY <1>7, TypeForceClose DEF CloseAbandoned
  <1>8. CASE ClearFundingWait(o)
    BY <1>8 DEF ClearFundingWait
  <1>. QED
    BY <1>1, <1>2, <1>3, <1>4, <1>5, <1>6, <1>7, <1>8 DEF Waiter

(* Every step of the LDK event handler keeps the state well typed.         *)
LEMMA TypeHandler ==
    ASSUME TypeOK, Handler
    PROVE  TypeOK'
  <1>. USE DEF ldkVars, txVars, waiterVars
  <1>1. CASE HandleEvent
    <2>. DEFINE e == Head(ldkQueue)
    <2>1. e \in LdkEvent /\ ldkQueue' \in Seq(LdkEvent)
      BY <1>1, HeadTailProperties DEF HandleEvent, TypeOK
    <2>2. e.id \in Opens
      BY <2>1 DEF LdkEvent
    <2>3. inbox' \in [Opens -> Seq(Event)]
      BY <1>1, <2>2, EmitProperties, EventTypes DEF HandleEvent, TypeOK
    <2>. HIDE DEF e
    <2>4. handler' = handler \/ handler' = [at |-> "create", ch |-> e.id]
      BY <1>1 DEF HandleEvent, e
    <2>. QED
      BY <1>1, <2>1, <2>2, <2>3, <2>4 DEF HandleEvent, TypeOK
  <1>2. CASE CreateTransaction
    BY <1>2 DEF CreateTransaction, HandlerGoto, TypeOK
  <1>3. CASE HandOff
    BY <1>3 DEF HandOff, HandlerGoto, TypeOK
  <1>4. CASE AnnounceFunding
    <2>1. Ev("FundingChannelEnd", handler.ch) \in Event
      BY <1>4, EventTypes DEF AnnounceFunding, TypeOK
    <2>2. inbox' \in [Opens -> Seq(Event)]
      BY <1>4, <2>1, EmitProperties DEF AnnounceFunding, TypeOK
    <2>. QED
      BY <1>4, <2>2 DEF AnnounceFunding, TypeOK
  <1>5. CASE ReportFailure
    <2>1. Ev("FailedChannel", handler.ch) \in Event
      BY <1>5, EventTypes DEF ReportFailure, TypeOK
    <2>2. inbox' \in [Opens -> Seq(Event)]
      BY <1>5, <2>1, EmitProperties DEF ReportFailure, TypeOK
    <2>. QED
      BY <1>5, <2>2 DEF ReportFailure, HandlerGoto, TypeOK
  <1>6. CASE DropChannel
    <2>1. handler.ch \in Opens
      BY <1>6 DEF DropChannel, TypeOK
    <2>2. /\ ldk' \in [Opens -> {"none", "negotiating", "ready", "funded",
                                "closed", "lost", "killed"}]
          /\ ldkQueue' \in Seq(LdkEvent)
      BY <1>6, <2>1, TypeForceClose DEF DropChannel
    <2>. QED
      BY <1>6, <2>2 DEF DropChannel, TypeOK
  <1>. QED
    BY <1>1, <1>2, <1>3, <1>4, <1>5, <1>6 DEF Handler

(* LDK, the peer and the broadcast tasks keep the state well typed.        *)
LEMMA TypeEnvironment ==
    ASSUME TypeOK,
           \/ \E o \in Opens : Environment(o) \/ Expire(o)
           \/ \E t \in OtherTxs : BroadcastOther(t)
    PROVE  TypeOK'
  <1>. USE DEF ldkVars, txVars, waiterVars
  <1>1. ASSUME NEW o \in Opens, Negotiated(o) \/ PeerCloses(o)
        PROVE  TypeOK'
    <2>1. ldkQueue \in Seq(LdkEvent)
      BY DEF TypeOK
    <2>2. /\ Append(ldkQueue, FundGen(o)) \in Seq(LdkEvent)
          /\ Append(ldkQueue, Ev("ChannelClosed", o)) \in Seq(LdkEvent)
      BY <2>1, AppendProperties, EventTypes
    <2>3. ldkQueue' \in Seq(LdkEvent)
      BY <1>1, <2>2 DEF Negotiated, PeerCloses, FundGen
    <2>. QED
      BY <1>1, <2>3 DEF Negotiated, PeerCloses, TypeOK
  <1>2. ASSUME NEW o \in Opens, PeerClosesFunded(o) \/ BroadcastFunding(o) \/ Expire(o)
        PROVE  TypeOK'
    <2>1. CASE PeerClosesFunded(o)
      BY <2>1 DEF PeerClosesFunded, TypeOK
    <2>2. CASE BroadcastFunding(o)
      BY <2>2, BoundAssumption DEF BroadcastFunding, TypeOK
    <2>3. CASE Expire(o)
      BY <2>3 DEF Expire, TypeOK
    <2>. QED
      BY <1>2, <2>1, <2>2, <2>3
  <1>3. ASSUME NEW o \in Opens, BroadcastAnswered(o)
        PROVE  TypeOK'
    <2>1. inbox' \in [Opens -> Seq(Event)]
      BY <1>3, EmitProperties, EventTypes DEF BroadcastAnswered, TypeOK
    <2>2. sent' \subseteq Txs
      BY <1>3 DEF BroadcastAnswered, TypeOK, Txs
    <2>. QED
      BY <1>3, <2>1, <2>2 DEF BroadcastAnswered, TypeOK
  <1>4. ASSUME NEW t \in OtherTxs, BroadcastOther(t)
        PROVE  TypeOK'
    <2>1. t \in Txs
      BY DEF Txs
    <2>2. inbox' \in [Opens -> Seq(Event)]
      BY <1>4, <2>1, EmitProperties, EventTypes DEF BroadcastOther, TypeOK
    <2>. QED
      BY <1>4, <2>1, <2>2 DEF BroadcastOther, TypeOK
  <1>. QED
    BY <1>1, <1>2, <1>3, <1>4 DEF Environment

(* Every step keeps every variable in its type.                            *)
LEMMA TypeNext == TypeOK /\ [Next]_vars => TypeOK'
  <1>1. TypeOK /\ UNCHANGED vars => TypeOK'
    BY DEF vars, waiterVars, ldkVars, txVars, TypeOK
  <1>. QED
    BY <1>1, TypeWaiter, TypeHandler, TypeEnvironment DEF Next

(* For any set of concurrent opens the variables stay within their types:  *)
(* queues hold only well-formed events, the handler works on an open.      *)
THEOREM TypeCorrect == Spec => []TypeOK
  BY TypeInit, TypeNext, PTL DEF Spec
-----------------------------------------------------------------------------
(* The inductive invariant. *)

(* Events are equal when their kind and their channel or transaction are.  *)
LEMMA EvInjective ==
    \A k1, k2, i1, i2 : Ev(k1, i1) = Ev(k2, i2) <=> k1 = k2 /\ i1 = i2
  <1>. TAKE k1, k2, i1, i2
  <1>1. /\ Ev(k1, i1).kind = k1 /\ Ev(k1, i1).id = i1
        /\ Ev(k2, i2).kind = k2 /\ Ev(k2, i2).id = i2
    BY DEF Ev
  <1>. QED
    BY <1>1

(* An event is determined by its fields.                                   *)
LEMMA EvFields ==
    /\ \A e \in Event : e = Ev(e.kind, e.id)
    /\ \A e \in LdkEvent : e = Ev(e.kind, e.id)
  BY DEF Ev, Event, LdkEvent

(* Appending another event, or a first one, keeps an event unique.         *)
LEMMA OnceAppend ==
    ASSUME NEW S, NEW q \in Seq(S), NEW x \in S, NEW e,
           AtMostOnce(q, e), e = x => ~Contains(q, e)
    PROVE  AtMostOnce(Append(q, x), e)
  <1>1. /\ Len(q) \in Nat
        /\ Len(Append(q, x)) = Len(q) + 1
        /\ \A i \in 1..Len(q) : Append(q, x)[i] = q[i]
        /\ Append(q, x)[Len(q) + 1] = x
    BY AppendProperties, LenProperties
  <1>. SUFFICES ASSUME NEW i \in 1..(Len(q) + 1), NEW j \in 1..(Len(q) + 1),
                       Append(q, x)[i] = e, Append(q, x)[j] = e
                PROVE  i = j
    BY <1>1 DEF AtMostOnce
  <1>2. CASE i \in 1..Len(q) /\ j \in 1..Len(q)
    BY <1>1, <1>2 DEF AtMostOnce
  <1>3. CASE i = Len(q) + 1 /\ j \in 1..Len(q)
    BY <1>1, <1>3 DEF Contains
  <1>4. CASE i \in 1..Len(q) /\ j = Len(q) + 1
    BY <1>1, <1>4 DEF Contains
  <1>. QED
    BY <1>1, <1>2, <1>3, <1>4

(* Reading a unique event leaves none behind.                              *)
LEMMA OnceTail ==
    ASSUME NEW S, NEW q \in Seq(S), q # <<>>, NEW e, AtMostOnce(q, e)
    PROVE  /\ AtMostOnce(Tail(q), e)
           /\ Head(q) = e => ~Contains(Tail(q), e)
  <1>1. /\ Len(q) \in Nat \ {0}
        /\ Len(Tail(q)) = Len(q) - 1
        /\ \A i \in 1..Len(Tail(q)) : Tail(q)[i] = q[i + 1]
        /\ Head(q) = q[1]
    BY HeadTailProperties, LenProperties, EmptySeq
  <1>2. \A i \in 1..Len(Tail(q)) : i + 1 \in 1..Len(q)
    BY <1>1
  <1>3. AtMostOnce(Tail(q), e)
    BY <1>1, <1>2 DEF AtMostOnce
  <1>4. ASSUME Head(q) = e, NEW i \in 1..Len(Tail(q)), Tail(q)[i] = e
        PROVE  FALSE
    <2>1. q[1] = e /\ q[i + 1] = e /\ 1 \in 1..Len(q) /\ i + 1 \in 1..Len(q)
      BY <1>1, <1>2, <1>4
    <2>. QED
      BY <2>1, <1>1 DEF AtMostOnce
  <1>. QED
    BY <1>3, <1>4 DEF Contains

(* Before any request runs, nothing is queued, funded or answered.         *)
LEMMA IndInit == Init => IndInv
  <1>. SUFFICES ASSUME Init, NEW o \in Opens PROVE OpenInv(o)
    BY DEF IndInv
  <1>1. LdkQueueInv(o) /\ InboxInv(o)
    BY ContainsEmpty, EmptySeq DEF Init, LdkQueueInv, InboxInv, AtMostOnce
  <1>2. HandlerInv(o) /\ FundingInv(o)
    BY OpensAssumption DEF Init, HandlerInv, FundingInv
  <1>3. WaitStateInv(o) /\ VerdictInv(o)
    BY DEF Init, WaitStateInv, VerdictInv, Funded
  <1>. QED
    BY <1>1, <1>2, <1>3 DEF OpenInv

(* Subscribing to the event bus keeps every open's invariant.              *)
LEMMA IndSubscribe ==
    ASSUME TypeOK, NEW p \in Opens, OpenInv(p), NEW o \in Opens, Subscribe(o)
    PROVE  OpenInv(p)'
  BY DEF Subscribe, TypeOK, OpenInv, LdkQueueInv, InboxInv, HandlerInv, FundingInv,
         WaitStateInv, VerdictInv, Spent, Funded, ldkVars, txVars

(* create_channel, granted or refused, keeps every open's invariant.       *)
LEMMA IndCreate ==
    ASSUME TypeOK, NEW p \in Opens, OpenInv(p), NEW o \in Opens, CreateChannel(o)
    PROVE  OpenInv(p)'
  BY ContainsEmpty DEF CreateChannel, TypeOK, OpenInv, LdkQueueInv, InboxInv, HandlerInv, FundingInv,
         WaitStateInv, VerdictInv, Spent, Funded, ldkVars, txVars

(* The deadline and the final drain keep every open's invariant: an open   *)
(* is answered leftOpen there only if its FundingChannelEnd was read.      *)
LEMMA IndQuiet ==
    ASSUME TypeOK, NEW p \in Opens, OpenInv(p), NEW o \in Opens,
           Expire(o) \/ StartDrain(o) \/ EndDrain(o)
    PROVE  OpenInv(p)'
  BY DEF Expire, StartDrain, EndDrain, TypeOK, OpenInv, LdkQueueInv, InboxInv, HandlerInv, FundingInv,
         WaitStateInv, VerdictInv, Spent, Funded, ldkVars, txVars

(* The abandon check, made under the wait-state lock, keeps the invariant: *)
(* an Abandoned entry is only written over an unaccepted open.             *)
LEMMA IndAbandon ==
    ASSUME TypeOK, NEW p \in Opens, OpenInv(p), NEW o \in Opens, AbandonIfUnaccepted(o)
    PROVE  OpenInv(p)'
  BY DEF AbandonIfUnaccepted, TypeOK, OpenInv, LdkQueueInv, InboxInv, HandlerInv, FundingInv,
         WaitStateInv, VerdictInv, Spent, Funded, ldkVars, txVars

(* clear_funding_wait keeps the invariant: by then the verdict is fixed.   *)
LEMMA IndClear ==
    ASSUME TypeOK, NEW p \in Opens, OpenInv(p), NEW o \in Opens, ClearFundingWait(o)
    PROVE  OpenInv(p)'
  BY DEF ClearFundingWait, TypeOK, OpenInv, LdkQueueInv, InboxInv, HandlerInv, FundingInv,
         WaitStateInv, VerdictInv, Spent, Funded, ldkVars, txVars

(* Facts about a queue of LDK events one of which is read or added.        *)
LEMMA LdkQueueProperties ==
    ASSUME ldkQueue \in Seq(LdkEvent), NEW o \in Opens
    PROVE  /\ \A e \in LdkEvent :
                /\ \A f : Contains(Append(ldkQueue, e), f) <=> Contains(ldkQueue, f) \/ f = e
                /\ AtMostOnce(ldkQueue, FundGen(o))
                     /\ (FundGen(o) = e => ~Contains(ldkQueue, FundGen(o)))
                   => AtMostOnce(Append(ldkQueue, e), FundGen(o))
           /\ ldkQueue # <<>> =>
                /\ Head(ldkQueue) \in LdkEvent
                /\ Contains(ldkQueue, Head(ldkQueue))
                /\ \A f : Contains(Tail(ldkQueue), f) => Contains(ldkQueue, f)
                /\ AtMostOnce(ldkQueue, FundGen(o))
                   => /\ AtMostOnce(Tail(ldkQueue), FundGen(o))
                      /\ Head(ldkQueue) = FundGen(o)
                         => ~Contains(Tail(ldkQueue), FundGen(o))
  <1>1. ASSUME NEW e \in LdkEvent
        PROVE  /\ \A f : Contains(Append(ldkQueue, e), f) <=> Contains(ldkQueue, f) \/ f = e
               /\ AtMostOnce(ldkQueue, FundGen(o))
                    /\ (FundGen(o) = e => ~Contains(ldkQueue, FundGen(o)))
                  => AtMostOnce(Append(ldkQueue, e), FundGen(o))
    BY ContainsAppend, OnceAppend
  <1>2. ASSUME ldkQueue # <<>>
        PROVE  /\ Head(ldkQueue) \in LdkEvent
               /\ Contains(ldkQueue, Head(ldkQueue))
               /\ \A f : Contains(Tail(ldkQueue), f) => Contains(ldkQueue, f)
               /\ AtMostOnce(ldkQueue, FundGen(o))
                  => /\ AtMostOnce(Tail(ldkQueue), FundGen(o))
                     /\ Head(ldkQueue) = FundGen(o)
                        => ~Contains(Tail(ldkQueue), FundGen(o))
    BY <1>2, ContainsHead, ContainsTail, OnceTail
  <1>. QED
    BY <1>1, <1>2

(* The events of LDK's queue and of the bus are told apart by their kind   *)
(* and their channel.                                                      *)
LEMMA LdkEventsDiffer ==
    \A o, p : /\ FundGen(o) = FundGen(p) <=> o = p
              /\ Ev("ChannelClosed", o) = Ev("ChannelClosed", p) <=> o = p
              /\ FundGen(o) # Ev("ChannelClosed", p)
              /\ FundGen(o).id = o /\ FundGen(o).kind = "FundingGenerationReady"
              /\ Ev("ChannelClosed", o).id = o /\ Ev("ChannelClosed", o).kind = "ChannelClosed"
  BY DEF FundGen, Ev

(* ForceClose on a channel that is not funded: what LDK's variables become *)
(* leaves every other statement about the open standing.                   *)
LEMMA ForceCloseEffect ==
    ASSUME TypeOK, NEW p \in Opens, LdkQueueInv(p), NEW o \in Opens, ~Funded(o),
           ForceCloseSucceeds(o) \/ ForceCloseFails(o) \/ PeerCloses(o)
    PROVE  /\ LdkQueueInv(p)'
           /\ ldk'[p] = ldk[p] \/ (ldk'[p] = "closed" /\ ~Funded(p) /\ ldk[p] # "none")
           /\ Contains(ldkQueue', FundGen(p)) <=> Contains(ldkQueue, FundGen(p))
  <1>1. CASE ForceCloseFails(o)
    <2>1. ldk' = ldk /\ ldkQueue' = ldkQueue
      BY <1>1 DEF ForceCloseFails, ldkVars
    <2>. QED
      BY <2>1 DEF LdkQueueInv
  <1>2. CASE ForceCloseSucceeds(o) \/ PeerCloses(o)
    <2>1. /\ ldk[o] \in {"negotiating", "ready"}
          /\ ldk' = [ldk EXCEPT ![o] = "closed"]
          /\ ldkQueue' = Append(ldkQueue, Ev("ChannelClosed", o))
      BY <1>2 DEF ForceCloseSucceeds, PeerCloses, Funded
    <2>2. /\ ldkQueue \in Seq(LdkEvent) /\ Ev("ChannelClosed", o) \in LdkEvent
      BY EventTypes DEF TypeOK
    <2>3. /\ \A f : Contains(ldkQueue', f) <=>
                   Contains(ldkQueue, f) \/ f = Ev("ChannelClosed", o)
          /\ AtMostOnce(ldkQueue', FundGen(p))
      BY <2>1, <2>2, LdkQueueProperties, LdkEventsDiffer DEF LdkQueueInv
    <2>4. /\ p # o => ldk'[p] = ldk[p]
          /\ p = o => ldk'[p] = "closed"
      BY <2>1 DEF TypeOK
    <2>5. /\ Contains(ldkQueue', FundGen(p)) <=> Contains(ldkQueue, FundGen(p))
          /\ Contains(ldkQueue', Ev("ChannelClosed", p))
             => Contains(ldkQueue, Ev("ChannelClosed", p)) \/ p = o
      BY <2>3, LdkEventsDiffer
    <2>. QED
      BY <2>1, <2>3, <2>4, <2>5 DEF LdkQueueInv, Funded
  <1>. QED
    BY <1>1, <1>2

(* The timeout's force-close keeps the invariant: it meets no funded       *)
(* channel.                                                                *)
LEMMA IndCloseAbandoned ==
    ASSUME TypeOK, NEW p \in Opens, OpenInv(p), NEW o \in Opens, OpenInv(o),
           CloseAbandoned(o)
    PROVE  OpenInv(p)'
  <1>1. ~Funded(o)
    BY DEF CloseAbandoned, OpenInv, WaitStateInv
  <1>2. /\ LdkQueueInv(p)'
        /\ ldk'[p] = ldk[p] \/ (ldk'[p] = "closed" /\ ~Funded(p) /\ ldk[p] # "none")
        /\ Contains(ldkQueue', FundGen(p)) <=> Contains(ldkQueue, FundGen(p))
    BY <1>1, ForceCloseEffect DEF CloseAbandoned, OpenInv
  <1>3. pc'[o] = "clear" => ldk'[o] = "closed"
    BY <1>1 DEF CloseAbandoned, ForceCloseSucceeds, Funded, TypeOK
  <1>4. /\ pc'[o] \in {"clear", "done"} /\ verdict'[o] = "timeout"
        /\ p # o => pc'[p] = pc[p] /\ verdict'[p] = verdict[p]
        /\ waitState[o] = "Abandoned"
        /\ UNCHANGED <<inbox, handed, early, inflight, sent, waitState, handler>>
    BY DEF CloseAbandoned, OpenInv, WaitStateInv, TypeOK, txVars
  <1>. QED
    BY <1>2, <1>3, <1>4 DEF OpenInv, HandlerInv, InboxInv, FundingInv,
       WaitStateInv, VerdictInv, Spent, Funded

(* The handler's abandon_temp_channel keeps the invariant: the channel it  *)
(* drops is spent, hence not funded.                                       *)
LEMMA IndDropChannel ==
    ASSUME TypeOK, NEW p \in Opens, OpenInv(p), \A o \in Opens : OpenInv(o), DropChannel
    PROVE  OpenInv(p)'
  <1>. DEFINE o == handler.ch
  <1>1. o \in Opens /\ Spent(o)
    BY DEF DropChannel, TypeOK, OpenInv, HandlerInv
  <1>2. ~Funded(o)
    BY <1>1 DEF Spent, Funded
  <1>3. /\ LdkQueueInv(p)'
        /\ ldk'[p] = ldk[p] \/ (ldk'[p] = "closed" /\ ~Funded(p) /\ ldk[p] # "none")
        /\ Contains(ldkQueue', FundGen(p)) <=> Contains(ldkQueue, FundGen(p))
    BY <1>1, <1>2, ForceCloseEffect DEF DropChannel, OpenInv
  <1>4. /\ handler'.at = "idle" /\ handler'.ch # p
        /\ UNCHANGED <<pc, verdict, inbox, handed, early, inflight, sent, waitState>>
    BY OpensAssumption DEF DropChannel, waiterVars, txVars
  <1>. QED
    BY <1>3, <1>4 DEF OpenInv, HandlerInv, InboxInv, FundingInv, WaitStateInv,
       VerdictInv, Spent, Funded

(* The peer's rejection of an unfunded channel keeps the invariant.        *)
LEMMA IndPeerCloses ==
    ASSUME TypeOK, NEW p \in Opens, OpenInv(p), NEW o \in Opens, PeerCloses(o)
    PROVE  OpenInv(p)'
  <1>1. ~Funded(o)
    BY DEF PeerCloses, Funded
  <1>2. /\ LdkQueueInv(p)'
        /\ ldk'[p] = ldk[p] \/ (ldk'[p] = "closed" /\ ~Funded(p) /\ ldk[p] # "none")
        /\ Contains(ldkQueue', FundGen(p)) <=> Contains(ldkQueue, FundGen(p))
    BY <1>1, ForceCloseEffect DEF OpenInv
  <1>3. UNCHANGED <<pc, verdict, inbox, handed, early, inflight, sent, waitState, handler>>
    BY DEF PeerCloses, waiterVars, txVars
  <1>. QED
    BY <1>2, <1>3 DEF OpenInv, HandlerInv, InboxInv, FundingInv, WaitStateInv,
       VerdictInv, Spent, Funded

(* Reading one event in open_channel keeps the invariant: the verdict it   *)
(* reaches is what the event's presence in the inbox implies.              *)
LEMMA IndHear ==
    ASSUME TypeOK, NEW p \in Opens, OpenInv(p), NEW o \in Opens, Hear(o)
    PROVE  OpenInv(p)'
  <1>1. /\ UNCHANGED <<ldk, ldkQueue, handler, waitState, inflight, sent>>
        /\ pc[o] \in {"wait", "drain"}
    BY DEF Hear, ldkVars, txVars
  <1>2. CASE p # o
    <2>1. UNCHANGED <<pc[p], verdict[p], early[p], inbox[p]>> /\ (p \in handed' <=> p \in handed)
      BY <1>2 DEF Hear, HearEnd, HearSent, HearFailedTx, HearFailure, HearOther, EndWait,
                  KeepWaiting, TypeOK
    <2>. QED
      BY <1>1, <2>1 DEF OpenInv, LdkQueueInv, HandlerInv, InboxInv, FundingInv, WaitStateInv,
         VerdictInv, Spent, Funded
  <1>3. CASE p = o
    <2>. DEFINE e == Head(inbox[o])
    <2>1. /\ e \in Event /\ Contains(inbox[o], e)
          /\ \A f : Contains(Tail(inbox[o]), f) => Contains(inbox[o], f)
      BY ContainsHead, ContainsTail DEF Hear, TypeOK
    <2>2. e = Ev(e.kind, e.id)
      BY <2>1, EvFields
    <2>3. HearEnd(o, e) \/ HearSent(o, e) \/ HearFailedTx(o, e) \/ HearFailure(o, e)
          \/ HearOther(o, e)
      BY DEF Hear
    <2>4. \A f : Contains(inbox'[o], f) => Contains(inbox[o], f)
      <3>1. inbox' = [inbox EXCEPT ![o] = <<>>] \/ inbox' = [inbox EXCEPT ![o] = Tail(@)]
        BY <2>3 DEF HearEnd, HearSent, HearFailedTx, HearFailure, HearOther, EndWait,
           KeepWaiting
      <3>2. inbox'[o] = <<>> \/ inbox'[o] = Tail(inbox[o])
        BY <3>1 DEF TypeOK
      <3>. QED
        BY <2>1, <3>2, ContainsEmpty
    <2>. HIDE DEF e
    <2>5. (o \in handed' \ handed => Funded(o)) /\ (early'[o] = o => o \in sent)
      BY <1>3, <2>1, <2>2, <2>3, OpensAssumption
         DEF HearEnd, HearSent, HearFailedTx, HearFailure, HearOther, OpenInv, InboxInv,
             FundingInv, TypeOK
    <2>6. \/ verdict'[o] = verdict[o] /\ pc'[o] = pc[o]
          \/ /\ pc'[o] = "clear"
             /\ \/ verdict'[o] = "ok" /\ Funded(o) /\ o \in sent
                \/ verdict'[o] = "leftOpen" /\ Funded(o)
                \/ verdict'[o] = "failed" /\ Spent(o)
                \/ verdict'[o] = "closed" /\ ldk[o] = "closed"
      <3>1. CASE HearEnd(o, e)
        BY <1>3, <2>1, <2>2, <3>1 DEF HearEnd, EndWait, KeepWaiting, OpenInv, InboxInv,
           FundingInv, TypeOK
      <3>2. CASE HearSent(o, e)
        BY <1>3, <2>1, <2>2, <3>2 DEF HearSent, EndWait, KeepWaiting, OpenInv, InboxInv,
           FundingInv, TypeOK
      <3>3. CASE HearFailedTx(o, e)
        BY <1>3, <2>1, <2>2, <3>3 DEF HearFailedTx, EndWait, KeepWaiting, OpenInv, InboxInv,
           FundingInv, TypeOK
      <3>4. CASE HearFailure(o, e)
        BY <1>3, <2>1, <2>2, <3>4, EvInjective DEF HearFailure, EndWait, OpenInv, InboxInv, TypeOK
      <3>5. CASE HearOther(o, e)
        BY <3>5 DEF HearOther, KeepWaiting
      <3>. QED
        BY <2>3, <3>1, <3>2, <3>3, <3>4, <3>5
    <2>. QED
      BY <1>1, <1>3, <2>4, <2>5, <2>6 DEF OpenInv, LdkQueueInv, HandlerInv, InboxInv,
         FundingInv, WaitStateInv, VerdictInv, Spent, Funded
  <1>. QED
    BY <1>2, <1>3

(* The handler's dispatch of one LDK event keeps the invariant.            *)
LEMMA IndHandleEvent ==
    ASSUME TypeOK, NEW p \in Opens, OpenInv(p), \A o \in Opens : OpenInv(o), HandleEvent
    PROVE  OpenInv(p)'
  <1>. DEFINE e == Head(ldkQueue)
              o == e.id
  <1>1. /\ ldkQueue \in Seq(LdkEvent) /\ ldkQueue # <<>> /\ ldkQueue' = Tail(ldkQueue)
        /\ UNCHANGED <<pc, verdict, handed, early, waitState, ldk, inflight, sent>>
        /\ handler.at = "idle"
    BY DEF HandleEvent, TypeOK, waiterVars, txVars
  <1>2. /\ e \in LdkEvent /\ o \in Opens /\ Contains(ldkQueue, e)
        /\ \A f : Contains(ldkQueue', f) => Contains(ldkQueue, f)
        /\ AtMostOnce(ldkQueue, FundGen(p)) =>
              /\ AtMostOnce(ldkQueue', FundGen(p))
              /\ e = FundGen(p) => ~Contains(ldkQueue', FundGen(p))
    BY <1>1, LdkQueueProperties DEF LdkEvent
  <1>3. \/ e = Ev("ChannelClosed", o) /\ handler' = handler /\ Emit(Ev("CloseChannel", o))
        \/ e = FundGen(o) /\ handler' = [at |-> "create", ch |-> o] /\ inbox' = inbox
    BY <1>2, EvFields DEF HandleEvent, FundGen
  <1>. HIDE DEF e
  <1>4. LdkQueueInv(p)'
    BY <1>1, <1>2 DEF OpenInv, LdkQueueInv
  <1>5. CASE e = Ev("ChannelClosed", o) /\ handler' = handler /\ Emit(Ev("CloseChannel", o))
    <2>1. ldk[o] = "closed"
      BY <1>2, <1>5 DEF OpenInv, LdkQueueInv
    <2>2. \A f : Contains(inbox'[p], f) => Contains(inbox[p], f) \/ f = Ev("CloseChannel", o)
      BY <1>2, <1>5, EmitProperties, EventTypes DEF TypeOK
    <2>3. /\ Spent(p) => Spent(p)'
          /\ \A k : k # "CloseChannel" =>
                (Contains(inbox'[p], Ev(k, p)) => Contains(inbox[p], Ev(k, p)))
          /\ Contains(inbox'[p], Ev("CloseChannel", p))
             => Contains(inbox[p], Ev("CloseChannel", p)) \/ o = p
      BY <1>1, <1>2, <1>5, <2>2, EvInjective DEF Spent
    <2>. QED
      BY <1>1, <1>2, <1>4, <1>5, <2>1, <2>3 DEF OpenInv, HandlerInv, InboxInv,
         FundingInv, WaitStateInv, VerdictInv, Spent, Funded
  <1>6. CASE e = FundGen(o) /\ handler' = [at |-> "create", ch |-> o] /\ inbox' = inbox
    <2>1. ldk[o] \in {"ready", "closed"}
      BY <1>2, <1>6 DEF OpenInv, LdkQueueInv
    <2>2. p = o => e = FundGen(p)
      BY <1>6
    <2>. QED
      BY <1>1, <1>2, <1>4, <1>6, <2>1, <2>2 DEF OpenInv, LdkQueueInv, HandlerInv, InboxInv,
         FundingInv, WaitStateInv, VerdictInv, Spent, Funded
  <1>. QED
    BY <1>3, <1>5, <1>6

(* Adding one event to the subscriptions disturbs only what is said of     *)
(* that event.                                                             *)
LEMMA EmitEffect ==
    ASSUME TypeOK, NEW p \in Opens, NEW k, NEW t, Ev(k, t) \in Event, Emit(Ev(k, t))
    PROVE  \A l : l # k \/ p # t =>
              (Contains(inbox'[p], Ev(l, p)) => Contains(inbox[p], Ev(l, p)))
  <1>1. \A f : Contains(inbox'[p], f) => Contains(inbox[p], f) \/ f = Ev(k, t)
    BY EmitProperties DEF TypeOK
  <1>. QED
    BY <1>1, EvInjective

(* The wallet's answer, a transaction or an error, keeps the invariant.    *)
LEMMA IndCreateTransaction ==
    ASSUME TypeOK, NEW p \in Opens, OpenInv(p), CreateTransaction
    PROVE  OpenInv(p)'
  BY DEF CreateTransaction, HandlerGoto, TypeOK, OpenInv, LdkQueueInv, InboxInv, HandlerInv,
         FundingInv, WaitStateInv, VerdictInv, Spent, Funded, waiterVars, ldkVars, txVars

(* funding_transaction_generated_if_waiting keeps the invariant: LDK is    *)
(* funded and the wait state set Accepted in one step, and never after an  *)
(* abandon.                                                                *)
LEMMA IndHandOff ==
    ASSUME TypeOK, NEW p \in Opens, OpenInv(p), HandOff
    PROVE  OpenInv(p)'
  <1>. DEFINE o == handler.ch
  <1>1. /\ UNCHANGED <<pc, verdict, handed, early, inbox, ldkQueue, inflight, sent>>
        /\ handler.at = "handoff" /\ o \in Opens /\ handler'.ch = o
    BY DEF HandOff, HandlerGoto, TypeOK, waiterVars, txVars
  <1>2. CASE handler'.at = "report" /\ UNCHANGED <<waitState, ldk>>
    BY <1>1, <1>2 DEF OpenInv, LdkQueueInv, InboxInv, HandlerInv, FundingInv, WaitStateInv,
       VerdictInv, Spent, Funded
  <1>3. CASE /\ waitState[o] # "Abandoned" /\ ldk[o] = "ready"
             /\ ldk' = [ldk EXCEPT ![o] = "funded"]
             /\ waitState' = [waitState EXCEPT ![o] = "Accepted"]
             /\ handler'.at = "announce"
    <2>1. CASE p = o
      <3>1. ldk'[p] = "funded" /\ waitState'[p] = "Accepted"
        BY <1>3, <2>1 DEF TypeOK
      <3>2. ~Spent(p)
        BY <1>1, <1>3, <2>1 DEF Spent
      <3>. QED
        BY <1>1, <1>3, <2>1, <3>1, <3>2 DEF OpenInv, LdkQueueInv, InboxInv, HandlerInv,
           FundingInv, WaitStateInv, VerdictInv, Funded
    <2>2. CASE p # o
      <3>1. ldk'[p] = ldk[p] /\ waitState'[p] = waitState[p]
        BY <1>3, <2>2 DEF TypeOK
      <3>. QED
        BY <1>1, <2>2, <3>1 DEF OpenInv, LdkQueueInv, InboxInv, HandlerInv, FundingInv,
           WaitStateInv, VerdictInv, Spent, Funded
    <2>. QED
      BY <2>1, <2>2
  <1>. QED
    BY <1>2, <1>3 DEF HandOff, HandlerGoto, TypeOK

(* FundingChannelEnd is only emitted for an open LDK has accepted.         *)
LEMMA IndAnnounce ==
    ASSUME TypeOK, NEW p \in Opens, OpenInv(p), AnnounceFunding
    PROVE  OpenInv(p)'
  <1>1. /\ UNCHANGED <<pc, verdict, handed, early, waitState, ldk, ldkQueue, inflight, sent>>
        /\ handler.at = "announce" /\ handler'.at = "idle" /\ handler'.ch # p
    BY OpensAssumption DEF AnnounceFunding, waiterVars, ldkVars, txVars
  <1>2. Ev("FundingChannelEnd", handler.ch) \in Event
    BY <1>1, EventTypes DEF TypeOK
  <1>3. \A l : l # "FundingChannelEnd" \/ p # handler.ch =>
              (Contains(inbox'[p], Ev(l, p)) => Contains(inbox[p], Ev(l, p)))
    BY <1>2, EmitEffect DEF AnnounceFunding
  <1>. QED
    BY <1>1, <1>3 DEF OpenInv, LdkQueueInv, InboxInv, HandlerInv, FundingInv, WaitStateInv,
       VerdictInv, Spent, Funded

(* FundingChannelFailed is only emitted for a channel that is spent.       *)
LEMMA IndReport ==
    ASSUME TypeOK, NEW p \in Opens, OpenInv(p), ReportFailure
    PROVE  OpenInv(p)'
  <1>1. /\ UNCHANGED <<pc, verdict, handed, early, waitState, ldk, ldkQueue, inflight, sent>>
        /\ handler.at = "report" /\ handler'.at = "drop" /\ handler'.ch = handler.ch
    BY DEF ReportFailure, HandlerGoto, TypeOK, waiterVars, ldkVars, txVars
  <1>2. Ev("FailedChannel", handler.ch) \in Event
    BY <1>1, EventTypes DEF TypeOK
  <1>3. \A l : l # "FailedChannel" \/ p # handler.ch =>
              (Contains(inbox'[p], Ev(l, p)) => Contains(inbox[p], Ev(l, p)))
    BY <1>2, EmitEffect DEF ReportFailure
  <1>. QED
    BY <1>1, <1>3 DEF OpenInv, LdkQueueInv, InboxInv, HandlerInv, FundingInv, WaitStateInv,
       VerdictInv, Spent, Funded

(* LDK's FundingGenerationReady, queued once per channel, keeps the        *)
(* invariant.                                                              *)
LEMMA IndNegotiated ==
    ASSUME TypeOK, NEW p \in Opens, OpenInv(p), NEW o \in Opens, Negotiated(o)
    PROVE  OpenInv(p)'
  <1>1. /\ UNCHANGED <<pc, verdict, handed, early, inbox, waitState, handler, inflight, sent>>
        /\ ldk[o] = "negotiating" /\ ldkQueue' = Append(ldkQueue, FundGen(o))
        /\ ldk' = [ldk EXCEPT ![o] = "ready"]
    BY DEF Negotiated, FundGen, waiterVars, txVars
  <1>2. ldkQueue \in Seq(LdkEvent) /\ FundGen(o) \in LdkEvent
    BY EventTypes DEF TypeOK
  <1>3. /\ \A f : Contains(ldkQueue', f) <=> Contains(ldkQueue, f) \/ f = FundGen(o)
        /\ AtMostOnce(ldkQueue', FundGen(p))
    BY <1>1, <1>2, LdkQueueProperties, LdkEventsDiffer DEF OpenInv, LdkQueueInv
  <1>4. CASE p = o
    <2>1. ldk[p] = "negotiating" /\ ldk'[p] = "ready"
      BY <1>1, <1>4 DEF TypeOK
    <2>2. handler.ch = p => handler.at = "idle"
      BY <2>1 DEF OpenInv, HandlerInv, Funded, Spent, TypeOK
    <2>. QED
      BY <1>1, <1>3, <1>4, <2>1, <2>2, LdkEventsDiffer DEF OpenInv, LdkQueueInv, InboxInv, HandlerInv,
         FundingInv, WaitStateInv, VerdictInv, Spent, Funded
  <1>5. CASE p # o
    <2>1. ldk'[p] = ldk[p]
      BY <1>1, <1>5 DEF TypeOK
    <2>. QED
      BY <1>1, <1>3, <1>5, <2>1, LdkEventsDiffer DEF OpenInv, LdkQueueInv, InboxInv, HandlerInv,
         FundingInv, WaitStateInv, VerdictInv, Spent, Funded
  <1>. QED
    BY <1>4, <1>5

(* What happens to a funded channel keeps the invariant.                   *)
LEMMA IndFundedSteps ==
    ASSUME TypeOK, NEW p \in Opens, OpenInv(p), NEW o \in Opens,
           PeerClosesFunded(o) \/ BroadcastFunding(o)
    PROVE  OpenInv(p)'
  <1>1. CASE PeerClosesFunded(o)
    BY <1>1 DEF PeerClosesFunded, TypeOK, OpenInv, LdkQueueInv, InboxInv, HandlerInv,
       FundingInv, WaitStateInv, VerdictInv, Spent, Funded, waiterVars, txVars
  <1>2. CASE BroadcastFunding(o)
    BY <1>2 DEF BroadcastFunding, TypeOK, OpenInv, LdkQueueInv, InboxInv, HandlerInv,
       FundingInv, WaitStateInv, VerdictInv, Spent, Funded, waiterVars, ldkVars
  <1>. QED
    BY <1>1, <1>2

(* The answers to broadcasts keep the invariant: they concern funded       *)
(* opens, or transactions that belong to no open.                          *)
LEMMA IndBroadcasts ==
    ASSUME TypeOK, NEW p \in Opens, OpenInv(p),
           \/ \E o \in Opens : BroadcastAnswered(o)
           \/ \E t \in OtherTxs : BroadcastOther(t)
    PROVE  OpenInv(p)'
  <1>1. ASSUME NEW t \in Txs, NEW k \in {"SendRawTransaction", "FailedTx"},
               Emit(Ev(k, t)), t = p => Funded(p),
               k = "SendRawTransaction" /\ t = p => p \in sent',
               p \in sent => p \in sent', p \in sent' => p \in sent \/ t = p,
               p \in inflight' => p \in inflight,
               UNCHANGED <<pc, verdict, handed, early, waitState, ldk, ldkQueue, handler>>
        PROVE  OpenInv(p)'
    <2>1. Ev(k, t) \in Event
      BY EventTypes
    <2>2. \A l : l # k \/ p # t =>
              (Contains(inbox'[p], Ev(l, p)) => Contains(inbox[p], Ev(l, p)))
      BY <1>1, <2>1, EmitEffect
    <2>. QED
      BY <1>1, <2>2 DEF OpenInv, LdkQueueInv, InboxInv, HandlerInv, FundingInv, WaitStateInv,
         VerdictInv, Spent, Funded
  <1>2. ASSUME NEW o \in Opens, BroadcastAnswered(o)
        PROVE  OpenInv(p)'
    <2>1. o = p => Funded(p)
      BY <1>2 DEF BroadcastAnswered, OpenInv, FundingInv
    <2>2. /\ UNCHANGED <<pc, verdict, handed, early, waitState, ldk, ldkQueue, handler>>
          /\ inflight' = inflight \ {o} /\ o \in Txs
      BY <1>2 DEF BroadcastAnswered, waiterVars, ldkVars, Txs
    <2>3. \/ Emit(Ev("SendRawTransaction", o)) /\ sent' = sent \cup {o}
          \/ Emit(Ev("FailedTx", o)) /\ sent' = sent
      BY <1>2 DEF BroadcastAnswered
    <2>4. CASE Emit(Ev("SendRawTransaction", o)) /\ sent' = sent \cup {o}
      BY <1>1, <2>1, <2>2, <2>4
    <2>5. CASE Emit(Ev("FailedTx", o)) /\ sent' = sent
      BY <1>1, <2>1, <2>2, <2>5
    <2>. QED
      BY <2>3, <2>4, <2>5
  <1>3. ASSUME NEW t \in OtherTxs, BroadcastOther(t)
        PROVE  OpenInv(p)'
    <2>1. t # p /\ t \in Txs
      BY TxsDisjoint DEF Txs
    <2>. QED
      BY <1>1, <1>3, <2>1 DEF BroadcastOther, waiterVars, ldkVars
  <1>. QED
    BY <1>2, <1>3

(* Every step preserves the inductive invariant.                           *)
LEMMA IndNext == TypeOK /\ IndInv /\ [Next]_vars => IndInv'
  <1>. SUFFICES ASSUME TypeOK, IndInv, [Next]_vars, NEW p \in Opens
                PROVE  OpenInv(p)'
    BY DEF IndInv
  <1>. \A o \in Opens : OpenInv(o)
    BY DEF IndInv
  <1>1. CASE UNCHANGED vars
    BY <1>1 DEF vars, waiterVars, ldkVars, txVars, OpenInv, LdkQueueInv, InboxInv, HandlerInv,
       FundingInv, WaitStateInv, VerdictInv, Spent, Funded
  <1>2. ASSUME NEW o \in Opens, Waiter(o)
        PROVE  OpenInv(p)'
    BY <1>2, IndSubscribe, IndCreate, IndHear, IndQuiet, IndAbandon, IndCloseAbandoned,
       IndClear DEF Waiter
  <1>3. ASSUME NEW o \in Opens, Environment(o) \/ Expire(o)
        PROVE  OpenInv(p)'
    BY <1>3, IndNegotiated, IndPeerCloses, IndFundedSteps, IndBroadcasts, IndQuiet
       DEF Environment
  <1>4. CASE Handler
    BY <1>4, IndHandleEvent, IndCreateTransaction, IndHandOff, IndAnnounce, IndReport,
       IndDropChannel DEF Handler
  <1>5. CASE \E t \in OtherTxs : BroadcastOther(t)
    BY <1>5, IndBroadcasts
  <1>. QED
    BY <1>1, <1>2, <1>3, <1>4, <1>5 DEF Next

(* In every reachable state the queues, the handler, the wait state, LDK   *)
(* and the verdict of every open agree.                                    *)
THEOREM Inductive == Spec => []IndInv
  BY IndInit, IndNext, TypeCorrect, PTL DEF Spec

(* A retryable answer is never given for a funding LDK has accepted or     *)
(* will accept, for any number of concurrent opens.                        *)
THEOREM RetrySafe == Spec => []RetryNeverFunded
  <1>1. IndInv => RetryNeverFunded
    BY DEF IndInv, OpenInv, VerdictInv, WaitStateInv, Spent, Funded, RetryNeverFunded, Retryable
  <1>. QED
    BY <1>1, Inductive, PTL

(* Neither the timeout nor the handler's cleanup ever force-closes a       *)
(* channel whose funding was handed over.                                  *)
THEOREM HandoffSafe == Spec => []NoForceCloseAfterHandoff
  <1>1. IndInv => NoForceCloseAfterHandoff
    BY DEF IndInv, OpenInv, FundingInv, NoForceCloseAfterHandoff
  <1>. QED
    BY <1>1, Inductive, PTL

(* "Opened" is answered for this open's own broadcast only, and "left      *)
(* open" only for a channel LDK accepted.                                  *)
THEOREM AnswersTrue == Spec => [](SuccessIsOwnBroadcast /\ LeftOpenIsFunded)
  <1>1. IndInv => SuccessIsOwnBroadcast /\ LeftOpenIsFunded
    BY DEF IndInv, OpenInv, VerdictInv, SuccessIsOwnBroadcast, LeftOpenIsFunded
  <1>. QED
    BY <1>1, Inductive, PTL

-----------------------------------------------------------------------------
(* What a waiter reads of the broadcasts, and what it keeps of them. *)

EarlyInv(o) ==
    /\ <<o, "end">> \in heard <=> o \in handed
    /\ <<o, "sent">> \in heard /\ <<o, "overtaken">> \notin heard =>
          IF o \in handed THEN verdict[o] # "none" ELSE early[o] = o

(* A step in which the waiter reads nothing, and may be answered.          *)
LEMMA EarlyQuiet ==
    ASSUME NEW p \in Opens, EarlyInv(p), UNCHANGED <<heard, handed, early>>,
           verdict'[p] = "none" => verdict[p] = "none"
    PROVE  EarlyInv(p)'
  BY DEF EarlyInv

LEMMA EarlyHear ==
    ASSUME TypeOK, NEW p \in Opens, EarlyInv(p), NEW o \in Opens, Hear(o)
    PROVE  EarlyInv(p)'
  <1>. DEFINE e == Head(inbox[o])
  <1>1. HearEnd(o, e) \/ HearSent(o, e) \/ HearFailedTx(o, e) \/ HearFailure(o, e)
        \/ HearOther(o, e)
    BY DEF Hear
  <1>. HIDE DEF e
  <1>2. /\ \A q \in Opens \ {o} : verdict'[q] = verdict[q]
        /\ verdict'[o] = "none" => verdict[o] = "none"
    BY <1>1 DEF HearEnd, HearSent, HearFailedTx, HearFailure, HearOther, EndWait,
       KeepWaiting, TypeOK, Verdicts
  <1>3. CASE p # o
    <2>1. /\ p \in handed' <=> p \in handed
          /\ early'[p] = early[p]
          /\ \A w \in {"end", "sent", "overtaken"} : <<p, w>> \in heard' <=> <<p, w>> \in heard
      BY <1>1, <1>3 DEF HearEnd, HearSent, HeardSent, HearFailedTx, HearFailure, HearOther,
         TypeOK
    <2>. QED
      BY <1>2, <1>3, <2>1 DEF EarlyInv
  <1>4. CASE p = o
    <2>1. CASE HearEnd(o, e)
      <3>1. /\ handed' = handed \cup {o} /\ heard' = heard \cup {<<o, "end">>}
            /\ early[o] = o => verdict'[o] = "ok"
        BY <2>1 DEF HearEnd, EndWait, TypeOK
      <3>. QED
        BY <1>2, <1>4, <3>1 DEF EarlyInv
    <2>2. CASE HearSent(o, e)
      <3>1. /\ heard' = HeardSent(o, e.id)
            /\ early'[o] = IF o \in handed THEN early[o] ELSE e.id
            /\ UNCHANGED handed
            /\ o \in handed /\ e.id = o => verdict'[o] = "ok"
        BY <2>2 DEF HearSent, EndWait, TypeOK
      <3>2. CASE e.id = o
        <4>1. heard' = (heard \ {<<o, "overtaken">>}) \cup {<<o, "sent">>}
          BY <3>1, <3>2 DEF HeardSent
        <4>. QED
          BY <1>4, <3>1, <3>2, <4>1 DEF EarlyInv
      <3>3. CASE e.id # o
        <4>1. /\ <<o, "end">> \in heard' <=> <<o, "end">> \in heard
              /\ <<o, "sent">> \in heard' <=> <<o, "sent">> \in heard
              /\ <<o, "overtaken">> \in heard => <<o, "overtaken">> \in heard'
              /\ <<o, "sent">> \in heard /\ o \notin handed => <<o, "overtaken">> \in heard'
          BY <3>1, <3>3 DEF HeardSent
        <4>. QED
          BY <1>2, <1>4, <3>1, <4>1 DEF EarlyInv
      <3>. QED
        BY <3>2, <3>3
    <2>3. CASE HearFailedTx(o, e) \/ HearFailure(o, e) \/ HearOther(o, e)
      <3>1. /\ UNCHANGED <<handed, early>>
            /\ \A w \in {"end", "sent", "overtaken"} : <<o, w>> \in heard' <=> <<o, w>> \in heard
        BY <2>3 DEF HearFailedTx, HearFailure, HearOther
      <3>. QED
        BY <1>2, <1>4, <3>1 DEF EarlyInv
    <2>. QED
      BY <1>1, <2>1, <2>2, <2>3
  <1>. QED
    BY <1>3, <1>4

LEMMA EarlyNext ==
    ASSUME TypeOK, [Next]_vars, NEW p \in Opens, EarlyInv(p)
    PROVE  EarlyInv(p)'
  <1>1. ASSUME UNCHANGED waiterVars
        PROVE  EarlyInv(p)'
    BY <1>1, EarlyQuiet DEF waiterVars
  <1>2. CASE UNCHANGED vars
    BY <1>1, <1>2 DEF vars
  <1>3. ASSUME NEW o \in Opens, Waiter(o)
        PROVE  EarlyInv(p)'
    <2>1. CASE Hear(o)
      BY <2>1, EarlyHear
    <2>2. CASE Subscribe(o) \/ CreateChannel(o) \/ StartDrain(o) \/ EndDrain(o)
               \/ AbandonIfUnaccepted(o) \/ CloseAbandoned(o) \/ ClearFundingWait(o)
      <3>1. UNCHANGED <<heard, handed, early>>
        BY <2>2 DEF Subscribe, CreateChannel, StartDrain, EndDrain, AbandonIfUnaccepted,
           CloseAbandoned, ClearFundingWait, waiterVars
      <3>2. \/ UNCHANGED verdict
            \/ \E v \in Verdicts : verdict' = [verdict EXCEPT ![o] = v]
        BY <2>2 DEF Subscribe, CreateChannel, StartDrain, EndDrain, AbandonIfUnaccepted,
           CloseAbandoned, ClearFundingWait, waiterVars, Verdicts
      <3>. QED
        BY <3>1, <3>2, EarlyQuiet DEF TypeOK, Verdicts
    <2>. QED
      BY <1>3, <2>1, <2>2 DEF Waiter
  <1>4. ASSUME NEW o \in Opens, Expire(o)
        PROVE  EarlyInv(p)'
    BY <1>4, EarlyQuiet DEF Expire
  <1>5. ASSUME NEW o \in Opens, Environment(o)
        PROVE  EarlyInv(p)'
    BY <1>1, <1>5 DEF Environment, BroadcastAnswered, Negotiated, PeerCloses,
       PeerClosesFunded, BroadcastFunding
  <1>6. CASE Handler
    BY <1>1, <1>6 DEF Handler, HandleEvent, CreateTransaction, HandOff, AnnounceFunding,
       ReportFailure, DropChannel
  <1>7. ASSUME NEW t \in OtherTxs, BroadcastOther(t)
        PROVE  EarlyInv(p)'
    BY <1>1, <1>7 DEF BroadcastOther
  <1>. QED
    BY <1>2, <1>3, <1>4, <1>5, <1>6, <1>7 DEF Next

(* A broadcast of the funding transaction that is announced before         *)
(* FundingChannelEnd completes the open, unless another broadcast is read  *)
(* between the two.                                                        *)
THEOREM EarlyBroadcastKept == Spec => []EarlyBroadcastHonoured
  <1>. DEFINE Early == \A p \in Opens : EarlyInv(p)
  <1>1. Init => Early
    BY DEF Init, EarlyInv
  <1>2. TypeOK /\ Early /\ [Next]_vars => Early'
    BY EarlyNext
  <1>3. Early => EarlyBroadcastHonoured
    BY DEF EarlyInv, EarlyBroadcastHonoured
  <1>. QED
    BY <1>1, <1>2, <1>3, TypeCorrect, PTL DEF Spec

-----------------------------------------------------------------------------
(* The requests keep the promise of OpenPromise. *)

(* The abstract view changes only when funding, broadcasts or answers do.  *)
LEMMA PromiseStutters ==
    ASSUME \A p \in Opens : (Funded(p)' <=> Funded(p)) /\ AnswerOf(p)' = AnswerOf(p),
           sent' \cap Opens = sent \cap Opens
    PROVE  UNCHANGED Promise!promiseVars
  <1>1. {p \in Opens : Funded(p)}' = {p \in Opens : Funded(p)}
    OBVIOUS
  <1>2. [p \in Opens |-> AnswerOf(p)]' = [p \in Opens |-> AnswerOf(p)]
    OBVIOUS
  <1>. QED
    BY <1>1, <1>2 DEF Promise!promiseVars

(* A request that gets its answer takes the abstract Answer step.          *)
LEMMA PromiseAnswers ==
    ASSUME NEW o \in Opens, \A p \in Opens : Funded(p)' <=> Funded(p), sent' = sent,
           \A p \in Opens \ {o} : AnswerOf(p)' = AnswerOf(p), AnswerOf(o) = "none",
           \/ AnswerOf(o)' = "opened" /\ o \in sent
           \/ AnswerOf(o)' = "leftOpen" /\ Funded(o)
           \/ AnswerOf(o)' = "retry" /\ ~Funded(o)
    PROVE  Promise!Next
  <1>. DEFINE answer == [p \in Opens |-> AnswerOf(p)]
  <1>1. {p \in Opens : Funded(p)}' = {p \in Opens : Funded(p)}
    OBVIOUS
  <1>2. answer' = [answer EXCEPT ![o] = AnswerOf(o)']
    OBVIOUS
  <1>3. Promise!Answer(o, AnswerOf(o)')
    BY <1>1, <1>2 DEF Promise!Answer
  <1>. QED
    BY <1>3 DEF Promise!Next

(* Steps that leave LDK, the broadcasts and the verdicts of answered       *)
(* requests alone are invisible.                                           *)
LEMMA PromiseQuiet ==
    ASSUME UNCHANGED <<ldk, sent>>,
           \A p \in Opens : /\ pc'[p] = "done" <=> pc[p] = "done"
                            /\ pc[p] = "done" => verdict'[p] = verdict[p]
    PROVE  UNCHANGED Promise!promiseVars
  <1>1. \A p \in Opens : (Funded(p)' <=> Funded(p)) /\ AnswerOf(p)' = AnswerOf(p)
    BY DEF Funded, AnswerOf
  <1>. QED
    BY <1>1, PromiseStutters

(* A step of open_channel answers its request as promised, or stutters.    *)
LEMMA PromiseWaiter ==
    ASSUME TypeOK, IndInv, NEW o \in Opens, Waiter(o)
    PROVE  Promise!Next \/ UNCHANGED Promise!promiseVars
  <1>0. OpenInv(o)
    BY DEF IndInv
  <1>1. CASE Subscribe(o) \/ StartDrain(o)
    BY <1>1, PromiseQuiet DEF Subscribe, StartDrain, TypeOK, ldkVars, txVars
  <1>2. CASE Hear(o)
    <2>1. /\ UNCHANGED <<ldk, sent>> /\ pc[o] \in {"wait", "drain"}
          /\ \/ pc' = pc /\ verdict' = verdict
             \/ /\ pc' = [pc EXCEPT ![o] = "clear"]
                /\ \E v \in Verdicts : verdict' = [verdict EXCEPT ![o] = v]
      BY <1>2 DEF Hear, HearEnd, HearSent, HearFailedTx, HearFailure, HearOther, EndWait,
         KeepWaiting, Verdicts, ldkVars, txVars
    <2>. QED
      BY <2>1, PromiseQuiet DEF TypeOK
  <1>3. CASE CreateChannel(o)
    <2>0. ldk[o] = "none"
      BY <1>0, <1>3 DEF CreateChannel, OpenInv, FundingInv
    <2>1. /\ \A p \in Opens : Funded(p)' <=> Funded(p)
          /\ \A p \in Opens \ {o} : AnswerOf(p)' = AnswerOf(p)
          /\ sent' = sent /\ AnswerOf(o) = "none"
      BY <1>3, <2>0 DEF CreateChannel, Funded, AnswerOf, TypeOK, txVars
    <2>2. AnswerOf(o)' \in {"none", "retry"} /\ ~Funded(o)
      BY <1>3, <2>0 DEF CreateChannel, Funded, AnswerOf, TypeOK
    <2>. QED
      BY <2>1, <2>2, PromiseAnswers, PromiseStutters
  <1>4. CASE EndDrain(o) \/ AbandonIfUnaccepted(o)
    <2>1. /\ \A p \in Opens : Funded(p)' <=> Funded(p)
          /\ \A p \in Opens \ {o} : AnswerOf(p)' = AnswerOf(p)
          /\ sent' = sent /\ AnswerOf(o) = "none"
      BY <1>4 DEF EndDrain, AbandonIfUnaccepted, Funded, AnswerOf, TypeOK, ldkVars, txVars
    <2>2. AnswerOf(o)' = "none" \/ (AnswerOf(o)' = "leftOpen" /\ Funded(o))
      BY <1>0, <1>4 DEF EndDrain, AbandonIfUnaccepted, OpenInv, FundingInv, WaitStateInv,
         AnswerOf, TypeOK
    <2>. QED
      BY <2>1, <2>2, PromiseAnswers, PromiseStutters
  <1>5. CASE CloseAbandoned(o)
    <2>0. ~Funded(o)
      BY <1>0, <1>5 DEF CloseAbandoned, OpenInv, WaitStateInv
    <2>1. /\ \A p \in Opens : Funded(p)' <=> Funded(p)
          /\ \A p \in Opens \ {o} : AnswerOf(p)' = AnswerOf(p)
          /\ sent' = sent /\ AnswerOf(o) = "none"
      BY <1>5, <2>0 DEF CloseAbandoned, ForceCloseSucceeds, ForceCloseFails, Funded,
         AnswerOf, TypeOK, ldkVars, txVars
    <2>2. AnswerOf(o)' \in {"none", "retry"}
      BY <1>5 DEF CloseAbandoned, AnswerOf, TypeOK
    <2>. QED
      BY <2>0, <2>1, <2>2, PromiseAnswers, PromiseStutters
  <1>6. CASE ClearFundingWait(o)
    <2>1. /\ \A p \in Opens : Funded(p)' <=> Funded(p)
          /\ \A p \in Opens \ {o} : AnswerOf(p)' = AnswerOf(p)
          /\ sent' = sent /\ AnswerOf(o) = "none"
      BY <1>6 DEF ClearFundingWait, Funded, AnswerOf, TypeOK, ldkVars, txVars
    <2>2. pc'[o] = "done" /\ verdict' = verdict /\ pc[o] = "clear"
      BY <1>6 DEF ClearFundingWait, TypeOK
    <2>3. \/ AnswerOf(o)' = "opened" /\ o \in sent
          \/ AnswerOf(o)' = "leftOpen" /\ Funded(o)
          \/ AnswerOf(o)' = "retry" /\ ~Funded(o)
      BY <1>0, <2>2 DEF AnswerOf, OpenInv, VerdictInv, Spent, Funded, TypeOK, Verdicts
    <2>. QED
      BY <2>1, <2>3, PromiseAnswers
  <1>. QED
    BY <1>1, <1>2, <1>3, <1>4, <1>5, <1>6 DEF Waiter

(* The handoff funds an open that is still unanswered, or stutters.        *)
LEMMA PromiseHandOff ==
    ASSUME TypeOK, IndInv, HandOff
    PROVE  Promise!Next \/ UNCHANGED Promise!promiseVars
  <1>. DEFINE o == handler.ch
  <1>1. /\ UNCHANGED <<pc, verdict, sent>>
        /\ handler.at = "handoff" /\ o \in Opens
    BY DEF HandOff, TypeOK, waiterVars, txVars
  <1>2. CASE UNCHANGED ldk
    BY <1>1, <1>2, PromiseQuiet
  <1>3. CASE waitState[o] # "Abandoned" /\ ldk[o] = "ready" /\ ldk' = [ldk EXCEPT ![o] = "funded"]
    <2>1. ~Funded(o) /\ ~Spent(o)
      BY <1>1, <1>3 DEF Funded, Spent
    <2>2. AnswerOf(o) = "none"
      BY <1>1, <1>3, <2>1 DEF IndInv, OpenInv, VerdictInv, AnswerOf, TypeOK, Verdicts
    <2>3. {p \in Opens : Funded(p)}' = {p \in Opens : Funded(p)} \cup {o}
      BY <1>1, <1>3 DEF Funded, TypeOK
    <2>4. [p \in Opens |-> AnswerOf(p)]' = [p \in Opens |-> AnswerOf(p)]
      BY <1>1 DEF AnswerOf
    <2>5. Promise!Fund(o)
      BY <1>1, <2>1, <2>2, <2>3, <2>4 DEF Promise!Fund
    <2>. QED
      BY <1>1, <2>5 DEF Promise!Next
  <1>. QED
    BY <1>2, <1>3 DEF HandOff

(* Every step of the event handler is a Fund step or a stutter.            *)
LEMMA PromiseHandler ==
    ASSUME TypeOK, IndInv, Handler
    PROVE  Promise!Next \/ UNCHANGED Promise!promiseVars
  <1>1. CASE HandleEvent \/ CreateTransaction \/ AnnounceFunding \/ ReportFailure
    BY <1>1, PromiseQuiet DEF HandleEvent, CreateTransaction, AnnounceFunding, ReportFailure,
       waiterVars, ldkVars, txVars
  <1>2. CASE HandOff
    BY <1>2, PromiseHandOff
  <1>3. CASE DropChannel
    <2>. DEFINE o == handler.ch
    <2>1. o \in Opens /\ ~Funded(o)
      BY <1>3 DEF DropChannel, TypeOK, IndInv, OpenInv, HandlerInv, Spent, Funded
    <2>2. \A p \in Opens : (Funded(p)' <=> Funded(p)) /\ AnswerOf(p)' = AnswerOf(p)
      BY <1>3, <2>1 DEF DropChannel, ForceCloseSucceeds, ForceCloseFails, Funded, AnswerOf,
         TypeOK, waiterVars, ldkVars
    <2>. QED
      BY <1>3, <2>2, PromiseStutters DEF DropChannel, txVars
  <1>. QED
    BY <1>1, <1>2, <1>3 DEF Handler

(* LDK, the peer and the broadcast tasks publish a funded transaction, or  *)
(* stutter.                                                                *)
LEMMA PromiseEnvironment ==
    ASSUME TypeOK, IndInv,
           \/ \E o \in Opens : Environment(o) \/ Expire(o)
           \/ \E t \in OtherTxs : BroadcastOther(t)
    PROVE  Promise!Next \/ UNCHANGED Promise!promiseVars
  <1>1. ASSUME NEW o \in Opens,
               Negotiated(o) \/ PeerCloses(o) \/ PeerClosesFunded(o) \/ BroadcastFunding(o)
                 \/ Expire(o)
        PROVE  UNCHANGED Promise!promiseVars
    <2>1. \A p \in Opens : Funded(p)' <=> Funded(p)
      BY <1>1 DEF Negotiated, PeerCloses, PeerClosesFunded, BroadcastFunding, Expire, Funded,
         TypeOK, ldkVars
    <2>2. UNCHANGED <<pc, verdict, sent>>
      BY <1>1 DEF Negotiated, PeerCloses, PeerClosesFunded, BroadcastFunding, Expire,
         waiterVars, txVars
    <2>. QED
      BY <2>1, <2>2, PromiseStutters DEF AnswerOf
  <1>2. ASSUME NEW o \in Opens, BroadcastAnswered(o)
        PROVE  Promise!Next \/ UNCHANGED Promise!promiseVars
    <2>1. Funded(o)
      BY <1>2 DEF BroadcastAnswered, IndInv, OpenInv, FundingInv
    <2>2. /\ {p \in Opens : Funded(p)}' = {p \in Opens : Funded(p)}
          /\ [p \in Opens |-> AnswerOf(p)]' = [p \in Opens |-> AnswerOf(p)]
      BY <1>2 DEF BroadcastAnswered, Funded, AnswerOf, waiterVars, ldkVars
    <2>3. CASE sent' = sent
      BY <2>2, <2>3 DEF Promise!promiseVars
    <2>4. CASE sent' = sent \cup {o}
      <3>1. (sent \cap Opens)' = (sent \cap Opens) \cup {o}
        BY <2>4
      <3>2. Promise!Publish(o)
        BY <2>1, <2>2, <3>1 DEF Promise!Publish
      <3>. QED
        BY <3>2 DEF Promise!Next
    <2>. QED
      BY <1>2, <2>3, <2>4 DEF BroadcastAnswered
  <1>3. ASSUME NEW t \in OtherTxs, BroadcastOther(t)
        PROVE  UNCHANGED Promise!promiseVars
    <2>1. sent' \cap Opens = sent \cap Opens
      BY <1>3, TxsDisjoint DEF BroadcastOther
    <2>2. UNCHANGED <<pc, verdict, ldk>>
      BY <1>3 DEF BroadcastOther, waiterVars, ldkVars
    <2>. QED
      BY <2>1, <2>2, PromiseStutters DEF AnswerOf, Funded
  <1>. QED
    BY <1>1, <1>2, <1>3 DEF Environment

(* open_channel, its event handler, LDK and the broadcast tasks implement  *)
(* the promise of OpenPromise, for any set of concurrent opens.            *)
THEOREM Refinement == Spec => KeepsPromise
  <1>1. Init => Promise!Init
    BY OpensAssumption DEF Init, Promise!Init, Funded, AnswerOf
  <1>2. TypeOK /\ IndInv /\ [Next]_vars => [Promise!Next]_(Promise!promiseVars)
    <2>1. UNCHANGED vars => UNCHANGED Promise!promiseVars
      BY PromiseQuiet DEF vars, waiterVars, ldkVars, txVars
    <2>. QED
      BY <2>1, PromiseWaiter, PromiseHandler, PromiseEnvironment DEF Next
  <1>. QED
    BY <1>1, <1>2, TypeCorrect, Inductive, PTL DEF Spec, KeepsPromise, Promise!Spec

=============================================================================
