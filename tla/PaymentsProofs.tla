--------------------------- MODULE PaymentsProofs ---------------------------
(***************************************************************************)
(* The safety of Payments for any number of calls, offers, invoices, parts *)
(* and crashes.  An answered success is the call's own because of an order *)
(* that no single place of the code sees to: LDK remembers the id of a     *)
(* payment while an event of it may still come, an event of a later        *)
(* payment of the id comes after the end of an earlier one, and the        *)
(* receipt of a payment before its paths.                                  *)
(***************************************************************************)
EXTENDS Payments, TLAPS

(* Elements of the sequences that an action makes. *)
LEMMA AppendAt ==
    ASSUME NEW S, NEW s \in Seq(S), NEW x \in S
    PROVE  /\ Append(s, x) \in Seq(S)
           /\ Len(Append(s, x)) = Len(s) + 1
           /\ Len(s) \in Nat
           /\ \A i \in 1 .. Len(s) : Append(s, x)[i] = s[i]
           /\ Append(s, x)[Len(s) + 1] = x
  OBVIOUS

LEMMA TailAt ==
    ASSUME NEW S, NEW s \in Seq(S), s # <<>>
    PROVE  /\ Tail(s) \in Seq(S)
           /\ Head(s) \in S
           /\ Len(s) \in Nat \ {0}
           /\ Len(Tail(s)) = Len(s) - 1
           /\ Head(s) = s[1]
           /\ \A i \in 1 .. Len(Tail(s)) : Tail(s)[i] = s[i + 1]
  OBVIOUS

LEMMA ConcatAt ==
    ASSUME NEW S, NEW s \in Seq(S), NEW t \in Seq(S)
    PROVE  /\ s \o t \in Seq(S)
           /\ \A i \in 1 .. Len(s \o t) :
                 \/ \E j \in 1 .. Len(s) : (s \o t)[i] = s[j]
                 \/ \E j \in 1 .. Len(t) : (s \o t)[i] = t[j]
           /\ \A j \in 1 .. Len(t) : \E i \in 1 .. Len(s \o t) : (s \o t)[i] = t[j]
<1>1. /\ s \o t \in Seq(S)
      /\ Len(s) \in Nat /\ Len(t) \in Nat
      /\ Len(s \o t) = Len(s) + Len(t)
      /\ \A i \in 1 .. Len(s) : (s \o t)[i] = s[i]
      /\ \A i \in 1 .. Len(t) : (s \o t)[Len(s) + i] = t[i]
  OBVIOUS
<1>2. ASSUME NEW i \in 1 .. Len(s \o t), ~(i \in 1 .. Len(s))
      PROVE  i - Len(s) \in 1 .. Len(t) /\ (s \o t)[i] = t[i - Len(s)]
  BY <1>1, <1>2
<1>3. \A j \in 1 .. Len(t) : Len(s) + j \in 1 .. Len(s \o t)
  BY <1>1
<1> QED
  BY <1>1, <1>2, <1>3

-----------------------------------------------------------------------------
(* Types. *)

LEMMA InitType == Init => TypeOK
  BY BoundsAssumption, DisjointAssumption DEF Init, TypeOK

LEMMA EmitType ==
    ASSUME TypeOK, NEW c \in Calls, NEW kind \in {"receipt", "success", "failure"},
           pc[c] # "idle", Emit(kind, c)
    PROVE  inbox' \in [Calls -> Seq(Messages)]
<1>1. id[c] \in Ids /\ Hash(c) \in Ids
  BY DEF TypeOK, Hash, Ids
<1> DEFINE m == [kind |-> kind, id |-> id[c], hash |-> Hash(c)]
<1>2. m \in Messages
  BY <1>1 DEF Messages
<1>3. inbox' = [d \in Calls |-> IF d \in Listening THEN Append(inbox[d], m) ELSE inbox[d]]
  BY DEF Emit
<1> HIDE DEF m
<1>4. \A d \in Calls : inbox[d] \in Seq(Messages) /\ Append(inbox[d], m) \in Seq(Messages)
  BY <1>2, AppendAt DEF TypeOK
<1> QED
  BY <1>3, <1>4

LEMMA DoneType ==
    ASSUME TypeOK, queue # <<>>, Done
    PROVE  queue' \in Seq(Events) /\ acked' \in Seq(Events)
<1>1. Head(queue) \in Events /\ Tail(queue) \in Seq(Events)
  BY TailAt DEF TypeOK
<1> DEFINE NoEvents == <<>>
<1>2. acked \in Seq(Events)
  BY DEF TypeOK
<1>4. NoEvents \in Seq(Events)
  OBVIOUS
<1>3. Append(acked, Head(queue)) \in Seq(Events)
  BY <1>1, <1>2, AppendAt
<1> QED
  BY <1>1, <1>3, <1>4 DEF Done

LEMMA PushType ==
    ASSUME TypeOK, NEW c \in Calls, NEW kind \in Kinds, Push(kind, c)
    PROVE  queue' \in Seq(Events)
<1>1. [kind |-> kind, of |-> c] \in Events
  BY DEF Events
<1> QED
  BY <1>1, AppendAt DEF Push, TypeOK

(* What a call reads changes its queue and its receipt. *)
LEMMA ReadType ==
    ASSUME TypeOK, inbox' \in [Calls -> Seq(Messages)],
           receipt' \in [Calls -> Ids \cup {None}],
           UNCHANGED <<pc, id, answer, ldkVars, queue, acked, diskVars, restarts>>
    PROVE  TypeOK'
  BY DEF TypeOK, ldkVars, diskVars

LEMMA CallType ==
    ASSUME TypeOK, NEW c \in Calls, Call(c)
    PROVE  TypeOK'
<1>1. CASE JsonPay(c) \/ JsonKeysend(c)
  <2>1. PICK i \in Ids : Subscribe(c, i)
    BY <1>1 DEF JsonPay, JsonKeysend, Ids
  <2>2. i # None
    BY DisjointAssumption DEF Ids
  <2> QED
    BY <2>1, <2>2 DEF Subscribe, TypeOK, ldkVars, diskVars
<1>2. CASE PaymentAccepted(c)
  BY <1>2 DEF PaymentAccepted, TypeOK, diskVars
<1>3. ASSUME NEW result \in {"success", "failure", "error"}, Return(c, result),
             pc[c] # "idle", UNCHANGED <<id, ldkVars, queue, acked, diskVars, restarts>>
      PROVE  TypeOK'
  <2>1. <<>> \in Seq(Messages)
    OBVIOUS
  <2>2. inbox' \in [Calls -> Seq(Messages)]
    BY <1>3, <2>1 DEF Return, TypeOK
  <2> QED
    BY <1>3, <2>2 DEF Return, TypeOK, ldkVars, diskVars
<1>4. CASE PaymentRefused(c) \/ Timeout(c)
  BY <1>3, <1>4 DEF PaymentRefused, Timeout
<1>5. ASSUME Hears(c)
      PROVE  Head(inbox[c]) \in Messages /\ Tail(inbox[c]) \in Seq(Messages)
  BY <1>5, TailAt DEF Hears, TypeOK
<1>6. CASE HearReceipt(c)
  <2>1. Head(inbox[c]).hash \in Ids
    BY <1>5, <1>6 DEF HearReceipt, Messages
  <2>2. inbox' \in [Calls -> Seq(Messages)]
    BY <1>5, <1>6 DEF HearReceipt, TypeOK
  <2>3. receipt' \in [Calls -> Ids \cup {None}]
    BY <1>6, <2>1 DEF HearReceipt, TypeOK
  <2> QED
    BY <1>6, <2>2, <2>3, ReadType DEF HearReceipt
<1>7. CASE HearEnd(c)
  <2>1. Head(inbox[c]).kind \in {"success", "failure"}
    BY <1>5, <1>7 DEF HearEnd, Messages
  <2> QED
    BY <1>3, <1>7, <2>1 DEF HearEnd, Hears
<1>8. CASE HearOther(c)
  <2>1. inbox' \in [Calls -> Seq(Messages)]
    BY <1>5, <1>8 DEF HearOther, TypeOK
  <2>2. receipt' \in [Calls -> Ids \cup {None}]
    BY <1>8 DEF HearOther, TypeOK
  <2> QED
    BY <1>8, <2>1, <2>2, ReadType DEF HearOther
<1> QED
  BY <1>1, <1>2, <1>4, <1>6, <1>7, <1>8 DEF Call, wait_for_payment_result

LEMMA LdkType ==
    ASSUME TypeOK, NEW c \in Calls, Ldk(c)
    PROVE  TypeOK'
<1>1. CASE PaymentClaimable(c)
  BY <1>1 DEF PaymentClaimable, TypeOK, callVars, diskVars
<1>2. CASE Fulfilled(c)
  <2>1. queue' \in Seq(Events)
    BY <1>2, PushType DEF Fulfilled, Kinds
  <2>2. parts' \in [Calls -> 0 .. MaxParts]
    <3>1. PICK n \in 1 .. MaxParts : parts' = [parts EXCEPT ![c] = n]
      BY <1>2 DEF Fulfilled
    <3>2. n \in 0 .. MaxParts
      BY BoundsAssumption
    <3> QED
      BY <3>1, <3>2 DEF TypeOK
  <2> QED
    BY <1>2, <2>1, <2>2 DEF Fulfilled, TypeOK, callVars, diskVars
<1>3. CASE PartDone(c)
  <2>1. queue' \in Seq(Events)
    BY <1>3, PushType DEF PartDone, Kinds
  <2>2. parts' \in [Calls -> 0 .. MaxParts]
    <3>1. parts[c] \in 0 .. MaxParts
      BY DEF TypeOK
    <3>2. parts[c] - 1 \in 0 .. MaxParts
      BY <1>3, <3>1, BoundsAssumption DEF PartDone
    <3> QED
      BY <1>3, <3>2 DEF PartDone, TypeOK
  <2> QED
    BY <1>3, <2>1, <2>2 DEF PartDone, TypeOK, callVars, diskVars
<1>4. CASE GivenUp(c)
  <2>1. queue' \in Seq(Events)
    BY <1>4, PushType DEF GivenUp, Kinds
  <2> QED
    BY <1>4, <2>1 DEF GivenUp, TypeOK, callVars, diskVars
<1>5. CASE Forgotten(c)
  BY <1>5 DEF Forgotten, TypeOK, callVars, diskVars
<1> QED
  BY <1>1, <1>2, <1>3, <1>4, <1>5 DEF Ldk

LEMMA HandlerType ==
    ASSUME TypeOK, Handler,
           queue # <<>> => pc[Head(queue).of] # "idle",
           storing # None => queue # <<>>
    PROVE  TypeOK'
<1>1. ASSUME queue # <<>> PROVE Head(queue).of \in Calls
  <2>1. Head(queue) \in Events
    BY <1>1, TailAt DEF TypeOK
  <2> QED
    BY <2>1 DEF Events
<1>2. CASE PaymentSent
  <2>1. queue # <<>>
    BY <1>2 DEF PaymentSent, Current
  <2> DEFINE c == Head(queue).of
  <2>2. c \in Calls /\ pc[c] # "idle"
    BY <1>1, <2>1
  <2>3. Emit("receipt", c)
    BY <1>2 DEF PaymentSent
  <2>4. (storing' = c /\ UNCHANGED <<queue, acked>>) \/ (Done /\ UNCHANGED storing)
    BY <1>2 DEF PaymentSent
  <2>5. UNCHANGED <<pc, id, receipt, answer, ldkVars, proofs, unstored, restarts>>
    BY <1>2 DEF PaymentSent
  <2> HIDE DEF c
  <2>6. inbox' \in [Calls -> Seq(Messages)]
    BY <2>2, <2>3, EmitType
  <2>7. queue' \in Seq(Events) /\ acked' \in Seq(Events) /\ storing' \in Calls \cup {None}
    <3>1. /\ queue \in Seq(Events) /\ acked \in Seq(Events)
          /\ storing \in Calls \cup {None}
      BY DEF TypeOK
    <3>2. CASE storing' = c /\ UNCHANGED <<queue, acked>>
      BY <2>2, <3>1, <3>2
    <3>3. CASE Done /\ UNCHANGED storing
      BY <2>1, <3>1, <3>3, DoneType
    <3> QED
      BY <2>4, <3>2, <3>3
  <2> QED
    BY <2>5, <2>6, <2>7 DEF TypeOK, ldkVars
<1>3. CASE StoreProof
  <2>1. queue' \in Seq(Events) /\ acked' \in Seq(Events)
    BY <1>3, DoneType DEF StoreProof
  <2>2. storing \in Calls /\ Hash(storing) \in Ids
    BY <1>3 DEF StoreProof, TypeOK, Hash, Ids
  <2>3. unstored' \subseteq Calls
    <3>1. unstored' = unstored \cup {storing} \/ unstored' = unstored
      BY <1>3 DEF StoreProof
    <3>2. unstored \subseteq Calls
      BY DEF TypeOK
    <3> QED
      BY <2>2, <3>1, <3>2
  <2>4. \A h \in DOMAIN proofs' : h \in Ids /\ proofs'[h] \in Calls
    <3>1. CASE UNCHANGED proofs
      BY <3>1 DEF TypeOK
    <3>2. CASE proofs' = [h \in DOMAIN proofs \cup {Hash(storing)} |->
                           IF h = Hash(storing) THEN storing ELSE proofs[h]]
      BY <2>2, <3>2 DEF TypeOK
    <3> QED
      BY <1>3, <3>1, <3>2 DEF StoreProof
  <2> QED
    BY <1>3, <2>1, <2>3, <2>4 DEF StoreProof, TypeOK, callVars, ldkVars
<1>4. ASSUME NEW kind \in {"success", "failure"}, queue # <<>>,
             Emit(kind, Head(queue).of), Done,
             UNCHANGED <<pc, id, receipt, answer, ldkVars, diskVars, restarts>>
      PROVE  TypeOK'
  <2>1. queue' \in Seq(Events) /\ acked' \in Seq(Events)
    BY <1>4, DoneType
  <2>2. inbox' \in [Calls -> Seq(Messages)]
    BY <1>1, <1>4, EmitType
  <2> QED
    BY <1>4, <2>1, <2>2 DEF TypeOK, ldkVars, diskVars
<1> QED
  BY <1>2, <1>3, <1>4 DEF Handler, PaymentPathSuccessful, PaymentFailed, Current

LEMMA RestType ==
    ASSUME TypeOK, Persisted \/ Restart
    PROVE  TypeOK'
<1> DEFINE NoEvents == <<>>
<1>1. NoEvents \in Seq(Events)
  OBVIOUS
<1>2. CASE Persisted
  BY <1>1, <1>2 DEF Persisted, TypeOK, callVars, ldkVars, diskVars
<1>3. CASE Restart
  <2>1. queue' \in Seq(Events)
    BY <1>3, ConcatAt DEF Restart, TypeOK
  <2> DEFINE NoMessages == <<>>
  <2>2. NoMessages \in Seq(Messages)
    OBVIOUS
  <2>3. inbox' \in [Calls -> Seq(Messages)]
    BY <1>3, <2>2 DEF Restart
  <2>4. acked' = NoEvents
    BY <1>3 DEF Restart
  <2>5. /\ pc' \in [Calls -> {"idle", "pay", "wait", "done"}]
        /\ \A c \in Calls : pc'[c] = "idle" <=> pc[c] = "idle"
        /\ answer' \in [Calls -> {"none", "success", "failure", "error"}]
        /\ receipt' \in [Calls -> Ids \cup {None}]
    BY <1>3 DEF Restart, TypeOK, Listening
  <2>6. restarts' \in 0 .. MaxRestarts
    <3>1. restarts \in 0 .. MaxRestarts /\ restarts < MaxRestarts /\ restarts' = restarts + 1
      BY <1>3 DEF Restart, TypeOK
    <3> QED
      BY <3>1, BoundsAssumption
  <2>7. storing' = None /\ UNCHANGED <<id, ldkVars, proofs, unstored>>
    BY <1>3 DEF Restart
  <2> HIDE DEF NoEvents
  <2> QED
    BY <1>1, <2>1, <2>3, <2>4, <2>5, <2>6, <2>7 DEF TypeOK, ldkVars
<1> QED
  BY <1>2, <1>3

-----------------------------------------------------------------------------
(* What LDK and its events say of the payments. *)

Ev(kind, c) == [kind |-> kind, of |-> c]
Paid == {"sent", "path"}

(* A payment that may still have something to say is remembered, and no    *)
(* two that are remembered have one id.                                    *)
PaymentInv(c) ==
    /\ pc[c] \in {"idle", "pay"} => pay[c] = "none"
    /\ payee[c] # "underpaid"
    /\ pay[c] = "sent" => payee[c] = "claimed"
    /\ pay[c] = "pending" \/ parts[c] > 0 => c \in known
    /\ parts[c] > 0 => pay[c] = "sent"
    /\ c \in known => pay[c] # "none"

KnownInv == \A c, d \in known : id[c] = id[d] => c = d

LdkInv == (\A c \in Calls : PaymentInv(c)) /\ KnownInv

EventInv(e) ==
    /\ e.kind \in Paid => pay[e.of] = "sent" /\ e.of \in known
    /\ e.kind = "failed" => pay[e.of] = "failed"

EventsInv ==
    /\ \A i \in 1 .. Len(queue) : EventInv(queue[i])
    /\ \A i \in 1 .. Len(acked) : EventInv(acked[i])

StoreInv ==
    storing # None =>
        queue # <<>> /\ Head(queue) = Ev("sent", storing) /\ Bolt12(storing)

LedgerInv == TypeOK /\ LdkInv /\ EventsInv /\ StoreInv

LEMMA InitLedger == Init => LedgerInv
<1> SUFFICES ASSUME Init PROVE LedgerInv
  OBVIOUS
<1>1. TypeOK
  BY InitType
<1>2. LdkInv /\ StoreInv
  BY DEF Init, LdkInv, PaymentInv, KnownInv, StoreInv
<1>3. Len(queue) = 0 /\ Len(acked) = 0
  BY DEF Init
<1>4. EventsInv
  BY <1>3 DEF EventsInv
<1> QED
  BY <1>1, <1>2, <1>4 DEF LedgerInv

(* An event in a queue is of a call that was started. *)
LEMMA EventOf ==
    ASSUME LedgerInv, NEW i \in 1 .. Len(queue)
    PROVE  /\ queue[i] \in Events
           /\ queue[i].of \in Calls /\ queue[i].kind \in Kinds
           /\ pc[queue[i].of] \in {"wait", "done"}
           /\ id[queue[i].of] \in Ids
<1>0. queue \in Seq(Events)
  BY DEF LedgerInv, TypeOK
<1>1. queue[i] \in Events
  BY <1>0
<1>2. queue[i].of \in Calls /\ queue[i].kind \in Kinds
  BY <1>1 DEF Events
<1>3. pay[queue[i].of] # "none"
  BY <1>2 DEF LedgerInv, EventsInv, EventInv, Kinds, Paid
<1>4. pc[queue[i].of] \in {"wait", "done"}
  BY <1>2, <1>3 DEF LedgerInv, LdkInv, PaymentInv, TypeOK
<1>5. id[queue[i].of] \in Ids
  <2>1. \A c \in Calls : pc[c] # "idle" => id[c] \in Ids
    BY DEF LedgerInv, TypeOK
  <2> QED
    BY <1>2, <1>4, <2>1
<1> QED
  BY <1>1, <1>2, <1>4, <1>5

LEMMA HeadOf ==
    ASSUME LedgerInv, queue # <<>>
    PROVE  /\ Head(queue).of \in Calls /\ Head(queue).kind \in Kinds
           /\ pc[Head(queue).of] \in {"wait", "done"}
           /\ id[Head(queue).of] \in Ids
           /\ Head(queue) = queue[1] /\ 1 \in 1 .. Len(queue)
<1>0. queue \in Seq(Events)
  BY DEF LedgerInv, TypeOK
<1>1. Head(queue) = queue[1] /\ 1 \in 1 .. Len(queue)
  BY <1>0, TailAt
<1> QED
  BY <1>1, EventOf

(* The queue after an event is handled, and after one is pushed. *)
LEMMA DoneAt ==
    ASSUME TypeOK, queue # <<>>, Done
    PROVE  /\ Len(queue) \in Nat \ {0}
           /\ Len(queue') = Len(queue) - 1
           /\ \A i \in 1 .. Len(queue') : queue'[i] = queue[i + 1]
           /\ \A i \in 1 .. Len(acked') :
                 acked'[i] = queue[1] \/ \E j \in 1 .. Len(acked) : acked'[i] = acked[j]
<1>1. queue \in Seq(Events) /\ acked \in Seq(Events)
  BY DEF TypeOK
<1>2. /\ Len(queue) \in Nat \ {0}
      /\ Len(Tail(queue)) = Len(queue) - 1
      /\ Head(queue) = queue[1] /\ Head(queue) \in Events
      /\ \A i \in 1 .. Len(Tail(queue)) : Tail(queue)[i] = queue[i + 1]
  BY <1>1, TailAt
<1>3. queue' = Tail(queue)
  BY DEF Done
<1>4. ASSUME NEW i \in 1 .. Len(acked')
      PROVE  acked'[i] = queue[1] \/ \E j \in 1 .. Len(acked) : acked'[i] = acked[j]
  <2>1. CASE acked' = <<>>
    BY <2>1, <1>4
  <2>2. CASE acked' = Append(acked, Head(queue))
    BY <1>1, <1>2, <1>4, <2>2, AppendAt
  <2> QED
    BY <2>1, <2>2 DEF Done
<1> QED
  BY <1>2, <1>3, <1>4

LEMMA PushAt ==
    ASSUME TypeOK, NEW c \in Calls, NEW kind \in Kinds, Push(kind, c)
    PROVE  /\ Len(queue) \in Nat
           /\ Len(queue') = Len(queue) + 1
           /\ \A i \in 1 .. Len(queue) : queue'[i] = queue[i]
           /\ queue'[Len(queue) + 1] = Ev(kind, c)
           /\ queue # <<>> => queue' # <<>> /\ Head(queue') = Head(queue)
<1>1. queue \in Seq(Events) /\ Ev(kind, c) \in Events
  BY DEF TypeOK, Ev, Events
<1>2. queue' = Append(queue, Ev(kind, c))
  BY DEF Push, Ev
<1>3. queue' \in Seq(Events)
  BY <1>1, <1>2, AppendAt
<1>4. /\ Len(queue) \in Nat
      /\ Len(queue') = Len(queue) + 1
      /\ \A i \in 1 .. Len(queue) : queue'[i] = queue[i]
      /\ queue'[Len(queue) + 1] = Ev(kind, c)
  BY <1>1, <1>2, AppendAt
<1>5. ASSUME queue # <<>> PROVE queue' # <<>> /\ Head(queue') = Head(queue)
  <2>1. Len(queue) \in Nat \ {0} /\ Head(queue) = queue[1]
    BY <1>1, <1>5, TailAt
  <2>2. queue' # <<>>
    BY <1>2, <1>1
  <2>3. Head(queue') = queue'[1]
    BY <1>3, <2>2, TailAt
  <2> QED
    BY <1>4, <2>1, <2>2, <2>3
<1> QED
  BY <1>4, <1>5

(* An event that is in one of the queues. *)
Old(e) ==
    \/ \E j \in 1 .. Len(queue) : e = queue[j]
    \/ \E j \in 1 .. Len(acked) : e = acked[j]

(* The events stay what they are when no settled payment is forgotten.     *)
LEMMA EventsKept ==
    ASSUME LedgerInv,
           \A c \in Calls : pay[c] \in {"sent", "failed"} => pay'[c] = pay[c],
           \A c \in known : pay[c] = "sent" => c \in known',
           \A i \in 1 .. Len(queue') : Old(queue'[i]) \/ EventInv(queue[i])',
           \A i \in 1 .. Len(acked') : Old(acked'[i])
    PROVE  EventsInv'
<1>1. queue \in Seq(Events) /\ acked \in Seq(Events)
  BY DEF LedgerInv, TypeOK
<1>2. ASSUME NEW e, Old(e) PROVE EventInv(e)'
  <2>1. e \in Events
    BY <1>1, <1>2 DEF Old
  <2>2. e.of \in Calls
    BY <2>1 DEF Events
  <2>3. EventInv(e)
    BY <1>2 DEF Old, LedgerInv, EventsInv
  <2> QED
    BY <2>2, <2>3 DEF EventInv, Paid
<1>3. \A i \in 1 .. Len(queue') : EventInv(queue[i])'
  BY <1>2 DEF EventInv
<1>4. \A i \in 1 .. Len(acked') : EventInv(acked[i])'
  BY <1>2 DEF EventInv
<1> QED
  BY <1>3, <1>4 DEF EventsInv

LEMMA EventsStable ==
    ASSUME LedgerInv, UNCHANGED <<queue, acked>>,
           \A c \in Calls : pay[c] \in {"sent", "failed"} => pay'[c] = pay[c],
           known \subseteq known'
    PROVE  EventsInv'
<1>1. /\ \A i \in 1 .. Len(queue') : Old(queue'[i])
      /\ \A i \in 1 .. Len(acked') : Old(acked'[i])
  BY DEF Old
<1> QED
  BY <1>1, EventsKept

(* The payment whose proof is stored is one that was started. *)
LEMMA StoreStable ==
    ASSUME LedgerInv, queue # <<>> => queue' # <<>> /\ Head(queue') = Head(queue),
           storing' = storing, \A c \in Calls : pc[c] # "idle" => id'[c] = id[c]
    PROVE  StoreInv'
<1>1. SUFFICES ASSUME storing # None
               PROVE  queue' # <<>> /\ Head(queue') = Ev("sent", storing) /\ Bolt12(storing)'
  BY DEF StoreInv, Ev
<1>2. queue # <<>> /\ Head(queue) = Ev("sent", storing) /\ Bolt12(storing)
  BY <1>1 DEF LedgerInv, StoreInv
<1>3. Head(queue).of = storing
  BY <1>2 DEF Ev
<1>4. storing \in Calls /\ pc[storing] # "idle"
  BY <1>2, <1>3, HeadOf
<1> QED
  BY <1>2, <1>4 DEF Bolt12

(* Types of what the steps of a call and of LDK look at. *)
LEMMA Shapes ==
    ASSUME LedgerInv
    PROVE  /\ pc \in [Calls -> {"idle", "pay", "wait", "done"}]
           /\ id \in [Calls -> Ids \cup {None}]
           /\ pay \in [Calls -> {"none", "pending", "sent", "failed"}]
           /\ payee \in [Calls -> {"none", "claimed", "underpaid", "failed back"}]
           /\ parts \in [Calls -> 0 .. MaxParts]
           /\ known \subseteq Calls
           /\ \A c \in Calls : PaymentInv(c)
           /\ KnownInv
  BY DEF LedgerInv, TypeOK, LdkInv

LEMMA CallLedger ==
    ASSUME LedgerInv, NEW c \in Calls, Call(c)
    PROVE  LedgerInv'
<1>1. TypeOK'
  BY CallType DEF LedgerInv
<1>2. CASE JsonPay(c) \/ JsonKeysend(c)
  <2>1. PICK i \in Ids : Subscribe(c, i)
    BY <1>2 DEF JsonPay, JsonKeysend, Ids
  <2>2. UNCHANGED <<pay, known, parts, payee, queue, acked, storing>>
    BY <2>1 DEF Subscribe, ldkVars, diskVars
  <2>3. /\ pc[c] = "idle" /\ pay[c] = "none" /\ c \notin known
        /\ \A d \in Calls \ {c} : pc'[d] = pc[d] /\ id'[d] = id[d]
    BY <2>1, Shapes DEF Subscribe, PaymentInv
  <2>4. \A d \in Calls : PaymentInv(d)'
    BY <2>2, <2>3, Shapes DEF PaymentInv
  <2>5. KnownInv'
    BY <2>2, <2>3, Shapes DEF KnownInv
  <2>6. EventsInv'
    BY <2>2, EventsStable
  <2>7. StoreInv'
    BY <2>2, <2>3, StoreStable
  <2> QED
    BY <1>1, <2>4, <2>5, <2>6, <2>7 DEF LedgerInv, LdkInv
<1>3. CASE PaymentAccepted(c)
  <2>1. UNCHANGED <<id, parts, payee, queue, acked, storing>>
    BY <1>3 DEF PaymentAccepted, diskVars
  <2>2. /\ pc[c] = "pay" /\ pay[c] = "none"
        /\ pc'[c] = "wait" /\ pay'[c] = "pending"
        /\ \A d \in Calls \ {c} : pc'[d] = pc[d] /\ pay'[d] = pay[d]
        /\ known' = known \cup {c}
    BY <1>3, Shapes DEF PaymentAccepted, PaymentInv
  <2>3. \A d \in known : id[d] # id[c]
    BY <1>3, Shapes DEF PaymentAccepted, SameId
  <2>4. PaymentInv(c)'
    BY <2>1, <2>2, Shapes DEF PaymentInv
  <2>5. \A d \in Calls \ {c} : PaymentInv(d)'
    BY <2>1, <2>2, Shapes DEF PaymentInv
  <2>6. KnownInv'
    <3>1. \A d, e \in known : id[d] = id[e] => d = e
      BY Shapes DEF KnownInv
    <3>2. \A d, e \in known \cup {c} : id[d] = id[e] => d = e
      BY <2>3, <3>1
    <3> QED
      BY <2>1, <2>2, <3>2 DEF KnownInv
  <2>7. EventsInv'
    BY <2>1, <2>2, EventsStable
  <2>8. StoreInv'
    BY <2>1, StoreStable
  <2> QED
    BY <1>1, <2>4, <2>5, <2>6, <2>7, <2>8 DEF LedgerInv, LdkInv
<1>4. ASSUME UNCHANGED <<id, ldkVars, queue, acked, diskVars, restarts>>,
             pc' = pc \/ pc' = [pc EXCEPT ![c] = "done"]
      PROVE  LedgerInv'
  <2>1. UNCHANGED <<id, pay, known, parts, payee, queue, acked, storing>>
    BY <1>4 DEF ldkVars, diskVars
  <2>2. \A d \in Calls : pc'[d] \in {"idle", "pay"} => pc[d] = pc'[d]
    BY <1>4, Shapes
  <2>3. \A d \in Calls : PaymentInv(d)'
    BY <2>1, <2>2, Shapes DEF PaymentInv
  <2>4. KnownInv'
    BY <2>1, Shapes DEF KnownInv
  <2>5. EventsInv'
    BY <2>1, EventsStable
  <2>6. StoreInv'
    BY <2>1, StoreStable
  <2> QED
    BY <1>1, <2>3, <2>4, <2>5, <2>6 DEF LedgerInv, LdkInv
<1>5. CASE PaymentRefused(c) \/ HearEnd(c) \/ Timeout(c)
  BY <1>4, <1>5 DEF PaymentRefused, HearEnd, Timeout, Return
<1>6. CASE HearReceipt(c) \/ HearOther(c)
  BY <1>4, <1>6 DEF HearReceipt, HearOther
<1> QED
  BY <1>2, <1>3, <1>5, <1>6 DEF Call, wait_for_payment_result

LEMMA PushEvents ==
    ASSUME LedgerInv, NEW c \in Calls, NEW kind \in Kinds, Push(kind, c),
           UNCHANGED <<acked, storing, id>>,
           \A d \in Calls : pay[d] \in {"sent", "failed"} => pay'[d] = pay[d],
           \A d \in known : pay[d] = "sent" => d \in known',
           EventInv(Ev(kind, c))'
    PROVE  EventsInv' /\ StoreInv'
<1>0. TypeOK
  BY DEF LedgerInv
<1>1. \A i \in 1 .. Len(queue') : Old(queue'[i]) \/ EventInv(queue[i])'
  <2>1. SUFFICES ASSUME NEW i \in 1 .. Len(queue')
                 PROVE  Old(queue'[i]) \/ EventInv(queue[i])'
    OBVIOUS
  <2>2. CASE i \in 1 .. Len(queue)
    BY <1>0, <2>2, PushAt DEF Old
  <2>3. CASE i = Len(queue) + 1
    <3>1. queue'[i] = Ev(kind, c)
      BY <1>0, <2>3, PushAt
    <3> QED
      BY <3>1 DEF EventInv, Ev
  <2> QED
    BY <1>0, <2>1, <2>2, <2>3, PushAt
<1>2. \A i \in 1 .. Len(acked') : Old(acked'[i])
  BY DEF Old
<1> QED
  BY <1>0, <1>1, <1>2, EventsKept, StoreStable, PushAt

LEMMA LdkLedger ==
    ASSUME LedgerInv, NEW c \in Calls, Ldk(c)
    PROVE  LedgerInv'
<1>1. TypeOK'
  BY LdkType DEF LedgerInv
<1>2. CASE PaymentClaimable(c)
  <2>1. UNCHANGED <<pc, id, pay, known, parts, queue, acked, storing>>
    BY <1>2 DEF PaymentClaimable, callVars, diskVars
  <2>2. /\ pay[c] = "pending" /\ payee'[c] # "underpaid"
        /\ \A d \in Calls \ {c} : payee'[d] = payee[d]
    BY <1>2, Shapes DEF PaymentClaimable, decide_payment_claim
  <2>3. \A d \in Calls : PaymentInv(d)'
    BY <2>1, <2>2, Shapes DEF PaymentInv
  <2>4. KnownInv'
    BY <2>1, Shapes DEF KnownInv
  <2> QED
    BY <1>1, <2>1, <2>3, <2>4, EventsStable, StoreStable DEF LedgerInv, LdkInv
<1>3. CASE Fulfilled(c)
  <2>1. UNCHANGED <<pc, id, known, payee, acked, storing>>
    BY <1>3 DEF Fulfilled, callVars, diskVars
  <2>2. /\ pay[c] = "pending" /\ payee[c] = "claimed" /\ pay'[c] = "sent"
        /\ c \in known
        /\ \A d \in Calls \ {c} : pay'[d] = pay[d] /\ parts'[d] = parts[d]
    BY <1>3, Shapes DEF Fulfilled, PaymentInv
  <2>3. PaymentInv(c)'
    BY <2>1, <2>2, Shapes DEF PaymentInv
  <2>4. \A d \in Calls \ {c} : PaymentInv(d)'
    BY <2>1, <2>2, Shapes DEF PaymentInv
  <2>5. KnownInv'
    BY <2>1, Shapes DEF KnownInv
  <2>6. EventInv(Ev("sent", c))'
    BY <2>1, <2>2 DEF EventInv, Ev, Paid
  <2>7. EventsInv' /\ StoreInv'
    BY <1>3, <2>1, <2>2, <2>6, PushEvents DEF Fulfilled, Kinds
  <2> QED
    BY <1>1, <2>3, <2>4, <2>5, <2>7 DEF LedgerInv, LdkInv
<1>4. CASE PartDone(c)
  <2>1. UNCHANGED <<pc, id, pay, known, payee, acked, storing>>
    BY <1>4 DEF PartDone, callVars, diskVars
  <2>2. /\ pay[c] = "sent" /\ c \in known
        /\ \A d \in Calls \ {c} : parts'[d] = parts[d]
    BY <1>4, Shapes DEF PartDone, PaymentInv
  <2>3. \A d \in Calls : PaymentInv(d)'
    BY <2>1, <2>2, Shapes DEF PaymentInv
  <2>4. KnownInv'
    BY <2>1, Shapes DEF KnownInv
  <2>5. EventInv(Ev("path", c))'
    BY <2>1, <2>2 DEF EventInv, Ev, Paid
  <2>6. EventsInv' /\ StoreInv'
    BY <1>4, <2>1, <2>5, PushEvents DEF PartDone, Kinds
  <2> QED
    BY <1>1, <2>3, <2>4, <2>6 DEF LedgerInv, LdkInv
<1>5. CASE GivenUp(c)
  <2>1. UNCHANGED <<pc, id, parts, payee, acked, storing>>
    BY <1>5 DEF GivenUp, callVars, diskVars
  <2>2. /\ pay[c] = "pending" /\ pay'[c] = "failed" /\ ~(parts[c] > 0)
        /\ known' = known \ {c}
        /\ \A d \in Calls \ {c} : pay'[d] = pay[d]
    BY <1>5, Shapes DEF GivenUp, PaymentInv
  <2>3. PaymentInv(c)'
    BY <2>1, <2>2, Shapes DEF PaymentInv
  <2>4. \A d \in Calls \ {c} : PaymentInv(d)'
    BY <2>1, <2>2, Shapes DEF PaymentInv
  <2>5. KnownInv'
    BY <2>1, <2>2, Shapes DEF KnownInv
  <2>6. EventInv(Ev("failed", c))'
    BY <2>2 DEF EventInv, Ev, Paid
  <2>7. EventsInv' /\ StoreInv'
    BY <1>5, <2>1, <2>2, <2>6, PushEvents DEF GivenUp, Kinds
  <2> QED
    BY <1>1, <2>3, <2>4, <2>5, <2>7 DEF LedgerInv, LdkInv
<1>6. CASE Forgotten(c)
  <2>1. /\ UNCHANGED <<pc, id, pay, parts, payee, queue, acked, storing>>
        /\ pay[c] = "sent" /\ ~(parts[c] > 0) /\ known' = known \ {c}
        /\ \A i \in 1 .. Len(queue) : queue[i].of # c
        /\ \A i \in 1 .. Len(acked) : acked[i].of # c
    BY <1>6 DEF Forgotten, callVars, diskVars
  <2>2. \A d \in Calls : PaymentInv(d)'
    BY <2>1, Shapes DEF PaymentInv
  <2>3. KnownInv'
    BY <2>1, Shapes DEF KnownInv
  <2>4. EventsInv'
    BY <2>1 DEF LedgerInv, EventsInv, EventInv
  <2> QED
    BY <1>1, <2>1, <2>2, <2>3, <2>4, StoreStable DEF LedgerInv, LdkInv
<1> QED
  BY <1>2, <1>3, <1>4, <1>5, <1>6 DEF Ldk

LEMMA DoneEvents ==
    ASSUME LedgerInv, queue # <<>>, Done, UNCHANGED <<pc, id, ldkVars>>
    PROVE  EventsInv' /\ LdkInv'
<1>1. \A i \in 1 .. Len(queue') : Old(queue'[i])
  <2>1. \A i \in 1 .. Len(queue') : i + 1 \in 1 .. Len(queue) /\ queue'[i] = queue[i + 1]
    BY DoneAt DEF LedgerInv
  <2> QED
    BY <2>1 DEF Old
<1>2. \A i \in 1 .. Len(acked') : Old(acked'[i])
  <2>1. 1 \in 1 .. Len(queue)
    BY DoneAt DEF LedgerInv
  <2> QED
    BY <2>1, DoneAt DEF LedgerInv, Old
<1>3. EventsInv'
  BY <1>1, <1>2, EventsKept DEF ldkVars
<1>4. \A d \in Calls : PaymentInv(d)'
  BY Shapes DEF PaymentInv, ldkVars
<1>5. KnownInv'
  BY Shapes DEF KnownInv, ldkVars
<1> QED
  BY <1>3, <1>4, <1>5 DEF LdkInv

LEMMA HandlerLedger ==
    ASSUME LedgerInv, Handler
    PROVE  LedgerInv'
<1>1. TypeOK'
  BY HandlerType, HeadOf DEF LedgerInv, StoreInv
<1>2. UNCHANGED <<pc, id, ldkVars>>
  BY DEF Handler, PaymentSent, StoreProof, PaymentPathSuccessful, PaymentFailed,
         callVars
<1>3. queue # <<>>
  BY DEF Handler, PaymentSent, StoreProof, PaymentPathSuccessful, PaymentFailed,
         Current, LedgerInv, StoreInv
<1>4. CASE ~(PaymentSent /\ Bolt12(Head(queue).of))
  <2>1. Done /\ storing' = None
    BY <1>3, <1>4
       DEF Handler, PaymentSent, StoreProof, PaymentPathSuccessful, PaymentFailed, Current,
           diskVars
  <2>2. StoreInv'
    BY <2>1 DEF StoreInv
  <2> QED
    BY <1>1, <1>2, <1>3, <2>1, <2>2, DoneEvents DEF LedgerInv
<1>5. CASE PaymentSent /\ Bolt12(Head(queue).of)
  <2>1. PaymentSent /\ Bolt12(Head(queue).of)
    BY <1>5
  <2>2. storing' = Head(queue).of /\ UNCHANGED <<queue, acked>> /\ Head(queue).kind = "sent"
    BY <2>1 DEF PaymentSent, Current
  <2>3. Head(queue) = Ev("sent", storing')
    <3>1. Head(queue) \in Events
      BY <1>3, TailAt DEF LedgerInv, TypeOK
    <3> QED
      BY <2>2, <3>1 DEF Ev, Events
  <2>4. StoreInv'
    BY <1>2, <1>3, <2>1, <2>2, <2>3 DEF StoreInv, Ev, Bolt12
  <2>5. EventsInv'
    BY <1>2, <2>2, EventsStable DEF ldkVars
  <2>6. \A d \in Calls : PaymentInv(d)'
    BY <1>2, Shapes DEF PaymentInv, ldkVars
  <2>7. KnownInv'
    BY <1>2, Shapes DEF KnownInv, ldkVars
  <2> QED
    BY <1>1, <2>4, <2>5, <2>6, <2>7 DEF LedgerInv, LdkInv
<1> QED
  BY <1>4, <1>5

LEMMA RestLedger ==
    ASSUME LedgerInv, Persisted \/ Restart
    PROVE  LedgerInv'
<1>1. TypeOK'
  BY RestType DEF LedgerInv
<1>2. queue \in Seq(Events) /\ acked \in Seq(Events)
  BY DEF LedgerInv, TypeOK
<1>3. UNCHANGED <<id, pay, known, parts, payee>> /\ acked' = <<>>
  BY DEF Persisted, Restart, ldkVars, callVars
<1>4. \A d \in Calls : pc'[d] \in {"idle", "pay"} => pc[d] = pc'[d]
  BY Shapes DEF Persisted, Restart, Listening, callVars
<1>5. \A d \in Calls : PaymentInv(d)'
  BY <1>3, <1>4, Shapes DEF PaymentInv
<1>6. KnownInv'
  BY <1>3, Shapes DEF KnownInv
<1>7. \A i \in 1 .. Len(queue') : Old(queue'[i])
  <2>1. CASE Persisted
    BY <2>1 DEF Persisted, Old
  <2>2. CASE Restart
    <3>1. queue' = acked \o queue
      BY <2>2 DEF Restart
    <3> QED
      BY <1>2, <3>1, ConcatAt DEF Old
  <2> QED
    BY <2>1, <2>2
<1>8. EventsInv'
  <2>1. Len(acked') = 0
    BY <1>3
  <2>2. \A i \in 1 .. Len(acked') : Old(acked'[i])
    BY <2>1
  <2> QED
    BY <1>3, <1>7, <2>2, EventsKept
<1>9. StoreInv'
  <2>1. CASE Persisted
    BY <2>1, StoreStable DEF Persisted, diskVars, callVars
  <2>2. CASE Restart
    BY <2>2 DEF Restart, StoreInv
  <2> QED
    BY <2>1, <2>2
<1> QED
  BY <1>1, <1>5, <1>6, <1>8, <1>9 DEF LedgerInv, LdkInv

LEMMA LedgerNext == LedgerInv /\ [Next]_vars => LedgerInv'
<1> SUFFICES ASSUME LedgerInv, [Next]_vars PROVE LedgerInv'
  OBVIOUS
<1>1. CASE UNCHANGED vars
  <2>1. UNCHANGED <<pc, id, pay, known, parts, payee, queue, acked, storing>>
    BY <1>1 DEF vars, callVars, ldkVars, diskVars
  <2>2. TypeOK'
    BY <1>1 DEF vars, callVars, ldkVars, diskVars, LedgerInv, TypeOK
  <2>3. \A d \in Calls : PaymentInv(d)'
    BY <2>1, Shapes DEF PaymentInv
  <2>4. KnownInv'
    BY <2>1, Shapes DEF KnownInv
  <2> QED
    BY <2>1, <2>2, <2>3, <2>4, EventsStable, StoreStable DEF LedgerInv, LdkInv
<1> QED
  BY <1>1, CallLedger, LdkLedger, HandlerLedger, RestLedger DEF Next

LEMMA Ledger == Spec => []LedgerInv
  BY InitLedger, LedgerNext, PTL DEF Spec

(* Every variable of the calls, of LDK and of the store is of its type.    *)
THEOREM TypeCorrect == Spec => []TypeOK
<1>1. LedgerInv => TypeOK
  BY DEF LedgerInv
<1> QED
  BY <1>1, Ledger, PTL

-----------------------------------------------------------------------------
(* Payer proofs. *)

(* Where nothing is stored, a settled payment keeps its event.             *)
LEMMA ProofsStable ==
    ASSUME LedgerInv, ProofsKept, UNCHANGED <<proofs, unstored>>,
           \A c \in Calls : pc[c] # "idle" => id'[c] = id[c],
           \A c \in Calls : pay'[c] = "sent" /\ pay[c] # "sent" =>
              \E i \in 1 .. Len(queue') : queue'[i] = Ev("sent", c),
           \A c \in Calls : Bolt12(c) => \A i \in 1 .. Len(queue) :
              queue[i] = Ev("sent", c) =>
                 \E j \in 1 .. Len(queue') : queue'[j] = Ev("sent", c)
    PROVE  ProofsKept'
<1>1. SUFFICES ASSUME NEW c \in Calls, pay'[c] = "sent", Bolt12(c)',
                      \A i \in 1 .. Len(queue') : queue'[i] # Ev("sent", c)
               PROVE  c \in unstored \/ (Hash(c)' \in DOMAIN proofs /\ proofs[Hash(c)'] = c)
  BY DEF ProofsKept, Ev
<1>2. pay[c] = "sent" /\ pc[c] # "idle" /\ id'[c] = id[c]
  BY <1>1, Shapes DEF PaymentInv
<1>3. Bolt12(c) /\ Hash(c)' = Hash(c)
  BY <1>1, <1>2 DEF Bolt12, Hash
<1>4. \A i \in 1 .. Len(queue) : queue[i] # Ev("sent", c)
  BY <1>1, <1>3
<1> QED
  BY <1>2, <1>3, <1>4 DEF ProofsKept, Ev

LEMMA ProofsPush ==
    ASSUME LedgerInv, ProofsKept, NEW c \in Calls, Ldk(c)
    PROVE  ProofsKept'
<1>1. UNCHANGED <<proofs, unstored, id>>
  BY DEF Ldk, PaymentClaimable, Fulfilled, PartDone, GivenUp, Forgotten, callVars, diskVars
<1>2. TypeOK
  BY DEF LedgerInv
<1>3. /\ \A d \in Calls : pay'[d] = "sent" /\ pay[d] # "sent" => d = c /\ Fulfilled(c)
  BY Shapes DEF Ldk, PaymentClaimable, Fulfilled, PartDone, GivenUp, Forgotten
<1>4. CASE UNCHANGED queue
  <2>1. ~Fulfilled(c)
    BY <1>2, <1>4, PushAt DEF Fulfilled, Kinds
  <2> QED
    BY <1>1, <1>3, <1>4, <2>1, ProofsStable
<1>5. ASSUME NEW kind \in Kinds, Push(kind, c) PROVE ProofsKept'
  <2>1. \A i \in 1 .. Len(queue) : i \in 1 .. Len(queue') /\ queue'[i] = queue[i]
    BY <1>2, <1>5, PushAt
  <2>2. \E i \in 1 .. Len(queue') : queue'[i] = Ev(kind, c)
    BY <1>2, <1>5, PushAt
  <2>3. Fulfilled(c) => kind = "sent"
    <3>1. SUFFICES ASSUME Fulfilled(c) PROVE kind = "sent"
      OBVIOUS
    <3>2. queue'[Len(queue) + 1] = Ev("sent", c) /\ queue'[Len(queue) + 1] = Ev(kind, c)
      BY <1>2, <1>5, <3>1, PushAt DEF Fulfilled, Kinds
    <3> QED
      BY <3>2 DEF Ev
  <2> QED
    BY <1>1, <1>3, <2>1, <2>2, <2>3, ProofsStable
<1> QED
  BY <1>4, <1>5
     DEF Ldk, PaymentClaimable, Fulfilled, PartDone, GivenUp, Forgotten, Kinds

LEMMA ProofsHandled ==
    ASSUME LedgerInv, ProofsKept, Handler
    PROVE  ProofsKept'
<1>1. TypeOK /\ UNCHANGED <<id, pay>>
  BY DEF Handler, PaymentSent, StoreProof, PaymentPathSuccessful, PaymentFailed,
         callVars, ldkVars, LedgerInv
<1>2. ASSUME queue # <<>>, Done, NEW c, queue[1] # Ev("sent", c),
             NEW i \in 1 .. Len(queue), queue[i] = Ev("sent", c)
      PROVE  \E j \in 1 .. Len(queue') : queue'[j] = Ev("sent", c)
  <2>1. i # 1 /\ i - 1 \in 1 .. Len(queue')
    BY <1>1, <1>2, DoneAt
  <2>2. queue'[i - 1] = queue[i]
    BY <1>1, <1>2, <2>1, DoneAt
  <2> QED
    BY <1>2, <2>1, <2>2
<1>3. CASE PaymentSent \/ PaymentPathSuccessful \/ PaymentFailed
  <2>1. UNCHANGED <<proofs, unstored>> /\ queue # <<>>
    BY <1>3 DEF PaymentSent, PaymentPathSuccessful, PaymentFailed, Current, diskVars
  <2>2. Head(queue) = queue[1]
    BY <2>1, HeadOf
  <2>3. CASE PaymentSent /\ Bolt12(Head(queue).of)
    <3>1. UNCHANGED queue
      BY <2>3 DEF PaymentSent
    <3> QED
      BY <1>1, <2>1, <3>1, ProofsStable
  <2>4. CASE ~(PaymentSent /\ Bolt12(Head(queue).of))
    <3>1. Done
      BY <1>3, <2>4 DEF PaymentSent, PaymentPathSuccessful, PaymentFailed
    <3>2. \A c : Bolt12(c) => queue[1] # Ev("sent", c)
      BY <1>3, <2>2, <2>4 DEF PaymentPathSuccessful, PaymentFailed, Current, Ev
    <3> QED
      BY <1>1, <1>2, <2>1, <3>1, <3>2, ProofsStable
  <2> QED
    BY <2>3, <2>4
<1>4. CASE StoreProof
  <2>1. /\ storing # None /\ queue # <<>> /\ Done
        /\ queue[1] = Ev("sent", storing) /\ Bolt12(storing)
    BY <1>4, HeadOf DEF StoreProof, LedgerInv, StoreInv
  <2>2. SUFFICES ASSUME NEW c \in Calls, pay[c] = "sent", Bolt12(c),
                        \A i \in 1 .. Len(queue') : queue'[i] # Ev("sent", c)
                 PROVE  c \in unstored' \/ (Hash(c) \in DOMAIN proofs' /\ proofs'[Hash(c)] = c)
    BY <1>1 DEF ProofsKept, Ev, Hash, Bolt12
  <2>3. Hash(c) = c /\ Hash(storing) = storing
    BY <2>1, <2>2, DisjointAssumption DEF Hash, Bolt12
  <2>4. CASE c = storing
    BY <1>4, <2>3, <2>4 DEF StoreProof
  <2>5. CASE c # storing
    <3>1. queue[1] # Ev("sent", c)
      BY <2>1, <2>5 DEF Ev
    <3>2. \A i \in 1 .. Len(queue) : queue[i] # Ev("sent", c)
      BY <1>2, <2>1, <2>2, <3>1
    <3>3. c \in unstored \/ (c \in DOMAIN proofs /\ proofs[c] = c)
      BY <2>2, <2>3, <3>2 DEF ProofsKept, Ev
    <3> QED
      BY <1>4, <2>3, <2>5, <3>3 DEF StoreProof
  <2> QED
    BY <2>4, <2>5
<1> QED
  BY <1>3, <1>4 DEF Handler

LEMMA ProofsNext == LedgerInv /\ ProofsKept /\ [Next]_vars => ProofsKept'
<1> SUFFICES ASSUME LedgerInv, ProofsKept, [Next]_vars PROVE ProofsKept'
  OBVIOUS
<1>1. ASSUME UNCHANGED <<queue, pay, proofs, unstored>>,
             \A c \in Calls : pc[c] # "idle" => id'[c] = id[c]
      PROVE  ProofsKept'
  BY <1>1, ProofsStable
<1>2. CASE UNCHANGED vars
  BY <1>1, <1>2 DEF vars, callVars, ldkVars, diskVars
<1>3. ASSUME NEW c \in Calls, Call(c) PROVE ProofsKept'
  <2>1. UNCHANGED <<queue, proofs, unstored>>
    BY <1>3 DEF Call, JsonPay, JsonKeysend, Subscribe, PaymentAccepted, PaymentRefused,
       wait_for_payment_result, HearReceipt, HearEnd, HearOther, Timeout, diskVars
  <2>2. \A d \in Calls : pc[d] # "idle" => id'[d] = id[d]
    BY <1>3, Shapes DEF Call, JsonPay, JsonKeysend, Subscribe, PaymentAccepted, PaymentRefused,
       wait_for_payment_result, HearReceipt, HearEnd, HearOther, Timeout
  <2>3. \A d \in Calls : pay'[d] = "sent" => pay[d] = "sent"
    BY <1>3, Shapes DEF Call, JsonPay, JsonKeysend, Subscribe, PaymentAccepted, PaymentRefused,
       wait_for_payment_result, HearReceipt, HearEnd, HearOther, Timeout, ldkVars
  <2> QED
    BY <2>1, <2>2, <2>3, ProofsStable
<1>4. CASE Persisted
  BY <1>1, <1>4 DEF Persisted, callVars, ldkVars, diskVars
<1>5. CASE Restart
  <2>1. queue \in Seq(Events) /\ acked \in Seq(Events) /\ queue' = acked \o queue
    BY <1>5 DEF Restart, LedgerInv, TypeOK
  <2>2. \A j \in 1 .. Len(queue) : \E i \in 1 .. Len(queue') : queue'[i] = queue[j]
    BY <2>1, ConcatAt
  <2> QED
    BY <1>5, <2>2, ProofsStable DEF Restart, ldkVars
<1> QED
  BY <1>2, <1>3, <1>4, <1>5, ProofsPush, ProofsHandled DEF Next

(* handler.rs and payer_proof.rs: the proof of a settled payment for an    *)
(* offer is kept in a record of its own, over crashes and replays, once    *)
(* its event is done, unless it could not be written.                      *)
THEOREM ProofsRemembered == Spec => []ProofsKept
<1>1. Init => ProofsKept
  BY DEF Init, ProofsKept
<1> QED
  BY <1>1, ProofsNext, Ledger, PTL DEF Spec

-----------------------------------------------------------------------------
(* What the calls hear. *)

(* No step starts a payment again or takes back how one ended. *)
LEMMA Lasting ==
    ASSUME LedgerInv, [Next]_vars, NEW c \in Calls
    PROVE  /\ pc[c] # "idle" => pc'[c] # "idle" /\ id'[c] = id[c]
           /\ pay[c] \in {"sent", "failed"} => pay'[c] = pay[c]
<1>1. CASE UNCHANGED vars
  BY <1>1 DEF vars, callVars, ldkVars
<1>2. ASSUME NEW d \in Calls, Call(d)
      PROVE  /\ pc[c] # "idle" => pc'[c] # "idle" /\ id'[c] = id[c]
             /\ pay[c] \in {"sent", "failed"} => pay'[c] = pay[c]
  BY <1>2, Shapes
     DEF Call, JsonPay, JsonKeysend, Subscribe, PaymentAccepted, PaymentRefused,
         wait_for_payment_result, HearReceipt, HearEnd, HearOther, Timeout, Return, ldkVars,
         PaymentInv
<1>3. ASSUME NEW d \in Calls, Ldk(d)
      PROVE  /\ pc[c] # "idle" => pc'[c] # "idle" /\ id'[c] = id[c]
             /\ pay[c] \in {"sent", "failed"} => pay'[c] = pay[c]
  BY <1>3, Shapes
     DEF Ldk, PaymentClaimable, Fulfilled, PartDone, GivenUp, Forgotten, callVars
<1>4. CASE Handler \/ Persisted
  BY <1>4 DEF Handler, PaymentSent, StoreProof, PaymentPathSuccessful, PaymentFailed,
              Persisted, callVars, ldkVars
<1>5. CASE Restart
  BY <1>5, Shapes DEF Restart, ldkVars
<1> QED
  BY <1>1, <1>2, <1>3, <1>4, <1>5 DEF Next

(* What an event is announced as. *)
Word(kind) ==
    IF kind = "sent" THEN "receipt" ELSE IF kind = "path" THEN "success" ELSE "failure"

Msg(e) == [kind |-> Word(e.kind), id |-> id[e.of], hash |-> Hash(e.of)]

LEMMA Emitted ==
    ASSUME LedgerInv, PaymentSent \/ PaymentPathSuccessful \/ PaymentFailed
    PROVE  /\ queue # <<>> /\ storing = None
           /\ inbox' = [c \in Calls |->
                 IF c \in Listening THEN Append(inbox[c], Msg(queue[1])) ELSE inbox[c]]
           /\ UNCHANGED <<pc, id, receipt, answer, ldkVars>>
           /\ \/ Done /\ storing' = None
              \/ UNCHANGED <<queue, acked>> /\ storing' \in Calls
<1>1. queue # <<>> /\ storing = None
  BY DEF PaymentSent, PaymentPathSuccessful, PaymentFailed, Current
<1>2. queue[1] = Head(queue) /\ Head(queue).of \in Calls
  BY <1>1, HeadOf
<1>3. Emit(Word(Head(queue).kind), Head(queue).of)
  BY DEF PaymentSent, PaymentPathSuccessful, PaymentFailed, Current, Word
<1> QED
  BY <1>1, <1>2, <1>3
     DEF Emit, Msg, PaymentSent, PaymentPathSuccessful, PaymentFailed, diskVars

(* How a step changes the queue of a call, and what it answers. *)
LEMMA InboxStep ==
    ASSUME LedgerInv, [Next]_vars, NEW c \in Calls
    PROVE  /\ \/ inbox'[c] = <<>> \/ inbox'[c] = inbox[c]
              \/ inbox[c] # <<>> /\ inbox'[c] = Tail(inbox[c])
              \/ queue # <<>> /\ inbox'[c] = Append(inbox[c], Msg(queue[1]))
           /\ \/ answer'[c] \in {answer[c], "error"}
              \/ inbox[c] # <<>> /\ inbox[c][1].id = id[c] /\ answer'[c] = inbox[c][1].kind
<1>0. /\ inbox \in [Calls -> Seq(Messages)]
      /\ answer \in [Calls -> {"none", "success", "failure", "error"}]
  BY DEF LedgerInv, TypeOK
<1>1. inbox[c] # <<>> => Head(inbox[c]) = inbox[c][1]
  BY <1>0, TailAt
<1>2. CASE UNCHANGED <<inbox, answer>>
  BY <1>2
<1>3. ASSUME NEW d \in Calls, Call(d)
      PROVE  /\ \/ inbox'[c] = <<>> \/ inbox'[c] = inbox[c]
                \/ inbox[c] # <<>> /\ inbox'[c] = Tail(inbox[c])
             /\ \/ answer'[c] \in {answer[c], "error"}
                \/ inbox[c] # <<>> /\ inbox[c][1].id = id[c] /\ answer'[c] = inbox[c][1].kind
  <2>1. CASE JsonPay(d) \/ JsonKeysend(d) \/ PaymentAccepted(d)
    BY <2>1 DEF JsonPay, JsonKeysend, Subscribe, PaymentAccepted
  <2>2. CASE PaymentRefused(d) \/ Timeout(d)
    BY <1>0, <2>2 DEF PaymentRefused, Timeout, Return
  <2>3. CASE HearReceipt(d) \/ HearOther(d)
    BY <1>0, <2>3 DEF HearReceipt, HearOther, Hears
  <2>4. CASE HearEnd(d)
    BY <1>0, <1>1, <2>4 DEF HearEnd, Hears, Own, Return
  <2> QED
    BY <1>3, <2>1, <2>2, <2>3, <2>4 DEF Call, wait_for_payment_result
<1>4. CASE PaymentSent \/ PaymentPathSuccessful \/ PaymentFailed
  BY <1>4, Emitted
<1>5. CASE Restart
  BY <1>0, <1>5 DEF Restart
<1> QED
  BY <1>2, <1>3, <1>4, <1>5
     DEF Next, Ldk, PaymentClaimable, Fulfilled, PartDone, GivenUp, Forgotten, Handler,
         StoreProof, Persisted, vars, callVars

LEMMA MsgType ==
    ASSUME LedgerInv, queue # <<>>
    PROVE  Msg(queue[1]) \in Messages
<1>1. queue[1].of \in Calls /\ id[queue[1].of] \in Ids
  BY HeadOf
<1>2. Hash(queue[1].of) \in Ids
  BY <1>1 DEF Hash, Ids
<1> QED
  BY <1>1, <1>2 DEF Msg, Word, Messages

-----------------------------------------------------------------------------
(* What a call has still to hear: its queue of the bus and, after it, what *)
(* the event handler has still to announce.                                *)

Off == IF storing = None THEN 0 ELSE 1
Size(c) == Len(inbox[c]) + Len(queue) - Off
At(c, k) ==
    IF k <= Len(inbox[c]) THEN inbox[c][k] ELSE Msg(queue[k - Len(inbox[c]) + Off])

LEMMA StreamType ==
    ASSUME LedgerInv, NEW c \in Calls
    PROVE  /\ Len(inbox[c]) \in Nat /\ Len(queue) \in Nat
           /\ Off \in {0, 1} /\ Off <= Len(queue)
           /\ Size(c) \in Nat /\ Len(inbox[c]) <= Size(c)
           /\ inbox[c] \in Seq(Messages) /\ queue \in Seq(Events)
<1>1. inbox[c] \in Seq(Messages) /\ queue \in Seq(Events)
  BY DEF LedgerInv, TypeOK
<1>2. Len(inbox[c]) \in Nat /\ Len(queue) \in Nat
  BY <1>1
<1>3. storing # None => 1 \in 1 .. Len(queue)
  BY HeadOf DEF LedgerInv, StoreInv
<1> QED
  BY <1>1, <1>2, <1>3 DEF Size, Off

LEMMA StreamEmit ==
    ASSUME LedgerInv, Handler, NEW c \in Calls, c \in Listening
    PROVE  Size(c)' = Size(c) /\ \A k \in 1 .. Size(c) : At(c, k)' = At(c, k)
<1>1. /\ Len(inbox[c]) \in Nat /\ Len(queue) \in Nat
      /\ inbox[c] \in Seq(Messages) /\ TypeOK
  BY StreamType DEF LedgerInv
<1>2. UNCHANGED id /\ \A e : Msg(e)' = Msg(e)
  BY DEF Handler, PaymentSent, StoreProof, PaymentPathSuccessful, PaymentFailed,
         callVars, Msg, Hash
<1>3. CASE StoreProof
  <2>1. /\ queue # <<>> /\ Off = 1 /\ Off' = 0 /\ inbox'[c] = inbox[c]
        /\ Len(queue') = Len(queue) - 1
        /\ \A i \in 1 .. Len(queue') : queue'[i] = queue[i + 1]
    BY <1>1, <1>3, DoneAt DEF StoreProof, LedgerInv, StoreInv, Off, callVars
  <2>2. Size(c)' = Size(c)
    BY <1>1, <2>1 DEF Size
  <2>3. ASSUME NEW k \in 1 .. Size(c) PROVE At(c, k)' = At(c, k)
    <3>1. CASE k <= Len(inbox[c])
      BY <2>1, <3>1 DEF At
    <3>2. CASE ~(k <= Len(inbox[c]))
      <4>1. k - Len(inbox[c]) \in 1 .. Len(queue')
        BY <1>1, <2>1, <2>3, <3>2 DEF Size
      <4>2. queue'[k - Len(inbox[c]) + 0] = queue[k - Len(inbox[c]) + 1]
        <5>1. k - Len(inbox[c]) + 0 = k - Len(inbox[c])
          BY <1>1, <4>1
        <5>2. queue'[k - Len(inbox[c])] = queue[k - Len(inbox[c]) + 1]
          BY <2>1, <4>1
        <5> QED
          BY <5>1, <5>2
      <4> QED
        BY <1>2, <2>1, <3>2, <4>2 DEF At
    <3> QED
      BY <3>1, <3>2
  <2> QED
    BY <2>2, <2>3
<1>4. CASE PaymentSent \/ PaymentPathSuccessful \/ PaymentFailed
  <2>1. /\ queue # <<>> /\ Off = 0 /\ inbox'[c] = Append(inbox[c], Msg(queue[1]))
        /\ \/ Done /\ Off' = 0
           \/ UNCHANGED queue /\ Off' = 1
    BY <1>4, Emitted, DisjointAssumption DEF Off
  <2>2. /\ Len(inbox'[c]) = Len(inbox[c]) + 1
        /\ \A i \in 1 .. Len(inbox[c]) : inbox'[c][i] = inbox[c][i]
        /\ inbox'[c][Len(inbox[c]) + 1] = Msg(queue[1])
    BY <1>1, <2>1, MsgType, AppendAt
  <2>3. /\ Len(queue') - Off' = Len(queue) - 1
        /\ \A i \in 1 .. Len(queue) - 1 : queue'[i + Off'] = queue[i + 1]
    BY <1>1, <2>1, DoneAt
  <2>4. Size(c)' = Size(c)
    BY <1>1, <2>1, <2>2, <2>3 DEF Size
  <2>5. ASSUME NEW k \in 1 .. Size(c) PROVE At(c, k)' = At(c, k)
    <3>1. CASE k <= Len(inbox[c])
      BY <1>1, <2>2, <3>1 DEF At
    <3>2. CASE k = Len(inbox[c]) + 1
      <4>1. At(c, k) = Msg(queue[1])
        BY <1>1, <2>1, <3>2 DEF At
      <4> QED
        BY <1>1, <2>2, <3>2, <4>1 DEF At
    <3>3. CASE k > Len(inbox[c]) + 1
      <4>1. k - (Len(inbox[c]) + 1) \in 1 .. Len(queue) - 1
        BY <1>1, <2>1, <2>5, <3>3 DEF Size
      <4>2. /\ queue'[k - (Len(inbox[c]) + 1) + Off'] = queue[k - Len(inbox[c])]
            /\ k - Len(inbox[c]) + 0 = k - Len(inbox[c])
        <5>1. /\ k - (Len(inbox[c]) + 1) + 1 = k - Len(inbox[c])
              /\ k - Len(inbox[c]) + 0 = k - Len(inbox[c])
          BY <1>1
        <5>2. queue'[k - (Len(inbox[c]) + 1) + Off'] = queue[k - (Len(inbox[c]) + 1) + 1]
          BY <2>3, <4>1
        <5> QED
          BY <5>1, <5>2
      <4> QED
        BY <1>1, <1>2, <2>1, <2>2, <3>3, <4>2 DEF At
    <3> QED
      BY <1>1, <3>1, <3>2, <3>3
  <2> QED
    BY <2>4, <2>5
<1> QED
  BY <1>3, <1>4 DEF Handler

LEMMA StreamOf ==
    ASSUME LedgerInv, NEW c \in Calls, NEW k \in 1 .. Size(c)
    PROVE  \/ k \in 1 .. Len(inbox[c]) /\ At(c, k) = inbox[c][k]
           \/ \E i \in 1 .. Len(queue) : At(c, k) = Msg(queue[i])
<1>1. CASE k <= Len(inbox[c])
  BY <1>1, StreamType DEF At
<1>2. CASE ~(k <= Len(inbox[c]))
  <2>1. k - Len(inbox[c]) + Off \in 1 .. Len(queue)
    BY <1>2, StreamType DEF Size
  <2> QED
    BY <1>2, <2>1 DEF At
<1> QED
  BY <1>1, <1>2

LEMMA StreamSame ==
    ASSUME LedgerInv, NEW c \in Calls, inbox'[c] = inbox[c],
           UNCHANGED <<queue, storing>>,
           \A d \in Calls : pc[d] # "idle" => id'[d] = id[d]
    PROVE  Size(c)' = Size(c) /\ \A k \in 1 .. Size(c) : At(c, k)' = At(c, k)
<1>1. Off' = Off /\ Size(c)' = Size(c)
  BY DEF Off, Size
<1>2. ASSUME NEW e, e.of \in Calls, pc[e.of] # "idle" PROVE Msg(e)' = Msg(e)
  BY <1>2 DEF Msg, Hash
<1>3. ASSUME NEW k \in 1 .. Size(c) PROVE At(c, k)' = At(c, k)
  <2>1. CASE k <= Len(inbox[c])
    BY <2>1 DEF At
  <2>2. CASE ~(k <= Len(inbox[c]))
    <3>1. k - Len(inbox[c]) + Off \in 1 .. Len(queue)
      BY <1>3, <2>2, StreamType DEF Size
    <3> DEFINE e == queue[k - Len(inbox[c]) + Off]
    <3>2. e.of \in Calls /\ pc[e.of] # "idle"
      BY <3>1, EventOf
    <3>3. e' = e /\ At(c, k) = Msg(e) /\ At(c, k)' = Msg(e)'
      BY <1>1, <2>2 DEF At
    <3> QED
      BY <3>2, <3>3 DEF Msg, Hash
  <2> QED
    BY <2>1, <2>2
<1> QED
  BY <1>1, <1>3

LEMMA StreamTail ==
    ASSUME LedgerInv, NEW c \in Calls, inbox[c] # <<>>, inbox'[c] = Tail(inbox[c]),
           UNCHANGED <<queue, storing, id>>
    PROVE  /\ Size(c) >= 1 /\ Size(c)' = Size(c) - 1
           /\ At(c, 1) = Head(inbox[c])
           /\ \A k \in 1 .. Size(c) - 1 : At(c, k)' = At(c, k + 1)
<1>1. /\ Len(inbox[c]) \in Nat \ {0} /\ Len(inbox'[c]) = Len(inbox[c]) - 1
      /\ Head(inbox[c]) = inbox[c][1]
      /\ \A i \in 1 .. Len(inbox'[c]) : inbox'[c][i] = inbox[c][i + 1]
  BY StreamType, TailAt
<1>2. Off' = Off /\ \A e : Msg(e)' = Msg(e)
  BY DEF Off, Msg, Hash
<1>3. Size(c) >= 1 /\ Size(c)' = Size(c) - 1
  <2>1. PICK l \in Nat \ {0}, q \in Nat : l = Len(inbox[c]) /\ q = Len(queue)
    BY <1>1, StreamType
  <2>2. PICK o \in Nat : o = Off /\ o <= q
    BY <2>1, StreamType
  <2>3. Size(c) = l + q - o /\ Size(c)' = l - 1 + q - o
    BY <1>1, <1>2, <2>1, <2>2 DEF Size
  <2> QED
    BY <2>1, <2>2, <2>3
<1>4. At(c, 1) = Head(inbox[c])
  BY <1>1 DEF At
<1>5. ASSUME NEW k \in 1 .. Size(c) - 1 PROVE At(c, k)' = At(c, k + 1)
  <2>0. k \in Nat \ {0} /\ Off \in {0, 1} /\ Len(inbox[c]) \in Nat
    BY StreamType
  <2>1. CASE k <= Len(inbox'[c])
    <3>1. k \in 1 .. Len(inbox'[c]) /\ k + 1 <= Len(inbox[c])
      BY <1>1, <2>0, <2>1
    <3>2. inbox'[c][k] = inbox[c][k + 1]
      BY <1>1, <3>1
    <3> QED
      BY <2>1, <3>1, <3>2 DEF At
  <2>2. CASE ~(k <= Len(inbox'[c]))
    <3>1. k - Len(inbox'[c]) + Off = k + 1 - Len(inbox[c]) + Off /\ ~(k + 1 <= Len(inbox[c]))
      <4>1. PICK l \in Nat : l = Len(inbox[c])
        BY <2>0
      <4>2. Len(inbox'[c]) = l - 1 /\ ~(k <= l - 1)
        BY <1>1, <2>2, <4>1
      <4>3. PICK o \in Nat : o = Off
        BY <2>0
      <4>4. k - (l - 1) + o = k + 1 - l + o /\ ~(k + 1 <= l)
        BY <2>0, <4>1, <4>2
      <4> QED
        BY <4>1, <4>2, <4>3, <4>4
    <3>2. At(c, k)' = Msg(queue[k - Len(inbox'[c]) + Off])
      BY <1>2, <2>2 DEF At
    <3>3. At(c, k + 1) = Msg(queue[k + 1 - Len(inbox[c]) + Off])
      BY <3>1 DEF At
    <3> QED
      BY <3>1, <3>2, <3>3
  <2> QED
    BY <2>1, <2>2
<1> QED
  BY <1>3, <1>4, <1>5

LEMMA StreamPush ==
    ASSUME LedgerInv, NEW c \in Calls, NEW d \in Calls, NEW kind \in Kinds, Push(kind, d),
           inbox'[c] = inbox[c], UNCHANGED <<storing, id>>
    PROVE  /\ Size(c)' = Size(c) + 1
           /\ \A k \in 1 .. Size(c) : At(c, k)' = At(c, k)
           /\ \A k : k = Size(c) + 1 => At(c, k)' = Msg(Ev(kind, d))
<1>1. /\ Len(queue') = Len(queue) + 1
      /\ \A i \in 1 .. Len(queue) : queue'[i] = queue[i]
      /\ queue'[Len(queue) + 1] = Ev(kind, d)
  BY PushAt DEF LedgerInv
<1>2. Off' = Off /\ \A e : Msg(e)' = Msg(e)
  BY DEF Off, Msg, Hash
<1>3. Size(c)' = Size(c) + 1
  <2>1. Size(c)' = Len(inbox[c]) + Len(queue') - Off
    BY <1>2 DEF Size
  <2>2. Off \in {0, 1} /\ Len(inbox[c]) \in Nat /\ Len(queue) \in Nat
    BY StreamType
  <2>3. PICK l \in Nat, q \in Nat : l = Len(inbox[c]) /\ q = Len(queue)
    BY <2>2
  <2>4. Size(c)' = l + (q + 1) - Off /\ Size(c) = l + q - Off
    BY <1>1, <2>1, <2>3 DEF Size
  <2> QED
    BY <2>2, <2>4
<1>4. ASSUME NEW k \in 1 .. Size(c) PROVE At(c, k)' = At(c, k)
  <2>1. CASE k <= Len(inbox[c])
    BY <2>1 DEF At
  <2>2. CASE ~(k <= Len(inbox[c]))
    <3>1. k - Len(inbox[c]) + Off \in 1 .. Len(queue)
      BY <1>4, <2>2, StreamType DEF Size
    <3>2. queue'[k - Len(inbox[c]) + Off] = queue[k - Len(inbox[c]) + Off]
      BY <1>1, <3>1
    <3> QED
      BY <1>2, <2>2, <3>2 DEF At
  <2> QED
    BY <2>1, <2>2
<1>5. ASSUME NEW k, k = Size(c) + 1 PROVE At(c, k)' = Msg(Ev(kind, d))
  <2>1. Off \in {0, 1} /\ Len(inbox[c]) \in Nat /\ Len(queue) \in Nat /\ Off <= Len(queue)
    BY StreamType
  <2>2. ~(k <= Len(inbox[c])) /\ k - Len(inbox[c]) + Off = Len(queue) + 1
    <3>1. PICK l \in Nat, q \in Nat : l = Len(inbox[c]) /\ q = Len(queue)
      BY <2>1
    <3>2. k = l + q - Off + 1 /\ Off <= q
      BY <1>5, <2>1, <3>1 DEF Size
    <3>3. ~(k <= l) /\ k - l + Off = q + 1
      BY <2>1, <3>2
    <3> QED
      BY <3>1, <3>3
  <2> QED
    BY <1>1, <1>2, <2>2 DEF At
<1> QED
  BY <1>3, <1>4, <1>5

Mine(c, k) == At(c, k).id = id[c]
EndAt(c, k) == Mine(c, k) /\ At(c, k).kind # "receipt"
ReceiptAt(c, k) == Mine(c, k) /\ At(c, k).kind = "receipt"
SuccessAt(c, k) == Mine(c, k) /\ At(c, k).kind = "success"
EndedBy(c, n) == \E k \in 1 .. n : EndAt(c, k)
HeardBy(c, n) == receipt[c] = Hash(c) \/ \E k \in 1 .. n : ReceiptAt(c, k)

(* Up to the end a waiting call takes for its own, what carries its id is  *)
(* of its payment, the receipt first; and that end is on its way as soon   *)
(* as LDK may let another payment have the id.                             *)
Sound(c, k) ==
    \/ EndedBy(c, k - 1)
    \/ /\ ReceiptAt(c, k) => pay[c] = "sent" /\ At(c, k).hash = Hash(c)
       /\ SuccessAt(c, k) => pay[c] = "sent" /\ HeardBy(c, k - 1)

Pending(c) ==
    c \in known /\ (pay[c] = "sent" => parts[c] > 0 /\ HeardBy(c, Size(c)))

WaitInv(c) ==
    /\ \A k \in 1 .. Size(c) : Sound(c, k)
    /\ EndedBy(c, Size(c)) \/ Pending(c)

(* What carries the id of a call that is not yet accepted is of a payment  *)
(* that is remembered, or is a failure.                                    *)
AskInv(c) ==
    \A k \in 1 .. Size(c) :
        Mine(c, k) /\ At(c, k).kind # "failure" =>
            \E d \in known : id[d] = id[c] /\ pay[d] = "sent"

StreamInv(c) ==
    /\ pc[c] = "pay" => AskInv(c)
    /\ pc[c] = "wait" => WaitInv(c)

(* A step that only moves what the call hears, or takes its first message, *)
(* which is not the end.                                                   *)
LEMMA WaitMoves ==
    ASSUME LedgerInv, NEW c \in Calls, WaitInv(c), NEW s \in {0, 1},
           Size(c) >= s, Size(c)' = Size(c) - s,
           \A k \in 1 .. Size(c) - s : At(c, k)' = At(c, k + s),
           s = 1 => ~EndAt(c, 1) /\ (ReceiptAt(c, 1) => receipt'[c] = Hash(c)),
           receipt[c] = Hash(c) => receipt'[c] = Hash(c),
           id'[c] = id[c], pay'[c] = pay[c], parts'[c] = parts[c],
           EndedBy(c, Size(c)) \/ c \in known'
    PROVE  WaitInv(c)'
<1>0. Size(c) \in Nat
  BY StreamType
<1>1. Hash(c)' = Hash(c)
  BY DEF Hash
<1>2. ASSUME NEW k \in 1 .. Size(c) - s
      PROVE  /\ k + s \in 1 .. Size(c)
             /\ EndAt(c, k)' <=> EndAt(c, k + s)
             /\ ReceiptAt(c, k)' <=> ReceiptAt(c, k + s)
             /\ SuccessAt(c, k)' <=> SuccessAt(c, k + s)
             /\ At(c, k)' = At(c, k + s)
  BY <1>0, <1>2 DEF EndAt, ReceiptAt, SuccessAt, Mine
<1>3. ASSUME NEW n \in 0 .. Size(c) - s, EndedBy(c, n + s) PROVE EndedBy(c, n)'
  <2>1. PICK k \in 1 .. n + s : EndAt(c, k)
    BY <1>3 DEF EndedBy
  <2>2. k - s \in 1 .. n /\ k - s \in 1 .. Size(c) - s /\ k - s + s = k
    BY <1>0, <2>1
  <2>3. EndAt(c, k - s + s)
    BY <2>1, <2>2
  <2> DEFINE j == k - s
  <2>4. j \in 1 .. n /\ j \in 1 .. Size(c) - s /\ EndAt(c, j + s)
    BY <2>2, <2>3
  <2> HIDE DEF j
  <2>5. EndAt(c, j)'
    BY <1>2, <2>4
  <2> QED
    BY <2>4, <2>5 DEF EndedBy
<1>4. ASSUME NEW n \in 0 .. Size(c) - s, HeardBy(c, n + s) PROVE HeardBy(c, n)'
  <2>1. CASE receipt'[c] = Hash(c)
    BY <1>1, <2>1 DEF HeardBy
  <2>2. CASE receipt'[c] # Hash(c)
    <3>1. PICK k \in 1 .. n + s : ReceiptAt(c, k)
      BY <1>4, <2>2 DEF HeardBy
    <3>2. k - s \in 1 .. n /\ k - s \in 1 .. Size(c) - s /\ k - s + s = k
      BY <1>0, <2>2, <3>1
    <3> DEFINE j == k - s
    <3>3. j \in 1 .. n /\ j \in 1 .. Size(c) - s /\ ReceiptAt(c, j + s)
      BY <3>1, <3>2
    <3> HIDE DEF j
    <3>4. ReceiptAt(c, j)'
      BY <1>2, <3>3
    <3> QED
      BY <3>3, <3>4 DEF HeardBy
  <2> QED
    BY <2>1, <2>2
<1>5. ASSUME NEW k \in 1 .. Size(c) - s PROVE Sound(c, k)'
  <2>1. k + s \in 1 .. Size(c) /\ Sound(c, k + s)
    BY <1>2 DEF WaitInv
  <2>2. k - 1 \in 0 .. Size(c) - s /\ k + s - 1 = k - 1 + s
    BY <1>0
  <2>3. CASE EndedBy(c, k + s - 1)
    BY <1>3, <2>2, <2>3 DEF Sound
  <2>4. CASE ~EndedBy(c, k + s - 1)
    <3>1. /\ ReceiptAt(c, k + s) => pay[c] = "sent" /\ At(c, k + s).hash = Hash(c)
          /\ SuccessAt(c, k + s) => pay[c] = "sent" /\ HeardBy(c, k - 1 + s)
      BY <2>1, <2>2, <2>4 DEF Sound
    <3> QED
      BY <1>1, <1>2, <1>4, <2>2, <3>1 DEF Sound
  <2> QED
    BY <2>3, <2>4
<1>6. EndedBy(c, Size(c))' \/ Pending(c)'
  <2>1. Size(c) - s \in 0 .. Size(c) - s /\ Size(c) - s + s = Size(c)
    BY <1>0
  <2>2. CASE EndedBy(c, Size(c))
    <3>1. \A n : n = Size(c) - s => EndedBy(c, n)'
      BY <1>3, <2>1, <2>2
    <3> QED
      BY <3>1 DEF EndedBy
  <2>3. CASE Pending(c) /\ ~EndedBy(c, Size(c))
    <3>1. HeardBy(c, Size(c)) => \A n : n = Size(c) - s => HeardBy(c, n)'
      BY <1>4, <2>1
    <3>2. HeardBy(c, Size(c)) => HeardBy(c, Size(c))'
      BY <3>1 DEF HeardBy
    <3> QED
      BY <2>3, <3>2 DEF Pending
  <2> QED
    BY <2>2, <2>3 DEF WaitInv
<1> QED
  BY <1>5, <1>6 DEF WaitInv

(* LDK queues an event of a payment. *)
LEMMA WaitPush ==
    ASSUME LedgerInv, NEW c \in Calls, WaitInv(c), NEW d \in Calls, NEW kind \in Kinds,
           \/ Fulfilled(d) /\ kind = "sent"
           \/ PartDone(d) /\ kind = "path"
           \/ GivenUp(d) /\ kind = "failed"
    PROVE  WaitInv(c)'
<1>0. Size(c) \in Nat
  BY StreamType
<1>1. Push(kind, d) /\ UNCHANGED <<storing, id, receipt>> /\ inbox'[c] = inbox[c]
  BY DEF Fulfilled, PartDone, GivenUp, callVars, diskVars
<1>2. /\ Size(c)' = Size(c) + 1
      /\ \A k \in 1 .. Size(c) : At(c, k)' = At(c, k)
      /\ \A k : k = Size(c) + 1 => At(c, k)' = Msg(Ev(kind, d))
  BY <1>1, StreamPush
<1>3. Hash(c)' = Hash(c)
  BY <1>1 DEF Hash
<1>4. ASSUME NEW k \in 1 .. Size(c)
      PROVE  /\ EndAt(c, k)' <=> EndAt(c, k)
             /\ ReceiptAt(c, k)' <=> ReceiptAt(c, k)
             /\ SuccessAt(c, k)' <=> SuccessAt(c, k)
  BY <1>1, <1>2, <1>4 DEF EndAt, ReceiptAt, SuccessAt, Mine
<1>5. ASSUME NEW n \in 0 .. Size(c), EndedBy(c, n)
      PROVE  EndedBy(c, n)' /\ EndedBy(c, Size(c))'
  <2>1. PICK k \in 1 .. n : EndAt(c, k)
    BY <1>5 DEF EndedBy
  <2>2. k \in 1 .. Size(c) /\ k \in 1 .. Size(c) + 1
    BY <1>0, <2>1
  <2>3. EndAt(c, k)'
    BY <1>4, <2>1, <2>2
  <2>4. EndedBy(c, n)'
    BY <2>1, <2>3 DEF EndedBy
  <2>5. EndedBy(c, Size(c))'
    BY <1>2, <2>2, <2>3 DEF EndedBy
  <2> QED
    BY <2>4, <2>5
<1>6. ASSUME NEW n \in 0 .. Size(c), HeardBy(c, n)
      PROVE  HeardBy(c, n)' /\ HeardBy(c, Size(c))'
  <2>1. CASE receipt[c] = Hash(c)
    BY <1>1, <1>3, <2>1 DEF HeardBy
  <2>2. CASE receipt[c] # Hash(c)
    <3>1. PICK k \in 1 .. n : ReceiptAt(c, k)
      BY <1>6, <2>2 DEF HeardBy
    <3>2. k \in 1 .. Size(c) /\ k \in 1 .. Size(c) + 1
      BY <1>0, <3>1
    <3>3. ReceiptAt(c, k)'
      BY <1>4, <3>1, <3>2
    <3>4. HeardBy(c, n)'
      BY <3>1, <3>3 DEF HeardBy
    <3>5. HeardBy(c, Size(c))'
      BY <1>2, <3>2, <3>3 DEF HeardBy
    <3> QED
      BY <3>4, <3>5
  <2> QED
    BY <2>1, <2>2
<1>7. /\ pay[c] = "sent" => pay'[c] = "sent"
      /\ kind = "sent" => pay'[d] = "sent" /\ d \in known /\ parts'[d] > 0
      /\ kind = "path" => pay'[d] = "sent" /\ pay[d] = "sent" /\ d \in known
      /\ d # c => pay'[c] = pay[c] /\ parts'[c] = parts[c]
      /\ d # c /\ c \in known => c \in known'
      /\ kind # "failed" => known' = known
  <2>1. CASE Fulfilled(d) /\ kind = "sent"
    <3>1. /\ pay[d] = "pending" /\ pay' = [pay EXCEPT ![d] = "sent"] /\ known' = known
          /\ \E n \in 1 .. MaxParts : parts' = [parts EXCEPT ![d] = n]
      BY <2>1 DEF Fulfilled
    <3>2. d \in known
      BY <3>1, Shapes DEF PaymentInv
    <3>3. parts'[d] > 0 /\ (d # c => parts'[c] = parts[c])
      <4>1. PICK n \in 1 .. MaxParts : parts' = [parts EXCEPT ![d] = n]
        BY <3>1
      <4>2. n > 0
        BY BoundsAssumption
      <4>3. parts \in [Calls -> 0 .. MaxParts]
        BY Shapes
      <4> QED
        BY <4>1, <4>2, <4>3
    <3>4. pay'[d] = "sent" /\ (d # c => pay'[c] = pay[c])
      BY <3>1, Shapes
    <3> QED
      BY <2>1, <3>1, <3>2, <3>3, <3>4
  <2>2. CASE PartDone(d) /\ kind = "path"
    BY <2>2, Shapes DEF PartDone, PaymentInv
  <2>3. CASE GivenUp(d) /\ kind = "failed"
    BY <2>3, Shapes DEF GivenUp, PaymentInv
  <2> QED
    BY <2>1, <2>2, <2>3
<1>8. ASSUME NEW k \in 1 .. Size(c) PROVE Sound(c, k)'
  <2>1. Sound(c, k) /\ k - 1 \in 0 .. Size(c)
    BY <1>0, <1>8 DEF WaitInv
  <2>2. CASE EndedBy(c, k - 1)
    BY <1>5, <2>1, <2>2 DEF Sound
  <2>3. CASE ~EndedBy(c, k - 1)
    BY <1>2, <1>3, <1>4, <1>6, <1>7, <2>1, <2>3 DEF Sound
  <2> QED
    BY <2>2, <2>3
<1>9. CASE EndedBy(c, Size(c))
  <2>1. ASSUME NEW k, k = Size(c) + 1 PROVE Sound(c, k)'
    <3>1. k - 1 = Size(c) /\ Size(c) \in 0 .. Size(c)
      BY <1>0, <2>1
    <3>2. EndedBy(c, k - 1)'
      BY <1>5, <1>9, <3>1
    <3> QED
      BY <3>2 DEF Sound
  <2>2. \A k \in 1 .. Size(c) + 1 : k \in 1 .. Size(c) \/ k = Size(c) + 1
    BY <1>0
  <2>3. EndedBy(c, Size(c))'
    BY <1>0, <1>5, <1>9
  <2> QED
    BY <1>2, <1>8, <2>1, <2>2, <2>3 DEF WaitInv
<1>10. CASE ~EndedBy(c, Size(c))
  <2>1. Pending(c)
    BY <1>10 DEF WaitInv
  <2>2. PICK n \in Nat : n = Size(c) + 1
    BY <1>0
  <2>3. /\ n \in 1 .. n /\ n - 1 = Size(c) /\ Size(c) \in 0 .. Size(c)
        /\ \A k \in 1 .. n : k \in 1 .. Size(c) \/ k = n
    BY <1>0, <2>2
  <2>4. At(c, n)' = Msg(Ev(kind, d))
    BY <1>2, <2>2
  <2>5. /\ ReceiptAt(c, n)' <=> id[d] = id[c] /\ kind = "sent"
        /\ EndAt(c, n)' <=> id[d] = id[c] /\ kind # "sent"
        /\ SuccessAt(c, n)' <=> id[d] = id[c] /\ kind = "path"
        /\ At(c, n)'.hash = Hash(d)
    BY <1>1, <2>4 DEF ReceiptAt, EndAt, SuccessAt, Mine, Msg, Ev, Word, Kinds
  <2>6. id[d] = id[c] /\ kind # "failed" => d = c
    BY <1>7, <2>1, Shapes DEF Pending, KnownInv, Kinds
  <2>7. Sound(c, n)'
    <3>1. ReceiptAt(c, n)' => pay'[c] = "sent" /\ At(c, n)'.hash = Hash(c)'
      BY <1>3, <1>7, <2>5, <2>6
    <3>2. SuccessAt(c, n)' => pay'[c] = "sent" /\ HeardBy(c, n - 1)'
      BY <1>6, <1>7, <2>1, <2>3, <2>5, <2>6 DEF Pending
    <3> QED
      BY <3>1, <3>2 DEF Sound
  <2>8. EndAt(c, n)' => EndedBy(c, Size(c))'
    BY <1>2, <2>2, <2>3 DEF EndedBy
  <2>9. ReceiptAt(c, n)' => HeardBy(c, Size(c))'
    BY <1>2, <2>2, <2>3 DEF HeardBy
  <2>10. CASE d = c
    BY <1>7, <2>5, <2>8, <2>9, <2>10, <2>3, <1>8, <2>7, <1>2, <2>2 DEF Pending, WaitInv, Kinds
  <2>11. CASE d # c
    <3>1. Pending(c)'
      BY <1>6, <1>7, <2>1, <2>3, <2>11 DEF Pending
    <3> QED
      BY <1>2, <1>8, <2>2, <2>3, <2>7, <3>1 DEF WaitInv
  <2> QED
    BY <2>10, <2>11
<1> QED
  BY <1>9, <1>10

LEMMA KnownLasting ==
    ASSUME LedgerInv, [Next]_vars, NEW c \in Calls, pc[c] = "pay",
           NEW d \in known, pay[d] = "sent", id[d] = id[c]
    PROVE  d \in known' /\ pay'[d] = "sent" /\ id'[d] = id[d]
<1>1. d \in Calls /\ pc[d] # "idle"
  BY Shapes DEF PaymentInv
<1>2. pay'[d] = "sent" /\ id'[d] = id[d]
  BY <1>1, Lasting
<1>3. ASSUME NEW e \in Calls, Call(e) PROVE d \in known'
  BY <1>3 DEF Call, JsonPay, JsonKeysend, Subscribe, PaymentAccepted, PaymentRefused,
       wait_for_payment_result, HearReceipt, HearEnd, HearOther, Timeout, ldkVars
<1>4. ASSUME NEW e \in Calls, Ldk(e) PROVE d \in known'
  <2>1. CASE Forgotten(e)
    <3>1. c \in SameId(e) => pc[c] # "pay"
      BY <2>1 DEF Forgotten
    <3>2. e # d
      BY <3>1 DEF SameId
    <3> QED
      BY <2>1, <3>2 DEF Forgotten
  <2> QED
    BY <1>1, <1>4, <2>1, Shapes DEF Ldk, PaymentClaimable, Fulfilled, PartDone, GivenUp
<1>5. CASE Handler \/ Persisted \/ Restart \/ UNCHANGED vars
  BY <1>5 DEF Handler, PaymentSent, StoreProof, PaymentPathSuccessful, PaymentFailed,
              Persisted, Restart, callVars, ldkVars, vars
<1> QED
  BY <1>2, <1>3, <1>4, <1>5 DEF Next

LEMMA AskMoves ==
    ASSUME LedgerInv, [Next]_vars, NEW c \in Calls, pc[c] = "pay", AskInv(c),
           Size(c)' = Size(c), \A k \in 1 .. Size(c) : At(c, k)' = At(c, k)
    PROVE  AskInv(c)'
<1>1. id'[c] = id[c]
  BY Lasting
<1> SUFFICES ASSUME NEW k \in 1 .. Size(c), Mine(c, k)', At(c, k)'.kind # "failure"
             PROVE  \E d \in known' : id'[d] = id'[c] /\ pay'[d] = "sent"
  BY DEF AskInv
<1>2. Mine(c, k) /\ At(c, k).kind # "failure"
  BY <1>1 DEF Mine
<1>3. PICK d \in known : id[d] = id[c] /\ pay[d] = "sent"
  BY <1>2 DEF AskInv
<1> QED
  BY <1>1, <1>3, KnownLasting

LEMMA AskPush ==
    ASSUME LedgerInv, [Next]_vars, NEW c \in Calls, pc[c] = "pay", AskInv(c),
           NEW d \in Calls, NEW kind \in Kinds,
           \/ Fulfilled(d) /\ kind = "sent"
           \/ PartDone(d) /\ kind = "path"
           \/ GivenUp(d) /\ kind = "failed"
    PROVE  AskInv(c)'
<1>1. Push(kind, d) /\ UNCHANGED <<storing, id>> /\ inbox'[c] = inbox[c]
  BY DEF Fulfilled, PartDone, GivenUp, callVars, diskVars
<1>2. /\ Size(c)' = Size(c) + 1
      /\ \A k \in 1 .. Size(c) : At(c, k)' = At(c, k)
      /\ \A k : k = Size(c) + 1 => At(c, k)' = Msg(Ev(kind, d))
  BY <1>1, StreamPush
<1>3. kind # "failed" => d \in known' /\ pay'[d] = "sent"
  BY Shapes DEF Fulfilled, PartDone, PaymentInv
<1>4. Size(c) \in Nat
  BY StreamType
<1> SUFFICES ASSUME NEW k \in 1 .. Size(c) + 1, Mine(c, k)', At(c, k)'.kind # "failure"
             PROVE  \E e \in known' : id'[e] = id'[c] /\ pay'[e] = "sent"
  BY <1>2 DEF AskInv
<1>5. CASE k \in 1 .. Size(c)
  <2>1. Mine(c, k) /\ At(c, k).kind # "failure"
    BY <1>1, <1>2, <1>5 DEF Mine
  <2>2. PICK e \in known : id[e] = id[c] /\ pay[e] = "sent"
    BY <1>5, <2>1 DEF AskInv
  <2> QED
    BY <1>1, <2>2, KnownLasting
<1>6. CASE k = Size(c) + 1
  <2>1. At(c, k)' = Msg(Ev(kind, d))
    BY <1>2, <1>6
  <2>2. id[d] = id[c] /\ kind # "failed"
    BY <1>1, <2>1 DEF Mine, Msg, Ev, Word
  <2> QED
    BY <1>1, <1>3, <2>2
<1> QED
  BY <1>4, <1>5, <1>6

LEMMA FirstSound ==
    ASSUME LedgerInv, NEW c \in Calls, WaitInv(c), inbox[c] # <<>>
    PROVE  /\ Size(c) >= 1 /\ At(c, 1) = Head(inbox[c]) /\ Head(inbox[c]) \in Messages
           /\ ReceiptAt(c, 1) => pay[c] = "sent" /\ At(c, 1).hash = Hash(c)
           /\ SuccessAt(c, 1) => pay[c] = "sent" /\ receipt[c] = Hash(c)
<1>1. inbox[c] \in Seq(Messages) /\ Size(c) \in Nat /\ Len(inbox[c]) <= Size(c)
  BY StreamType
<1>2. /\ Len(inbox[c]) \in Nat \ {0} /\ Head(inbox[c]) = inbox[c][1]
      /\ Head(inbox[c]) \in Messages
  BY <1>1, TailAt
<1>3. 1 <= Len(inbox[c]) /\ Size(c) >= 1 /\ 1 \in 1 .. Size(c)
  BY <1>1, <1>2
<1>4. At(c, 1) = Head(inbox[c])
  BY <1>2, <1>3 DEF At
<1>5. Sound(c, 1) /\ 1 - 1 = 0
  BY <1>3 DEF WaitInv
<1>6. ~EndedBy(c, 0) /\ (HeardBy(c, 0) <=> receipt[c] = Hash(c))
  BY DEF EndedBy, HeardBy
<1> QED
  BY <1>2, <1>3, <1>4, <1>5, <1>6 DEF Sound

LEMMA StreamStill ==
    ASSUME LedgerInv, [Next]_vars, NEW c \in Calls, StreamInv(c), pc'[c] = pc[c],
           Size(c)' = Size(c), \A k \in 1 .. Size(c) : At(c, k)' = At(c, k),
           receipt'[c] = receipt[c], pay'[c] = pay[c], parts'[c] = parts[c],
           c \in known => c \in known' \/ ~Pending(c)
    PROVE  StreamInv(c)'
<1>1. CASE pc[c] = "pay"
  BY <1>1, AskMoves DEF StreamInv
<1>2. CASE pc[c] = "wait"
  <2>1. WaitInv(c) /\ id'[c] = id[c]
    BY <1>2, Lasting DEF StreamInv
  <2> DEFINE Still(s) == s \in {0, 1} /\ s # 1 /\ Size(c) >= s /\ Size(c)' = Size(c) - s
  <2>2. PICK s : Still(s) /\ \A k \in 1 .. Size(c) - s : k \in 1 .. Size(c) /\ k + s = k
    <3>1. Still(0) /\ \A k \in 1 .. Size(c) - 0 : k \in 1 .. Size(c) /\ k + 0 = k
      BY StreamType
    <3> QED
      BY <3>1
  <2>3. \A k \in 1 .. Size(c) - s : At(c, k)' = At(c, k + s)
    BY <2>2
  <2>4. EndedBy(c, Size(c)) \/ c \in known'
    BY <2>1 DEF WaitInv, Pending
  <2>5. WaitInv(c)'
    BY <2>1, <2>2, <2>3, <2>4, WaitMoves
  <2> QED
    BY <1>2, <2>5 DEF StreamInv
<1>3. CASE pc[c] \notin {"pay", "wait"}
  BY <1>3 DEF StreamInv
<1> QED
  BY <1>1, <1>2, <1>3

(* What a call holds and answers. *)
HoldsInv(c) ==
    /\ receipt[c] # None =>
          pc[c] \in {"wait", "done"} /\ pay[c] = "sent" /\ receipt[c] = Hash(c)
    /\ answer[c] # "none" => pc[c] = "done"
    /\ answer[c] = "success" => receipt[c] = Hash(c) /\ pay[c] = "sent"
    /\ pc[c] = "idle" => inbox[c] = <<>>

(* The call takes a step of its own. *)
LEMMA OwnStep ==
    ASSUME LedgerInv, NEW c \in Calls, Call(c), StreamInv(c), HoldsInv(c)
    PROVE  StreamInv(c)' /\ HoldsInv(c)'
<1>0. [Next]_vars
  BY DEF Next
<1>1. /\ pc \in [Calls -> {"idle", "pay", "wait", "done"}]
      /\ id \in [Calls -> Ids \cup {None}] /\ None \notin Ids
      /\ inbox \in [Calls -> Seq(Messages)]
      /\ receipt \in [Calls -> Ids \cup {None}]
      /\ answer \in [Calls -> {"none", "success", "failure", "error"}]
      /\ pay \in [Calls -> {"none", "pending", "sent", "failed"}]
  BY DisjointAssumption DEF LedgerInv, TypeOK, Ids
<1>2. CASE JsonPay(c) \/ JsonKeysend(c)
  <2>1. PICK i \in Ids : Subscribe(c, i)
    BY <1>2 DEF JsonPay, JsonKeysend, Ids
  <2>2. /\ pc[c] = "idle" /\ pc'[c] = "pay" /\ inbox'[c] = <<>> /\ id'[c] = i
        /\ UNCHANGED <<receipt, answer, pay, known, queue, storing>>
        /\ \A d \in Calls : pc[d] # "idle" => id'[d] = id[d]
    BY <1>1, <2>1 DEF Subscribe, HoldsInv, ldkVars, diskVars
  <2>3. receipt'[c] = None /\ answer'[c] = "none"
    BY <2>2 DEF HoldsInv
  <2>4. inbox'[c] = inbox[c]
    BY <2>2 DEF HoldsInv
  <2>5. Size(c)' = Size(c) /\ \A k \in 1 .. Size(c) : At(c, k)' = At(c, k)
    BY <2>2, <2>4, StreamSame
  <2>6. AskInv(c)'
    <3> SUFFICES ASSUME NEW k \in 1 .. Size(c), Mine(c, k)', At(c, k)'.kind # "failure"
                 PROVE  \E d \in known' : id'[d] = id'[c] /\ pay'[d] = "sent"
      BY <2>5 DEF AskInv
    <3>1. Len(inbox[c]) = 0
      BY <2>2, <2>4
    <3>2. PICK j \in 1 .. Len(queue) : At(c, k) = Msg(queue[j])
      BY <3>1, StreamOf
    <3> DEFINE d == queue[j].of
    <3>3. d \in Calls /\ pc[d] # "idle" /\ queue[j].kind \in Kinds /\ EventInv(queue[j])
      BY EventOf DEF LedgerInv, EventsInv
    <3>4. id[d] = id'[c] /\ queue[j].kind # "failed"
      BY <2>5, <3>2 DEF Mine, Msg, Word
    <3>5. d \in known /\ pay[d] = "sent"
      BY <3>3, <3>4 DEF EventInv, Kinds, Paid
    <3> QED
      BY <2>2, <3>3, <3>4, <3>5
  <2> QED
    BY <2>2, <2>3, <2>6 DEF StreamInv, HoldsInv
<1>3. CASE PaymentAccepted(c)
  <2>1. /\ pc[c] = "pay" /\ pc'[c] = "wait" /\ pay'[c] = "pending" /\ c \in known'
        /\ UNCHANGED <<id, inbox, receipt, answer, queue, storing>>
        /\ \A d \in known : id[d] # id[c]
    BY <1>1, <1>3, Shapes DEF PaymentAccepted, SameId, diskVars
  <2>2. receipt[c] = None /\ answer[c] = "none" /\ AskInv(c)
    BY <2>1 DEF HoldsInv, StreamInv
  <2>3. Size(c)' = Size(c) /\ \A k \in 1 .. Size(c) : At(c, k)' = At(c, k)
    BY <2>1, StreamSame
  <2>4. ASSUME NEW k \in 1 .. Size(c) PROVE Sound(c, k)'
    <3>1. Mine(c, k) => At(c, k).kind = "failure"
      BY <2>1, <2>2 DEF AskInv
    <3>2. ~ReceiptAt(c, k)' /\ ~SuccessAt(c, k)'
      BY <2>1, <2>3, <3>1 DEF ReceiptAt, SuccessAt, Mine
    <3> QED
      BY <3>2 DEF Sound
  <2>5. WaitInv(c)'
    BY <2>1, <2>3, <2>4 DEF WaitInv, Pending
  <2> QED
    BY <2>1, <2>2, <2>5 DEF StreamInv, HoldsInv
<1>4. ASSUME NEW result, Return(c, result), result # "none",
             result # "error" => pc[c] = "wait",
             result = "success" => pay[c] = "sent" /\ receipt[c] = Hash(c),
             UNCHANGED <<id, pay>>
      PROVE  StreamInv(c)' /\ HoldsInv(c)'
  <2>1. pc'[c] = "done" /\ answer'[c] = result /\ inbox'[c] = <<>>
    BY <1>1, <1>4 DEF Return
  <2>2. receipt'[c] = IF result = "error" THEN None ELSE receipt[c]
    BY <1>1, <1>4 DEF Return
  <2>3. Hash(c)' = Hash(c)
    BY <1>4 DEF Hash
  <2> QED
    BY <1>4, <2>1, <2>2, <2>3 DEF StreamInv, HoldsInv
<1>5. CASE PaymentRefused(c) \/ Timeout(c)
  BY <1>4, <1>5 DEF PaymentRefused, Timeout, ldkVars
<1>6. CASE HearEnd(c)
  <2>1. pc[c] = "wait" /\ inbox[c] # <<>> /\ WaitInv(c)
    BY <1>6 DEF HearEnd, Hears, StreamInv
  <2>2. Head(inbox[c]).kind = "success" => pay[c] = "sent" /\ receipt[c] = Hash(c)
    BY <1>6, <2>1, FirstSound DEF HearEnd, Own, SuccessAt, Mine
  <2>3. Head(inbox[c]).kind \in {"success", "failure"}
    BY <1>6, <2>1, FirstSound DEF HearEnd, Messages
  <2> QED
    BY <1>4, <1>6, <2>1, <2>2, <2>3 DEF HearEnd, ldkVars
<1>7. CASE HearReceipt(c) \/ HearOther(c)
  <2>1. /\ pc[c] = "wait" /\ inbox[c] # <<>> /\ WaitInv(c)
        /\ inbox'[c] = Tail(inbox[c])
        /\ UNCHANGED <<pc, id, answer, pay, parts, known, queue, storing>>
    BY <1>1, <1>7 DEF HearReceipt, HearOther, Hears, StreamInv, ldkVars, diskVars
  <2>2. /\ Size(c) >= 1 /\ Size(c)' = Size(c) - 1 /\ At(c, 1) = Head(inbox[c])
        /\ \A k \in 1 .. Size(c) - 1 : At(c, k)' = At(c, k + 1)
    BY <2>1, StreamTail
  <2>3. ~EndAt(c, 1)
    BY <1>7, <2>2 DEF EndAt, Mine, HearReceipt, HearOther, Own
  <2>4. ReceiptAt(c, 1) => receipt'[c] = Hash(c) /\ pay[c] = "sent"
    BY <1>1, <1>7, <2>1, <2>2, FirstSound DEF ReceiptAt, Mine, HearReceipt, HearOther, Own
  <2>5. ~ReceiptAt(c, 1) => receipt'[c] = receipt[c]
    BY <1>7, <2>2 DEF ReceiptAt, Mine, HearReceipt, HearOther, Own
  <2>6. PICK s \in {0, 1} : s = 1
    OBVIOUS
  <2>7. EndedBy(c, Size(c)) \/ c \in known'
    BY <2>1 DEF WaitInv, Pending
  <2>8. WaitInv(c)'
    BY <2>1, <2>2, <2>3, <2>4, <2>5, <2>6, <2>7, WaitMoves
  <2>9. Hash(c)' = Hash(c)
    BY <2>1 DEF Hash
  <2> QED
    BY <2>1, <2>4, <2>5, <2>8, <2>9 DEF StreamInv, HoldsInv
<1> QED
  BY <1>2, <1>3, <1>5, <1>6, <1>7 DEF Call, wait_for_payment_result

LEMMA AnswerNext ==
    ASSUME LedgerInv, [Next]_vars, NEW c \in Calls, StreamInv(c), HoldsInv(c)
    PROVE  StreamInv(c)' /\ HoldsInv(c)'
<1>1. /\ pc \in [Calls -> {"idle", "pay", "wait", "done"}]
      /\ id \in [Calls -> Ids \cup {None}] /\ None \notin Ids
      /\ inbox \in [Calls -> Seq(Messages)]
      /\ receipt \in [Calls -> Ids \cup {None}]
      /\ answer \in [Calls -> {"none", "success", "failure", "error"}]
      /\ pay \in [Calls -> {"none", "pending", "sent", "failed"}]
      /\ parts \in [Calls -> 0 .. MaxParts]
      /\ known \subseteq Calls
  BY DisjointAssumption DEF LedgerInv, TypeOK, Ids
<1>2. /\ pc[c] # "idle" => id'[c] = id[c] /\ Hash(c)' = Hash(c)
      /\ pay[c] = "sent" => pay'[c] = "sent"
  BY Lasting DEF Hash
<1>3. ASSUME pc'[c] = pc[c], receipt'[c] = receipt[c], answer'[c] = answer[c],
             pc[c] = "idle" => inbox'[c] = inbox[c]
      PROVE  HoldsInv(c)'
  BY <1>2, <1>3 DEF HoldsInv
<1>4. ASSUME pc'[c] = pc[c], receipt'[c] = receipt[c], answer'[c] = answer[c],
             inbox'[c] = inbox[c], pay'[c] = pay[c], parts'[c] = parts[c],
             UNCHANGED <<queue, storing>>, c \in known => c \in known' \/ ~Pending(c)
      PROVE  StreamInv(c)' /\ HoldsInv(c)'
  <2>1. \A d \in Calls : pc[d] # "idle" => id'[d] = id[d]
    BY Lasting
  <2>2. Size(c)' = Size(c) /\ \A k \in 1 .. Size(c) : At(c, k)' = At(c, k)
    BY <1>4, <2>1, StreamSame
  <2>3. StreamInv(c)'
    BY <1>4, <2>2, StreamStill
  <2> QED
    BY <1>3, <1>4, <2>3
<1>5. CASE Persisted \/ UNCHANGED vars
  BY <1>4, <1>5 DEF Persisted, callVars, ldkVars, diskVars, vars
<1>6. ASSUME NEW d \in Calls, Call(d) PROVE StreamInv(c)' /\ HoldsInv(c)'
  <2>1. CASE d = c
    BY <1>6, <2>1, OwnStep
  <2>2. CASE d # c
    <3>1. /\ pc'[c] = pc[c] /\ receipt'[c] = receipt[c] /\ answer'[c] = answer[c]
          /\ inbox'[c] = inbox[c] /\ pay'[c] = pay[c] /\ parts'[c] = parts[c]
          /\ UNCHANGED <<queue, storing>> /\ known \subseteq known'
      BY <1>1, <1>6, <2>2
         DEF Call, JsonPay, JsonKeysend, Subscribe, PaymentAccepted, PaymentRefused,
             wait_for_payment_result, HearReceipt, HearEnd, HearOther, Timeout, Return,
             ldkVars, diskVars
    <3> QED
      BY <1>4, <3>1
  <2> QED
    BY <2>1, <2>2
<1>7. ASSUME NEW d \in Calls, Ldk(d) PROVE StreamInv(c)' /\ HoldsInv(c)'
  <2>1. UNCHANGED callVars /\ UNCHANGED storing
    BY <1>7 DEF Ldk, PaymentClaimable, Fulfilled, PartDone, GivenUp, Forgotten, diskVars
  <2>2. HoldsInv(c)'
    BY <1>3, <2>1 DEF callVars
  <2>3. CASE PaymentClaimable(d)
    BY <1>4, <2>1, <2>3 DEF PaymentClaimable, callVars
  <2>4. CASE Forgotten(d)
    <3>1. d = c => ~Pending(c)
      BY <1>1, <2>4 DEF Forgotten, Pending
    <3>2. c \in known => c \in known' \/ ~Pending(c)
      BY <2>4, <3>1 DEF Forgotten
    <3> QED
      BY <1>4, <2>1, <2>4, <3>2 DEF Forgotten, callVars
  <2>5. CASE Fulfilled(d) \/ PartDone(d) \/ GivenUp(d)
    <3>1. PICK kind \in Kinds : \/ Fulfilled(d) /\ kind = "sent"
                                \/ PartDone(d) /\ kind = "path"
                                \/ GivenUp(d) /\ kind = "failed"
      BY <2>5 DEF Kinds
    <3>2. pc[c] = "wait" => WaitInv(c)'
      BY <3>1, WaitPush DEF StreamInv
    <3>3. pc[c] = "pay" => AskInv(c)'
      BY <3>1, AskPush DEF StreamInv
    <3> QED
      BY <2>1, <2>2, <3>2, <3>3 DEF StreamInv, callVars
  <2> QED
    BY <1>7, <2>3, <2>4, <2>5 DEF Ldk
<1>8. CASE Handler
  <2>1. UNCHANGED <<pc, receipt, answer, pay, parts, known>>
    BY <1>8 DEF Handler, PaymentSent, StoreProof, PaymentPathSuccessful, PaymentFailed,
                callVars, ldkVars
  <2>2. pc[c] = "idle" => inbox'[c] = inbox[c]
    BY <1>8, Emitted DEF Handler, StoreProof, callVars, Listening
  <2>3. HoldsInv(c)'
    BY <1>3, <2>1, <2>2
  <2>4. CASE c \in Listening
    <3>1. Size(c)' = Size(c) /\ \A k \in 1 .. Size(c) : At(c, k)' = At(c, k)
      BY <1>8, <2>4, StreamEmit
    <3> QED
      BY <2>1, <2>3, <3>1, StreamStill
  <2>5. CASE c \notin Listening
    BY <2>1, <2>3, <2>5 DEF Listening, StreamInv
  <2> QED
    BY <2>4, <2>5
<1>9. CASE Restart
  <2>1. /\ pc'[c] = IF c \in Listening THEN "done" ELSE pc[c]
        /\ answer'[c] = IF c \in Listening THEN "error" ELSE answer[c]
        /\ receipt'[c] = IF c \in Listening THEN None ELSE receipt[c]
        /\ inbox'[c] = <<>>
    BY <1>9 DEF Restart
  <2>2. StreamInv(c)'
    BY <2>1 DEF Listening, StreamInv
  <2>3. HoldsInv(c)'
    BY <1>2, <2>1 DEF HoldsInv, Listening
  <2> QED
    BY <2>2, <2>3
<1> QED
  BY <1>5, <1>6, <1>7, <1>8, <1>9 DEF Next

AnswerInv == \A c \in Calls : StreamInv(c) /\ HoldsInv(c)

LEMMA Answers == Spec => [](LedgerInv /\ AnswerInv)
<1>1. Init => AnswerInv
  BY DEF Init, AnswerInv, StreamInv, HoldsInv
<1>2. LedgerInv /\ AnswerInv /\ [Next]_vars => AnswerInv'
  BY AnswerNext DEF AnswerInv
<1> QED
  BY <1>1, <1>2, Ledger, PTL DEF Spec

(* offchain.rs: a call that answers success made a payment that settled,   *)
(* and holds the preimage of that payment, whatever other payments of the  *)
(* id came before it or after it.                                          *)
THEOREM SuccessesAreOwn == Spec => []SuccessIsOwn
<1>1. LedgerInv /\ AnswerInv => SuccessIsOwn
  BY DEF AnswerInv, HoldsInv, SuccessIsOwn
<1> QED
  BY <1>1, Answers, PTL

(* decide_payment_claim: a receipt that a call holds is of a payment whose *)
(* payee was paid in full.                                                 *)
THEOREM ReceiptsAreFull == Spec => []ReceiptsPaidInFull
<1>1. LedgerInv /\ AnswerInv => ReceiptsPaidInFull
  BY Shapes DEF AnswerInv, HoldsInv, ReceiptsPaidInFull, PaymentInv
<1> QED
  BY <1>1, Answers, PTL
=============================================================================
