------------------------------ MODULE Payments ------------------------------
(***************************************************************************)
(* The pay and keysend calls of one node, the LDK event handler that       *)
(* announces what became of their payments on the process-wide bus, the    *)
(* store of payer proofs, and the handler of the node that is paid.        *)
(*                                                                         *)
(* A payment is named after the call that starts it.  What LDK and the bus *)
(* are told is its id: the hash of the offer's text, the invoice's payment *)
(* hash or, for a keysend, the hash of a fresh preimage.  Two calls for    *)
(* one offer or invoice therefore have two payments with one id.           *)
(***************************************************************************)
EXTENDS Naturals, Sequences

CONSTANTS
    Calls,        \* pay and keysend calls
    Offers,       \* BOLT 12 offers they may pay
    Invoices,     \* BOLT 11 invoices they may pay
    MaxParts,     \* parts a payment is split into, at most
    MaxRestarts,  \* bound: crashes of the paying node
    None

ASSUME DisjointAssumption ==
    /\ Offers \cap Invoices = {}
    /\ Calls \cap (Offers \cup Invoices) = {}
    /\ None \notin Calls \cup Offers \cup Invoices
ASSUME BoundsAssumption == MaxParts \in Nat \ {0} /\ MaxRestarts \in Nat

Ids == Offers \cup Invoices \cup Calls

VARIABLES
    pc,       \* where each call is
    id,       \* the payment id of each call
    inbox,    \* its queue of the event bus
    receipt,  \* the hash whose preimage the call holds
    answer,   \* what it returned
    pay,      \* LDK: what became of each payment
    known,    \* LDK: payments whose id it still remembers
    parts,    \* LDK: parts of a payment whose success is not reported yet
    payee,    \* the paid node: what it did with the payment
    queue,    \* LDK: events not handled yet
    acked,    \* LDK: events handled, their removal not persisted yet
    storing,  \* the payment whose proof the handler is about to store
    proofs,   \* payer_proofs namespace: payment hash |-> payment
    unstored, \* payments whose proof could not be written
    restarts

callVars == <<pc, id, inbox, receipt, answer>>
ldkVars == <<pay, known, parts, payee>>
diskVars == <<storing, proofs, unstored>>
vars == <<callVars, ldkVars, queue, acked, diskVars, restarts>>

(* Only the payments of an offer have a hash of their own beside their id, *)
(* and only they can be proved; those of one invoice share its hash.       *)
Hash(c) == IF id[c] \in Invoices THEN id[c] ELSE c
Bolt12(c) == id[c] \in Offers

Kinds == {"sent", "path", "failed"}
Events == [kind : Kinds, of : Calls]
Messages == [kind : {"receipt", "success", "failure"}, id : Ids, hash : Ids]

TypeOK ==
    /\ pc \in [Calls -> {"idle", "pay", "wait", "done"}]
    /\ id \in [Calls -> Ids \cup {None}]
    /\ \A c \in Calls : id[c] = None <=> pc[c] = "idle"
    /\ inbox \in [Calls -> Seq(Messages)]
    /\ receipt \in [Calls -> Ids \cup {None}]
    /\ answer \in [Calls -> {"none", "success", "failure", "error"}]
    /\ pay \in [Calls -> {"none", "pending", "sent", "failed"}]
    /\ known \subseteq Calls
    /\ parts \in [Calls -> 0 .. MaxParts]
    /\ payee \in [Calls -> {"none", "claimed", "underpaid", "failed back"}]
    /\ queue \in Seq(Events)
    /\ acked \in Seq(Events)
    /\ storing \in Calls \cup {None}
    /\ \A h \in DOMAIN proofs : h \in Ids /\ proofs[h] \in Calls
    /\ unstored \subseteq Calls
    /\ restarts \in 0 .. MaxRestarts

Init ==
    /\ pc = [c \in Calls |-> "idle"]
    /\ id = [c \in Calls |-> None]
    /\ inbox = [c \in Calls |-> <<>>]
    /\ receipt = [c \in Calls |-> None]
    /\ answer = [c \in Calls |-> "none"]
    /\ pay = [c \in Calls |-> "none"]
    /\ known = {}
    /\ parts = [c \in Calls |-> 0]
    /\ payee = [c \in Calls |-> "none"]
    /\ queue = <<>>
    /\ acked = <<>>
    /\ storing = None
    /\ proofs = [h \in {} |-> None]
    /\ unstored = {}
    /\ restarts = 0

-----------------------------------------------------------------------------
(* The calls. *)

(* handler().events(): the call's queue exists before its payment does. *)
Subscribe(c, i) ==
    /\ pc[c] = "idle"
    /\ pc' = [pc EXCEPT ![c] = "pay"]
    /\ id' = [id EXCEPT ![c] = i]
    /\ UNCHANGED <<inbox, receipt, answer, ldkVars, queue, acked, diskVars, restarts>>

JsonPay(c) == \E i \in Offers \cup Invoices : Subscribe(c, i)

(* Mutant: a keysend waits for no payment in particular. *)
JsonKeysendNoId(c) == Subscribe(c, None)

(* The id of a keysend is the hash of a fresh preimage. *)
JsonKeysend(c) == Subscribe(c, c)

SameId(c) == {d \in Calls : id[d] = id[c]}

(* What it returns: the state of the payment with the receipt held, or an  *)
(* error.                                                                  *)
Return(c, result) ==
    /\ pc' = [pc EXCEPT ![c] = "done"]
    /\ answer' = [answer EXCEPT ![c] = result]
    /\ receipt' = [receipt EXCEPT ![c] = IF result = "error" THEN None ELSE @]
    /\ inbox' = [inbox EXCEPT ![c] = <<>>]

(* LDK takes the payment on ... *)
PaymentAccepted(c) ==
    /\ pc[c] = "pay"
    /\ known \cap SameId(c) = {}
    /\ pc' = [pc EXCEPT ![c] = "wait"]
    /\ pay' = [pay EXCEPT ![c] = "pending"]
    /\ known' = known \cup {c}
    /\ UNCHANGED <<id, inbox, receipt, answer, parts, payee, queue, acked, diskVars, restarts>>

(* ... or not: it remembers the id, there is no route, the amount is wrong. *)
PaymentRefused(c) ==
    /\ pc[c] = "pay"
    /\ Return(c, "error")
    /\ UNCHANGED <<id, ldkVars, queue, acked, diskVars, restarts>>

Hears(c) == pc[c] = "wait" /\ inbox[c] # <<>>

Own(c, m) == m.id = id[c]

HearReceipt(c) ==
    /\ Hears(c)
    /\ Own(c, Head(inbox[c])) /\ Head(inbox[c]).kind = "receipt"
    /\ receipt' = [receipt EXCEPT ![c] = Head(inbox[c]).hash]
    /\ inbox' = [inbox EXCEPT ![c] = Tail(@)]
    /\ UNCHANGED <<pc, id, answer, ldkVars, queue, acked, diskVars, restarts>>

HearEnd(c) ==
    /\ Hears(c)
    /\ Own(c, Head(inbox[c])) /\ Head(inbox[c]).kind # "receipt"
    /\ Return(c, Head(inbox[c]).kind)
    /\ UNCHANGED <<id, ldkVars, queue, acked, diskVars, restarts>>

HearOther(c) ==
    /\ Hears(c)
    /\ ~Own(c, Head(inbox[c]))
    /\ inbox' = [inbox EXCEPT ![c] = Tail(@)]
    /\ UNCHANGED <<pc, id, receipt, answer, ldkVars, queue, acked, diskVars, restarts>>

(* Mutant: a call that holds its receipt waits for the end it expects. *)
TimeoutUnlessPaid(c) ==
    /\ pc[c] = "wait"
    /\ receipt[c] = None
    /\ Return(c, "error")
    /\ UNCHANGED <<id, ldkVars, queue, acked, diskVars, restarts>>

(* One deadline for the whole wait, whatever was heard meanwhile. *)
Timeout(c) ==
    /\ pc[c] = "wait"
    /\ Return(c, "error")
    /\ UNCHANGED <<id, ldkVars, queue, acked, diskVars, restarts>>

wait_for_payment_result(c) ==
    HearReceipt(c) \/ HearEnd(c) \/ HearOther(c) \/ Timeout(c)

-----------------------------------------------------------------------------
(* The event handler of the paying node, one LDK event at a time. *)

Listening == {c \in Calls : pc[c] \in {"pay", "wait"}}

Emit(kind, c) ==
    inbox' = [d \in Calls |->
        IF d \in Listening
        THEN Append(inbox[d], [kind |-> kind, id |-> id[c], hash |-> Hash(c)])
        ELSE inbox[d]]

Current(kind) ==
    /\ storing = None
    /\ queue # <<>>
    /\ Head(queue).kind = kind

(* The event is handled; it is kept in acked as long as a crash may follow. *)
Done ==
    /\ acked' = IF restarts < MaxRestarts THEN Append(acked, Head(queue)) ELSE <<>>
    /\ queue' = Tail(queue)

(* Mutant: only a payment that can be proved has a receipt. *)
PaymentSentBolt12Only ==
    /\ Current("sent")
    /\ LET c == Head(queue).of IN
          IF Bolt12(c)
          THEN Emit("receipt", c) /\ storing' = c /\ UNCHANGED <<queue, acked>>
          ELSE Done /\ UNCHANGED <<inbox, storing>>
    /\ UNCHANGED <<pc, id, receipt, answer, ldkVars, proofs, unstored, restarts>>

(* PaymentSent: the receipt goes out first; what is left to do for a BOLT  *)
(* 12 payment is to store its proof.                                       *)
PaymentSent ==
    /\ Current("sent")
    /\ LET c == Head(queue).of IN
          /\ Emit("receipt", c)
          /\ IF Bolt12(c)
             THEN storing' = c /\ UNCHANGED <<queue, acked>>
             ELSE Done /\ UNCHANGED storing
    /\ UNCHANGED <<pc, id, receipt, answer, ldkVars, proofs, unstored, restarts>>

(* Mutant: the record is keyed by the payment id. *)
StoreProofById ==
    /\ storing # None
    /\ \/ /\ proofs' = [h \in DOMAIN proofs \cup {id[storing]} |->
                          IF h = id[storing] THEN storing ELSE proofs[h]]
          /\ UNCHANGED unstored
       \/ unstored' = unstored \cup {storing} /\ UNCHANGED proofs
    /\ storing' = None
    /\ Done
    /\ UNCHANGED <<callVars, ldkVars, restarts>>

(* payer_proof::store, under the payment's hash; a failure is only logged. *)
StoreProof ==
    /\ storing # None
    /\ \/ /\ proofs' = [h \in DOMAIN proofs \cup {Hash(storing)} |->
                          IF h = Hash(storing) THEN storing ELSE proofs[h]]
          /\ UNCHANGED unstored
       \/ unstored' = unstored \cup {storing} /\ UNCHANGED proofs
    /\ storing' = None
    /\ Done
    /\ UNCHANGED <<callVars, ldkVars, restarts>>

(* Each part that succeeded is announced as the end of the payment. *)
PaymentPathSuccessful ==
    /\ Current("path")
    /\ Emit("success", Head(queue).of)
    /\ Done
    /\ UNCHANGED <<pc, id, receipt, answer, ldkVars, diskVars, restarts>>

PaymentFailed ==
    /\ Current("failed")
    /\ Emit("failure", Head(queue).of)
    /\ Done
    /\ UNCHANGED <<pc, id, receipt, answer, ldkVars, diskVars, restarts>>

Handler == PaymentSent \/ StoreProof \/ PaymentPathSuccessful \/ PaymentFailed

-----------------------------------------------------------------------------
(* The node that is paid. *)

(* Mutant: what the previous hop skimmed is not looked at. *)
ClaimSkimmed(skimmed, preimage) == preimage

(* Claim only what was paid in full and can be claimed. *)
decide_payment_claim(skimmed, preimage) == ~skimmed /\ preimage

(* PaymentClaimable: every part is there. *)
PaymentClaimable(c) ==
    /\ pay[c] = "pending" /\ payee[c] = "none"
    /\ \E skimmed, preimage \in BOOLEAN :
          payee' = [payee EXCEPT ![c] =
              IF ~decide_payment_claim(skimmed, preimage) THEN "failed back"
              ELSE IF skimmed THEN "underpaid" ELSE "claimed"]
    /\ UNCHANGED <<callVars, pay, known, parts, queue, acked, diskVars, restarts>>

-----------------------------------------------------------------------------
(* LDK (external). *)

Push(kind, c) == queue' = Append(queue, [kind |-> kind, of |-> c])

(* The preimage comes back with the first part. *)
Fulfilled(c) ==
    /\ pay[c] = "pending" /\ payee[c] \in {"claimed", "underpaid"}
    /\ pay' = [pay EXCEPT ![c] = "sent"]
    /\ \E n \in 1 .. MaxParts : parts' = [parts EXCEPT ![c] = n]
    /\ Push("sent", c)
    /\ UNCHANGED <<callVars, known, payee, acked, diskVars, restarts>>

PartDone(c) ==
    /\ parts[c] > 0
    /\ parts' = [parts EXCEPT ![c] = @ - 1]
    /\ Push("path", c)
    /\ UNCHANGED <<callVars, pay, known, payee, acked, diskVars, restarts>>

(* A payment that is given up is forgotten while its event is still queued. *)
GivenUp(c) ==
    /\ pay[c] = "pending" /\ payee[c] \in {"none", "failed back"}
    /\ pay' = [pay EXCEPT ![c] = "failed"]
    /\ known' = known \ {c}
    /\ Push("failed", c)
    /\ UNCHANGED <<callVars, parts, payee, acked, diskVars, restarts>>

(* One that succeeded is remembered for minutes after its last event. *)
Forgotten(c) ==
    /\ c \in known /\ pay[c] = "sent" /\ parts[c] = 0
    /\ \A i \in 1 .. Len(queue) : queue[i].of # c
    /\ \A i \in 1 .. Len(acked) : acked[i].of # c
    /\ \A d \in SameId(c) : pc[d] # "pay"
    /\ known' = known \ {c}
    /\ UNCHANGED <<callVars, pay, parts, payee, queue, acked, diskVars, restarts>>

(* The channel manager is persisted without the events handled so far. *)
Persisted ==
    /\ acked # <<>>
    /\ acked' = <<>>
    /\ UNCHANGED <<callVars, ldkVars, queue, diskVars, restarts>>

(* The paying node stops and starts again: its calls and its bus are gone, *)
(* LDK hands out again the events it had not persisted the removal of.     *)
Restart ==
    /\ restarts < MaxRestarts
    /\ restarts' = restarts + 1
    /\ pc' = [c \in Calls |-> IF c \in Listening THEN "done" ELSE pc[c]]
    /\ answer' = [c \in Calls |-> IF c \in Listening THEN "error" ELSE answer[c]]
    /\ receipt' = [c \in Calls |-> IF c \in Listening THEN None ELSE receipt[c]]
    /\ inbox' = [c \in Calls |-> <<>>]
    /\ queue' = acked \o queue
    /\ acked' = <<>>
    /\ storing' = None
    /\ UNCHANGED <<id, ldkVars, proofs, unstored>>

-----------------------------------------------------------------------------
Call(c) ==
    \/ JsonPay(c) \/ JsonKeysend(c)
    \/ PaymentAccepted(c) \/ PaymentRefused(c)
    \/ wait_for_payment_result(c)

Ldk(c) ==
    PaymentClaimable(c) \/ Fulfilled(c) \/ PartDone(c) \/ GivenUp(c) \/ Forgotten(c)

Next == (\E c \in Calls : Call(c) \/ Ldk(c)) \/ Handler \/ Persisted \/ Restart

Spec == Init /\ [][Next]_vars

(* The runtime runs a call that can run, and its timer fires; nothing is   *)
(* assumed of the network, the payee or the event loop.                    *)
FairSpec ==
    /\ Spec
    /\ \A c \in Calls :
          /\ WF_vars(PaymentAccepted(c) \/ PaymentRefused(c))
          /\ WF_vars(Timeout(c))

-----------------------------------------------------------------------------
(* A call that answers success made a payment that settled, and was given  *)
(* the preimage of that very payment, whatever else the bus carried.       *)
SuccessIsOwn ==
    \A c \in Calls : answer[c] = "success" => pay[c] = "sent" /\ receipt[c] = Hash(c)

(* No preimage leaves the paid node for less than was asked: a receipt a   *)
(* call holds is of a payment its payee has claimed in full.               *)
ReceiptsPaidInFull ==
    \A c \in Calls : receipt[c] # None => payee[c] = "claimed"

(* The proof of every settled BOLT 12 payment is kept, each in a record of *)
(* its own, over crashes and replays, once LDK is done with its event,     *)
(* unless it could not be written.                                         *)
ProofsKept ==
    \A c \in Calls :
        /\ pay[c] = "sent" /\ Bolt12(c)
        /\ \A i \in 1 .. Len(queue) : queue[i] # [kind |-> "sent", of |-> c]
        => c \in unstored \/ (Hash(c) \in DOMAIN proofs /\ proofs[Hash(c)] = c)

(* Every call is answered, with the network, the payee and LDK silent, and *)
(* with a receipt already held or not.                                     *)
Answered == \A c \in Calls : pc[c] = "pay" ~> pc[c] = "done"

(* Said of the wait: a payment's result does not leak into the call of     *)
(* another, so a call that answers failure made a payment that failed.     *)
FailureIsOwn ==
    \A c \in Calls : answer[c] = "failure" => pay[c] = "failed"

=============================================================================
