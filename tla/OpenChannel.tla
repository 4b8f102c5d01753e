---------------------------- MODULE OpenChannel ----------------------------
(***************************************************************************)
(* `open_channel` requests waiting for their funding transaction.          *)
(*                                                                         *)
(* Each open is identified by its temporary channel id.  Four kinds of     *)
(* actors interleave: one waiter task per request, the single LDK event    *)
(* handler task, LDK itself with its peer (external), and the detached     *)
(* tasks that broadcast transactions.  They share the process-wide event   *)
(* bus, LDK's channel table and the mutex-protected funding_wait_state.    *)
(*                                                                         *)
(* The funding transaction of open o is named by o itself; OtherTxs are    *)
(* transactions the node broadcasts for unrelated reasons.  Events no      *)
(* waiter looks at (RawLDK, FundingChannelStart, ChannelReady, ...) are    *)
(* left out of the inboxes.                                                *)
(***************************************************************************)
EXTENDS Naturals, Sequences, SequencesExt

CONSTANTS
    Opens,             \* open requests, i.e. temporary channel ids
    OtherTxs,          \* unrelated transactions, each broadcast once
    MaxAttempts,       \* bound: broadcasts of one funding transaction
    ForceCloseCanFail, \* may LDK refuse to drop a channel it still holds?
    NoTx               \* the empty early_broadcast slot

ASSUME OpensAssumption == NoTx \notin Opens \cup OtherTxs
ASSUME TxsDisjoint == Opens \cap OtherTxs = {}
ASSUME BoundAssumption == MaxAttempts \in Nat \ {0}
ASSUME ForceCloseAssumption == ForceCloseCanFail \in BOOLEAN

VARIABLES
    pc,        \* where each waiter is
    expired,   \* the waiters whose deadline has passed
    inbox,     \* the waiter's event bus subscription
    handed,    \* waiters with expected_funding_txid and funding_handed_to_ldk set
    early,     \* early_broadcast
    verdict,   \* what open_channel is about to answer
    waitState, \* funding_wait_state
    ldk,       \* LDK's view of the channel (external)
    ldkQueue,  \* LDK's pending events (external)
    handler,   \* the event handler task: its step and its channel
    inflight,  \* funding transactions a task is broadcasting
    attempts,  \* broadcasts of the funding transaction so far
    sent,      \* transactions SendRawTransaction was emitted for
    heard      \* history: what the waiter read about its own transaction,
               \* "overtaken" when another broadcast followed an early one

waiterVars == <<pc, expired, handed, early, verdict, heard>>
ldkVars == <<ldk, ldkQueue>>
txVars == <<inflight, attempts, sent>>
vars == <<waiterVars, inbox, waitState, ldkVars, handler, txVars>>

Txs == Opens \cup OtherTxs

Event == [kind: {"FundingChannelEnd", "SendRawTransaction", "FailedChannel",
                 "FailedTx", "CloseChannel"}, id: Txs]
LdkEvent == [kind: {"FundingGenerationReady", "ChannelClosed"}, id: Opens]

Ev(kind, id) == [kind |-> kind, id |-> id]

Verdicts == {"ok", "leftOpen", "failed", "closed", "timeout", "refused"}

(* The answers after which a caller may safely open again. *)
Retryable == {"failed", "closed", "timeout", "refused"}

(* LDK accepted this open's funding transaction, now or before. *)
Funded(o) == ldk[o] \in {"funded", "lost", "killed"}

TypeOK ==
    /\ pc \in [Opens -> {"start", "subscribed", "wait", "drain", "abandon",
                         "close", "clear", "done"}]
    /\ expired \subseteq Opens
    /\ inbox \in [Opens -> Seq(Event)]
    /\ handed \subseteq Opens
    /\ early \in [Opens -> Txs \cup {NoTx}]
    /\ verdict \in [Opens -> Verdicts \cup {"none"}]
    /\ waitState \in [Opens -> {"absent", "Abandoned", "Accepted"}]
    /\ ldk \in [Opens -> {"none", "negotiating", "ready", "funded", "closed",
                          "lost", "killed"}]
    /\ ldkQueue \in Seq(LdkEvent)
    /\ handler \in [at: {"idle", "create", "handoff", "announce", "report",
                         "drop"}, ch: Opens \cup {NoTx}]
    /\ handler.at # "idle" => handler.ch \in Opens
    /\ inflight \subseteq Opens
    /\ attempts \in [Opens -> 0..MaxAttempts]
    /\ sent \subseteq Txs
    /\ heard \subseteq Opens \X {"end", "sent", "overtaken", "failed"}

Init ==
    /\ pc = [o \in Opens |-> "start"]
    /\ expired = {}
    /\ inbox = [o \in Opens |-> <<>>]
    /\ handed = {}
    /\ early = [o \in Opens |-> NoTx]
    /\ verdict = [o \in Opens |-> "none"]
    /\ waitState = [o \in Opens |-> "absent"]
    /\ ldk = [o \in Opens |-> "none"]
    /\ ldkQueue = <<>>
    /\ handler = [at |-> "idle", ch |-> NoTx]
    /\ inflight = {}
    /\ attempts = [o \in Opens |-> 0]
    /\ sent = {}
    /\ heard = {}

-----------------------------------------------------------------------------
(* The event bus.  emit reaches every live subscription, in one order; a   *)
(* waiter past its loop never reads its subscription again.                *)

Listening(o) == pc[o] \in {"subscribed", "wait", "drain"}

Emit(e) ==
    inbox' = [o \in Opens |-> IF Listening(o) THEN Append(inbox[o], e)
                                              ELSE inbox[o]]

-----------------------------------------------------------------------------
(* The waiter: LampoChannelManager::open_channel. *)

Subscribe(o) ==
    /\ pc[o] = "start"
    /\ pc' = [pc EXCEPT ![o] = "subscribed"]
    /\ UNCHANGED <<expired, handed, early, verdict, heard, inbox, waitState,
                   ldkVars, handler, txVars>>

(* create_channel succeeds, or its error is returned at once. *)
CreateChannel(o) ==
    /\ pc[o] = "subscribed"
    /\ \/ /\ ldk' = [ldk EXCEPT ![o] = "negotiating"]
          /\ pc' = [pc EXCEPT ![o] = "wait"]
          /\ UNCHANGED <<verdict, inbox>>
       \/ /\ pc' = [pc EXCEPT ![o] = "done"]
          /\ verdict' = [verdict EXCEPT ![o] = "refused"]
          /\ inbox' = [inbox EXCEPT ![o] = <<>>]
          /\ UNCHANGED ldk
    /\ UNCHANGED <<expired, handed, early, heard, waitState, ldkQueue,
                   handler, txVars>>

Expire(o) ==
    /\ pc[o] = "wait"
    /\ o \notin expired
    /\ expired' = expired \cup {o}
    /\ UNCHANGED <<pc, handed, early, verdict, heard, inbox, waitState,
                   ldkVars, handler, txVars>>

(* The subscription is dropped when the loop is left. *)
EndWait(o, v) ==
    /\ verdict' = [verdict EXCEPT ![o] = v]
    /\ pc' = [pc EXCEPT ![o] = "clear"]
    /\ inbox' = [inbox EXCEPT ![o] = <<>>]

KeepWaiting(o) ==
    /\ inbox' = [inbox EXCEPT ![o] = Tail(@)]
    /\ UNCHANGED <<pc, verdict>>

(* Mutant: the buffered broadcast is forgotten. *)
HearEndAlone(o, e) ==
    /\ e = Ev("FundingChannelEnd", o)
    /\ handed' = handed \cup {o}
    /\ heard' = heard \cup {<<o, "end">>}
    /\ KeepWaiting(o)
    /\ UNCHANGED early

(* FundingChannelEnd for this open: remember the txid; a buffered          *)
(* broadcast of the same transaction completes the open.                   *)
HearEnd(o, e) ==
    /\ e = Ev("FundingChannelEnd", o)
    /\ handed' = handed \cup {o}
    /\ heard' = heard \cup {<<o, "end">>}
    /\ IF early[o] = o
       THEN /\ EndWait(o, "ok")
            /\ early' = [early EXCEPT ![o] = NoTx]
       ELSE KeepWaiting(o) /\ UNCHANGED early

(* Mutant: once the txid is known, any broadcast completes the open. *)
HearAnySent(o, e) ==
    /\ e.kind = "SendRawTransaction"
    /\ IF o \in handed THEN EndWait(o, "ok") ELSE KeepWaiting(o)
    /\ UNCHANGED <<handed, early, heard>>

(* What the waiter has read of its own broadcast, after reading that of t. *)
HeardSent(o, t) ==
    CASE t = o -> (heard \ {<<o, "overtaken">>}) \cup {<<o, "sent">>}
      [] t # o /\ <<o, "sent">> \in heard /\ o \notin handed ->
            heard \cup {<<o, "overtaken">>}
      [] OTHER -> heard

(* SendRawTransaction: the expected one completes the open; before the     *)
(* txid is known the latest one is buffered.                               *)
HearSent(o, e) ==
    /\ e.kind = "SendRawTransaction"
    /\ heard' = HeardSent(o, e.id)
    /\ IF o \in handed /\ e.id = o THEN EndWait(o, "ok") ELSE KeepWaiting(o)
    /\ early' = [early EXCEPT ![o] = IF o \in handed THEN @ ELSE e.id]
    /\ UNCHANGED handed

(* Mutant: any failed broadcast counts as this open's. *)
HearAnyFailedTx(o, e) ==
    /\ e.kind = "FailedTx"
    /\ EndWait(o, "leftOpen")
    /\ UNCHANGED <<handed, early, heard>>

(* FundingChannelFailed{txid}. *)
HearFailedTx(o, e) ==
    /\ e.kind = "FailedTx"
    /\ heard' = IF e.id = o THEN heard \cup {<<o, "failed">>} ELSE heard
    /\ IF o \in handed /\ e.id = o THEN EndWait(o, "leftOpen") ELSE KeepWaiting(o)
    /\ UNCHANGED <<handed, early>>

(* Mutant: the failure of any open ends this one. *)
HearAnyFailure(o, e) ==
    /\ e.kind \in {"FailedChannel", "CloseChannel"}
    /\ EndWait(o, "failed")
    /\ UNCHANGED <<handed, early, heard>>

(* FundingChannelFailed{temporary_channel_id} and CloseChannelEvent. *)
HearFailure(o, e) ==
    /\ e \in {Ev("FailedChannel", o), Ev("CloseChannel", o)}
    /\ EndWait(o, IF e.kind = "FailedChannel" THEN "failed" ELSE "closed")
    /\ UNCHANGED <<handed, early, heard>>

(* Events of another open. *)
HearOther(o, e) ==
    /\ e.kind \in {"FundingChannelEnd", "FailedChannel", "CloseChannel"}
    /\ e.id # o
    /\ KeepWaiting(o)
    /\ UNCHANGED <<handed, early, heard>>

(* One event, from recv in the loop or try_recv in the final drain. *)
Hear(o) ==
    /\ pc[o] \in {"wait", "drain"}
    /\ inbox[o] # <<>>
    /\ LET e == Head(inbox[o]) IN
           \/ HearEnd(o, e)
           \/ HearSent(o, e)
           \/ HearFailedTx(o, e)
           \/ HearFailure(o, e)
           \/ HearOther(o, e)
    /\ UNCHANGED <<expired, waitState, ldkVars, handler, txVars>>

(* Next loop iteration after the deadline: drain what is queued ... *)
StartDrain(o) ==
    /\ pc[o] = "wait"
    /\ o \in expired
    /\ pc' = [pc EXCEPT ![o] = "drain"]
    /\ UNCHANGED <<expired, handed, early, verdict, heard, inbox, waitState,
                   ldkVars, handler, txVars>>

(* ... and, when try_recv finds nothing more, leave the loop.  A handed    *)
(* over open is answered without clearing the wait state.                  *)
EndDrain(o) ==
    /\ pc[o] = "drain"
    /\ inbox[o] = <<>>
    /\ IF o \in handed
       THEN /\ pc' = [pc EXCEPT ![o] = "done"]
            /\ verdict' = [verdict EXCEPT ![o] = "leftOpen"]
       ELSE /\ pc' = [pc EXCEPT ![o] = "abandon"]
            /\ UNCHANGED verdict
    /\ UNCHANGED <<expired, handed, early, heard, inbox, waitState, ldkVars,
                   handler, txVars>>

(* Mutant: the timeout does not look at the wait state. *)
AbandonAnyway(o) ==
    /\ pc[o] = "abandon"
    /\ waitState' = [waitState EXCEPT ![o] = "Abandoned"]
    /\ pc' = [pc EXCEPT ![o] = "close"]
    /\ UNCHANGED <<expired, handed, early, verdict, heard, inbox, ldkVars,
                   handler, txVars>>

(* abandon_funding_wait_if_unaccepted, under the wait-state lock. *)
AbandonIfUnaccepted(o) ==
    /\ pc[o] = "abandon"
    /\ IF waitState[o] = "Accepted"
       THEN /\ pc' = [pc EXCEPT ![o] = "done"]
            /\ verdict' = [verdict EXCEPT ![o] = "leftOpen"]
            /\ UNCHANGED waitState
       ELSE /\ waitState' = [waitState EXCEPT ![o] = "Abandoned"]
            /\ pc' = [pc EXCEPT ![o] = "close"]
            /\ UNCHANGED verdict
    /\ UNCHANGED <<expired, handed, early, heard, inbox, ldkVars, handler,
                   txVars>>

(* LDK's force_close_broadcasting_latest_txn (external).  It drops a       *)
(* channel it holds and queues ChannelClosed; closing a funded channel is  *)
(* the accident the wait state is there to prevent.                        *)
ForceCloseSucceeds(o) ==
    \/ /\ ldk[o] \in {"negotiating", "ready"}
       /\ ldk' = [ldk EXCEPT ![o] = "closed"]
       /\ ldkQueue' = Append(ldkQueue, Ev("ChannelClosed", o))
    \/ /\ ldk[o] = "funded"
       /\ ldk' = [ldk EXCEPT ![o] = "killed"]
       /\ UNCHANGED ldkQueue

ForceCloseFails(o) ==
    /\ ldk[o] \in {"none", "closed", "lost", "killed"} \/ ForceCloseCanFail
    /\ UNCHANGED ldkVars

(* Mutant: the entry is cleared even if the close failed. *)
CloseAndClear(o) ==
    /\ pc[o] = "close"
    /\ verdict' = [verdict EXCEPT ![o] = "timeout"]
    /\ ForceCloseSucceeds(o) \/ ForceCloseFails(o)
    /\ pc' = [pc EXCEPT ![o] = "clear"]
    /\ UNCHANGED <<expired, handed, early, heard, inbox, waitState, handler,
                   txVars>>

(* Mutant: the answer waits for a force-close that succeeds. *)
CloseUntilDropped(o) == CloseAndClear(o) /\ ForceCloseSucceeds(o)

(* The waiter closes the channel it abandoned.  If that fails the          *)
(* Abandoned entry stays as a tombstone for a late handler.                *)
CloseAbandoned(o) ==
    /\ pc[o] = "close"
    /\ verdict' = [verdict EXCEPT ![o] = "timeout"]
    /\ \/ ForceCloseSucceeds(o) /\ pc' = [pc EXCEPT ![o] = "clear"]
       \/ ForceCloseFails(o) /\ pc' = [pc EXCEPT ![o] = "done"]
    /\ UNCHANGED <<expired, handed, early, heard, inbox, waitState, handler,
                   txVars>>

(* clear_funding_wait, then the answer goes out. *)
ClearFundingWait(o) ==
    /\ pc[o] = "clear"
    /\ waitState' = [waitState EXCEPT ![o] = "absent"]
    /\ pc' = [pc EXCEPT ![o] = "done"]
    /\ UNCHANGED <<expired, handed, early, verdict, heard, inbox, ldkVars,
                   handler, txVars>>

-----------------------------------------------------------------------------
(* The LDK event handler: LampoHandler::handle, one event at a time. *)

HandlerGoto(at) == handler' = [handler EXCEPT !.at = at]

(* ChannelClosed is forwarded to the bus; FundingGenerationReady starts    *)
(* the funding of its channel.                                             *)
HandleEvent ==
    /\ handler.at = "idle"
    /\ ldkQueue # <<>>
    /\ LET e == Head(ldkQueue) IN
           \/ /\ e.kind = "ChannelClosed"
              /\ Emit(Ev("CloseChannel", e.id))
              /\ UNCHANGED handler
           \/ /\ e.kind = "FundingGenerationReady"
              /\ handler' = [at |-> "create", ch |-> e.id]
              /\ UNCHANGED inbox
    /\ ldkQueue' = Tail(ldkQueue)
    /\ UNCHANGED <<waiterVars, waitState, ldk, txVars>>

(* The wallet builds the transaction, or cannot. *)
CreateTransaction ==
    /\ handler.at = "create"
    /\ HandlerGoto("handoff") \/ HandlerGoto("report")
    /\ UNCHANGED <<waiterVars, inbox, waitState, ldkVars, txVars>>

(* Mutant: LDK's acceptance is not recorded. *)
HandOffUnrecorded ==
    /\ handler.at = "handoff"
    /\ waitState[handler.ch] # "Abandoned"
    /\ ldk[handler.ch] = "ready"
    /\ ldk' = [ldk EXCEPT ![handler.ch] = "funded"]
    /\ HandlerGoto("announce")
    /\ UNCHANGED <<waiterVars, inbox, waitState, ldkQueue, txVars>>

(* funding_transaction_generated_if_waiting, under the wait-state lock:    *)
(* skipped after an abandon, refused by LDK, or accepted.                  *)
HandOff ==
    /\ handler.at = "handoff"
    /\ LET o == handler.ch IN
           \/ /\ waitState[o] = "Abandoned"
              /\ HandlerGoto("report")
              /\ UNCHANGED <<waitState, ldk>>
           \/ /\ waitState[o] # "Abandoned"
              /\ HandlerGoto("report")
              /\ UNCHANGED <<waitState, ldk>>
           \/ /\ waitState[o] # "Abandoned"
              /\ ldk[o] = "ready"
              /\ ldk' = [ldk EXCEPT ![o] = "funded"]
              /\ waitState' = [waitState EXCEPT ![o] = "Accepted"]
              /\ HandlerGoto("announce")
    /\ UNCHANGED <<waiterVars, inbox, ldkQueue, txVars>>

(* Mutant: the wrong event is emitted. *)
AnnounceStart ==
    /\ handler.at = "announce"
    /\ Emit(Ev("FundingChannelStart", handler.ch))
    /\ handler' = [at |-> "idle", ch |-> NoTx]
    /\ UNCHANGED <<waiterVars, waitState, ldkVars, txVars>>

(* FundingChannelEnd is emitted after the handoff. *)
AnnounceFunding ==
    /\ handler.at = "announce"
    /\ Emit(Ev("FundingChannelEnd", handler.ch))
    /\ handler' = [at |-> "idle", ch |-> NoTx]
    /\ UNCHANGED <<waiterVars, waitState, ldkVars, txVars>>

(* abandon_temp_channel: tell the waiter, then drop the channel. *)
ReportFailure ==
    /\ handler.at = "report"
    /\ Emit(Ev("FailedChannel", handler.ch))
    /\ HandlerGoto("drop")
    /\ UNCHANGED <<waiterVars, waitState, ldkVars, txVars>>

(* Mutant: the channel is left in LDK. *)
DropNothing ==
    /\ handler.at = "drop"
    /\ handler' = [at |-> "idle", ch |-> NoTx]
    /\ UNCHANGED <<waiterVars, inbox, waitState, ldkVars, txVars>>

DropChannel ==
    /\ handler.at = "drop"
    /\ ForceCloseSucceeds(handler.ch) \/ ForceCloseFails(handler.ch)
    /\ handler' = [at |-> "idle", ch |-> NoTx]
    /\ UNCHANGED <<waiterVars, inbox, waitState, txVars>>

-----------------------------------------------------------------------------
(* LDK and the peer (external), and the broadcast tasks. *)

Negotiated(o) ==
    /\ ldk[o] = "negotiating"
    /\ ldk' = [ldk EXCEPT ![o] = "ready"]
    /\ ldkQueue' = Append(ldkQueue, Ev("FundingGenerationReady", o))
    /\ UNCHANGED <<waiterVars, inbox, waitState, handler, txVars>>

(* The peer rejects or drops the channel before it is funded ... *)
PeerCloses(o) ==
    /\ ldk[o] \in {"negotiating", "ready"}
    /\ ldk' = [ldk EXCEPT ![o] = "closed"]
    /\ ldkQueue' = Append(ldkQueue, Ev("ChannelClosed", o))
    /\ UNCHANGED <<waiterVars, inbox, waitState, handler, txVars>>

(* ... or after; the close is then reported under the final channel id,    *)
(* which no waiter matches.                                                *)
PeerClosesFunded(o) ==
    /\ ldk[o] = "funded"
    /\ attempts[o] = 0
    /\ ldk' = [ldk EXCEPT ![o] = "lost"]
    /\ UNCHANGED <<waiterVars, inbox, waitState, ldkQueue, handler, txVars>>

(* LDK broadcasts, or rebroadcasts, the funding transaction:               *)
(* broadcast_transactions spawns a task for it.                            *)
BroadcastFunding(o) ==
    /\ ldk[o] = "funded"
    /\ o \notin inflight
    /\ attempts[o] < MaxAttempts
    /\ inflight' = inflight \cup {o}
    /\ attempts' = [attempts EXCEPT ![o] = @ + 1]
    /\ UNCHANGED <<waiterVars, inbox, waitState, ldkVars, handler, sent>>

(* brodcast_tx: the node's answer becomes an event. *)
BroadcastAnswered(o) ==
    /\ o \in inflight
    /\ inflight' = inflight \ {o}
    /\ \/ /\ Emit(Ev("SendRawTransaction", o))
          /\ sent' = sent \cup {o}
       \/ /\ Emit(Ev("FailedTx", o))
          /\ UNCHANGED sent
    /\ UNCHANGED <<waiterVars, waitState, ldkVars, handler, attempts>>

BroadcastOther(t) ==
    /\ t \notin sent
    /\ sent' = sent \cup {t}
    /\ Emit(Ev("SendRawTransaction", t))
    /\ UNCHANGED <<waiterVars, waitState, ldkVars, handler, inflight, attempts>>

-----------------------------------------------------------------------------
Waiter(o) ==
    \/ Subscribe(o) \/ CreateChannel(o) \/ Hear(o) \/ StartDrain(o)
    \/ EndDrain(o) \/ AbandonIfUnaccepted(o) \/ CloseAbandoned(o)
    \/ ClearFundingWait(o)

Handler ==
    \/ HandleEvent \/ CreateTransaction \/ HandOff \/ AnnounceFunding
    \/ ReportFailure \/ DropChannel

Environment(o) ==
    \/ Negotiated(o) \/ PeerCloses(o) \/ PeerClosesFunded(o)
    \/ BroadcastFunding(o) \/ BroadcastAnswered(o)

Next ==
    \/ \E o \in Opens : Waiter(o) \/ Expire(o) \/ Environment(o)
    \/ Handler
    \/ \E t \in OtherTxs : BroadcastOther(t)

Spec == Init /\ [][Next]_vars

(* Time passes, and the runtime keeps polling a waiter that can run and    *)
(* the event handler.  Nothing is assumed of LDK, the peer or bitcoind.    *)
Fairness ==
    /\ \A o \in Opens : WF_vars(Waiter(o)) /\ WF_vars(Expire(o))
    /\ WF_vars(Handler)

FairSpec == Spec /\ Fairness

-----------------------------------------------------------------------------
(* An open that is answered with a retryable error was never funded and    *)
(* never will be: the caller's second attempt cannot pay twice.            *)
RetryNeverFunded ==
    \A o \in Opens :
        pc[o] = "done" /\ verdict[o] \in Retryable => ~Funded(o)

(* The node never force-closes a channel whose funding LDK accepted        *)
(* (neither the waiter's timeout nor the handler's cleanup does).          *)
NoForceCloseAfterHandoff == \A o \in Opens : ldk[o] # "killed"

(* A successful answer is about this open's own transaction, funded in     *)
(* LDK and taken by the backend, whatever else the node broadcast.         *)
SuccessIsOwnBroadcast ==
    \A o \in Opens : verdict[o] = "ok" => Funded(o) /\ o \in sent

(* "Channel left open" is only said of a channel LDK has accepted.         *)
LeftOpenIsFunded == \A o \in Opens : verdict[o] = "leftOpen" => Funded(o)

(* Every open request is answered, whatever the peer, LDK and bitcoind do. *)
Answered == \A o \in Opens : pc[o] = "start" ~> pc[o] = "done"

(* A channel whose open failed retryably does not stay alive in LDK, where *)
(* a late funding could race the caller's retry.                           *)
FailedOpenDropped ==
    \A o \in Opens : verdict[o] \in {"failed", "timeout"} ~> ldk[o] = "closed"

(* A broadcast that races ahead of FundingChannelEnd is buffered and       *)
(* completes the open: whatever was broadcast before it, and unless        *)
(* another broadcast is read between the two, early_broadcast holding one. *)
EarlyBroadcastHonoured ==
    \A o \in Opens :
        /\ {<<o, "end">>, <<o, "sent">>} \subseteq heard
        /\ <<o, "overtaken">> \notin heard
        => verdict[o] # "none"

(* Said of FundingChannelFailed{txid}: it lets the waiter of that funding  *)
(* transaction fail.                                                       *)
BroadcastFailureHonoured ==
    \A o \in Opens : {<<o, "end">>, <<o, "failed">>} \subseteq heard => verdict[o] # "none"

-----------------------------------------------------------------------------
(* The abstract view of a request: its answer counts once it is given. *)

AnswerOf(o) ==
    CASE pc[o] # "done" -> "none"
      [] pc[o] = "done" /\ verdict[o] = "ok" -> "opened"
      [] pc[o] = "done" /\ verdict[o] = "leftOpen" -> "leftOpen"
      [] OTHER -> "retry"

Promise == INSTANCE OpenPromise WITH
    funded <- {o \in Opens : Funded(o)},
    onNetwork <- sent \cap Opens,
    answer <- [o \in Opens |-> AnswerOf(o)]

(* The protocol of waiter, handler and wait state keeps the promise        *)
(* `open_channel` makes to its caller, step by step.                       *)
KeepsPromise == Promise!Spec

-----------------------------------------------------------------------------
(* The inductive invariant behind the safety properties, open by open:     *)
(* what is in a queue, a buffer or the wait state agrees with LDK.         *)

FundGen(o) == Ev("FundingGenerationReady", o)

(* Nothing can hand a funding for o to LDK any more: the channel is gone,  *)
(* or its only FundingGenerationReady was consumed without a handoff.      *)
Spent(o) ==
    \/ ldk[o] = "closed"
    \/ /\ ldk[o] = "ready"
       /\ ~Contains(ldkQueue, FundGen(o))
       /\ ~(handler.ch = o /\ handler.at \in {"create", "handoff"})

AtMostOnce(q, e) == \A i, j \in 1..Len(q) : q[i] = e /\ q[j] = e => i = j

LdkQueueInv(o) ==
    /\ Contains(ldkQueue, FundGen(o)) => ldk[o] \in {"ready", "closed"}
    /\ Contains(ldkQueue, Ev("ChannelClosed", o)) => ldk[o] = "closed"
    /\ AtMostOnce(ldkQueue, FundGen(o))

HandlerInv(o) ==
    handler.ch = o =>
        /\ handler.at # "idle" => ~Contains(ldkQueue, FundGen(o))
        /\ handler.at \in {"create", "handoff"} => ldk[o] \in {"ready", "closed"}
        /\ handler.at = "announce" => Funded(o)
        /\ handler.at \in {"report", "drop"} => Spent(o)

InboxInv(o) ==
    /\ Contains(inbox[o], Ev("FundingChannelEnd", o)) => Funded(o)
    /\ Contains(inbox[o], Ev("FailedTx", o)) => Funded(o)
    /\ Contains(inbox[o], Ev("SendRawTransaction", o)) => o \in sent
    /\ Contains(inbox[o], Ev("FailedChannel", o)) => Spent(o)
    /\ Contains(inbox[o], Ev("CloseChannel", o)) => ldk[o] = "closed"

FundingInv(o) ==
    /\ ldk[o] # "killed"
    /\ o \in handed \cup inflight \cup sent => Funded(o)
    /\ early[o] = o => o \in sent
    /\ pc[o] \in {"start", "subscribed"} => ldk[o] = "none"

WaitStateInv(o) ==
    /\ waitState[o] = "Accepted" => Funded(o)
    /\ waitState[o] = "Abandoned" => ~Funded(o)
    /\ pc[o] = "close" => waitState[o] = "Abandoned"
    /\ Funded(o) /\ pc[o] \notin {"clear", "done"} => waitState[o] = "Accepted"

VerdictInv(o) ==
    /\ pc[o] \in {"clear", "done"} => verdict[o] # "none"
    /\ verdict[o] = "ok" => Funded(o) /\ o \in sent
    /\ verdict[o] = "leftOpen" => Funded(o)
    /\ verdict[o] = "failed" => Spent(o)
    /\ verdict[o] = "closed" => ldk[o] = "closed"
    /\ verdict[o] = "refused" => pc[o] = "done" /\ ldk[o] = "none"
    /\ verdict[o] = "timeout" =>
          \/ ldk[o] = "closed"
          \/ pc[o] = "done" /\ waitState[o] = "Abandoned"

OpenInv(o) ==
    /\ LdkQueueInv(o)
    /\ HandlerInv(o)
    /\ InboxInv(o)
    /\ FundingInv(o)
    /\ WaitStateInv(o)
    /\ VerdictInv(o)

(* Queues, buffers, wait state, LDK and the verdict of every open agree: in *)
(* particular an accepted funding is recorded while its request is          *)
(* undecided, so the timeout path cannot miss it.                           *)
IndInv == \A o \in Opens : OpenInv(o)

=============================================================================
