---------------------------- MODULE CloseChannel ----------------------------
(***************************************************************************)
(* The close calls of a node: each lists the channels through the node's   *)
(* own HTTP server, picks one, asks LDK to close it, and waits for a       *)
(* channel to be announced closed.  Meanwhile other calls, and the peers,  *)
(* close channels too.                                                     *)
(***************************************************************************)
EXTENDS Naturals, Sequences, FiniteSets

CONSTANTS
    Calls,     \* close calls
    Channels,  \* channels the node may have
    Peers,     \* their counterparties
    PeerOf,    \* the counterparty of each channel
    None

ASSUME PeerAssumption == PeerOf \in [Channels -> Peers]
ASSUME NoneAssumption == None \notin Channels \cup Peers

VARIABLES
    pc,         \* where each call is
    peer,       \* the node_id of its request
    named,      \* the channel_id of its request
    chosen,     \* the channel it closes
    inbox,      \* its queue of the event bus: channels announced closed
    answer,     \* the channel it reports closed
    open,       \* LDK: channels that are listed
    closing,    \* LDK: those among them a close was asked for
    events      \* LDK: ChannelClosed events not handled yet

callVars == <<pc, peer, named, chosen, inbox, answer>>
ldkVars == <<open, closing, events>>
vars == <<callVars, ldkVars>>

TypeOK ==
    /\ pc \in [Calls -> {"idle", "list", "close", "asked", "wait", "done"}]
    /\ peer \in [Calls -> Peers \cup {None}]
    /\ named \in [Calls -> Channels \cup {None}]
    /\ chosen \in [Calls -> Channels \cup {None}]
    /\ inbox \in [Calls -> Seq(Channels)]
    /\ answer \in [Calls -> Channels \cup {None}]
    /\ open \subseteq Channels
    /\ closing \subseteq open
    /\ events \in Seq(Channels)
    /\ \A c \in Calls :
          /\ pc[c] = "idle" => peer[c] = None
          /\ answer[c] # None => pc[c] = "done"

Init ==
    /\ pc = [c \in Calls |-> "idle"]
    /\ peer = [c \in Calls |-> None]
    /\ named = [c \in Calls |-> None]
    /\ chosen = [c \in Calls |-> None]
    /\ inbox = [c \in Calls |-> <<>>]
    /\ answer = [c \in Calls |-> None]
    /\ open \in SUBSET Channels
    /\ closing = {}
    /\ events = <<>>

Goto(c, step) == pc' = [pc EXCEPT ![c] = step]

-----------------------------------------------------------------------------
(* json_close subscribes to the bus before anything else. *)
Close(c, p, ch) ==
    /\ pc[c] = "idle"
    /\ Goto(c, "list")
    /\ peer' = [peer EXCEPT ![c] = p]
    /\ named' = [named EXCEPT ![c] = ch]
    /\ UNCHANGED <<chosen, inbox, answer, ldkVars>>

Fail(c) ==
    /\ Goto(c, "done")
    /\ inbox' = [inbox EXCEPT ![c] = <<>>]
    /\ UNCHANGED <<peer, named, chosen, answer>>

(* react finds no external handler registered yet, or the HTTP call fails. *)
ReactFails(c) ==
    /\ pc[c] = "list"
    /\ Fail(c)
    /\ UNCHANGED ldkVars

(* json_channels: the request's peer_id is not looked at. *)
Listed(c) == open

(* The channel the call goes on with: of several, the one named; of one,   *)
(* that one, whatever was named.                                           *)
Choice(c) ==
    IF Cardinality(Listed(c)) > 1 THEN named[c]
    ELSE IF Listed(c) = {} THEN None
    ELSE CHOOSE ch \in Listed(c) : TRUE

ListChannels(c) ==
    /\ pc[c] = "list"
    /\ IF Choice(c) = None
       THEN Fail(c)
       ELSE /\ chosen' = [chosen EXCEPT ![c] = Choice(c)]
            /\ Goto(c, "close")
            /\ UNCHANGED <<peer, named, inbox, answer>>
    /\ UNCHANGED ldkVars

(* LDK refuses a channel it does not have, one of another peer, and one    *)
(* that is being closed.                                                   *)
Accepted(c) ==
    /\ chosen[c] \in open \ closing
    /\ PeerOf[chosen[c]] = peer[c]

(* Mutant: what LDK refuses is waited for all the same. *)
CloseIgnoringErrors(c) ==
    /\ pc[c] = "close"
    /\ closing' = IF Accepted(c) THEN closing \cup {chosen[c]} ELSE closing
    /\ Goto(c, "asked")
    /\ UNCHANGED <<peer, named, chosen, inbox, answer, open, events>>

close_channel(c) ==
    /\ pc[c] = "close"
    /\ IF Accepted(c)
       THEN /\ closing' = closing \cup {chosen[c]}
            /\ Goto(c, "asked")
            /\ UNCHANGED <<peer, named, chosen, inbox, answer>>
       ELSE Fail(c) /\ UNCHANGED closing
    /\ UNCHANGED <<open, events>>

(* The call enters its loop; the event loop runs beside it. *)
AwaitClosed(c) ==
    /\ pc[c] = "asked"
    /\ Goto(c, "wait")
    /\ UNCHANGED <<peer, named, chosen, inbox, answer, ldkVars>>

(* The first channel announced closed is taken for the call's own. *)
HearClosed(c) ==
    /\ pc[c] = "wait"
    /\ inbox[c] # <<>>
    /\ answer' = [answer EXCEPT ![c] = Head(inbox[c])]
    /\ inbox' = [inbox EXCEPT ![c] = <<>>]
    /\ Goto(c, "done")
    /\ UNCHANGED <<peer, named, chosen, ldkVars>>

-----------------------------------------------------------------------------
(* Mutant: a call subscribes when it begins to wait. *)
ListeningLate == {c \in Calls : pc[c] = "wait"}

Listening == {c \in Calls : pc[c] \in {"list", "close", "asked", "wait"}}

(* The handler announces a closed channel to every subscriber. *)
ChannelClosed ==
    /\ events # <<>>
    /\ inbox' = [c \in Calls |->
          IF c \in Listening THEN Append(inbox[c], Head(events)) ELSE inbox[c]]
    /\ events' = Tail(events)
    /\ UNCHANGED <<pc, peer, named, chosen, answer, open, closing>>

(* LDK (external): a channel is closed, cooperatively or by either side, *)
(* whether this node asked for it or not.                                *)
Closed(ch) ==
    /\ ch \in open
    /\ open' = open \ {ch}
    /\ closing' = closing \ {ch}
    /\ events' = Append(events, ch)
    /\ UNCHANGED callVars

Call(c) ==
    \/ \E p \in Peers, ch \in Channels \cup {None} : Close(c, p, ch)
    \/ ReactFails(c) \/ ListChannels(c)
    \/ close_channel(c) \/ AwaitClosed(c) \/ HearClosed(c)

Next ==
    \/ \E c \in Calls : Call(c)
    \/ \E ch \in Channels : Closed(ch)
    \/ ChannelClosed

Spec == Init /\ [][Next]_vars

(* The runtime runs the calls and the event loop.  Nothing is assumed of a *)
(* close that was asked for: the peer may never answer, and the wait has   *)
(* no deadline.                                                            *)
FairSpec ==
    /\ Spec
    /\ WF_vars(ChannelClosed)
    /\ \A c \in Calls :
          WF_vars(\/ ReactFails(c) \/ ListChannels(c)
                  \/ close_channel(c) \/ AwaitClosed(c) \/ HearClosed(c))

-----------------------------------------------------------------------------
(* A call of which LDK accepted the close. *)
Waits(c) == pc[c] \in {"asked", "wait"}

(* A call waits with its own channel's close on the way to it: still       *)
(* negotiated, in LDK's queue or in the call's, so no close that was       *)
(* accepted can pass it by between the HTTP round trip, the call of LDK    *)
(* and the wait.                                                           *)
InSeq(x, s) == \E i \in 1 .. Len(s) : s[i] = x

CloseNotMissed ==
    \A c \in Calls : Waits(c) =>
        chosen[c] \in closing \/ InSeq(chosen[c], events) \/ InSeq(chosen[c], inbox[c])

(* A close that is waited for or reported has taken effect: its channel is *)
(* one of the peer the request names, and closing or closed, however the   *)
(* list of all the node's channels and other closes came between.          *)
CloseTakesEffect ==
    \A c \in Calls : Waits(c) \/ answer[c] # None =>
        PeerOf[chosen[c]] = peer[c] /\ chosen[c] \notin open \ closing

(* A call is answered once its channel is closed, by the peer's answer or  *)
(* by a force-close of either side, whenever that comes: no wait is left   *)
(* behind for a channel LDK no longer has.                                 *)
Answered ==
    \A c \in Calls : Waits(c) /\ chosen[c] \notin open ~> pc[c] = "done"

(* Said of the choice: the channel to shut is the one the request names,   *)
(* when it names one.  It does not hold: with one channel left, that one   *)
(* is closed.                                                              *)
ClosesNamed ==
    \A c \in Calls :
        Waits(c) /\ named[c] # None => chosen[c] = named[c]

=============================================================================
