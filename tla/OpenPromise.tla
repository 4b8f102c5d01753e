---------------------------- MODULE OpenPromise ----------------------------
(***************************************************************************)
(* What an `open_channel` request promises its caller, whatever happens    *)
(* between the waiter, the event handler, LDK and the broadcast tasks.     *)
(*                                                                         *)
(* A channel is funded at most once and only while its request is          *)
(* unanswered; the transaction is on the network only after that.  The     *)
(* answer is "opened" (funding broadcast), "leftOpen" (funded, the         *)
(* broadcast may still come) or "retry" (not funded, now or ever).         *)
(***************************************************************************)
CONSTANT Opens

VARIABLES funded, onNetwork, answer

promiseVars == <<funded, onNetwork, answer>>

Init ==
    /\ funded = {}
    /\ onNetwork = {}
    /\ answer = [o \in Opens |-> "none"]

Fund(o) ==
    /\ o \notin funded
    /\ answer[o] = "none"
    /\ funded' = funded \cup {o}
    /\ UNCHANGED <<onNetwork, answer>>

Publish(o) ==
    /\ o \in funded
    /\ onNetwork' = onNetwork \cup {o}
    /\ UNCHANGED <<funded, answer>>

Answer(o, a) ==
    /\ answer[o] = "none"
    /\ \/ a = "opened" /\ o \in onNetwork
       \/ a = "leftOpen" /\ o \in funded
       \/ a = "retry" /\ o \notin funded
    /\ answer' = [answer EXCEPT ![o] = a]
    /\ UNCHANGED <<funded, onNetwork>>

Next ==
    \E o \in Opens :
        Fund(o) \/ Publish(o) \/ \E a \in {"opened", "leftOpen", "retry"} : Answer(o, a)

Spec == Init /\ [][Next]_promiseVars

=============================================================================
