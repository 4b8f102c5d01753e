------------------------------- MODULE Daemon -------------------------------
(***************************************************************************)
(* A node from its start to its end, over crashes and restarts: the wallet *)
(* of WalletFiles, what is restored from the channel state on disk, the    *)
(* pid lock, the listener for peers, the event loop and the shutdown.      *)
(*                                                                         *)
(* A channel's monitor and its spendable output stand for what LDK stores  *)
(* of the channel: the monitor also carries the output's event until the   *)
(* event is handled.                                                       *)
(***************************************************************************)
EXTENDS WalletFiles

CONSTANTS
    Channels,
    CanFail   \* writes of the sweeper's state may fail

ASSUME ChannelsAssumption == \A C \in SUBSET Channels : C # None
ASSUME CanFailAssumption == CanFail \in BOOLEAN

VARIABLES
    manager,   \* the stored channel manager: its channels
    monitors,  \* the stored monitors
    due,       \* outputs whose event is in a stored monitor
    swept,     \* the stored sweeper: its outputs
    owed,      \* outputs that ever became spendable
    mine,      \* those among them that pay a script of the wallet
    shared,    \* two processes were past their wallets at a time
    chans,     \* channels of a process's channel manager
    read,      \* what it read of the monitors: them, and the events in them
    watched,   \* channels in its chain monitor
    refused,   \* channels whose monitor watch_channel refused
    queue,     \* SpendableOutputs events to handle
    sweeper,   \* outputs its sweeper tracks
    accepts,   \* its accept loop runs
    shutdown   \* its shutdown flag

ldkDisk == <<manager, monitors, due, swept, owed, mine>>
memory == <<chans, read, watched, refused, queue, sweeper, accepts, shutdown>>
vars == <<walletVars, ldkDisk, shared, memory>>

Serving == {"serve", "register", "listen", "run"}
DaemonSteps == {"restore", "watch", "sweeper", "managers", "lock"} \cup Serving

TypeOK ==
    /\ WalletTypeOK
    /\ pc \in [Processes -> WalletSteps \cup DaemonSteps \cup {"off"}]
    /\ manager \in {None} \cup SUBSET Channels
    /\ monitors \subseteq Channels
    /\ due \subseteq monitors
    /\ swept \in {None} \cup SUBSET Channels
    /\ owed \subseteq Channels
    /\ mine \subseteq owed
    /\ shared \in BOOLEAN
    /\ chans \in [Processes -> SUBSET Channels]
    /\ read \in [Processes -> [held : SUBSET Channels, due : SUBSET Channels]]
    /\ watched \in [Processes -> SUBSET Channels]
    /\ refused \in [Processes -> SUBSET Channels]
    /\ queue \in [Processes -> SUBSET Channels]
    /\ sweeper \in [Processes -> SUBSET Channels]
    /\ accepts \in [Processes -> BOOLEAN]
    /\ shutdown \in [Processes -> BOOLEAN]
    /\ \A p \in Processes :
          /\ pc[p] \in WalletSteps \cup {"off"} => chans[p] = {} /\ watched[p] = {}
          /\ shutdown[p] => pc[p] \in Serving
          /\ accepts[p] => pc[p] = "run"

NothingRead == [held |-> {}, due |-> {}]

Init ==
    /\ WalletInit
    /\ manager = None
    /\ monitors = {}
    /\ due = {}
    /\ swept = None
    /\ owed = {}
    /\ mine = {}
    /\ shared = FALSE
    /\ chans = [p \in Processes |-> {}]
    /\ read = [p \in Processes |-> NothingRead]
    /\ watched = [p \in Processes |-> {}]
    /\ refused = [p \in Processes |-> {}]
    /\ queue = [p \in Processes |-> {}]
    /\ sweeper = [p \in Processes |-> {}]
    /\ accepts = [p \in Processes |-> FALSE]
    /\ shutdown = [p \in Processes |-> FALSE]

-----------------------------------------------------------------------------
(* Mutant: the accept loop and the flag outlive it. *)
ExitDetached(p) ==
    /\ Gone(p)
    /\ chans' = [chans EXCEPT ![p] = {}]
    /\ read' = [read EXCEPT ![p] = NothingRead]
    /\ watched' = [watched EXCEPT ![p] = {}]
    /\ refused' = [refused EXCEPT ![p] = {}]
    /\ queue' = [queue EXCEPT ![p] = {}]
    /\ sweeper' = [sweeper EXCEPT ![p] = {}]
    /\ UNCHANGED <<accepts, shutdown>>

(* The process ends, by itself or not: its memory and its tasks are gone,  *)
(* and the pid lock with them.                                             *)
Exit(p) ==
    /\ Gone(p)
    /\ chans' = [chans EXCEPT ![p] = {}]
    /\ read' = [read EXCEPT ![p] = NothingRead]
    /\ watched' = [watched EXCEPT ![p] = {}]
    /\ refused' = [refused EXCEPT ![p] = {}]
    /\ queue' = [queue EXCEPT ![p] = {}]
    /\ sweeper' = [sweeper EXCEPT ![p] = {}]
    /\ accepts' = [accepts EXCEPT ![p] = FALSE]
    /\ shutdown' = [shutdown EXCEPT ![p] = FALSE]

Fail(p) == Exit(p) /\ UNCHANGED <<files, ldkDisk, shared>>

Move(p, from, to) ==
    /\ pc[p] = from
    /\ Goto(p, to)
    /\ UNCHANGED <<files, command, seed, recovering>>

Wallet(p) == WalletStep(p) /\ UNCHANGED <<ldkDisk, shared, memory>>

Crash(p) == pc[p] # "off" /\ Fail(p)

(* Another process past its wallet as this one goes there. *)
Meets(p) == \E q \in Processes \ {p} : pc[q] \in DaemonSteps

IsRestarting == manager # None

(* LampoChannelManager::start: the channel manager is new.  The backend    *)
(* has to be reached.                                                      *)
StartFresh(p) ==
    /\ ~IsRestarting /\ GoneOnWith
    /\ \/ /\ Move(p, "ready", "sweeper")
          /\ shared' = (shared \/ Meets(p))
          /\ UNCHANGED <<ldkDisk, memory>>
       \/ pc[p] = "ready" /\ Fail(p)

(* LampoChannelManager::restart: the monitors are read ... *)
ReadMonitors(p) ==
    /\ IsRestarting /\ GoneOnWith
    /\ Move(p, "ready", "restore")
    /\ shared' = (shared \/ Meets(p))
    /\ read' = [read EXCEPT ![p] = [held |-> monitors, due |-> due]]
    /\ UNCHANGED <<ldkDisk, chans, watched, refused, queue, sweeper, accepts, shutdown>>

(* ... and then the manager, which LDK refuses when it has a channel with  *)
(* no monitor among them.                                                  *)
ReadManager(p) ==
    /\ pc[p] = "restore"
    /\ IF manager \subseteq read[p].held
       THEN /\ Move(p, "restore", "watch")
            /\ chans' = [chans EXCEPT ![p] = manager]
            /\ UNCHANGED <<ldkDisk, shared, read, watched, refused, queue, sweeper>>
            /\ UNCHANGED <<accepts, shutdown>>
       ELSE Fail(p)

(* Mutant: the monitors that were read are not registered. *)
WatchNothing(p) ==
    /\ Move(p, "watch", "sweeper")
    /\ UNCHANGED <<ldkDisk, shared, memory>>

(* The monitors that were read are registered, and stored again by it; the *)
(* events in them are to be handled (again).  One that watch_channel       *)
(* refuses is logged, and the start goes on without it.                    *)
WatchChannels(p) ==
    /\ Move(p, "watch", "sweeper")
    /\ \E err \in SUBSET read[p].held :
          LET taken == read[p].held \ err IN
          /\ refused' = [refused EXCEPT ![p] = err]
          /\ watched' = [watched EXCEPT ![p] = taken]
          /\ due' = (due \ taken) \cup (read[p].due \cap taken)
          /\ queue' = [queue EXCEPT ![p] = read[p].due \cap taken]
    /\ read' = [read EXCEPT ![p] = NothingRead]
    /\ UNCHANGED <<manager, monitors, swept, owed, mine, shared>>
    /\ UNCHANGED <<chans, sweeper, accepts, shutdown>>

(* init_sweeper: restored, or new if it was never stored; any other error  *)
(* ends the start.                                                         *)
InitSweeper(p) ==
    \/ /\ Move(p, "sweeper", "managers")
       /\ sweeper' = [sweeper EXCEPT ![p] = IF swept = None THEN {} ELSE swept]
       /\ UNCHANGED <<ldkDisk, shared, chans, read, watched, refused, queue, accepts, shutdown>>
    \/ pc[p] = "sweeper" /\ swept # None /\ Fail(p)

(* The offchain, peer and inventory managers and the event handler. *)
InitManagers(p) ==
    \/ Move(p, "managers", "lock") /\ UNCHANGED <<ldkDisk, shared, memory>>
    \/ pc[p] = "managers" /\ Fail(p)

(* The pid lock, held until the process ends. *)
PidLock(p) ==
    IF \E q \in Processes : pc[q] \in Serving
    THEN pc[p] = "lock" /\ Fail(p)
    ELSE Move(p, "lock", "serve") /\ UNCHANGED <<ldkDisk, shared, memory>>

(* run_httpd, which serves at once; then the handler of the calls it gets. *)
RunHttpd(p) ==
    Move(p, "serve", "register") /\ UNCHANGED <<ldkDisk, shared, memory>>

AddExternalHandler(p) ==
    Move(p, "register", "listen") /\ UNCHANGED <<ldkDisk, shared, memory>>

(* run_with_shutdown, with the listener bound: the accept loop runs. *)
RunWithShutdown(p) == accepts' = [accepts EXCEPT ![p] = TRUE]

(* LampoDaemon::listen: a listener that cannot be bound ends the process;  *)
(* else the event loop is started too.                                     *)
Listen(p) ==
    \/ /\ Move(p, "listen", "run")
       /\ RunWithShutdown(p)
       /\ UNCHANGED <<ldkDisk, shared, chans, read, watched, refused, queue, sweeper, shutdown>>
    \/ pc[p] = "listen" /\ Fail(p)

-----------------------------------------------------------------------------
(* What LDK does while the event loop runs (external): a channel is        *)
(* funded, its monitor stored and registered first; the manager is stored; *)
(* a closed channel's output becomes spendable; a monitor is stored        *)
(* without the event that was handled.                                     *)
Running(p) == pc[p] = "run"

OpenChannel(p, ch) ==
    /\ Running(p)
    /\ ch \notin monitors
    /\ monitors' = monitors \cup {ch}
    /\ watched' = [watched EXCEPT ![p] = @ \cup {ch}]
    /\ chans' = [chans EXCEPT ![p] = @ \cup {ch}]
    /\ UNCHANGED <<walletVars, manager, due, swept, owed, mine, shared>>
    /\ UNCHANGED <<read, refused, queue, sweeper, accepts, shutdown>>

StoreManager(p) ==
    /\ Running(p)
    /\ manager' = chans[p]
    /\ UNCHANGED <<walletVars, monitors, due, swept, owed, mine, shared, memory>>

Spendable(p, ch) ==
    /\ Running(p)
    /\ ch \in watched[p] \ owed
    /\ owed' = owed \cup {ch}
    /\ mine' \in {mine, mine \cup {ch}}
    /\ due' = due \cup {ch}
    /\ queue' = [queue EXCEPT ![p] = @ \cup {ch}]
    /\ chans' = [chans EXCEPT ![p] = @ \ {ch}]
    /\ UNCHANGED <<walletVars, manager, monitors, swept, shared>>
    /\ UNCHANGED <<read, watched, refused, sweeper, accepts, shutdown>>

StoreMonitor(p, ch) ==
    /\ Running(p)
    /\ ch \in (due \cap watched[p]) \ queue[p]
    /\ due' = due \ {ch}
    /\ UNCHANGED <<walletVars, manager, monitors, swept, owed, mine, shared, memory>>

(* The event SpendableOutputs: an output the wallet owns needs no sweeping. *)
SkipMine(p, ch) ==
    /\ Running(p)
    /\ ch \in queue[p] \cap mine
    /\ queue' = [queue EXCEPT ![p] = @ \ {ch}]
    /\ UNCHANGED <<walletVars, ldkDisk, shared>>
    /\ UNCHANGED <<chans, read, watched, refused, sweeper, accepts, shutdown>>

Tracked(p, ch) ==
    /\ Running(p)
    /\ ch \in queue[p] \ mine
    /\ sweeper' = [sweeper EXCEPT ![p] = @ \cup {ch}]
    /\ UNCHANGED <<walletVars, manager, monitors, due, owed, mine, shared>>
    /\ UNCHANGED <<chans, read, watched, refused, accepts, shutdown>>

(* The others are tracked by the sweeper, which stores its state. *)
Track(p, ch) ==
    /\ Tracked(p, ch)
    /\ swept' = sweeper[p] \cup {ch}
    /\ queue' = [queue EXCEPT ![p] = @ \ {ch}]

(* Mutant: the event of an output that could not be stored is done. *)
TrackFailsDone(p, ch) ==
    /\ CanFail
    /\ Tracked(p, ch)
    /\ queue' = [queue EXCEPT ![p] = @ \ {ch}]
    /\ UNCHANGED swept

(* The state could not be stored: handler_ldk_events has LDK replay it. *)
TrackFails(p, ch) ==
    /\ CanFail
    /\ Tracked(p, ch)
    /\ UNCHANGED <<swept, queue>>

(* An error of accept ends the accept loop; so does the shutdown. *)
AcceptEnds(p) ==
    /\ accepts[p]
    /\ accepts' = [accepts EXCEPT ![p] = FALSE]
    /\ UNCHANGED <<walletVars, ldkDisk, shared>>
    /\ UNCHANGED <<chans, read, watched, refused, queue, sweeper, shutdown>>

(* Ctrl+C, or the stop call of the HTTP API. *)
Shutdown(p) ==
    /\ pc[p] \in Serving
    /\ ~shutdown[p]
    /\ shutdown' = [shutdown EXCEPT ![p] = TRUE]
    /\ UNCHANGED <<walletVars, ldkDisk, shared>>
    /\ UNCHANGED <<chans, read, watched, refused, queue, sweeper, accepts>>

(* Mutant: the loop stops only when it has no event left. *)
FinishIdle(p) ==
    /\ Running(p)
    /\ shutdown[p]
    /\ queue[p] = {}
    /\ manager' = chans[p]
    /\ Exit(p)
    /\ UNCHANGED <<files, monitors, due, swept, owed, mine, shared>>

(* The event loop sees the flag, stores the manager, and `main` returns.   *)
(* A failing event does not keep it.                                       *)
Finish(p) ==
    /\ Running(p)
    /\ shutdown[p]
    /\ manager' = chans[p]
    /\ Exit(p)
    /\ UNCHANGED <<files, monitors, due, swept, owed, mine, shared>>

Boot(p) ==
    \/ StartFresh(p) \/ ReadMonitors(p) \/ ReadManager(p) \/ WatchChannels(p)
    \/ InitSweeper(p) \/ InitManagers(p)
    \/ PidLock(p) \/ RunHttpd(p) \/ AddExternalHandler(p) \/ Listen(p)

Run(p) ==
    \/ StoreManager(p) \/ AcceptEnds(p) \/ Shutdown(p) \/ Finish(p)
    \/ \E ch \in Channels :
          \/ OpenChannel(p, ch) \/ Spendable(p, ch) \/ StoreMonitor(p, ch)
          \/ SkipMine(p, ch) \/ Track(p, ch) \/ TrackFails(p, ch)

Next == \E p \in Processes : Wallet(p) \/ Boot(p) \/ Run(p) \/ Crash(p)

Spec == Init /\ [][Next]_vars

(* The runtime polls the main task and the event loop. *)
Fairness == \A p \in Processes : WF_vars(Boot(p) \/ Finish(p))
FairSpec == Spec /\ Fairness

-----------------------------------------------------------------------------
(* Once restored, a node watches the chain for every channel it goes on    *)
(* with, so the first update of a channel finds its monitor, after any     *)
(* crash between the stores of monitors and manager (issue #563): all but  *)
(* those it was refused, and has logged.                                   *)
KnownChannelsWatched ==
    \A p \in Processes :
        pc[p] \in DaemonSteps \ {"restore", "watch"} =>
            chans[p] \subseteq watched[p] \cup refused[p]

(* The descriptors of an output that is not the wallet's are never lost:   *)
(* they are in a stored event or in the stored sweeper, whatever fails or  *)
(* crashes, unless two processes were at the state at a time.              *)
OutputsKept ==
    ~shared => owed \ mine \subseteq due \cup (IF swept = None THEN {} ELSE swept)

(* A shutdown ends the process, with events that keep failing too. *)
StopEnds ==
    (\E p \in Processes : shutdown[p]) ~> (\A p \in Processes : ~shutdown[p])

=============================================================================
