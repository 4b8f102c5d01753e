------------------------------ MODULE ChainSync ------------------------------
(***************************************************************************)
(* The node catching up with the chain.  The backend's unified pass        *)
(* connects blocks to the LDK listeners and to the wallet; the wallet also *)
(* scans on its own, once the coordinator allows it.  Both move one wallet *)
(* and both advance the coordinator, and neither waits for the other.      *)
(*                                                                         *)
(* A block is the sequence of the branches that lead to it from genesis,   *)
(* the empty sequence: its height is its length, its ancestors are its     *)
(* prefixes.  The wallet is its set of checkpoints, on one chain, and the  *)
(* blocks whose transactions it has looked at.                             *)
(***************************************************************************)
EXTENDS Integers, Sequences, SequencesExt, FiniteSets

CONSTANTS
    Branches,     \* names for competing blocks at one height
    Start,        \* the chain's best block when the node is first started
    MaxHeight,    \* bound: the chain's height
    MaxReorg,     \* bound: blocks a new best chain replaces
    MaxAborts,    \* bound: passes and scans given up for an RPC or a timeout
    MaxFailures,  \* bound: failing writes of the wallet's database
    MaxRestarts,  \* bound: crashes
    JumpCanFail   \* may get_blockchain_info fail while the wallet starts?

ASSUME HeightAssumption == {MaxHeight, MaxReorg} \subseteq Nat
ASSUME BoundAssumption == {MaxAborts, MaxFailures, MaxRestarts} \subseteq Nat
ASSUME JumpAssumption == JumpCanFail \in BOOLEAN

VARIABLES
    best,     \* bitcoind's best block (external)
    mode,     \* sync_mode and wallet_sync_parallel
    restored, \* restored_seed: the wallet may own funds in any block
    chk,      \* the wallet's checkpoints
    scanned,  \* the blocks applied to the wallet
    disk,     \* the wallet's database
    ldk,      \* the tip of the LDK listeners
    state,    \* ChainSyncCoordinator's state
    grace,    \* has LISTENER_SYNC_GRACE elapsed?
    pass,     \* the backend's listener pass
    scan,     \* the wallet's scan
    budget,   \* what is left of the bounds
    since,    \* history: the chain's height when this process started
    born,     \* history: the chain's height when the wallet first ran
    reached,  \* history: has the wallet been at that of `since`?
    lost      \* history: blocks that reorgs put below heights the chain had,
              \* and blocks a wallet found at genesis may jump over again

walletVars == <<chk, scanned, disk, reached>>
nodeVars == <<best, mode, restored, since, born, lost>>
vars == <<nodeVars, walletVars, ldk, state, grace, pass, scan, budget>>

Genesis == <<>>
Blocks == UNION {[1..n -> Branches] : n \in 0..MaxHeight}
ASSUME StartAssumption == Start \in Blocks
Height(b) == Len(b)
At(b, h) == SubSeq(b, 1, h)
Ancestors(b) == {At(b, h) : h \in 0..Height(b)}
Highest(S) == CHOOSE b \in S : \A c \in S : Height(c) <= Height(b)
Fork(b, c) == Highest(Ancestors(b) \cap Ancestors(c))
Reaches(S, h) == \E b \in S : Height(b) >= h

Tip == Highest(chk)

NoPass == [at |-> "off", wallet |-> Genesis, target |-> Genesis, ldkFork |-> 0,
           walletFork |-> 0, next |-> 0, failed |-> FALSE]
NoScan == [at |-> "idle", seen |-> {}, start |-> 0, queue |-> <<>>]

TypeOK ==
    /\ best \in Blocks
    /\ mode \in {"unified", "parallel", "legacy"}
    /\ restored \in BOOLEAN
    /\ chk \subseteq Blocks /\ Genesis \in chk /\ scanned \subseteq Blocks
    /\ disk.chk \subseteq Blocks /\ disk.scanned \subseteq scanned
    /\ ldk \in Blocks
    /\ state \in {"PendingInitialSync", "ListenersSynced", "Running"}
    /\ grace \in BOOLEAN
    /\ pass.at \in {"off", "walk", "connect", "synced"}
    /\ pass.target \in Blocks /\ pass.next <= Height(pass.target) + 1
    /\ scan.at \in {"idle", "emit", "ended", "failed"}
    /\ scan.seen \subseteq Blocks
    /\ scan.queue \in Seq([block : Blocks, on : Blocks])
    /\ budget \in [aborts : 0..MaxAborts, failures : 0..MaxFailures,
                   restarts : 0..MaxRestarts]
    /\ {since, born} \subseteq 0..MaxHeight
    /\ reached \in BOOLEAN
    /\ lost \subseteq Blocks

-----------------------------------------------------------------------------
(* The wallet. *)

(* Mutant: any wallet jumps, not only one at genesis. *)
ListenedAnywhere(c) ==
    IF ~restored THEN {c \cup {best}} ELSE {c}

(* What listen() may make of the checkpoints: a wallet at genesis that is  *)
(* not a recovery jumps to the chain's tip, if it is told where that is.   *)
Listened(c) ==
    IF Height(Highest(c)) = 0 /\ ~restored
    THEN {c \cup {best}} \cup (IF JumpCanFail THEN {c} ELSE {})
    ELSE {c}

(* BDK's merge of a block, its parent and the block it is said to connect  *)
(* to (external): it is refused unless the place where the two chains part *)
(* is known exactly.                                                       *)
Update(b, on) == {b, Front(b), on}

Merges(b, on) ==
    LET agreed == Highest(chk \cap Ancestors(b))
        above == {c \in chk : Height(c) > Height(agreed)} IN
    \/ b \in chk
    \/ /\ agreed \in Update(b, on)
       /\ \A c \in above :
             (\A d \in above : Height(c) <= Height(d))
                 => \E u \in Update(b, on) : Height(u) = Height(c)

Merged(b, on) ==
    IF b \in chk THEN chk \cup Update(b, on)
                 ELSE (chk \cap Ancestors(b)) \cup Update(b, on)

(* apply_block_inner: merge and persist, under the wallet's locks; or fail *)
(* for a block that does not connect, or at the write, after the merge.    *)
ApplyOk(b, on) ==
    /\ Merges(b, on)
    /\ chk' = Merged(b, on)
    /\ scanned' = scanned \cup {b}
    /\ disk' = [chk |-> chk', scanned |-> scanned']
    /\ reached' = (reached \/ Reaches(chk', since))
    /\ UNCHANGED budget

ApplyFails(b, on) ==
    \/ /\ ~Merges(b, on)
       /\ UNCHANGED <<walletVars, budget>>
    \/ /\ Merges(b, on)
       /\ budget.failures > 0
       /\ budget' = [budget EXCEPT !.failures = @ - 1]
       /\ chk' = Merged(b, on)
       /\ scanned' = scanned \cup {b}
       /\ reached' = (reached \/ Reaches(chk', since))
       /\ UNCHANGED disk

-----------------------------------------------------------------------------
Init ==
    /\ best = Start
    /\ mode \in {"unified", "parallel", "legacy"}
    /\ restored \in BOOLEAN
    /\ chk \in Listened({Genesis})
    /\ scanned = {}
    /\ disk = [chk |-> chk, scanned |-> {}]
    /\ ldk = best
    /\ state = "PendingInitialSync"
    /\ grace = FALSE
    /\ pass = NoPass
    /\ scan = NoScan
    /\ budget = [aborts |-> MaxAborts, failures |-> MaxFailures, restarts |-> MaxRestarts]
    /\ since = Height(Start)
    /\ born = IF restored THEN 0 ELSE Height(Start)
    /\ reached = Reaches(chk, since)
    /\ lost = {}

(* The coordinator. *)
MarkListenersSynced == IF state = "PendingInitialSync" THEN "ListenersSynced" ELSE state
MarkRunning(s) == IF s = "ListenersSynced" THEN "Running" ELSE s
ListenersSynced == state # "PendingInitialSync"

(* Mutant: the gate has no escape. *)
ScanGated == mode = "parallel" \/ ListenersSynced

ScanAllowed == mode = "parallel" \/ ListenersSynced \/ grace

GraceElapses ==
    /\ ~ScanAllowed
    /\ grace' = TRUE
    /\ UNCHANGED <<nodeVars, walletVars, ldk, state, pass, scan, budget>>

-----------------------------------------------------------------------------
(* The backend: LampoChainSync::listen. *)

(* A pass starts from the best blocks its listeners have now ... *)
StartPass ==
    /\ pass.at = "off"
    /\ pass' = [NoPass EXCEPT !.at = "walk",
                    !.wallet = IF mode = "unified" THEN Tip ELSE Genesis]
    /\ UNCHANGED <<nodeVars, walletVars, ldk, state, grace, scan, budget>>

(* Mutant: the first block to connect is left out. *)
WalkBackShort ==
    /\ pass.at = "walk"
    /\ LET lf == Fork(ldk, best) IN
       /\ ldk' = lf
       /\ pass' = [NoPass EXCEPT !.at = "connect", !.target = best,
                       !.ldkFork = Height(lf), !.walletFork = Height(lf),
                       !.next = 2 + Height(lf)]
    /\ UNCHANGED <<nodeVars, walletVars, state, grace, scan, budget>>

(* ... looks up where the best chain leaves theirs, and disconnects the    *)
(* LDK listeners down to there (the wallet ignores blocks_disconnected).   *)
WalkBack ==
    /\ pass.at = "walk"
    /\ LET lf == Fork(ldk, best)
           wf == IF mode = "unified" THEN Height(Fork(pass.wallet, best))
                                    ELSE Height(lf) IN
       /\ ldk' = lf
       /\ pass' = [NoPass EXCEPT !.at = "connect", !.target = best,
                       !.ldkFork = Height(lf), !.walletFork = wf,
                       !.next = 1 + (IF wf < Height(lf) THEN wf ELSE Height(lf))]
    /\ UNCHANGED <<nodeVars, walletVars, state, grace, scan, budget>>

(* The next block goes to every listener that has not got it. *)
ConnectBlock ==
    /\ pass.at = "connect"
    /\ pass.next <= Height(pass.target)
    /\ LET b == At(pass.target, pass.next) IN
       /\ ldk' = IF pass.next > pass.ldkFork THEN b ELSE ldk
       /\ \/ /\ mode # "unified" \/ pass.next <= pass.walletFork
             /\ pass' = [pass EXCEPT !.next = @ + 1]
             /\ UNCHANGED <<walletVars, budget>>
          \/ /\ mode = "unified" /\ pass.next > pass.walletFork
             /\ \/ ApplyOk(b, Front(b)) /\ pass' = [pass EXCEPT !.next = @ + 1]
                \/ /\ ApplyFails(b, Front(b))
                   /\ pass' = [pass EXCEPT !.next = @ + 1, !.failed = TRUE]
    /\ UNCHANGED <<nodeVars, state, grace, scan>>

(* An RPC fails, or the pass runs into its timeout: it is tried again. *)
AbortPass ==
    /\ pass.at \in {"walk", "connect"}
    /\ budget.aborts > 0
    /\ budget' = [budget EXCEPT !.aborts = @ - 1]
    /\ pass' = NoPass
    /\ UNCHANGED <<nodeVars, walletVars, ldk, state, grace, scan>>

(* Mutant: the wallet is taken to be part of every pass. *)
FinishPassAlways ==
    /\ pass.at = "connect"
    /\ pass.next > Height(pass.target)
    /\ pass' = [NoPass EXCEPT !.at = "synced"]
    /\ state' = IF pass.failed THEN MarkListenersSynced
                ELSE MarkRunning(MarkListenersSynced)
    /\ UNCHANGED <<nodeVars, walletVars, ldk, grace, scan, budget>>

(* mark_initial_sync_complete. *)
FinishPass ==
    /\ pass.at = "connect"
    /\ pass.next > Height(pass.target)
    /\ pass' = [NoPass EXCEPT !.at = "synced"]
    /\ state' = IF mode # "unified" \/ pass.failed THEN MarkListenersSynced
                ELSE MarkRunning(MarkListenersSynced)
    /\ UNCHANGED <<nodeVars, walletVars, ldk, grace, scan, budget>>

(* ChainListeners: monitor, manager and sweeper, moved as one. *)
Follow(b) == ldk' = b

(* From then on the SPV client follows the best tip for LDK. *)
PollBestTip ==
    /\ pass.at = "synced"
    /\ ldk # best
    /\ Follow(best)
    /\ UNCHANGED <<nodeVars, walletVars, state, grace, pass, scan, budget>>

-----------------------------------------------------------------------------
(* The wallet's own scan: innet_sync and sync, one at a time. *)

StartScan ==
    /\ scan.at = "idle"
    /\ ScanAllowed
    /\ scan' = [at |-> "emit", seen |-> chk, start |-> Height(Tip), queue |-> <<>>]
    /\ UNCHANGED <<nodeVars, walletVars, ldk, state, grace, pass, budget>>

(* bdk_bitcoind_rpc's Emitter (external), in a task of its own: the next   *)
(* block of the best chain after the highest checkpoint on it, but not     *)
(* below the height it was told to start at.                               *)
Agreed == Highest(scan.seen \cap Ancestors(best))

EmitBlock ==
    /\ scan.at = "emit"
    /\ Agreed # best
    /\ LET h == IF Height(Agreed) < scan.start THEN scan.start ELSE Height(Agreed) + 1
           b == At(best, h) IN
       scan' = [scan EXCEPT !.seen = (@ \cap Ancestors(b)) \cup {b},
                    !.queue = Append(@, [block |-> b, on |-> Agreed])]
    /\ UNCHANGED <<nodeVars, walletVars, ldk, state, grace, pass, budget>>

EmitterEnds ==
    /\ scan.at = "emit"
    /\ \/ /\ Agreed = best
          /\ scan' = [scan EXCEPT !.at = "ended"]
          /\ UNCHANGED budget
       \/ /\ budget.aborts > 0
          /\ budget' = [budget EXCEPT !.aborts = @ - 1]
          /\ scan' = [scan EXCEPT !.at = "failed"]
    /\ UNCHANGED <<nodeVars, walletVars, ldk, state, grace, pass>>

(* An emitted block is applied; an error ends the scan. *)
ApplyEmitted ==
    /\ scan.at # "idle"
    /\ scan.queue # <<>>
    /\ LET e == Head(scan.queue) IN
       \/ ApplyOk(e.block, e.on) /\ scan' = [scan EXCEPT !.queue = Tail(@)]
       \/ ApplyFails(e.block, e.on) /\ scan' = NoScan
    /\ UNCHANGED <<nodeVars, ldk, state, grace, pass>>

(* Mutant: only the pass announces Running. *)
FinishScanSilently ==
    /\ scan.at \in {"ended", "failed"}
    /\ scan.queue = <<>>
    /\ scan' = NoScan
    /\ UNCHANGED <<nodeVars, walletVars, ldk, state, grace, pass, budget>>

(* Everything is applied: the initial sync is over, if the listeners are   *)
(* synced too and the emitter did not fail.                                *)
FinishScan ==
    /\ scan.at \in {"ended", "failed"}
    /\ scan.queue = <<>>
    /\ state' = IF scan.at = "ended" THEN MarkRunning(state) ELSE state
    /\ scan' = NoScan
    /\ UNCHANGED <<nodeVars, walletVars, ldk, grace, pass, budget>>

-----------------------------------------------------------------------------
(* The chain (external): a longer chain wins. *)
ChainGrows ==
    /\ Height(best) < MaxHeight
    /\ \E b \in Blocks :
          /\ Height(b) = Height(best) + 1
          /\ Height(best) - Height(Fork(b, best)) <= MaxReorg
          /\ best' = b
          /\ lost' = lost \cup {At(b, h) : h \in Height(Fork(b, best)) + 1 .. Height(best) - 1}
    /\ UNCHANGED <<mode, restored, since, born, walletVars, ldk, state, grace,
                   pass, scan, budget>>

(* The process dies and starts again, maybe with another configuration,    *)
(* from the wallet's database and some earlier state of the LDK listeners. *)
Restart ==
    /\ budget.restarts > 0
    /\ budget' = [budget EXCEPT !.restarts = @ - 1]
    /\ mode' \in {"unified", "parallel", "legacy"}
    /\ chk' \in Listened(disk.chk)
    /\ scanned' = disk.scanned
    /\ disk' = [disk EXCEPT !.chk = chk']
    /\ ldk' \in Ancestors(ldk)
    /\ state' = "PendingInitialSync"
    /\ grace' = FALSE
    /\ pass' = NoPass
    /\ scan' = NoScan
    /\ since' = Height(best)
    /\ reached' = Reaches(chk', since')
    /\ lost' = IF chk' # disk.chk /\ Height(Highest(disk.chk)) = 0
               THEN lost \cup Ancestors(best) ELSE lost
    /\ UNCHANGED <<best, restored, born>>

-----------------------------------------------------------------------------
Pass == StartPass \/ WalkBack \/ ConnectBlock \/ FinishPass \/ PollBestTip
Scan == StartScan \/ EmitBlock \/ EmitterEnds \/ ApplyEmitted \/ FinishScan

Next == Pass \/ AbortPass \/ Scan \/ GraceElapses \/ ChainGrows \/ Restart

Spec == Init /\ [][Next]_vars

(* Time passes and the wallet's scheduler keeps running its job; nothing   *)
(* is assumed of the backend's pass, which may hang.                       *)
FairSpec == Spec /\ WF_vars(GraceElapses) /\ WF_vars(Scan)

-----------------------------------------------------------------------------
(* Whoever moves the wallet, the pass, the scan or a restart, it looks     *)
(* into every block of its chain since it was born, but for two accidents: *)
(* a scan does not look below the height it began at, where a reorg of     *)
(* several blocks may have put others, and a wallet still at genesis jumps *)
(* again when it is started again.                                         *)
OnlyLostSkipped ==
    \A b \in Ancestors(Tip) : Height(b) > born => b \in scanned \cup lost

(* Said of the fast-forward and of the reorgs the emitter handles: no      *)
(* block is missed.                                                        *)
NothingSkipped ==
    \A b \in Ancestors(Tip) : Height(b) > born => b \in scanned

(* The node does not say Running before the wallet has been where the      *)
(* chain was when the process started, and the LDK listeners are there.    *)
(* The wallet stays there too, but for a reorg of several blocks.          *)
RunningCaughtUp ==
    state = "Running" =>
        /\ reached /\ Height(ldk) >= since
        /\ lost = {} => Height(Tip) >= since

(* A hung or slow backend pass cannot gate the wallet: once the chain      *)
(* stops growing, the wallet gets to its tip.                              *)
WalletCatchesUp == <>[](Tip = best)

(* If the pass is not hung either, the initial sync ends.                  *)
InitialSyncCompletes == WF_vars(Pass) => <>[](state = "Running")

=============================================================================
