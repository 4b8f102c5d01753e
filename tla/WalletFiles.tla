---------------------------- MODULE WalletFiles ----------------------------
(***************************************************************************)
(* How a process of the daemon comes to its wallet: the files of the       *)
(* wallet, the commands that create, restore and open it, and crashes.     *)
(* Nothing locks the directory yet, so two processes may be at it.         *)
(*                                                                         *)
(* A wallet is told by its seed: the database holds the descriptors of     *)
(* one.                                                                    *)
(***************************************************************************)
CONSTANTS
    Processes,  \* processes started on the directory
    Generated,  \* seeds the node may generate
    Backup,     \* the seed an operator restores; it has a history
    Invalid,    \* operator input that is no mnemonic
    None,
    Empty,      \* a file that is there and has nothing in it
    RacedGoOn   \* bound: a directory where wallets raced is gone on with

Seeds == Generated \cup {Backup}

ASSUME SeedsAssumption ==
    /\ Backup \notin Generated
    /\ {Invalid, None, Empty} \cap Seeds = {}
    /\ Invalid # None /\ Invalid # Empty /\ None # Empty

ASSUME RacedGoOnAssumption == RacedGoOn \in BOOLEAN

VARIABLES
    words,       \* wallet.dat
    db,          \* bdk-wallet.db
    marker,      \* wallet-recovery is there
    halfMade,    \* the database was first opened to create a new wallet
    raced,       \* a wallet was stored over that of another process
    pc,          \* where each process is
    command,     \* how it came to its seed
    seed,        \* the seed it opens a wallet for
    recovering   \* restored_seed of its wallet

files == <<words, db, marker, halfMade, raced>>
walletVars == <<files, pc, command, seed, recovering>>

(* The last, "ready", is where the daemon goes on from its wallet. *)
WalletSteps == {"mark", "open", "load", "create", "store", "unmark", "truncate",
                "write", "ready"}

WalletTypeOK ==
    /\ words \in Seeds \cup {None, Empty}
    /\ db \in Seeds \cup {None, Empty}
    /\ marker \in BOOLEAN
    /\ halfMade \in BOOLEAN
    /\ raced \in BOOLEAN
    /\ command \in [Processes -> {"none", "new", "typed", "file"}]
    /\ seed \in [Processes -> Seeds \cup {Invalid, None}]
    /\ recovering \in [Processes -> BOOLEAN]
    /\ \A p \in Processes :
          /\ pc[p] = "off" <=> command[p] = "none"
          /\ pc[p] = "off" <=> seed[p] = None
          /\ seed[p] = Invalid => pc[p] \in {"mark", "open"}

WalletInit ==
    /\ words = None
    /\ db = None
    /\ marker = FALSE
    /\ halfMade = FALSE
    /\ raced = FALSE
    /\ pc = [p \in Processes |-> "off"]
    /\ command = [p \in Processes |-> "none"]
    /\ seed = [p \in Processes |-> None]
    /\ recovering = [p \in Processes |-> FALSE]

-----------------------------------------------------------------------------
Goto(p, step) == pc' = [pc EXCEPT ![p] = step]

(* The process is gone, with all it had in memory. *)
Gone(p) ==
    /\ Goto(p, "off")
    /\ command' = [command EXCEPT ![p] = "none"]
    /\ seed' = [seed EXCEPT ![p] = None]
    /\ recovering' = [recovering EXCEPT ![p] = FALSE]

GoneOnWith == ~raced \/ RacedGoOn

Start(p, c, s, step) ==
    /\ GoneOnWith
    /\ pc[p] = "off"
    /\ Goto(p, step)
    /\ command' = [command EXCEPT ![p] = c]
    /\ seed' = [seed EXCEPT ![p] = s]
    /\ UNCHANGED <<files, recovering>>

(* The new-wallet command, and `run` without wallet.dat: a seed nobody has *)
(* yet.  The command does not look for wallet.dat.                         *)
StartNew(p) ==
    \E s \in Generated :
       /\ s \notin {words, db} \cup {seed[q] : q \in Processes}
       /\ Start(p, "new", s, "open")

(* `run` with wallet.dat; one that is empty is an error. *)
StartFromFile(p) ==
    /\ words \in Seeds
    /\ Start(p, "file", words, "mark")

(* `run` to restore without wallet.dat: the operator types the words. *)
StartTyped(p) ==
    /\ words = None
    /\ \E s \in {Backup, Invalid} : Start(p, "typed", s, "mark")

(* is_recovering_history: there was a recovery here, or nothing. *)
IsRecoveringHistory == marker \/ db = None

(* Mutant: only the database tells a recovery. *)
MarkForgetful(p) ==
    /\ pc[p] = "mark"
    /\ IF db = None /\ seed[p] = Invalid
       THEN Gone(p) /\ UNCHANGED files
       ELSE /\ recovering' = [recovering EXCEPT ![p] = db = None]
            /\ marker' = IsRecoveringHistory
            /\ Goto(p, "open")
            /\ UNCHANGED <<words, db, halfMade, raced, command, seed>>

(* restore: the marker is written before the database is opened, and for   *)
(* valid words only.                                                       *)
Mark(p) ==
    /\ pc[p] = "mark"
    /\ IF IsRecoveringHistory /\ ~marker /\ seed[p] = Invalid
       THEN Gone(p) /\ UNCHANGED files
       ELSE /\ recovering' = [recovering EXCEPT ![p] = IsRecoveringHistory]
            /\ marker' = IsRecoveringHistory
            /\ Goto(p, "open")
            /\ UNCHANGED <<words, db, halfMade, raced, command, seed>>

(* build_wallet: the words are parsed, then the database is opened, which  *)
(* creates its file.                                                       *)
Open(p) ==
    /\ pc[p] = "open"
    /\ IF seed[p] = Invalid
       THEN Gone(p) /\ UNCHANGED files
       ELSE /\ db' = IF db = None THEN Empty ELSE db
            /\ halfMade' = (halfMade \/ (db = None /\ command[p] = "new"))
            /\ Goto(p, "load")
            /\ UNCHANGED <<words, marker, raced, command, seed, recovering>>

AfterLoad == [new |-> "unmark", typed |-> "truncate", file |-> "ready"]

(* Mutant: a database of other descriptors is gone on with. *)
LoadOther(p) ==
    /\ pc[p] = "load"
    /\ Goto(p, IF db = Empty THEN "create" ELSE AfterLoad[command[p]])
    /\ UNCHANGED <<files, command, seed, recovering>>

(* build_wallet: load_wallet finds nothing, the wallet, or another's.      *)
Load(p) ==
    /\ pc[p] = "load"
    /\ \/ /\ db \in {Empty, seed[p]}
          /\ Goto(p, IF db = Empty THEN "create" ELSE AfterLoad[command[p]])
          /\ UNCHANGED <<command, seed, recovering>>
       \/ db \notin {Empty, seed[p]} /\ Gone(p)
    /\ UNCHANGED files

(* create_wallet: BDK reads the database again, and refuses one that has a *)
(* wallet by now ...                                                       *)
Create(p) ==
    /\ pc[p] = "create"
    /\ IF db = Empty
       THEN Goto(p, "store") /\ UNCHANGED <<command, seed, recovering>>
       ELSE Gone(p)
    /\ UNCHANGED files

(* ... and stores the new one's descriptors in the place of any.           *)
Store(p) ==
    /\ pc[p] = "store"
    /\ db' = seed[p]
    /\ raced' = (raced \/ db \notin {Empty, seed[p]})
    /\ Goto(p, AfterLoad[command[p]])
    /\ UNCHANGED <<words, marker, halfMade, command, seed, recovering>>

(* new: a generated seed has no history to recover. *)
Unmark(p) ==
    /\ pc[p] = "unmark"
    /\ marker' = FALSE
    /\ Goto(p, "truncate")
    /\ UNCHANGED <<words, db, halfMade, raced, command, seed, recovering>>

(* write_words_to_file: open with truncate, then write. *)
Truncate(p) ==
    /\ pc[p] = "truncate"
    /\ words' = Empty
    /\ Goto(p, "write")
    /\ UNCHANGED <<db, marker, halfMade, raced, command, seed, recovering>>

(* A restore goes on, with the words of wallet.dat from now on;            *)
(* create_new_wallet shows the words, and `main` ends.                     *)
AfterWrite(p) ==
    IF command[p] = "new"
    THEN Gone(p)
    ELSE /\ Goto(p, "ready")
         /\ command' = [command EXCEPT ![p] = "file"]
         /\ UNCHANGED <<seed, recovering>>

Write(p) ==
    /\ pc[p] = "write"
    /\ words' = seed[p]
    /\ AfterWrite(p)
    /\ UNCHANGED <<db, marker, halfMade, raced>>

WalletStep(p) ==
    \/ StartNew(p) \/ StartFromFile(p) \/ StartTyped(p)
    \/ Mark(p) \/ Open(p) \/ Load(p) \/ Create(p) \/ Store(p)
    \/ Unmark(p) \/ Truncate(p) \/ Write(p)

-----------------------------------------------------------------------------
(* The process has its wallet, whatever it does with it. *)
HasWallet(p) == pc[p] \notin {"off"} \cup (WalletSteps \ {"ready"})

(* The words of wallet.dat are those of the database, and a process goes   *)
(* on with their wallet only, whatever crashed in between and whoever else *)
(* was at it: at worst a restore begun a second time has emptied the file. *)
(* The exception is the one that does happen, two processes that both find *)
(* no wallet and both store theirs: nothing locks the directory yet.       *)
WordsOpenWallet ==
    ~raced =>
        /\ words \in Seeds => db = words
        /\ \A p \in Processes : HasWallet(p) =>
              db = seed[p] /\ words \in {seed[p], Empty}

(* A wallet restored from an operator's words scans the chain's history,   *)
(* after crashes and restarts too, unless a new wallet was begun in the    *)
(* directory or raced with it: never does it jump to the tip past its      *)
(* funds.                                                                  *)
RecoveryKept ==
    \A p \in Processes :
        HasWallet(p) /\ seed[p] = Backup /\ ~halfMade /\ ~raced => recovering[p]

(* The same with no exception: "Keep durable provenance so a restart       *)
(* cannot lose recovery intent and fast-sync past historical funds."  Not  *)
(* so: a new wallet that crashes before it is stored leaves an empty       *)
(* database, which a restore takes for the database of a known wallet.     *)
RecoveryNeverLost ==
    \A p \in Processes :
        HasWallet(p) /\ seed[p] = Backup => recovering[p]
=============================================================================
