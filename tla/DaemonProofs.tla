---------------------------- MODULE DaemonProofs ----------------------------
(***************************************************************************)
(* Safety of Daemon for any number of processes, channels and seeds: the   *)
(* files of the wallet, the restored channels and the spendable outputs.   *)
(***************************************************************************)
EXTENDS Daemon, TLAPS

Steps == WalletSteps \cup DaemonSteps \cup {"off"}

(* Where a process goes on from its wallet. *)
WithWallet == {"ready"} \cup DaemonSteps

(* Where it has loaded the wallet of its seed. *)
LoadedSteps == {"unmark", "truncate", "write"} \cup WithWallet

(* Where the channels are restored, if there were any. *)
RestoredSteps == DaemonSteps \ {"restore", "watch"}

LEMMA StepFacts ==
    /\ LoadedSteps \subseteq Steps
    /\ "off" \notin LoadedSteps
    /\ LoadedSteps \cap {"mark", "open", "load", "create", "store"} = {}
    /\ WithWallet \subseteq LoadedSteps
    /\ WithWallet \cap {"unmark", "truncate", "write"} = {}
    /\ DaemonSteps \cap (WalletSteps \cup {"off"}) = {}
    /\ Serving \subseteq DaemonSteps
    /\ RestoredSteps \subseteq DaemonSteps
    /\ RestoredSteps \cap {"restore", "watch"} = {}
  BY DEF Steps, LoadedSteps, WithWallet, DaemonSteps, RestoredSteps, WalletSteps,
         Serving

(* A process that has loaded its wallet holds the one of the database, and *)
(* so does one whose words are in wallet.dat, as long as no wallet was     *)
(* stored over another's.                                                  *)
LoadInv ==
    /\ \A p \in Processes :
          /\ pc[p] = "unmark" => command[p] = "new"
          /\ pc[p] \in WithWallet => command[p] = "file"
          /\ command[p] = "new" => seed[p] \in Generated
          /\ command[p] = "file" => seed[p] \in Seeds
    /\ ~raced =>
          /\ words \in Seeds => db = words
          /\ \A p \in Processes :
                /\ pc[p] \in LoadedSteps => db = seed[p]
                /\ command[p] = "file" => db = seed[p] /\ words \in {seed[p], Empty}

(* Unless a new wallet was begun, a database that may become or is that of *)
(* the backup has its marker, and who restores the backup scans history,   *)
(* or finds the database to be another's.                                  *)
RecoveryInv ==
    ~halfMade /\ ~raced =>
        /\ db \in {Empty, Backup} => marker
        /\ \A p \in Processes :
              /\ pc[p] = "open" /\ db = None /\ command[p] # "new" => marker
              /\ seed[p] = Backup /\ pc[p] \notin {"off", "mark"} =>
                    recovering[p] \/ db \in Seeds \ {Backup}

WalletInv ==
    /\ WalletTypeOK
    /\ pc \in [Processes -> Steps]
    /\ LoadInv
    /\ RecoveryInv

(* Past the parsing of its words, a process has a seed. *)
LEMMA SeedKnown ==
    ASSUME WalletTypeOK, NEW p \in Processes, pc[p] \notin {"off", "mark", "open"}
    PROVE  seed[p] \in Seeds
  BY DEF WalletTypeOK

LEMMA InitWallet == Init => WalletInv
<1>1. SUFFICES ASSUME Init PROVE WalletInv
  OBVIOUS
<1>2. /\ words = None /\ db = None /\ marker = FALSE /\ halfMade = FALSE /\ raced = FALSE
      /\ pc = [p \in Processes |-> "off"] /\ command = [p \in Processes |-> "none"]
      /\ seed = [p \in Processes |-> None] /\ recovering = [p \in Processes |-> FALSE]
  BY <1>1 DEF Init, WalletInit
<1>3. WalletTypeOK
  BY <1>2, SeedsAssumption DEF WalletTypeOK
<1>4. "off" \in Steps /\ "off" \notin WithWallet
  BY StepFacts DEF Steps
<1>5. LoadInv
  BY <1>2, <1>4, StepFacts, SeedsAssumption DEF LoadInv
<1>6. RecoveryInv
  BY <1>2, SeedsAssumption DEF RecoveryInv, Seeds
<1> QED
  BY <1>2, <1>3, <1>4, <1>5, <1>6 DEF WalletInv

(* Nothing of the wallet's files changes as a process ends ... *)
LEMMA WalletGone ==
    ASSUME WalletInv, NEW p \in Processes, Gone(p), UNCHANGED files
    PROVE  WalletInv'
<1>1. /\ pc' = [pc EXCEPT ![p] = "off"]
      /\ command' = [command EXCEPT ![p] = "none"]
      /\ seed' = [seed EXCEPT ![p] = None]
      /\ recovering' = [recovering EXCEPT ![p] = FALSE]
      /\ UNCHANGED <<words, db, marker, halfMade, raced>>
  BY DEF Gone, Goto, files
<1>2. /\ pc' \in [Processes -> Steps] /\ pc \in [Processes -> Steps]
      /\ command \in [Processes -> {"none", "new", "typed", "file"}]
      /\ seed \in [Processes -> Seeds \cup {Invalid, None}]
      /\ recovering \in [Processes -> BOOLEAN]
  BY <1>1 DEF WalletInv, WalletTypeOK, Steps
<1>3. /\ pc'[p] = "off" /\ command'[p] = "none" /\ seed'[p] = None
      /\ \A q \in Processes \ {p} :
            UNCHANGED <<pc[q], command[q], seed[q], recovering[q]>>
  BY <1>1, <1>2
<1>4. WalletTypeOK'
  BY <1>1, <1>2, <1>3, SeedsAssumption DEF WalletInv, WalletTypeOK
<1>5. LoadInv'
  BY <1>1, <1>3, StepFacts DEF WalletInv, LoadInv
<1>6. RecoveryInv'
  BY <1>1, <1>3 DEF WalletInv, RecoveryInv
<1> QED
  BY <1>2, <1>4, <1>5, <1>6 DEF WalletInv

(* ... or goes on from its wallet. *)
LEMMA WalletMove ==
    ASSUME WalletInv, NEW p \in Processes,
           NEW from \in WithWallet, NEW to \in WithWallet,
           Move(p, from, to)
    PROVE  WalletInv'
<1>1. /\ pc[p] = from /\ pc' = [pc EXCEPT ![p] = to]
      /\ UNCHANGED <<words, db, marker, halfMade, raced, command, seed, recovering>>
  BY DEF Move, Goto, files
<1>2. /\ pc' \in [Processes -> Steps] /\ pc \in [Processes -> Steps]
      /\ pc'[p] = to
      /\ \A q \in Processes \ {p} : pc'[q] = pc[q]
  BY <1>1, StepFacts DEF WalletInv
<1>3. WalletTypeOK'
  BY <1>1, <1>2, StepFacts, SeedKnown DEF WalletInv, WalletTypeOK
<1>4. LoadInv'
  BY <1>1, <1>2, StepFacts DEF WalletInv, LoadInv
<1>5. RecoveryInv'
  BY <1>1, <1>2, StepFacts DEF WalletInv, RecoveryInv
<1> QED
  BY <1>2, <1>3, <1>4, <1>5 DEF WalletInv

LEMMA WalletSame == WalletInv /\ UNCHANGED walletVars => WalletInv'
  BY DEF walletVars, files, WalletInv, WalletTypeOK, LoadInv, RecoveryInv

-----------------------------------------------------------------------------
LEMMA WalletSteppedOn ==
    ASSUME WalletInv, NEW p \in Processes, WalletStep(p)
    PROVE  WalletInv'
<1> USE SeedsAssumption
<1>0. /\ pc \in [Processes -> Steps]
      /\ command \in [Processes -> {"none", "new", "typed", "file"}]
      /\ seed \in [Processes -> Seeds \cup {Invalid, None}]
      /\ recovering \in [Processes -> BOOLEAN]
      /\ WalletSteps \subseteq Steps
      /\ {"mark", "open", "load", "create", "store", "unmark", "truncate", "write",
          "ready"} = WalletSteps
      /\ Generated \subseteq Seeds /\ Backup \in Seeds
  BY DEF WalletInv, WalletTypeOK, Steps, WalletSteps, Seeds
(* What a start changes: the process alone. *)
<1>1. ASSUME NEW c \in {"new", "typed", "file"}, NEW s \in Seeds \cup {Invalid},
             NEW step \in {"mark", "open"}, Start(p, c, s, step),
             c = "new" => s \in Generated /\ step = "open",
             c # "new" => step = "mark",
             c = "file" => s \in Seeds /\ words = s
      PROVE  WalletInv'
  <2>1. /\ pc[p] = "off"
        /\ pc' = [pc EXCEPT ![p] = step]
        /\ command' = [command EXCEPT ![p] = c]
        /\ seed' = [seed EXCEPT ![p] = s]
        /\ UNCHANGED <<words, db, marker, halfMade, raced, recovering>>
    BY <1>1 DEF Start, Goto, files
  <2>2. /\ pc' \in [Processes -> Steps]
        /\ pc'[p] = step /\ command'[p] = c /\ seed'[p] = s
        /\ \A q \in Processes \ {p} :
              UNCHANGED <<pc[q], command[q], seed[q], recovering[q]>>
    BY <1>0, <2>1
  <2>3. step \notin LoadedSteps \cup {"off", "load"}
    BY StepFacts
  <2>4. s = Invalid => c = "typed"
    BY <1>1, <1>0 DEF Seeds
  <2>5. WalletTypeOK'
    BY <1>0, <2>1, <2>2, <2>3, <2>4 DEF WalletInv, WalletTypeOK
  <2>6. LoadInv'
    BY <1>1, <2>1, <2>2, <2>3, StepFacts DEF WalletInv, LoadInv
  <2>7. RecoveryInv'
    BY <1>0, <1>1, <2>1, <2>2 DEF WalletInv, RecoveryInv, Seeds
  <2> QED
    BY <2>2, <2>5, <2>6, <2>7 DEF WalletInv
<1>2. CASE StartNew(p)
  <2>1. PICK s \in Generated : Start(p, "new", s, "open")
    BY <1>2 DEF StartNew
  <2> QED
    BY <1>0, <1>1, <2>1
<1>3. CASE StartFromFile(p)
  <2>1. words \in Seeds /\ Start(p, "file", words, "mark")
    BY <1>3 DEF StartFromFile
  <2> QED
    BY <1>1, <2>1
<1>4. CASE StartTyped(p)
  <2>1. PICK s \in {Backup, Invalid} : Start(p, "typed", s, "mark")
    BY <1>4 DEF StartTyped
  <2> QED
    BY <1>0, <1>1, <2>1
<1>5. CASE Mark(p)
  <2>1. CASE IsRecoveringHistory /\ ~marker /\ seed[p] = Invalid
    BY <1>5, <2>1, WalletGone DEF Mark
  <2>2. CASE ~(IsRecoveringHistory /\ ~marker /\ seed[p] = Invalid)
    <3>1. /\ pc[p] = "mark"
          /\ recovering' = [recovering EXCEPT ![p] = (marker \/ db = None)]
          /\ marker' = (marker \/ db = None)
          /\ pc' = [pc EXCEPT ![p] = "open"]
          /\ UNCHANGED <<words, db, halfMade, raced, command, seed>>
      BY <1>5, <2>2 DEF Mark, Goto, IsRecoveringHistory
    <3>2. /\ pc' \in [Processes -> Steps] /\ recovering' \in [Processes -> BOOLEAN]
          /\ pc'[p] = "open" /\ recovering'[p] = (marker \/ db = None)
          /\ \A q \in Processes \ {p} : UNCHANGED <<pc[q], recovering[q]>>
      BY <1>0, <3>1 DEF WalletInv, WalletTypeOK
    <3>3. WalletTypeOK'
      BY <3>1, <3>2 DEF WalletInv, WalletTypeOK
    <3>4. LoadInv'
      BY <3>1, <3>2, StepFacts DEF WalletInv, LoadInv
    <3>5. RecoveryInv'
      BY <3>1, <3>2 DEF WalletInv, WalletTypeOK, RecoveryInv
    <3> QED
      BY <3>2, <3>3, <3>4, <3>5 DEF WalletInv
  <2> QED
    BY <2>1, <2>2
<1>6. CASE Open(p)
  <2>1. CASE seed[p] = Invalid
    BY <1>6, <2>1, WalletGone DEF Open
  <2>2. CASE seed[p] # Invalid
    <3>1. /\ pc[p] = "open"
          /\ db' = IF db = None THEN Empty ELSE db
          /\ halfMade' = (halfMade \/ (db = None /\ command[p] = "new"))
          /\ pc' = [pc EXCEPT ![p] = "load"]
          /\ UNCHANGED <<words, marker, raced, command, seed, recovering>>
      BY <1>6, <2>2 DEF Open, Goto
    <3>2. /\ pc' \in [Processes -> Steps]
          /\ pc'[p] = "load"
          /\ \A q \in Processes \ {p} : pc'[q] = pc[q]
      BY <1>0, <3>1
    <3>3. seed[p] \in Seeds
      BY <2>2, <3>1 DEF WalletInv, WalletTypeOK
    <3>4. WalletTypeOK'
      BY <3>1, <3>2, <3>3 DEF WalletInv, WalletTypeOK
    <3>5. /\ \A s \in Seeds : db = s => db' = s
          /\ \A q \in Processes : pc[q] \in LoadedSteps => seed[q] \in Seeds
      BY <3>1, SeedKnown, StepFacts DEF WalletInv
    <3>6. LoadInv'
      BY <3>1, <3>2, <3>3, <3>5, StepFacts DEF WalletInv, LoadInv
    <3>7. RecoveryInv'
      BY <1>0, <3>1, <3>2 DEF WalletInv, WalletTypeOK, RecoveryInv
    <3> QED
      BY <3>2, <3>4, <3>6, <3>7 DEF WalletInv
  <2> QED
    BY <2>1, <2>2
(* Where a process goes once its wallet is loaded. *)
<1>7. ASSUME pc[p] \in {"load", "store"}
      PROVE  /\ seed[p] \in Seeds
             /\ AfterLoad[command[p]] \in {"unmark", "truncate", "ready"}
             /\ AfterLoad[command[p]] = "unmark" => command[p] = "new"
             /\ AfterLoad[command[p]] = "ready" => command[p] = "file"
  <2>1. command[p] \in {"new", "typed", "file"}
    BY <1>0, <1>7 DEF WalletInv, WalletTypeOK
  <2> QED
    BY <1>7, <2>1, SeedKnown DEF AfterLoad, WalletInv
<1>8. CASE Load(p)
  <2>1. CASE db \notin {Empty, seed[p]}
    BY <1>8, <2>1, WalletGone DEF Load
  <2>2. CASE db \in {Empty, seed[p]}
    <3>1. PICK to : /\ to = IF db = Empty THEN "create" ELSE AfterLoad[command[p]]
                    /\ pc[p] = "load"
                    /\ pc' = [pc EXCEPT ![p] = to]
                    /\ UNCHANGED <<files, command, seed, recovering>>
      BY <1>8, <2>2 DEF Load, Goto
    <3>2. /\ to \in {"create", "unmark", "truncate", "ready"}
          /\ to # "create" => db = seed[p]
          /\ to = "unmark" => command[p] = "new"
          /\ to = "ready" => command[p] = "file"
      BY <1>7, <2>2, <3>1
    <3>3. /\ pc' \in [Processes -> Steps]
          /\ pc'[p] = to
          /\ \A q \in Processes \ {p} : pc'[q] = pc[q]
      BY <1>0, <3>1, <3>2
    <3>4. WalletTypeOK'
      BY <1>7, <3>1, <3>2, <3>3, SeedsAssumption DEF files, WalletInv, WalletTypeOK
    <3>5. LoadInv'
      BY <3>1, <3>2, <3>3, StepFacts DEF files, WalletInv, LoadInv
    <3>6. RecoveryInv'
      BY <3>1, <3>2, <3>3 DEF files, WalletInv, RecoveryInv
    <3> QED
      BY <3>3, <3>4, <3>5, <3>6 DEF WalletInv
  <2> QED
    BY <2>1, <2>2
<1>9. CASE Create(p)
  <2>1. CASE db # Empty
    BY <1>9, <2>1, WalletGone DEF Create
  <2>2. CASE db = Empty
    <3>1. /\ pc[p] = "create"
          /\ pc' = [pc EXCEPT ![p] = "store"]
          /\ UNCHANGED <<files, command, seed, recovering>>
      BY <1>9, <2>2 DEF Create, Goto
    <3>2. /\ pc' \in [Processes -> Steps]
          /\ pc'[p] = "store"
          /\ \A q \in Processes \ {p} : pc'[q] = pc[q]
      BY <1>0, <3>1
    <3>3. WalletTypeOK'
      BY <3>1, <3>2 DEF files, WalletInv, WalletTypeOK
    <3>4. LoadInv'
      BY <3>1, <3>2, StepFacts DEF files, WalletInv, LoadInv
    <3>5. RecoveryInv'
      BY <3>1, <3>2 DEF files, WalletInv, RecoveryInv
    <3> QED
      BY <3>2, <3>3, <3>4, <3>5 DEF WalletInv
  <2> QED
    BY <2>1, <2>2
(* A wallet is stored where there was none, or is told to have raced. *)
<1>10. CASE Store(p)
  <2>1. PICK to : /\ to = AfterLoad[command[p]]
                  /\ pc[p] = "store"
                  /\ pc' = [pc EXCEPT ![p] = to]
                  /\ db' = seed[p]
                  /\ raced' = (raced \/ db \notin {Empty, seed[p]})
                  /\ UNCHANGED <<words, marker, halfMade, command, seed, recovering>>
    BY <1>10 DEF Store, Goto
  <2>2. /\ seed[p] \in Seeds
        /\ to \in {"unmark", "truncate", "ready"}
        /\ to = "unmark" => command[p] = "new"
        /\ to = "ready" => command[p] = "file"
    BY <1>7, <2>1
  <2>3. /\ pc' \in [Processes -> Steps]
        /\ pc'[p] = to
        /\ \A q \in Processes \ {p} : pc'[q] = pc[q]
    BY <1>0, <2>1, <2>2
  <2>4. ~raced' => ~raced /\ db \in {Empty, seed[p]}
    BY <2>1
  <2>5. ~raced' => \A s \in Seeds : db = s => db' = s
    BY <2>1, <2>4
  <2>6. WalletTypeOK'
    BY <2>1, <2>2, <2>3 DEF WalletInv, WalletTypeOK
  <2>7. LoadInv'
    <3>1. \A q \in Processes :
             /\ pc'[q] = "unmark" => command[q] = "new"
             /\ pc'[q] \in WithWallet => command[q] = "file"
      BY <2>2, <2>3, StepFacts DEF WalletInv, LoadInv
    <3>2. ASSUME ~raced', NEW q \in Processes, pc'[q] \in LoadedSteps
          PROVE  db' = seed[q]
      <4>1. CASE q = p
        BY <2>1, <4>1
      <4>2. CASE q # p
        <5>1. db = seed[q]
          BY <2>3, <2>4, <3>2, <4>2 DEF WalletInv, LoadInv
        <5>2. seed[q] \in Seeds
          BY <2>3, <3>2, <4>2, StepFacts, SeedKnown DEF WalletInv
        <5> QED
          BY <2>5, <3>2, <5>1, <5>2
      <4> QED
        BY <4>1, <4>2
    <3>3. ~raced' /\ words \in Seeds => db' = words
      BY <2>4, <2>5 DEF WalletInv, LoadInv
    <3>4. ASSUME ~raced', NEW q \in Processes, command[q] = "file"
          PROVE  db' = seed[q] /\ words \in {seed[q], Empty}
      BY <2>4, <2>5, <3>4 DEF WalletInv, LoadInv
    <3>5. \A q \in Processes :
             /\ command[q] = "new" => seed[q] \in Generated
             /\ command[q] = "file" => seed[q] \in Seeds
      BY DEF WalletInv, LoadInv
    <3> QED
      BY <2>1, <3>1, <3>2, <3>3, <3>4, <3>5 DEF LoadInv
  <2>8. RecoveryInv'
    <3>1. SUFFICES ASSUME ~halfMade, ~raced' PROVE
              /\ db' \in {Empty, Backup} => marker
              /\ \A q \in Processes :
                    /\ pc'[q] = "open" /\ db' = None /\ command[q] # "new" => marker
                    /\ seed[q] = Backup /\ pc'[q] \notin {"off", "mark"} =>
                          recovering[q] \/ db' \in Seeds \ {Backup}
      BY <2>1 DEF RecoveryInv
    <3>2. db' \in {Empty, Backup} => marker
      BY <2>1, <2>2, <2>4, <3>1 DEF WalletInv, RecoveryInv
    <3>3. db' # None
      BY <2>1, <2>2
    <3>4. \A q \in Processes : seed[q] = Backup /\ pc'[q] \notin {"off", "mark"} =>
              recovering[q] \/ db' \in Seeds \ {Backup}
      BY <2>1, <2>2, <2>3, <2>4, <3>1 DEF WalletInv, RecoveryInv
    <3> QED
      BY <3>2, <3>3, <3>4
  <2> QED
    BY <2>3, <2>6, <2>7, <2>8 DEF WalletInv
<1>11. CASE Unmark(p)
  <2>1. /\ pc[p] = "unmark" /\ marker' = FALSE
        /\ pc' = [pc EXCEPT ![p] = "truncate"]
        /\ UNCHANGED <<words, db, halfMade, raced, command, seed, recovering>>
    BY <1>11 DEF Unmark, Goto
  <2>2. /\ pc' \in [Processes -> Steps]
        /\ pc'[p] = "truncate"
        /\ \A q \in Processes \ {p} : pc'[q] = pc[q]
    BY <1>0, <2>1
  <2>3. ~raced => db \in Generated
    BY <2>1 DEF WalletInv, LoadInv, LoadedSteps
  <2>4. WalletTypeOK'
    BY <2>1, <2>2, SeedKnown, SeedsAssumption DEF WalletInv, WalletTypeOK
  <2>5. LoadInv'
    BY <2>1, <2>2, StepFacts DEF WalletInv, LoadInv, LoadedSteps
  <2>6. RecoveryInv'
    BY <1>0, <2>1, <2>2, <2>3 DEF WalletInv, RecoveryInv
  <2> QED
    BY <2>2, <2>4, <2>5, <2>6 DEF WalletInv
<1>12. CASE Truncate(p)
  <2>1. /\ pc[p] = "truncate" /\ words' = Empty
        /\ pc' = [pc EXCEPT ![p] = "write"]
        /\ UNCHANGED <<db, marker, halfMade, raced, command, seed, recovering>>
    BY <1>12 DEF Truncate, Goto
  <2>2. /\ pc' \in [Processes -> Steps]
        /\ pc'[p] = "write"
        /\ \A q \in Processes \ {p} : pc'[q] = pc[q]
    BY <1>0, <2>1
  <2>3. WalletTypeOK'
    BY <2>1, <2>2, SeedKnown, SeedsAssumption DEF WalletInv, WalletTypeOK
  <2>4. LoadInv'
    BY <2>1, <2>2, StepFacts DEF WalletInv, LoadInv, LoadedSteps
  <2>5. RecoveryInv'
    BY <2>1, <2>2 DEF WalletInv, RecoveryInv
  <2> QED
    BY <2>2, <2>3, <2>4, <2>5 DEF WalletInv
<1>13. CASE Write(p)
  <2>1. /\ pc[p] = "write" /\ words' = seed[p] /\ AfterWrite(p)
        /\ UNCHANGED <<db, marker, halfMade, raced>>
    BY <1>13 DEF Write
  <2>2. seed[p] \in Seeds /\ (~raced => db = seed[p])
    BY <2>1, SeedKnown DEF WalletInv, LoadInv, LoadedSteps
  <2>3. /\ pc' \in [Processes -> Steps]
        /\ command' \in [Processes -> {"none", "new", "typed", "file"}]
        /\ seed' \in [Processes -> Seeds \cup {Invalid, None}]
        /\ recovering' \in [Processes -> BOOLEAN]
        /\ \/ pc'[p] = "off" /\ command'[p] = "none" /\ seed'[p] = None
           \/ /\ pc'[p] = "ready" /\ command'[p] = "file"
              /\ UNCHANGED <<seed[p], recovering[p]>>
        /\ \A q \in Processes \ {p} :
              UNCHANGED <<pc[q], command[q], seed[q], recovering[q]>>
    <3>1. CASE command[p] = "new"
      <4>1. /\ pc' = [pc EXCEPT ![p] = "off"]
            /\ command' = [command EXCEPT ![p] = "none"]
            /\ seed' = [seed EXCEPT ![p] = None]
            /\ recovering' = [recovering EXCEPT ![p] = FALSE]
        BY <2>1, <3>1 DEF AfterWrite, Gone, Goto
      <4> QED
        BY <1>0, <4>1, StepFacts DEF Steps
    <3>2. CASE command[p] # "new"
      <4>1. /\ pc' = [pc EXCEPT ![p] = "ready"]
            /\ command' = [command EXCEPT ![p] = "file"]
            /\ UNCHANGED <<seed, recovering>>
        BY <2>1, <3>2 DEF AfterWrite, Goto
      <4> QED
        BY <1>0, <4>1
    <3> QED
      BY <3>1, <3>2
  <2>4. WalletTypeOK'
    BY <2>1, <2>2, <2>3 DEF WalletInv, WalletTypeOK
  <2>5. LoadInv'
    BY <2>1, <2>2, <2>3, StepFacts DEF WalletInv, LoadInv
  <2>6. RecoveryInv'
    BY <2>1, <2>3 DEF WalletInv, RecoveryInv
  <2> QED
    BY <2>3, <2>4, <2>5, <2>6 DEF WalletInv
<1> QED
  BY <1>2, <1>3, <1>4, <1>5, <1>6, <1>8, <1>9, <1>10, <1>11, <1>12, <1>13
     DEF WalletStep

-----------------------------------------------------------------------------
(* Every step of a process leaves the wallet as one of the above does. *)
LEMMA WalletStays ==
    ASSUME WalletInv, NEW p \in Processes,
           Boot(p) \/ Run(p) \/ Crash(p)
    PROVE  WalletInv'
<1>1. CASE Fail(p)
  BY <1>1, WalletGone DEF Fail, Exit
<1>2. CASE Finish(p)
  BY <1>2, WalletGone DEF Finish, Exit
<1>3. {"ready", "restore", "watch", "sweeper", "managers", "lock", "serve", "register",
       "listen", "run"} \subseteq WithWallet
  BY DEF WithWallet, DaemonSteps, Serving
<1>4. ASSUME \/ Move(p, "ready", "sweeper") \/ Move(p, "ready", "restore")
             \/ Move(p, "restore", "watch") \/ Move(p, "watch", "sweeper") \/ Move(p, "sweeper", "managers")
             \/ Move(p, "managers", "lock") \/ Move(p, "lock", "serve")
             \/ Move(p, "serve", "register") \/ Move(p, "register", "listen")
             \/ Move(p, "listen", "run")
      PROVE  WalletInv'
  BY <1>3, <1>4, WalletMove
<1>5. CASE Boot(p)
  BY <1>1, <1>4, <1>5
     DEF Boot, StartFresh, ReadMonitors, ReadManager, WatchChannels, InitSweeper,
         InitManagers, PidLock, RunHttpd, AddExternalHandler, Listen
<1>6. CASE Run(p)
  BY <1>2, <1>6, WalletSame
     DEF Run, StoreManager, AcceptEnds, Shutdown, OpenChannel, Spendable,
         StoreMonitor, SkipMine, Tracked, Track, TrackFails
<1>7. CASE Crash(p)
  BY <1>1, <1>7 DEF Crash
<1> QED
  BY <1>5, <1>6, <1>7

(* The variables of a process. *)
local(p) ==
    <<pc[p], chans[p], read[p], watched[p], refused[p], queue[p], sweeper[p]>>

Swept == IF swept = None THEN {} ELSE swept

Past(p) == pc[p] \in DaemonSteps

MemoryType ==
    /\ manager \in {None} \cup SUBSET Channels
    /\ monitors \subseteq Channels
    /\ due \subseteq monitors
    /\ swept \in {None} \cup SUBSET Channels
    /\ owed \subseteq Channels
    /\ mine \subseteq owed
    /\ shared \in BOOLEAN
    /\ pc \in [Processes -> Steps]
    /\ chans \in [Processes -> SUBSET Channels]
    /\ read \in [Processes -> [held : SUBSET Channels, due : SUBSET Channels]]
    /\ watched \in [Processes -> SUBSET Channels]
    /\ refused \in [Processes -> SUBSET Channels]
    /\ queue \in [Processes -> SUBSET Channels]
    /\ sweeper \in [Processes -> SUBSET Channels]

(* A process restores its channels from a manager whose monitors it has    *)
(* read, and then watches every channel it adds before it knows it.        *)
ChannelInv(p) ==
    /\ watched[p] \subseteq monitors
    /\ read[p].held \subseteq monitors
    /\ read[p].due \subseteq read[p].held
    /\ pc[p] \in WalletSteps \cup {"off"} =>
          chans[p] = {} /\ watched[p] = {} /\ queue[p] = {} /\ sweeper[p] = {}
    /\ pc[p] = "watch" => chans[p] \subseteq read[p].held
    /\ pc[p] \in RestoredSteps => chans[p] \subseteq watched[p] \cup refused[p]

(* While one process at a time is at the state, it has all of the stored   *)
(* sweeper, and an output whose event it has not to handle is in there, or *)
(* the wallet's.                                                           *)
OutputInv(p) ==
    /\ pc[p] \in {"restore", "watch"} => read[p].held = monitors /\ read[p].due = due
    /\ pc[p] \in RestoredSteps \ {"sweeper"} => Swept \subseteq sweeper[p]
    /\ pc[p] \in RestoredSteps =>
          (due \cap watched[p]) \ queue[p] \subseteq Swept \cup mine

AloneInv ==
    ~shared =>
        /\ \A p, q \in Processes : Past(p) /\ Past(q) => p = q
        /\ \A p \in Processes : Past(p) => OutputInv(p)
        /\ owed \ mine \subseteq due \cup Swept

DaemonInv ==
    /\ MemoryType
    /\ \A p \in Processes : ChannelInv(p)
    /\ AloneInv

LEMMA InitDaemon == Init => DaemonInv
<1>1. SUFFICES ASSUME Init PROVE DaemonInv
  OBVIOUS
<1>2. /\ \A p \in Processes : pc[p] = "off"
      /\ "off" \in Steps /\ "off" \notin DaemonSteps /\ "off" \notin RestoredSteps
      /\ "off" # "watch"
  BY <1>1, StepFacts DEF Init, WalletInit, Steps, RestoredSteps
<1>3. MemoryType
  BY <1>1, <1>2 DEF Init, WalletInit, MemoryType, NothingRead
<1>4. \A p \in Processes : ChannelInv(p)
  BY <1>1, <1>2 DEF Init, ChannelInv, NothingRead
<1>5. AloneInv
  BY <1>1, <1>2 DEF Init, AloneInv, Past, Swept
<1> QED
  BY <1>1, <1>3, <1>4, <1>5 DEF DaemonInv, Init

(* A step of one process: the others keep their channels as long as no     *)
(* monitor goes away, and have no say in the outputs.                      *)
LEMMA OneProcess ==
    ASSUME DaemonInv, NEW p \in Processes,
           MemoryType',
           \A q \in Processes \ {p} : UNCHANGED local(q),
           monitors \subseteq monitors',
           ChannelInv(p)',
           shared => shared',
           Past(p)' /\ ~Past(p) => shared' = (shared \/ Meets(p)),
           ~shared' => (Past(p)' => OutputInv(p)') /\ (owed \ mine \subseteq due \cup Swept)'
               /\ ((~Past(p)') => UNCHANGED <<due, monitors, swept, mine>>)
    PROVE  DaemonInv'
<1>1. ASSUME NEW q \in Processes \ {p} PROVE ChannelInv(q)'
  BY <1>1 DEF DaemonInv, ChannelInv, local
<1>2. \A q \in Processes : ChannelInv(q)'
  BY <1>1
<1>3. AloneInv'
  <2>1. SUFFICES ASSUME ~shared'
                 PROVE  /\ \A q, r \in Processes : Past(q)' /\ Past(r)' => q = r
                        /\ \A q \in Processes : Past(q)' => OutputInv(q)'
                        /\ (owed \ mine \subseteq due \cup Swept)'
    BY DEF AloneInv
  <2>2. /\ \A q, r \in Processes : Past(q) /\ Past(r) => q = r
        /\ \A q \in Processes : Past(q) => OutputInv(q)
    BY <2>1 DEF DaemonInv, AloneInv
  <2>3. \A q \in Processes \ {p} : Past(q)' = Past(q)
    BY DEF Past, local
  <2>4. Past(p)' => \A q \in Processes \ {p} : ~Past(q)
    BY <2>1, <2>2 DEF Meets, Past
  <2>5. \A q, r \in Processes : Past(q)' /\ Past(r)' => q = r
    BY <2>2, <2>3, <2>4
  <2>6. ASSUME NEW q \in Processes, Past(q)' PROVE OutputInv(q)'
    <3>1. CASE q = p
      BY <2>1, <2>6, <3>1
    <3>2. CASE q # p
      <4>1. ~Past(p)' /\ UNCHANGED <<due, monitors, swept, mine>> /\ UNCHANGED local(q)
        BY <2>1, <2>3, <2>4, <2>6, <3>2
      <4>2. OutputInv(q)
        BY <2>2, <2>3, <2>6, <3>2
      <4> QED
        BY <4>1, <4>2 DEF OutputInv, local, Swept
    <3> QED
      BY <3>1, <3>2
  <2> QED
    BY <2>1, <2>5, <2>6
<1> QED
  BY <1>2, <1>3 DEF DaemonInv

LEMMA WalletStepPc ==
    ASSUME WalletInv, NEW p \in Processes, WalletStep(p)
    PROVE  /\ pc[p] \in WalletSteps \cup {"off"}
           /\ pc'[p] \in WalletSteps \cup {"off"}
           /\ pc' \in [Processes -> Steps]
           /\ \A q \in Processes \ {p} : pc'[q] = pc[q]
<1>1. /\ {"mark", "open", "load", "create", "store", "unmark", "truncate", "write",
          "ready"} = WalletSteps
      /\ pc \in [Processes -> Steps]
  BY DEF WalletSteps, WalletInv
<1>2. ASSUME NEW to \in WalletSteps \cup {"off"}, Goto(p, to)
      PROVE  /\ pc'[p] \in WalletSteps \cup {"off"}
             /\ pc' \in [Processes -> Steps]
             /\ \A q \in Processes \ {p} : pc'[q] = pc[q]
  BY <1>1, <1>2 DEF Goto, Steps
<1>3. pc[p] \in WalletSteps \cup {"off"}
  BY <1>1 DEF WalletStep, StartNew, StartFromFile, StartTyped, Start, Mark, Open,
         Load, Create, Store, Unmark, Truncate, Write
<1>4. \E to \in WalletSteps \cup {"off"} : Goto(p, to)
  <2>1. CASE Load(p) \/ Store(p)
    <3>1. command[p] \in {"new", "typed", "file"}
      BY <1>1, <2>1, SeedsAssumption DEF Load, Store, WalletInv, WalletTypeOK
    <3>2. AfterLoad[command[p]] \in WalletSteps /\ "create" \in WalletSteps
      BY <1>1, <3>1 DEF AfterLoad
    <3> QED
      BY <2>1, <3>2 DEF Load, Store, Gone
  <2>2. CASE StartNew(p) \/ StartFromFile(p) \/ StartTyped(p)
    BY <1>1, <2>2 DEF StartNew, StartFromFile, StartTyped, Start
  <2>3. CASE Mark(p)
    BY <1>1, <2>3 DEF Mark, Gone
  <2>4. CASE Open(p) \/ Create(p)
    BY <1>1, <2>4 DEF Open, Create, Gone
  <2>5. CASE Unmark(p) \/ Truncate(p)
    BY <1>1, <2>5 DEF Unmark, Truncate
  <2>6. CASE Write(p)
    BY <1>1, <2>6 DEF Write, AfterWrite, Gone
  <2> QED
    BY <2>1, <2>2, <2>3, <2>4, <2>5, <2>6 DEF WalletStep
<1> QED
  BY <1>2, <1>3, <1>4

-----------------------------------------------------------------------------
(* The steps of the daemon, on its memory and on LDK's state. *)

LEMMA WalletOnly ==
    ASSUME WalletInv, DaemonInv, NEW p \in Processes, Wallet(p)
    PROVE  DaemonInv'
<1>1. /\ pc[p] \in WalletSteps \cup {"off"} /\ pc'[p] \in WalletSteps \cup {"off"}
      /\ pc' \in [Processes -> Steps]
      /\ \A q \in Processes \ {p} : pc'[q] = pc[q]
  BY WalletStepPc DEF Wallet
<1>2. UNCHANGED <<ldkDisk, shared, memory>>
  BY DEF Wallet
<1>3. MemoryType' /\ ~Past(p)'
  BY <1>1, <1>2, StepFacts DEF DaemonInv, MemoryType, ldkDisk, memory, Past
<1>4. ChannelInv(p)'
  <2>1. "watch" \in DaemonSteps /\ RestoredSteps \subseteq DaemonSteps
    BY DEF DaemonSteps, RestoredSteps
  <2> QED
    BY <1>1, <1>2, <2>1, StepFacts DEF DaemonInv, ChannelInv, ldkDisk, memory
<1>5. \A q \in Processes \ {p} : UNCHANGED local(q)
  BY <1>1, <1>2 DEF local, memory
<1>6. ~shared => owed \ mine \subseteq due \cup Swept
  BY DEF DaemonInv, AloneInv
<1> QED
  BY <1>2, <1>3, <1>4, <1>5, <1>6, OneProcess DEF DaemonInv, ldkDisk, Swept

(* A process that ends, having stored its manager or not. *)
LEMMA Ends ==
    ASSUME DaemonInv, NEW p \in Processes, Exit(p),
           UNCHANGED <<monitors, due, swept, owed, mine, shared>>,
           manager' \in {manager, chans[p]}
    PROVE  DaemonInv'
<1>1. /\ pc' = [pc EXCEPT ![p] = "off"]
      /\ chans' = [chans EXCEPT ![p] = {}]
      /\ read' = [read EXCEPT ![p] = NothingRead]
      /\ watched' = [watched EXCEPT ![p] = {}]
      /\ refused' = [refused EXCEPT ![p] = {}]
      /\ queue' = [queue EXCEPT ![p] = {}]
      /\ sweeper' = [sweeper EXCEPT ![p] = {}]
  BY DEF Exit, Gone, Goto
<1>2. MemoryType
  BY DEF DaemonInv
<1>3. manager' \in {None} \cup SUBSET Channels
  BY <1>2 DEF MemoryType
<1>4. /\ "off" \in Steps /\ "off" \notin DaemonSteps /\ "off" \notin RestoredSteps
      /\ "off" # "watch"
      /\ NothingRead \in [held : SUBSET Channels, due : SUBSET Channels]
  BY StepFacts DEF Steps, RestoredSteps, NothingRead
<1>5. MemoryType' /\ ~Past(p)'
  BY <1>1, <1>2, <1>3, <1>4 DEF MemoryType, Past
<1>6. ChannelInv(p)'
  BY <1>1, <1>2, <1>4 DEF ChannelInv, NothingRead, MemoryType
<1>7. \A q \in Processes \ {p} : UNCHANGED local(q)
  BY <1>1, <1>2 DEF local, MemoryType
<1>8. ~shared => owed \ mine \subseteq due \cup Swept
  BY DEF DaemonInv, AloneInv
<1> QED
  BY <1>5, <1>6, <1>7, <1>8, OneProcess DEF Swept

LEMMA Fails ==
    ASSUME DaemonInv, NEW p \in Processes, Fail(p)
    PROVE  DaemonInv'
  BY Ends DEF Fail, ldkDisk

LEMMA MoveFacts ==
    ASSUME MemoryType, NEW p \in Processes, NEW from, NEW to \in Steps,
           Move(p, from, to)
    PROVE  /\ pc[p] = from /\ pc'[p] = to
           /\ pc' \in [Processes -> Steps]
           /\ \A q \in Processes \ {p} : pc'[q] = pc[q]
  BY DEF Move, Goto, MemoryType

LEMMA BootSteps ==
    /\ {"ready", "restore", "watch", "sweeper", "managers", "lock", "serve",
        "register", "listen", "run"} \subseteq Steps
    /\ {"restore", "watch", "sweeper", "managers", "lock", "serve", "register",
        "listen", "run"} = DaemonSteps
    /\ {"sweeper", "managers", "lock", "serve", "register", "listen", "run"}
          = RestoredSteps
    /\ Serving = {"serve", "register", "listen", "run"}
    /\ "ready" \in WalletSteps
  BY DEF Steps, DaemonSteps, RestoredSteps, Serving, WalletSteps

(* Nobody is at the state with this process, which has nothing yet. *)
LEMMA BeginsFresh ==
    ASSUME DaemonInv, NEW p \in Processes, Move(p, "ready", "sweeper"),
           shared' = (shared \/ Meets(p)), UNCHANGED <<ldkDisk, memory>>
    PROVE  DaemonInv'
<1>1. MemoryType /\ ChannelInv(p)
  BY DEF DaemonInv
<1>2. /\ pc[p] = "ready" /\ pc'[p] = "sweeper"
      /\ pc' \in [Processes -> Steps]
      /\ \A q \in Processes \ {p} : pc'[q] = pc[q]
  BY <1>1, BootSteps, MoveFacts
<1>3. MemoryType'
  BY <1>1, <1>2 DEF MemoryType, ldkDisk, memory
<1>4. chans[p] = {} /\ watched[p] = {} /\ queue[p] = {} /\ sweeper[p] = {}
  BY <1>1, <1>2, BootSteps DEF ChannelInv
<1>5. ChannelInv(p)'
  BY <1>1, <1>2, <1>4 DEF ChannelInv, ldkDisk, memory
<1>6. OutputInv(p)'
  BY <1>2, <1>4 DEF OutputInv, memory, RestoredSteps
<1>7. \A q \in Processes \ {p} : UNCHANGED local(q)
  BY <1>2 DEF local, memory
<1>8. ~shared => owed \ mine \subseteq due \cup Swept
  BY DEF DaemonInv, AloneInv
<1> QED
  BY <1>1, <1>2, <1>3, <1>5, <1>6, <1>7, <1>8, OneProcess
     DEF DaemonInv, ldkDisk, Swept

LEMMA BeginsRestoring ==
    ASSUME DaemonInv, NEW p \in Processes, ReadMonitors(p)
    PROVE  DaemonInv'
<1>1. MemoryType /\ ChannelInv(p)
  BY DEF DaemonInv
<1>2. /\ pc[p] = "ready" /\ pc'[p] = "restore"
      /\ pc' \in [Processes -> Steps]
      /\ \A q \in Processes \ {p} : pc'[q] = pc[q]
  BY <1>1, BootSteps, MoveFacts DEF ReadMonitors
<1>3. /\ shared' = (shared \/ Meets(p))
      /\ read' = [read EXCEPT ![p] = [held |-> monitors, due |-> due]]
      /\ UNCHANGED <<manager, monitors, due, swept, owed, mine>>
      /\ UNCHANGED <<chans, watched, refused, queue, sweeper>>
  BY DEF ReadMonitors, ldkDisk
<1>4. /\ [held |-> monitors, due |-> due] \in [held : SUBSET Channels, due : SUBSET Channels]
      /\ due \subseteq monitors
  BY <1>1 DEF MemoryType
<1>5. /\ read' \in [Processes -> [held : SUBSET Channels, due : SUBSET Channels]]
      /\ read'[p] = [held |-> monitors, due |-> due]
      /\ \A q \in Processes \ {p} : read'[q] = read[q]
  BY <1>1, <1>3, <1>4 DEF MemoryType
<1>6. MemoryType'
  <2>1. shared' \in BOOLEAN
    BY <1>1, <1>3 DEF MemoryType, Meets
  <2> QED
    BY <1>1, <1>2, <1>3, <1>5, <2>1 DEF MemoryType
<1>7. ChannelInv(p)'
  BY <1>1, <1>2, <1>3, <1>4, <1>5, BootSteps, StepFacts DEF ChannelInv
<1>8. OutputInv(p)'
  BY <1>2, <1>3, <1>5 DEF OutputInv, RestoredSteps
<1>9. \A q \in Processes \ {p} : UNCHANGED local(q)
  BY <1>2, <1>3, <1>5 DEF local
<1>10. ~shared => owed \ mine \subseteq due \cup Swept
  BY DEF DaemonInv, AloneInv
<1> QED
  BY <1>2, <1>3, <1>6, <1>7, <1>8, <1>9, <1>10, OneProcess DEF Swept

(* The manager's channels are those of monitors that were read, or the     *)
(* start fails.                                                            *)
LEMMA ManagerRead ==
    ASSUME DaemonInv, NEW p \in Processes, ReadManager(p)
    PROVE  DaemonInv'
<1>1. CASE ~(manager \subseteq read[p].held)
  BY <1>1, Fails DEF ReadManager
<1>2. CASE manager \subseteq read[p].held
  <2>1. MemoryType /\ ChannelInv(p)
    BY DEF DaemonInv
  <2>2. /\ pc[p] = "restore" /\ pc'[p] = "watch"
        /\ pc' \in [Processes -> Steps]
        /\ \A q \in Processes \ {p} : pc'[q] = pc[q]
    BY <1>2, <2>1, BootSteps, MoveFacts DEF ReadManager
  <2>3. /\ chans' = [chans EXCEPT ![p] = manager]
        /\ UNCHANGED <<manager, monitors, due, swept, owed, mine, shared>>
        /\ UNCHANGED <<read, watched, refused, queue, sweeper>>
    BY <1>2 DEF ReadManager, ldkDisk
  <2>4. manager \in SUBSET Channels
    BY <1>2, <2>1 DEF MemoryType
  <2>5. /\ chans' \in [Processes -> SUBSET Channels] /\ chans'[p] = manager
        /\ \A q \in Processes \ {p} : chans'[q] = chans[q]
    BY <2>1, <2>3, <2>4 DEF MemoryType
  <2>6. MemoryType'
    BY <2>1, <2>2, <2>3, <2>5 DEF MemoryType
  <2>7. ChannelInv(p)'
    BY <1>2, <2>1, <2>2, <2>3, <2>5, BootSteps, StepFacts DEF ChannelInv, RestoredSteps
  <2>8. ~shared => OutputInv(p)' /\ owed \ mine \subseteq due \cup Swept
    BY <2>2, <2>3, BootSteps DEF DaemonInv, AloneInv, Past, OutputInv, RestoredSteps
  <2>9. \A q \in Processes \ {p} : UNCHANGED local(q)
    BY <2>2, <2>3, <2>5 DEF local
  <2>10. Past(p) /\ Past(p)'
    BY <2>2, BootSteps DEF Past
  <2> QED
    BY <2>3, <2>6, <2>7, <2>8, <2>9, <2>10, OneProcess DEF Swept
<1> QED
  BY <1>1, <1>2

(* The monitors that were read are stored as they were read, those that    *)
(* are taken.  Alone, they are those of the disk.                          *)
LEMMA Watches ==
    ASSUME DaemonInv, NEW p \in Processes, WatchChannels(p)
    PROVE  DaemonInv'
<1>1. MemoryType /\ ChannelInv(p)
  BY DEF DaemonInv
<1>2. /\ pc[p] = "watch" /\ pc'[p] = "sweeper"
      /\ pc' \in [Processes -> Steps]
      /\ \A q \in Processes \ {p} : pc'[q] = pc[q]
  BY <1>1, BootSteps, MoveFacts DEF WatchChannels
<1>3. PICK err \in SUBSET read[p].held, taken \in SUBSET read[p].held :
      /\ taken = read[p].held \ err
      /\ refused' = [refused EXCEPT ![p] = err]
      /\ watched' = [watched EXCEPT ![p] = taken]
      /\ due' = (due \ taken) \cup (read[p].due \cap taken)
      /\ queue' = [queue EXCEPT ![p] = read[p].due \cap taken]
      /\ read' = [read EXCEPT ![p] = NothingRead]
      /\ UNCHANGED <<manager, monitors, swept, owed, mine, shared, chans, sweeper>>
  BY DEF WatchChannels
<1>4. /\ read[p].held \subseteq monitors /\ read[p].due \subseteq read[p].held
      /\ read[p].held \subseteq Channels /\ read[p].due \subseteq Channels
  BY <1>1 DEF ChannelInv, MemoryType
<1>5. /\ watched'[p] = taken /\ queue'[p] = read[p].due \cap taken
      /\ refused'[p] = err
      /\ read'[p] = NothingRead
      /\ \A q \in Processes \ {p} :
            UNCHANGED <<watched[q], refused[q], queue[q], read[q]>>
      /\ refused' \in [Processes -> SUBSET Channels]
      /\ watched' \in [Processes -> SUBSET Channels]
      /\ queue' \in [Processes -> SUBSET Channels]
      /\ read' \in [Processes -> [held : SUBSET Channels, due : SUBSET Channels]]
  <2>1. NothingRead \in [held : SUBSET Channels, due : SUBSET Channels]
    BY DEF NothingRead
  <2> QED
    BY <1>1, <1>3, <1>4, <2>1 DEF MemoryType
<1>6. due' \subseteq monitors
  BY <1>1, <1>3, <1>4 DEF MemoryType
<1>7. MemoryType'
  BY <1>1, <1>2, <1>3, <1>5, <1>6 DEF MemoryType
<1>8. ChannelInv(p)'
  BY <1>1, <1>2, <1>3, <1>4, <1>5, StepFacts, BootSteps DEF ChannelInv, NothingRead
<1>9. ~shared => due' = due /\ OutputInv(p)' /\ owed \ mine \subseteq due \cup Swept
  <2>1. SUFFICES ASSUME ~shared
                 PROVE  due' = due /\ OutputInv(p)' /\ owed \ mine \subseteq due \cup Swept
    OBVIOUS
  <2>2. /\ read[p].held = monitors /\ read[p].due = due
        /\ owed \ mine \subseteq due \cup Swept
    BY <1>2, <2>1, BootSteps DEF DaemonInv, AloneInv, Past, OutputInv
  <2>3. due' = due
    BY <1>1, <1>3, <2>2 DEF MemoryType
  <2>4. OutputInv(p)'
    BY <1>2, <1>5, <2>2, <2>3 DEF OutputInv
  <2> QED
    BY <2>2, <2>3, <2>4
<1>10. \A q \in Processes \ {p} : UNCHANGED local(q)
  BY <1>2, <1>3, <1>5 DEF local
<1>11. Past(p) /\ Past(p)'
  BY <1>2, BootSteps DEF Past
<1> QED
  BY <1>3, <1>7, <1>8, <1>9, <1>10, <1>11, OneProcess DEF DaemonInv, Swept

(* The sweeper's state on disk is read while nobody else may store it. *)
LEMMA SweeperRead ==
    ASSUME DaemonInv, NEW p \in Processes, Move(p, "sweeper", "managers"),
           sweeper' = [sweeper EXCEPT ![p] = IF swept = None THEN {} ELSE swept],
           UNCHANGED <<ldkDisk, shared, chans, read, watched, refused, queue>>
    PROVE  DaemonInv'
<1>1. MemoryType /\ ChannelInv(p)
  BY DEF DaemonInv
<1>2. /\ pc[p] = "sweeper" /\ pc'[p] = "managers"
      /\ pc' \in [Processes -> Steps]
      /\ \A q \in Processes \ {p} : pc'[q] = pc[q]
  BY <1>1, BootSteps, MoveFacts
<1>3. /\ Swept \subseteq Channels /\ sweeper'[p] = Swept
      /\ \A q \in Processes \ {p} : sweeper'[q] = sweeper[q]
      /\ sweeper' \in [Processes -> SUBSET Channels]
  BY <1>1 DEF MemoryType, Swept
<1>4. MemoryType'
  BY <1>1, <1>2, <1>3 DEF MemoryType, ldkDisk
<1>5. ChannelInv(p)'
  BY <1>1, <1>2, <1>3, StepFacts, BootSteps DEF ChannelInv, ldkDisk
<1>6. ~shared => OutputInv(p)' /\ owed \ mine \subseteq due \cup Swept
  <2>1. SUFFICES ASSUME ~shared
                 PROVE  OutputInv(p)' /\ owed \ mine \subseteq due \cup Swept
    OBVIOUS
  <2>2. OutputInv(p) /\ owed \ mine \subseteq due \cup Swept
    BY <1>2, <2>1, BootSteps DEF DaemonInv, AloneInv, Past
  <2> QED
    BY <1>2, <1>3, <2>2, BootSteps DEF OutputInv, ldkDisk, Swept
<1>7. \A q \in Processes \ {p} : UNCHANGED local(q)
  BY <1>2, <1>3 DEF local
<1>8. Past(p) /\ Past(p)'
  BY <1>2, BootSteps DEF Past
<1> QED
  BY <1>4, <1>5, <1>6, <1>7, <1>8, OneProcess DEF DaemonInv, Swept, ldkDisk

(* The rest of the start touches nothing of the state. *)
LEMMA GoesOn ==
    ASSUME DaemonInv, NEW p \in Processes,
           NEW from \in RestoredSteps \ {"sweeper"},
           NEW to \in RestoredSteps \ {"sweeper"}, Move(p, from, to),
           UNCHANGED <<ldkDisk, shared, chans, read, watched, refused, queue, sweeper>>
    PROVE  DaemonInv'
<1>1. MemoryType /\ ChannelInv(p)
  BY DEF DaemonInv
<1>2. /\ pc[p] = from /\ pc'[p] = to
      /\ pc' \in [Processes -> Steps]
      /\ \A q \in Processes \ {p} : pc'[q] = pc[q]
  BY <1>1, BootSteps, MoveFacts DEF Steps
<1>3. MemoryType'
  BY <1>1, <1>2 DEF MemoryType, ldkDisk
<1>4. ChannelInv(p)'
  BY <1>1, <1>2, StepFacts DEF ChannelInv, ldkDisk
<1>5. ~shared => OutputInv(p)' /\ owed \ mine \subseteq due \cup Swept
  <2>1. SUFFICES ASSUME ~shared
                 PROVE  OutputInv(p)' /\ owed \ mine \subseteq due \cup Swept
    OBVIOUS
  <2>2. OutputInv(p) /\ owed \ mine \subseteq due \cup Swept
    BY <1>2, <2>1, StepFacts DEF DaemonInv, AloneInv, Past
  <2> QED
    BY <1>2, <2>2, StepFacts DEF OutputInv, ldkDisk, Swept
<1>6. \A q \in Processes \ {p} : UNCHANGED local(q)
  BY <1>2 DEF local
<1>7. Past(p) /\ Past(p)'
  BY <1>2, StepFacts DEF Past
<1> QED
  BY <1>3, <1>4, <1>5, <1>6, <1>7, OneProcess DEF DaemonInv, Swept, ldkDisk

LEMMA Boots ==
    ASSUME DaemonInv, NEW p \in Processes, Boot(p)
    PROVE  DaemonInv'
<1>1. CASE Fail(p)
  BY <1>1, Fails
<1>2. {"managers", "lock", "serve", "register", "listen", "run"}
          \subseteq RestoredSteps \ {"sweeper"}
  BY BootSteps
<1>3. CASE StartFresh(p)
  BY <1>1, <1>3, BeginsFresh DEF StartFresh
<1>4. CASE ReadMonitors(p) \/ ReadManager(p)
  BY <1>4, BeginsRestoring, ManagerRead
<1>5. CASE WatchChannels(p)
  BY <1>5, Watches
<1>6. CASE InitSweeper(p)
  BY <1>1, <1>6, SweeperRead DEF InitSweeper
<1>7. CASE InitManagers(p) \/ PidLock(p) \/ RunHttpd(p) \/ AddExternalHandler(p)
           \/ Listen(p)
  BY <1>1, <1>2, <1>7, GoesOn
     DEF InitManagers, PidLock, RunHttpd, AddExternalHandler, Listen, memory
<1> QED
  BY <1>3, <1>4, <1>5, <1>6, <1>7 DEF Boot

-----------------------------------------------------------------------------
(* A step of the event loop that keeps its process where it is. *)
LEMMA Works ==
    ASSUME DaemonInv, NEW p \in Processes, Running(p), UNCHANGED <<pc, shared>>,
           MemoryType',
           \A q \in Processes \ {p} : UNCHANGED local(q),
           monitors \subseteq monitors',
           watched'[p] \subseteq monitors',
           chans'[p] \subseteq watched'[p] \cup refused'[p],
           UNCHANGED read,
           ~shared /\ OutputInv(p) /\ owed \ mine \subseteq due \cup Swept =>
               /\ Swept' \subseteq sweeper'[p]
               /\ ((due \cap watched[p]) \ queue[p])' \subseteq Swept' \cup mine'
               /\ (owed \ mine)' \subseteq due' \cup Swept'
    PROVE  DaemonInv'
<1>1. MemoryType /\ ChannelInv(p) /\ pc[p] = "run" /\ pc'[p] = "run"
  BY DEF DaemonInv, Running
<1>2. "run" \in RestoredSteps \ {"sweeper"} /\ "run" \notin WalletSteps \cup {"off"}
  BY BootSteps, StepFacts
<1>3. ChannelInv(p)'
  BY <1>1, <1>2, StepFacts DEF ChannelInv
<1>4. Past(p) /\ Past(p)'
  BY <1>1, <1>2, StepFacts DEF Past
<1>5. ~shared => OutputInv(p)' /\ (owed \ mine \subseteq due \cup Swept)'
  <2>1. SUFFICES ASSUME ~shared
                 PROVE  OutputInv(p)' /\ (owed \ mine \subseteq due \cup Swept)'
    OBVIOUS
  <2>2. OutputInv(p) /\ owed \ mine \subseteq due \cup Swept
    BY <1>4, <2>1 DEF DaemonInv, AloneInv
  <2> QED
    BY <1>1, <1>2, <2>1, <2>2 DEF OutputInv
<1> QED
  BY <1>3, <1>4, <1>5, OneProcess

(* Where the event loop runs. *)
LEMMA RunFacts ==
    ASSUME DaemonInv, NEW p \in Processes, Running(p)
    PROVE  /\ MemoryType
           /\ chans[p] \subseteq watched[p] \cup refused[p]
           /\ watched[p] \subseteq monitors
           /\ OutputInv(p) =>
                 /\ Swept \subseteq sweeper[p]
                 /\ (due \cap watched[p]) \ queue[p] \subseteq Swept \cup mine
<1>1. "run" \in RestoredSteps \ {"sweeper"}
  BY BootSteps
<1> QED
  BY <1>1 DEF Running, DaemonInv, ChannelInv, OutputInv

LEMMA Opens ==
    ASSUME DaemonInv, NEW p \in Processes, NEW ch \in Channels, OpenChannel(p, ch)
    PROVE  DaemonInv'
<1>1. Running(p) /\ MemoryType
  BY RunFacts DEF OpenChannel
<1>2. /\ monitors' = monitors \cup {ch} /\ ch \notin monitors
      /\ watched' = [watched EXCEPT ![p] = @ \cup {ch}]
      /\ chans' = [chans EXCEPT ![p] = @ \cup {ch}]
      /\ UNCHANGED <<pc, manager, due, swept, owed, mine, shared, read, refused,
                     queue, sweeper>>
  BY DEF OpenChannel, walletVars
<1>3. /\ watched'[p] = watched[p] \cup {ch} /\ chans'[p] = chans[p] \cup {ch}
      /\ \A q \in Processes \ {p} : UNCHANGED <<watched[q], chans[q]>>
      /\ watched' \in [Processes -> SUBSET Channels]
      /\ chans' \in [Processes -> SUBSET Channels]
  BY <1>1, <1>2 DEF MemoryType
<1>4. MemoryType'
  BY <1>1, <1>2, <1>3 DEF MemoryType
<1>5. \A q \in Processes \ {p} : UNCHANGED local(q)
  BY <1>2, <1>3 DEF local
<1>6. (due \cap watched[p])' \subseteq due \cap watched[p]
  BY <1>1, <1>2, <1>3 DEF MemoryType
<1> QED
  BY <1>1, <1>2, <1>3, <1>4, <1>5, <1>6, RunFacts, Works DEF Swept

LEMMA StoresManager ==
    ASSUME DaemonInv, NEW p \in Processes, StoreManager(p)
    PROVE  DaemonInv'
<1>1. Running(p) /\ MemoryType
  BY RunFacts DEF StoreManager
<1>2. /\ manager' = chans[p]
      /\ UNCHANGED <<pc, monitors, due, swept, owed, mine, shared,
                     chans, read, watched, refused, queue, sweeper>>
  BY DEF StoreManager, walletVars, memory
<1>3. MemoryType'
  BY <1>1, <1>2 DEF MemoryType
<1>4. \A q \in Processes \ {p} : UNCHANGED local(q)
  BY <1>2 DEF local
<1> QED
  BY <1>1, <1>2, <1>3, <1>4, RunFacts, Works DEF Swept

LEMMA Owes ==
    ASSUME DaemonInv, NEW p \in Processes, NEW ch \in Channels, Spendable(p, ch)
    PROVE  DaemonInv'
<1>1. Running(p) /\ MemoryType
  BY RunFacts DEF Spendable
<1>2. /\ ch \in watched[p] \ owed
      /\ owed' = owed \cup {ch} /\ mine' \in {mine, mine \cup {ch}}
      /\ due' = due \cup {ch}
      /\ queue' = [queue EXCEPT ![p] = @ \cup {ch}]
      /\ chans' = [chans EXCEPT ![p] = @ \ {ch}]
      /\ UNCHANGED <<pc, manager, monitors, swept, shared, read, watched,
                     refused, sweeper>>
  BY DEF Spendable, walletVars
<1>3. /\ queue'[p] = queue[p] \cup {ch} /\ chans'[p] = chans[p] \ {ch}
      /\ \A q \in Processes \ {p} : UNCHANGED <<queue[q], chans[q]>>
      /\ queue' \in [Processes -> SUBSET Channels]
      /\ chans' \in [Processes -> SUBSET Channels]
  BY <1>1, <1>2 DEF MemoryType
<1>4. due' \subseteq monitors
  BY <1>1, <1>2, RunFacts DEF MemoryType
<1>5. owed' \subseteq Channels /\ mine' \subseteq owed' /\ mine \subseteq mine'
  BY <1>1, <1>2 DEF MemoryType
<1>6. MemoryType'
  BY <1>1, <1>2, <1>3, <1>4, <1>5 DEF MemoryType
<1>7. \A q \in Processes \ {p} : UNCHANGED local(q)
  BY <1>2, <1>3 DEF local
<1>8. ((due \cap watched[p]) \ queue[p])' \subseteq (due \cap watched[p]) \ queue[p]
  BY <1>2, <1>3
<1>9. (owed \ mine)' \subseteq (owed \ mine) \cup {ch}
  BY <1>2
<1> QED
  BY <1>1, <1>2, <1>3, <1>5, <1>6, <1>7, <1>8, <1>9, RunFacts, Works DEF Swept

LEMMA StoresMonitor ==
    ASSUME DaemonInv, NEW p \in Processes, NEW ch \in Channels, StoreMonitor(p, ch)
    PROVE  DaemonInv'
<1>1. Running(p) /\ MemoryType
  BY RunFacts DEF StoreMonitor
<1>2. /\ ch \in (due \cap watched[p]) \ queue[p]
      /\ due' = due \ {ch}
      /\ UNCHANGED <<pc, manager, monitors, swept, owed, mine, shared,
                     chans, read, watched, refused, queue, sweeper>>
  BY DEF StoreMonitor, walletVars, memory
<1>3. MemoryType'
  BY <1>1, <1>2 DEF MemoryType
<1>4. \A q \in Processes \ {p} : UNCHANGED local(q)
  BY <1>2 DEF local
<1> QED
  BY <1>1, <1>2, <1>3, <1>4, RunFacts, Works DEF Swept

LEMMA Skips ==
    ASSUME DaemonInv, NEW p \in Processes, NEW ch \in Channels, SkipMine(p, ch)
    PROVE  DaemonInv'
<1>1. Running(p) /\ MemoryType
  BY RunFacts DEF SkipMine
<1>2. /\ ch \in queue[p] \cap mine
      /\ queue' = [queue EXCEPT ![p] = @ \ {ch}]
      /\ UNCHANGED <<pc, manager, monitors, due, swept, owed, mine, shared,
                     chans, read, watched, refused, sweeper>>
  BY DEF SkipMine, walletVars, ldkDisk
<1>3. /\ queue'[p] = queue[p] \ {ch}
      /\ \A q \in Processes \ {p} : UNCHANGED queue[q]
      /\ queue' \in [Processes -> SUBSET Channels]
  BY <1>1, <1>2 DEF MemoryType
<1>4. MemoryType'
  BY <1>1, <1>2, <1>3 DEF MemoryType
<1>5. \A q \in Processes \ {p} : UNCHANGED local(q)
  BY <1>2, <1>3 DEF local
<1> QED
  BY <1>1, <1>2, <1>3, <1>4, <1>5, RunFacts, Works DEF Swept

(* An event is done once the sweeper's state is stored with its output. *)
LEMMA Tracks ==
    ASSUME DaemonInv, NEW p \in Processes, NEW ch \in Channels,
           Track(p, ch) \/ TrackFails(p, ch)
    PROVE  DaemonInv'
<1>1. Running(p) /\ MemoryType
  BY RunFacts DEF Track, TrackFails, Tracked
<1>2. /\ ch \in queue[p] \ mine
      /\ sweeper' = [sweeper EXCEPT ![p] = @ \cup {ch}]
      /\ UNCHANGED <<pc, manager, monitors, due, owed, mine, shared,
                     chans, read, watched, refused>>
      /\ \/ /\ swept' = sweeper[p] \cup {ch}
            /\ queue' = [queue EXCEPT ![p] = @ \ {ch}]
         \/ UNCHANGED <<swept, queue>>
  BY DEF Track, TrackFails, Tracked, walletVars
<1>3. /\ sweeper'[p] = sweeper[p] \cup {ch}
      /\ \A q \in Processes \ {p} : UNCHANGED <<queue[q], sweeper[q]>>
      /\ queue' \in [Processes -> SUBSET Channels]
      /\ sweeper' \in [Processes -> SUBSET Channels]
      /\ swept' \in {None} \cup SUBSET Channels
      /\ \/ swept' = sweeper'[p] /\ queue'[p] = queue[p] \ {ch} /\ Swept' = sweeper'[p]
         \/ queue'[p] = queue[p] /\ Swept' = Swept
  <2>1. sweeper[p] \cup {ch} \in SUBSET Channels
    BY <1>1 DEF MemoryType
  <2>2. sweeper[p] \cup {ch} # None
    BY <2>1, ChannelsAssumption
  <2> QED
    BY <1>1, <1>2, <2>1, <2>2 DEF MemoryType, Swept
<1>4. MemoryType'
  BY <1>1, <1>2, <1>3 DEF MemoryType
<1>5. \A q \in Processes \ {p} : UNCHANGED local(q)
  BY <1>2, <1>3 DEF local
<1> QED
  BY <1>1, <1>2, <1>3, <1>4, <1>5, RunFacts, Works

LEMMA DaemonSame == DaemonInv /\ UNCHANGED vars => DaemonInv'
<1>1. SUFFICES ASSUME DaemonInv, UNCHANGED vars PROVE DaemonInv'
  OBVIOUS
<1>2. UNCHANGED <<pc, manager, monitors, due, swept, owed, mine, shared,
                  chans, read, watched, refused, queue, sweeper>>
  BY <1>1 DEF vars, walletVars, ldkDisk, memory
<1> QED
  BY <1>1, <1>2 DEF DaemonInv, MemoryType, ChannelInv, AloneInv, Past, OutputInv, Swept

LEMMA Runs ==
    ASSUME DaemonInv, NEW p \in Processes, Run(p)
    PROVE  DaemonInv'
<1>1. CASE AcceptEnds(p) \/ Shutdown(p)
  <2>1. UNCHANGED <<pc, manager, monitors, due, swept, owed, mine, shared,
                    chans, read, watched, refused, queue, sweeper>>
    BY <1>1 DEF AcceptEnds, Shutdown, walletVars, ldkDisk
  <2> QED
    BY <2>1 DEF DaemonInv, MemoryType, ChannelInv, AloneInv, Past, OutputInv, Swept
<1>2. CASE Finish(p)
  BY <1>2, Ends DEF Finish, Running
<1> QED
  BY <1>1, <1>2, StoresManager, Opens, Owes, StoresMonitor, Skips, Tracks DEF Run

-----------------------------------------------------------------------------
(* The flags of a process: only one that serves is told to stop, and only  *)
(* the event loop's process accepts peers.                                 *)
FlagInv ==
    /\ accepts \in [Processes -> BOOLEAN]
    /\ shutdown \in [Processes -> BOOLEAN]
    /\ \A p \in Processes :
          /\ shutdown[p] => pc[p] \in Serving
          /\ accepts[p] => pc[p] = "run"

LEMMA FlagsKept ==
    ASSUME WalletInv, DaemonInv, FlagInv, NEW p \in Processes,
           Wallet(p) \/ Boot(p) \/ Run(p) \/ Crash(p)
    PROVE  FlagInv'
<1>1. MemoryType /\ "run" \in Serving
  BY BootSteps DEF DaemonInv
<1>2. ASSUME Exit(p) PROVE FlagInv'
  <2>1. /\ pc' = [pc EXCEPT ![p] = "off"]
        /\ accepts' = [accepts EXCEPT ![p] = FALSE]
        /\ shutdown' = [shutdown EXCEPT ![p] = FALSE]
    BY <1>2 DEF Exit, Gone, Goto
  <2> QED
    BY <1>1, <2>1 DEF FlagInv, MemoryType
<1>3. ASSUME NEW from \in Steps, NEW to \in Steps, Move(p, from, to),
             from # "run", from \in Serving => to \in Serving,
             UNCHANGED <<accepts, shutdown>>
      PROVE  FlagInv'
  BY <1>1, <1>3, MoveFacts DEF FlagInv
<1>4. CASE Wallet(p)
  <2>1. /\ pc[p] \notin Serving
        /\ \A q \in Processes \ {p} : pc'[q] = pc[q]
    BY <1>4, WalletStepPc, StepFacts DEF Wallet
  <2>2. UNCHANGED <<accepts, shutdown>>
    BY <1>4 DEF Wallet, memory
  <2> QED
    BY <1>1, <2>1, <2>2 DEF FlagInv
<1>5. CASE Boot(p)
  <2>1. CASE Fail(p)
    BY <1>2, <2>1 DEF Fail
  <2>2. CASE Listen(p)
    <3>1. CASE Move(p, "listen", "run") /\ RunWithShutdown(p) /\ UNCHANGED shutdown
      <4>1. pc[p] = "listen" /\ pc'[p] = "run" /\ \A q \in Processes \ {p} : pc'[q] = pc[q]
        BY <1>1, <3>1, MoveFacts, BootSteps
      <4> QED
        BY <1>1, <3>1, <4>1, BootSteps DEF RunWithShutdown, FlagInv
    <3> QED
      BY <2>1, <2>2, <3>1 DEF Listen
  <2>3. CASE StartFresh(p) \/ ReadMonitors(p) \/ ReadManager(p) \/ WatchChannels(p)
             \/ InitSweeper(p) \/ InitManagers(p)
    <3>1. {"ready", "restore", "watch", "sweeper", "managers", "lock"} \cap Serving = {}
          /\ {"ready", "restore", "watch", "sweeper", "managers", "lock"} \subseteq Steps
          /\ "run" \notin {"ready", "restore", "watch", "sweeper", "managers", "lock"}
      BY BootSteps
    <3> QED
      BY <1>3, <2>1, <2>3, <3>1
         DEF StartFresh, ReadMonitors, ReadManager, WatchChannels, InitSweeper,
             InitManagers, memory
  <2>4. CASE PidLock(p) \/ RunHttpd(p) \/ AddExternalHandler(p)
    <3>1. {"lock", "serve", "register", "listen"} \subseteq Steps
          /\ {"serve", "register", "listen"} \subseteq Serving
      BY BootSteps
    <3> QED
      BY <1>3, <2>1, <2>4, <3>1 DEF PidLock, RunHttpd, AddExternalHandler, memory
  <2> QED
    BY <1>5, <2>2, <2>3, <2>4 DEF Boot
<1>6. CASE Run(p)
  <2>1. CASE Finish(p)
    BY <1>2, <2>1 DEF Finish
  <2>2. CASE AcceptEnds(p)
    BY <2>2 DEF AcceptEnds, FlagInv, walletVars
  <2>3. CASE Shutdown(p)
    BY <2>3 DEF Shutdown, FlagInv, walletVars
  <2>4. ASSUME UNCHANGED <<pc, accepts, shutdown>> PROVE FlagInv'
    BY <2>4 DEF FlagInv
  <2> QED
    BY <1>6, <2>1, <2>2, <2>3, <2>4
       DEF Run, StoreManager, OpenChannel, Spendable, StoreMonitor, SkipMine, Track,
           TrackFails, Tracked, walletVars, memory
<1>7. CASE Crash(p)
  BY <1>2, <1>7 DEF Crash, Fail
<1> QED
  BY <1>4, <1>5, <1>6, <1>7

-----------------------------------------------------------------------------
(* What every state of a node has. *)
Inv == WalletInv /\ DaemonInv /\ FlagInv

LEMMA InitInv == Init => Inv
<1>1. Init => FlagInv
  BY DEF Init, FlagInv
<1> QED
  BY <1>1, InitWallet, InitDaemon DEF Inv

LEMMA NextInv == Inv /\ [Next]_vars => Inv'
<1>1. SUFFICES ASSUME Inv, [Next]_vars PROVE Inv'
  OBVIOUS
<1>2. CASE UNCHANGED vars
  <2>1. UNCHANGED walletVars /\ UNCHANGED <<pc, accepts, shutdown>>
    BY <1>2 DEF vars, walletVars, memory
  <2>2. FlagInv'
    BY <1>1, <2>1 DEF Inv, FlagInv
  <2> QED
    BY <1>1, <1>2, <2>1, <2>2, WalletSame, DaemonSame DEF Inv
<1>3. CASE Next
  <2>1. PICK p \in Processes : Wallet(p) \/ Boot(p) \/ Run(p) \/ Crash(p)
    BY <1>3 DEF Next
  <2>2. WalletInv'
    BY <1>1, <2>1, WalletSteppedOn, WalletStays DEF Inv, Wallet
  <2>3. DaemonInv'
    BY <1>1, <2>1, WalletOnly, Boots, Runs, Fails DEF Inv, Crash
  <2>4. FlagInv'
    BY <1>1, <2>1, FlagsKept DEF Inv
  <2> QED
    BY <2>2, <2>3, <2>4 DEF Inv
<1> QED
  BY <1>1, <1>2, <1>3

LEMMA Invariance == Spec => []Inv
  BY InitInv, NextInv, PTL DEF Spec

(* The wallet's files, the state LDK stores and the memory of the          *)
(* processes are of their types; the flags of a process end with it.       *)
THEOREM TypeCorrect == Spec => []TypeOK
<1>1. Inv => TypeOK
  <2>1. SUFFICES ASSUME Inv PROVE TypeOK
    OBVIOUS
  <2>2. WalletInv /\ MemoryType /\ FlagInv /\ \A p \in Processes : ChannelInv(p)
    BY <2>1 DEF Inv, DaemonInv
  <2> QED
    BY <2>2 DEF WalletInv, Steps, MemoryType, FlagInv, ChannelInv, TypeOK
<1> QED
  BY <1>1, Invariance, PTL

LEMMA AtWallet ==
    ASSUME pc \in [Processes -> Steps], NEW p \in Processes, HasWallet(p)
    PROVE  pc[p] \in WithWallet
  BY DEF HasWallet, Steps, WithWallet, WalletSteps

(* main.rs, build_wallet and write_words_to_file: whatever commands run    *)
(* and crash at a directory, side by side too, the words of wallet.dat     *)
(* open the database, as long as no process stores its wallet over that of *)
(* another that found none either.                                         *)
THEOREM WordsAreTheWallets == Spec => []WordsOpenWallet
<1>1. Inv => WordsOpenWallet
  <2>1. SUFFICES ASSUME Inv, ~raced
                 PROVE  /\ words \in Seeds => db = words
                        /\ \A p \in Processes : HasWallet(p) =>
                              db = seed[p] /\ words \in {seed[p], Empty}
    BY DEF WordsOpenWallet
  <2>2. \A p \in Processes : HasWallet(p) => pc[p] \in WithWallet
    BY <2>1, AtWallet DEF Inv, WalletInv
  <2> QED
    BY <2>1, <2>2 DEF Inv, WalletInv, LoadInv
<1> QED
  BY <1>1, Invariance, PTL

(* BDKWalletManager::restore and is_recovering_history: a process that     *)
(* goes on with the backup's wallet recovers its history, however many     *)
(* starts it took, where no new wallet was begun, or raced.                *)
THEOREM RecoveryRemembered == Spec => []RecoveryKept
<1>1. Inv => RecoveryKept
  <2>1. SUFFICES ASSUME Inv, NEW p \in Processes,
                        HasWallet(p), seed[p] = Backup, ~halfMade, ~raced
                 PROVE  recovering[p]
    BY DEF RecoveryKept
  <2>2. pc[p] \in LoadedSteps /\ pc[p] \notin {"off", "mark"}
    BY <2>1, AtWallet, StepFacts DEF Inv, WalletInv
  <2>3. db = Backup
    BY <2>1, <2>2 DEF Inv, WalletInv, LoadInv
  <2> QED
    BY <2>1, <2>2, <2>3 DEF Inv, WalletInv, RecoveryInv
<1> QED
  BY <1>1, Invariance, PTL

(* LampoChannelManager::restart: a node that goes on with a channel        *)
(* watches it, after a crash between the stores of the monitors and of     *)
(* the manager, unless watch_channel refused it, which is logged.          *)
THEOREM ChannelsWatched == Spec => []KnownChannelsWatched
<1>1. Inv => KnownChannelsWatched
  BY DEF Inv, DaemonInv, ChannelInv, KnownChannelsWatched, RestoredSteps
<1> QED
  BY <1>1, Invariance, PTL

(* LampoHandler's SpendableOutputs and the sweeper: an output that is not  *)
(* the wallet's stays in a stored event or in the stored sweeper through   *)
(* failing writes, replays, crashes and restarts, as long as no two        *)
(* processes are past their wallets at a time.                             *)
THEOREM OutputsRemembered == Spec => []OutputsKept
<1>1. Inv => OutputsKept
  BY DEF Inv, DaemonInv, AloneInv, Swept, OutputsKept
<1> QED
  BY <1>1, Invariance, PTL
=============================================================================
