--------------------------- MODULE WalletScripts ---------------------------
(***************************************************************************)
(* The scripts the node receives on: addresses for the operator, change of *)
(* the transactions that bump fees, and where the funds of a channel go.   *)
(* They are the external descriptor's, by index, from a wallet that must   *)
(* not forget which ones it gave; a channel gets LDK's own script when the *)
(* wallet gives none.  The two are told apart once more when the channel's *)
(* output can be spent: what the wallet owns is not swept.                 *)
(***************************************************************************)
EXTENDS Integers, Sequences

CONSTANTS
    Channels,
    Lookahead,  \* scripts past the revealed ones that the wallet recognises
    MaxIndex    \* bound: scripts revealed

ASSUME LookaheadAssumption == Lookahead \in Nat
ASSUME MaxIndexAssumption == MaxIndex \in Nat

VARIABLES
    revealed,  \* scripts revealed by the wallet in memory
    stored,    \* and by the one in its database
    given,     \* history: the indices that left the wallet, in order
    wired,     \* set_wallet: LDK's keys know the wallet
    from,      \* whose script a channel's funds go to
    index,     \* and its index, where it is the wallet's
    output     \* the channel's output

scriptsVars == <<revealed, stored, given, wired, from, index, output>>

ScriptsTypeOK ==
    /\ revealed \in Nat
    /\ stored \in Nat
    /\ given \in Seq(Nat)
    /\ wired \in BOOLEAN
    /\ from \in [Channels -> {"none", "wallet", "ldk"}]
    /\ index \in [Channels -> Nat]
    /\ output \in [Channels -> {"none", "static", "delayed", "skipped", "tracked"}]

ScriptsInit ==
    /\ revealed = 0
    /\ stored = 0
    /\ given = <<>>
    /\ wired = FALSE
    /\ from = [ch \in Channels |-> "none"]
    /\ index = [ch \in Channels |-> 0]
    /\ output = [ch \in Channels |-> "none"]

-----------------------------------------------------------------------------
(* persist writes what is staged, which it keeps when it fails. *)
Persist == stored' = revealed'
PersistFails == UNCHANGED stored

Reveal ==
    /\ revealed < MaxIndex
    /\ revealed' = revealed + 1

(* Mutant: the index is written with the next block. *)
RevealOnly ==
    /\ Reveal
    /\ given' = Append(given, revealed)
    /\ UNCHANGED stored

(* next_wallet_script, under both locks: the script is given once its index *)
(* is stored ...                                                           *)
NextWalletScript ==
    /\ Reveal
    /\ Persist
    /\ given' = Append(given, revealed)

(* ... and lost with an error when it cannot be. *)
NoWalletScript ==
    /\ Reveal
    /\ PersistFails
    /\ UNCHANGED given

(* set_wallet, as the daemon is built on the wallet. *)
SetWallet ==
    /\ ~wired
    /\ wired' = TRUE
    /\ UNCHANGED <<revealed, stored, given, from, index, output>>

(* get_onchain_address, and get_change_script of BumpWallet: they have no  *)
(* other script, so the call, or the bump, fails.                          *)
Ask ==
    /\ wired
    /\ NextWalletScript \/ NoWalletScript
    /\ UNCHANGED <<wired, from, index, output>>

(* get_destination_script, get_shutdown_scriptpubkey: a new channel's      *)
(* funds go to the wallet, or to LDK's own script.                         *)
DestinationScript(ch) ==
    /\ wired
    /\ from[ch] = "none"
    /\ \/ /\ NextWalletScript
          /\ from' = [from EXCEPT ![ch] = "wallet"]
          /\ index' = [index EXCEPT ![ch] = revealed]
       \/ /\ NoWalletScript
          /\ from' = [from EXCEPT ![ch] = "ldk"]
          /\ UNCHANGED index
    /\ UNCHANGED <<wired, output>>

(* apply_block_inner: a block with nothing new for the wallet; what was    *)
(* staged is written with it.                                              *)
ApplyBlock ==
    /\ UNCHANGED <<revealed, given, wired, from, index, output>>
    /\ Persist \/ PersistFails

-----------------------------------------------------------------------------
(* LDK: the channel is closed; its output pays the script, or has to be    *)
(* claimed after a delay.                                                  *)
Spendable(ch) ==
    /\ wired
    /\ from[ch] # "none"
    /\ output[ch] = "none"
    /\ \E kind \in {"static", "delayed"} : output' = [output EXCEPT ![ch] = kind]
    /\ UNCHANGED <<revealed, stored, given, wired, from, index>>

IsMine(ch) == from[ch] = "wallet" /\ index[ch] < revealed + Lookahead

(* Mutant: every static output is taken for the wallet's. *)
SpendableOutputsStatic(ch) ==
    /\ wired
    /\ output[ch] \in {"static", "delayed"}
    /\ output' = [output EXCEPT ![ch] =
                     IF output[ch] = "static" THEN "skipped" ELSE "tracked"]
    /\ UNCHANGED <<revealed, stored, given, wired, from, index>>

(* The event SpendableOutputs: a static output of the wallet is skipped,   *)
(* any other is for the sweeper.                                           *)
SpendableOutputs(ch) ==
    /\ wired
    /\ output[ch] \in {"static", "delayed"}
    /\ output' = [output EXCEPT ![ch] =
                     IF output[ch] = "static" /\ IsMine(ch) THEN "skipped" ELSE "tracked"]
    /\ UNCHANGED <<revealed, stored, given, wired, from, index>>

(* The process starts again from the wallet's database.  An output whose   *)
(* event was not handled is still due.                                     *)
ScriptsRestart ==
    /\ wired
    /\ wired' = FALSE
    /\ revealed' = stored
    /\ UNCHANGED <<stored, given, from, index, output>>

ScriptsNext ==
    \/ SetWallet \/ Ask \/ ApplyBlock \/ ScriptsRestart
    \/ \E ch \in Channels :
          DestinationScript(ch) \/ Spendable(ch) \/ SpendableOutputs(ch)

ScriptsSpec == ScriptsInit /\ [][ScriptsNext]_scriptsVars

-----------------------------------------------------------------------------
(* No script is given twice: a restart, at any moment and after writes     *)
(* that failed, does not bring an index back that somebody was told.       *)
FreshScripts ==
    \A i, j \in 1 .. Len(given) : given[i] = given[j] => i = j

(* Every channel's funds can be spent by somebody: what the sweeper is not *)
(* told of pays a script that the wallet recognises now, and would         *)
(* recognise after a crash; what LDK's own script received is never taken  *)
(* for the wallet's.                                                       *)
OutputsClaimable ==
    \A ch \in Channels :
        output[ch] = "skipped" =>
            /\ from[ch] = "wallet"
            /\ index[ch] < stored + Lookahead
=============================================================================
