---------------------------- MODULE WalletProofs ----------------------------
(***************************************************************************)
(* The on-chain wallet: no script of it is handed out twice and no funds   *)
(* of a channel are left to it unknown (WalletScripts), for any number of  *)
(* channels and any lookahead; no block is skipped and Running is not      *)
(* announced early (ChainSync), for any height of the chain and reorgs of  *)
(* any depth, any number of branches, failures and restarts.               *)
(***************************************************************************)
EXTENDS ChainSync, WalletScripts, SequenceTheorems, WellFoundedInduction, TLAPS

-----------------------------------------------------------------------------
(* The scripts: every index that left the wallet is below the one in its   *)
(* database.                                                               *)

(* The database is never ahead of memory, and has every index that was     *)
(* given, so memory does not come back from a restart to give one again.   *)
GivenStored ==
    /\ stored <= revealed
    /\ \A i \in 1 .. Len(given) : given[i] < stored
    /\ \A ch \in Channels : from[ch] = "wallet" => index[ch] < stored

ScriptsInv == ScriptsTypeOK /\ GivenStored /\ FreshScripts /\ OutputsClaimable

LEMMA ScriptsInitInv == ScriptsInit => ScriptsInv
<1>1. SUFFICES ASSUME ScriptsInit PROVE ScriptsInv
  OBVIOUS
<1>2. given = <<>> /\ Len(given) = 0
  BY <1>1 DEF ScriptsInit
<1>3. ScriptsTypeOK
  <2>1. given \in Seq(Nat)
    BY <1>2
  <2>2. output \in [Channels -> {"none", "static", "delayed", "skipped", "tracked"}]
    BY <1>1 DEF ScriptsInit
  <2> QED
    BY <1>1, <2>1, <2>2 DEF ScriptsInit, ScriptsTypeOK
<1>4. FreshScripts /\ GivenStored /\ OutputsClaimable
  BY <1>1, <1>2 DEF ScriptsInit, FreshScripts, GivenStored, OutputsClaimable
<1> QED
  BY <1>3, <1>4 DEF ScriptsInv

(* What giving a script, or losing one, does to the indices. *)
LEMMA ScriptGiven ==
    ASSUME ScriptsInv, NextWalletScript
    PROVE  /\ revealed' \in Nat /\ stored' \in Nat /\ given' \in Seq(Nat)
           /\ stored' = revealed'
           /\ stored <= stored' /\ revealed < stored'
           /\ \A i \in 1 .. Len(given') : given'[i] < stored'
           /\ FreshScripts'
<1>1. /\ revealed \in Nat /\ stored \in Nat /\ given \in Seq(Nat)
      /\ revealed' = revealed + 1 /\ stored' = revealed'
      /\ given' = Append(given, revealed)
      /\ stored <= revealed
      /\ \A i \in 1 .. Len(given) : given[i] < stored
  BY DEF ScriptsInv, ScriptsTypeOK, GivenStored, NextWalletScript, Reveal, Persist
<1>2. /\ Len(given') = Len(given) + 1 /\ given' \in Seq(Nat)
      /\ \A i \in 1 .. Len(given) : given'[i] = given[i]
      /\ given'[Len(given) + 1] = revealed
  BY <1>1
<1>3. \A i \in 1 .. Len(given') : given'[i] < stored'
  <2>1. SUFFICES ASSUME NEW i \in 1 .. Len(given')
                 PROVE  given'[i] < stored'
    OBVIOUS
  <2>2. CASE i = Len(given) + 1
    BY <1>1, <1>2, <2>2
  <2>3. CASE i \in 1 .. Len(given)
    <3>1. given[i] \in Nat
      BY <1>1, <2>3
    <3> QED
      BY <1>1, <1>2, <2>3, <3>1
  <2> QED
    BY <1>1, <1>2, <2>2, <2>3
<1>4. FreshScripts'
  <2>1. SUFFICES ASSUME NEW i \in 1 .. Len(given'), NEW j \in 1 .. Len(given'),
                        given'[i] = given'[j]
                 PROVE  i = j
    BY DEF FreshScripts
  <2>2. \A k \in 1 .. Len(given) : given[k] \in Nat /\ given[k] < revealed
    BY <1>1
  <2>3. CASE i \in 1 .. Len(given) /\ j \in 1 .. Len(given)
    BY <1>2, <2>1, <2>3 DEF ScriptsInv, FreshScripts
  <2>4. CASE i \in 1 .. Len(given) /\ j = Len(given) + 1
    BY <1>1, <1>2, <2>1, <2>2, <2>4
  <2>5. CASE i = Len(given) + 1 /\ j \in 1 .. Len(given)
    BY <1>1, <1>2, <2>1, <2>2, <2>5
  <2> QED
    BY <1>1, <1>2, <2>3, <2>4, <2>5
<1> QED
  BY <1>1, <1>2, <1>3, <1>4

LEMMA ScriptLost ==
    ASSUME ScriptsInv, NoWalletScript
    PROVE  /\ revealed' \in Nat /\ revealed < revealed'
           /\ UNCHANGED <<stored, given>>
  BY DEF ScriptsInv, ScriptsTypeOK, NoWalletScript, Reveal, PersistFails

-----------------------------------------------------------------------------
LEMMA ScriptsStepInv == ScriptsInv /\ [ScriptsNext]_scriptsVars => ScriptsInv'
<1>1. SUFFICES ASSUME ScriptsInv, [ScriptsNext]_scriptsVars PROVE ScriptsInv'
  OBVIOUS
<1> USE LookaheadAssumption
<1>2. CASE SetWallet
  BY <1>1, <1>2
     DEF SetWallet, ScriptsInv, ScriptsTypeOK, GivenStored, FreshScripts, OutputsClaimable
<1>3. CASE Ask
  <2>1. UNCHANGED <<wired, from, index, output>>
    BY <1>3 DEF Ask
  <2>2. CASE NextWalletScript
    <3>1. /\ revealed' \in Nat /\ stored' \in Nat /\ given' \in Seq(Nat)
          /\ stored' = revealed' /\ stored <= stored'
          /\ \A i \in 1 .. Len(given') : given'[i] < stored'
          /\ FreshScripts'
      BY <1>1, <2>2, ScriptGiven
    <3>2. ScriptsTypeOK'
      BY <1>1, <2>1, <3>1 DEF ScriptsInv, ScriptsTypeOK
    <3>3. GivenStored' /\ OutputsClaimable'
      BY <1>1, <2>1, <3>1 DEF ScriptsInv, ScriptsTypeOK, GivenStored, OutputsClaimable
    <3> QED
      BY <3>1, <3>2, <3>3 DEF ScriptsInv
  <2>3. CASE NoWalletScript
    <3>1. /\ revealed' \in Nat /\ revealed < revealed'
          /\ UNCHANGED <<stored, given>>
      BY <1>1, <2>3, ScriptLost
    <3> QED
      BY <1>1, <2>1, <3>1
         DEF ScriptsInv, ScriptsTypeOK, GivenStored, FreshScripts, OutputsClaimable
  <2> QED
    BY <1>3, <2>2, <2>3 DEF Ask
<1>4. ASSUME NEW ch \in Channels, DestinationScript(ch) PROVE ScriptsInv'
  <2>1. /\ UNCHANGED <<wired, output>> /\ from[ch] = "none"
        /\ from \in [Channels -> {"none", "wallet", "ldk"}]
        /\ index \in [Channels -> Nat] /\ revealed \in Nat
    BY <1>1, <1>4 DEF DestinationScript, ScriptsInv, ScriptsTypeOK
  <2>2. CASE /\ NextWalletScript
             /\ from' = [from EXCEPT ![ch] = "wallet"]
             /\ index' = [index EXCEPT ![ch] = revealed]
    <3>1. /\ revealed' \in Nat /\ stored' \in Nat /\ given' \in Seq(Nat)
          /\ stored' = revealed' /\ stored <= stored' /\ revealed < stored'
          /\ \A i \in 1 .. Len(given') : given'[i] < stored'
          /\ FreshScripts'
      BY <1>1, <2>2, ScriptGiven
    <3>2. ScriptsTypeOK'
      BY <1>1, <2>1, <2>2, <3>1 DEF ScriptsInv, ScriptsTypeOK
    <3>3. GivenStored' /\ OutputsClaimable'
      <4>1. ASSUME NEW d \in Channels
            PROVE  /\ from'[d] = "wallet" => index'[d] < stored'
                   /\ output'[d] = "skipped" =>
                         from'[d] = "wallet" /\ index'[d] < stored' + Lookahead
        <5>1. CASE d = ch
          BY <1>1, <2>1, <2>2, <3>1, <5>1 DEF ScriptsInv, OutputsClaimable
        <5>2. CASE d # ch
          BY <1>1, <2>1, <2>2, <3>1, <5>2
             DEF ScriptsInv, ScriptsTypeOK, GivenStored, OutputsClaimable
        <5> QED
          BY <5>1, <5>2
      <4> QED
        BY <3>1, <4>1 DEF GivenStored, OutputsClaimable
    <3> QED
      BY <3>1, <3>2, <3>3 DEF ScriptsInv
  <2>3. CASE /\ NoWalletScript
             /\ from' = [from EXCEPT ![ch] = "ldk"]
             /\ UNCHANGED index
    <3>1. /\ revealed' \in Nat /\ revealed < revealed'
          /\ UNCHANGED <<stored, given>>
      BY <1>1, <2>3, ScriptLost
    <3>2. \A d \in Channels : from'[d] = IF d = ch THEN "ldk" ELSE from[d]
      BY <2>1, <2>3
    <3>3. ScriptsTypeOK' /\ FreshScripts'
      BY <1>1, <2>1, <2>3, <3>1 DEF ScriptsInv, ScriptsTypeOK, FreshScripts
    <3>4. GivenStored' /\ OutputsClaimable'
      BY <1>1, <2>1, <2>3, <3>1, <3>2
         DEF ScriptsInv, ScriptsTypeOK, GivenStored, OutputsClaimable
    <3> QED
      BY <3>3, <3>4 DEF ScriptsInv
  <2> QED
    BY <1>4, <2>2, <2>3 DEF DestinationScript
<1>5. CASE ApplyBlock
  <2>1. /\ UNCHANGED <<revealed, given, wired, from, index, output>>
        /\ stored' \in {stored, revealed}
    BY <1>5 DEF ApplyBlock, Persist, PersistFails
  <2>2. stored' \in Nat /\ stored <= stored' /\ stored' <= revealed'
    BY <1>1, <2>1 DEF ScriptsInv, ScriptsTypeOK, GivenStored
  <2>3. ScriptsTypeOK' /\ FreshScripts'
    BY <1>1, <2>1, <2>2 DEF ScriptsInv, ScriptsTypeOK, FreshScripts
  <2>4. \A i \in 1 .. Len(given) : given[i] \in Nat
    BY <1>1 DEF ScriptsInv, ScriptsTypeOK
  <2>5. GivenStored' /\ OutputsClaimable'
    BY <1>1, <2>1, <2>2, <2>4 DEF ScriptsInv, ScriptsTypeOK, GivenStored, OutputsClaimable
  <2> QED
    BY <2>3, <2>5 DEF ScriptsInv
<1>6. CASE ScriptsRestart
  <2>1. /\ UNCHANGED <<stored, given, from, index, output>>
        /\ wired' = FALSE /\ revealed' = stored
    BY <1>6 DEF ScriptsRestart
  <2>2. ScriptsTypeOK' /\ FreshScripts' /\ OutputsClaimable'
    BY <1>1, <2>1 DEF ScriptsInv, ScriptsTypeOK, FreshScripts, OutputsClaimable
  <2>3. GivenStored'
    BY <1>1, <2>1 DEF ScriptsInv, ScriptsTypeOK, GivenStored
  <2> QED
    BY <2>2, <2>3 DEF ScriptsInv
<1>7. ASSUME NEW ch \in Channels, Spendable(ch) PROVE ScriptsInv'
  BY <1>1, <1>7
     DEF Spendable, ScriptsInv, ScriptsTypeOK, GivenStored, FreshScripts, OutputsClaimable
<1>8. ASSUME NEW ch \in Channels, SpendableOutputs(ch) PROVE ScriptsInv'
  <2>1. /\ UNCHANGED <<revealed, stored, given, wired, from, index>>
        /\ output' = [output EXCEPT ![ch] =
               IF output[ch] = "static" /\ IsMine(ch) THEN "skipped" ELSE "tracked"]
    BY <1>8 DEF SpendableOutputs
  <2>2. ScriptsTypeOK' /\ GivenStored' /\ FreshScripts'
    BY <1>1, <2>1 DEF ScriptsInv, ScriptsTypeOK, GivenStored, FreshScripts
  <2>3. ASSUME NEW d \in Channels, output'[d] = "skipped"
        PROVE  from[d] = "wallet" /\ index[d] < stored + Lookahead
    <3>1. CASE d = ch
      <4>1. from[d] = "wallet"
        BY <1>1, <2>1, <2>3, <3>1 DEF ScriptsInv, ScriptsTypeOK, IsMine
      <4> QED
        BY <1>1, <4>1 DEF ScriptsInv, ScriptsTypeOK, GivenStored
    <3>2. CASE d # ch
      BY <1>1, <2>1, <2>3, <3>2 DEF ScriptsInv, ScriptsTypeOK, OutputsClaimable
    <3> QED
      BY <3>1, <3>2
  <2>4. OutputsClaimable'
    BY <2>1, <2>3 DEF OutputsClaimable
  <2> QED
    BY <2>2, <2>4 DEF ScriptsInv
<1>9. CASE UNCHANGED scriptsVars
  BY <1>1, <1>9
     DEF scriptsVars, ScriptsInv, ScriptsTypeOK, GivenStored, FreshScripts, OutputsClaimable
<1> QED
  BY <1>1, <1>2, <1>3, <1>4, <1>5, <1>6, <1>7, <1>8, <1>9 DEF ScriptsNext

(* Every script the wallet gives is a new one, over any sequence of        *)
(* failing writes, blocks and restarts.                                    *)
THEOREM ScriptsFresh == ScriptsSpec => []FreshScripts
<1>1. ScriptsInv => FreshScripts
  BY DEF ScriptsInv
<1> QED
  BY ScriptsInitInv, ScriptsStepInv, <1>1, PTL DEF ScriptsSpec

(* No channel's funds are left to a wallet that would not know them after  *)
(* a crash, nor LDK's own to a wallet that never knew them.                *)
THEOREM FundsClaimable == ScriptsSpec => []OutputsClaimable
<1>1. ScriptsInv => OutputsClaimable
  BY DEF ScriptsInv
<1> QED
  BY ScriptsInitInv, ScriptsStepInv, <1>1, PTL DEF ScriptsSpec

-----------------------------------------------------------------------------
(* The chain: what heights, ancestors and the highest of a set of blocks   *)
(* are, from which everything below follows without looking into a block.  *)
LEMMA BlockLength ==
    ASSUME NEW b \in Blocks
    PROVE  b \in Seq(Branches) /\ Height(b) \in Nat /\ Height(b) <= MaxHeight
<1>1. PICK n \in 0 .. MaxHeight : b \in [1 .. n -> Branches]
  BY DEF Blocks
<1>2. n \in Nat /\ MaxHeight \in Nat
  BY <1>1, HeightAssumption
<1>3. b \in Seq(Branches)
  BY <1>1, <1>2, SeqDef
<1>4. Len(b) = n
  BY <1>1, <1>2, <1>3, LenProperties
<1> QED
  BY <1>1, <1>2, <1>3, <1>4 DEF Height

LEMMA LengthBlock ==
    ASSUME NEW b \in Seq(Branches), Len(b) <= MaxHeight
    PROVE  b \in Blocks
<1>1. Len(b) \in Nat /\ b \in [1 .. Len(b) -> Branches]
  BY LenProperties
<1>2. Len(b) \in 0 .. MaxHeight
  BY <1>1, HeightAssumption
<1> QED
  BY <1>1, <1>2 DEF Blocks

LEMMA GenesisBlock ==
    /\ Genesis \in Blocks /\ Height(Genesis) = 0
    /\ \A b \in Blocks : Height(b) = 0 => b = Genesis
<1>1. <<>> \in Seq(Branches) /\ Len(<<>>) = 0
  BY EmptySeq
<1>2. Genesis \in Blocks
  <2> DEFINE g == <<>>
  <2>1. g \in Seq(Branches) /\ Len(g) <= MaxHeight
    BY <1>1, HeightAssumption
  <2> HIDE DEF g
  <2>2. g \in Blocks
    BY <2>1, LengthBlock
  <2> QED
    BY <2>2 DEF g, Genesis
<1>3. ASSUME NEW b \in Blocks, Height(b) = 0 PROVE b = Genesis
  BY <1>3, BlockLength, EmptySeq DEF Height, Genesis
<1> QED
  BY <1>1, <1>2, <1>3 DEF Height, Genesis

LEMMA AtShape ==
    ASSUME NEW b \in Blocks, NEW h \in 0 .. Height(b)
    PROVE  /\ At(b, h) \in Seq(Branches) /\ Len(At(b, h)) = h
           /\ \A i \in 1 .. h : At(b, h)[i] = b[i]
<1>1. b \in Seq(Branches) /\ Len(b) \in Nat /\ h \in Nat /\ h <= Len(b)
  BY BlockLength DEF Height
<1>2. SubSeq(b, 1, h) \in Seq(Branches) /\ Len(SubSeq(b, 1, h)) = h
  BY <1>1
<1>3. \A i \in 1 .. h : SubSeq(b, 1, h)[i] = b[i]
  BY <1>1
<1> QED
  BY <1>2, <1>3 DEF At

LEMMA AtBlock ==
    ASSUME NEW b \in Blocks, NEW h \in 0 .. Height(b)
    PROVE  At(b, h) \in Blocks /\ Height(At(b, h)) = h
<1>1. h \in Nat /\ Height(b) <= MaxHeight /\ h <= MaxHeight
  BY BlockLength, HeightAssumption
<1> QED
  BY <1>1, AtShape, LengthBlock DEF Height

LEMMA AtTop ==
    ASSUME NEW b \in Blocks
    PROVE  At(b, Height(b)) = b
<1>1. b \in Seq(Branches) /\ Height(b) \in Nat /\ Height(b) = Len(b)
  BY BlockLength DEF Height
<1> DEFINE a == At(b, Height(b))
<1>2. /\ a \in Seq(Branches) /\ Len(a) = Len(b)
      /\ \A i \in 1 .. Len(a) : a[i] = b[i]
  BY <1>1, AtShape
<1> QED
  BY <1>1, <1>2, SeqEqual

LEMMA AtAt ==
    ASSUME NEW b \in Blocks, NEW k \in 0 .. Height(b), NEW h \in 0 .. k
    PROVE  At(At(b, k), h) = At(b, h)
<1>1. Height(b) \in Nat /\ k \in Nat /\ h \in Nat /\ h \in 0 .. Height(b)
  BY BlockLength
<1>2. At(b, k) \in Blocks /\ Height(At(b, k)) = k
  BY AtBlock
<1>3. \A i \in 1 .. h : i \in 1 .. k
  BY <1>1
<1> DEFINE s == At(At(b, k), h)
           t == At(b, h)
<1>4. /\ s \in Seq(Branches) /\ Len(s) = h
      /\ \A i \in 1 .. h : s[i] = At(b, k)[i]
  BY <1>1, <1>2, AtShape
<1>5. /\ t \in Seq(Branches) /\ Len(t) = h
      /\ \A i \in 1 .. h : t[i] = b[i]
  BY <1>1, AtShape
<1>6. \A i \in 1 .. k : At(b, k)[i] = b[i]
  BY AtShape
<1>7. \A i \in 1 .. Len(s) : s[i] = t[i]
  BY <1>3, <1>4, <1>5, <1>6
<1> HIDE DEF s, t
<1>8. s = t
  BY <1>4, <1>5, <1>7, SeqEqual
<1> QED
  BY <1>8 DEF s, t

LEMMA AncestorsOf ==
    ASSUME NEW b \in Blocks, NEW c
    PROVE  c \in Ancestors(b) <=>
               c \in Blocks /\ Height(c) <= Height(b) /\ c = At(b, Height(c))
<1>1. ASSUME c \in Ancestors(b)
      PROVE  c \in Blocks /\ Height(c) <= Height(b) /\ c = At(b, Height(c))
  <2>1. PICK h \in 0 .. Height(b) : c = At(b, h)
    BY <1>1 DEF Ancestors
  <2>2. c \in Blocks /\ Height(c) = h
    BY <2>1, AtBlock
  <2> QED
    BY <2>1, <2>2, BlockLength
<1>2. ASSUME c \in Blocks, Height(c) <= Height(b), c = At(b, Height(c))
      PROVE  c \in Ancestors(b)
  <2>1. Height(c) \in 0 .. Height(b)
    BY <1>2, BlockLength
  <2> QED
    BY <1>2, <2>1 DEF Ancestors
<1> QED
  BY <1>1, <1>2

LEMMA FrontAt ==
    ASSUME NEW b \in Blocks
    PROVE  /\ Front(b) \in Ancestors(b)
           /\ Height(b) > 0 => /\ Front(b) = At(b, Height(b) - 1)
                               /\ Height(Front(b)) = Height(b) - 1
<1>1. Height(b) \in Nat /\ b \in Seq(Branches) /\ Height(b) = Len(b)
  BY BlockLength DEF Height
<1>2. CASE Height(b) = 0
  <2>1. Front(b) = <<>>
    BY <1>1, <1>2, SubSeqEmpty DEF Front
  <2>2. Front(b) = b
    BY <1>2, <2>1, GenesisBlock DEF Genesis
  <2> QED
    BY <1>1, <1>2, <2>2, AtTop, AncestorsOf
<1>3. CASE Height(b) > 0
  <2>1. Front(b) = At(b, Height(b) - 1)
    BY <1>1 DEF Front, At
  <2>2. Height(b) - 1 \in 0 .. Height(b)
    BY <1>1, <1>3
  <2> QED
    BY <2>1, <2>2, AtBlock DEF Ancestors
<1> QED
  BY <1>1, <1>2, <1>3

(* The ancestors of a block are a chain: closed, and told by their height. *)
LEMMA AncestorAt ==
    ASSUME NEW b \in Blocks, NEW c \in Ancestors(b)
    PROVE  /\ c \in Blocks /\ Height(c) \in Nat /\ Height(c) <= Height(b)
           /\ c = At(b, Height(c))
           /\ \A h \in 0 .. Height(c) : At(c, h) = At(b, h)
<1>1. c \in Blocks /\ Height(c) <= Height(b) /\ c = At(b, Height(c))
  BY AncestorsOf
<1>2. Height(b) \in Nat /\ Height(c) \in Nat /\ Height(c) \in 0 .. Height(b)
  BY <1>1, BlockLength
<1>3. \A h \in 0 .. Height(c) : At(At(b, Height(c)), h) = At(b, h)
  BY <1>2, AtAt
<1> QED
  BY <1>1, <1>2, <1>3

LEMMA AtAncestor ==
    ASSUME NEW b \in Blocks, NEW h \in 0 .. Height(b)
    PROVE  At(b, h) \in Ancestors(b)
  BY DEF Ancestors

LEMMA AncestorEnds ==
    ASSUME NEW b \in Blocks
    PROVE  b \in Ancestors(b) /\ Genesis \in Ancestors(b)
<1>1. Height(b) \in Nat /\ 0 \in 0 .. Height(b) /\ Height(b) \in 0 .. Height(b)
  BY BlockLength
<1>2. At(b, 0) = Genesis
  BY <1>1, AtBlock, GenesisBlock
<1> QED
  BY <1>1, <1>2, AtTop, AtAncestor

LEMMA AncestorTrans ==
    ASSUME NEW b \in Blocks, NEW c \in Ancestors(b), NEW d \in Ancestors(c)
    PROVE  d \in Ancestors(b)
<1>1. c \in Blocks /\ Height(c) \in Nat /\ Height(c) <= Height(b)
      /\ \A h \in 0 .. Height(c) : At(c, h) = At(b, h)
  BY AncestorAt
<1>2. d \in Blocks /\ Height(d) \in Nat /\ Height(d) <= Height(c) /\ d = At(c, Height(d))
  BY <1>1, AncestorAt
<1>3. Height(d) \in 0 .. Height(c) /\ Height(d) <= Height(b)
  BY <1>1, <1>2, BlockLength
<1> QED
  BY <1>1, <1>2, <1>3, AncestorsOf

LEMMA AncestorChain ==
    ASSUME NEW b \in Blocks, NEW c \in Ancestors(b), NEW d \in Ancestors(b),
           Height(c) <= Height(d)
    PROVE  c \in Ancestors(d)
<1>1. c \in Blocks /\ Height(c) \in Nat /\ c = At(b, Height(c))
  BY AncestorAt
<1>2. /\ d \in Blocks /\ Height(d) \in Nat
      /\ \A h \in 0 .. Height(d) : At(d, h) = At(b, h)
  BY AncestorAt
<1>3. Height(c) \in 0 .. Height(d)
  BY <1>1, <1>2
<1>4. c = At(d, Height(c))
  BY <1>1, <1>2, <1>3
<1> QED
  BY <1>1, <1>2, <1>4, AncestorsOf

(* A set of blocks has a lowest and a highest one. *)
LEMMA LowestNumber ==
    ASSUME NEW S \in SUBSET Nat, S # {}
    PROVE  \E n \in S : \A m \in S : n <= m
<1> DEFINE R == OpToRel(<, Nat)
<1>1. IsWellFoundedOn(R, Nat)
  BY NatLessThanWellFounded
<1>2. PICK n \in S : \A m \in S : ~ (<<m, n>> \in R)
  <2> HIDE DEF R
  <2> QED
    BY <1>1, WFMin
<1>3. ASSUME NEW m \in S PROVE n <= m
  <2>1. m \in Nat /\ n \in Nat
    OBVIOUS
  <2>2. ~ (m < n)
    BY <1>2, <2>1 DEF OpToRel
  <2> QED
    BY <2>1, <2>2
<1> QED
  BY <1>3

LEMMA LowestBlock ==
    ASSUME NEW S \in SUBSET Blocks, S # {}
    PROVE  \E b \in S : \A c \in S : Height(b) <= Height(c)
<1> DEFINE H == {Height(b) : b \in S}
<1>1. H \in SUBSET Nat /\ H # {}
  BY BlockLength
<1>2. PICK n \in H : \A m \in H : n <= m
  <2> HIDE DEF H
  <2> QED
    BY <1>1, LowestNumber
<1>3. PICK b \in S : n = Height(b)
  OBVIOUS
<1>4. \A c \in S : Height(b) <= Height(c)
  BY <1>2, <1>3
<1> QED
  BY <1>4

LEMMA HighestBlock ==
    ASSUME NEW S \in SUBSET Blocks, S # {}
    PROVE  Highest(S) \in S /\ \A c \in S : Height(c) <= Height(Highest(S))
<1>1. \A b \in S : Height(b) \in Nat /\ Height(b) <= MaxHeight /\ MaxHeight \in Nat
  BY BlockLength, HeightAssumption
<1> DEFINE H == {MaxHeight - Height(b) : b \in S}
<1>2. H \in SUBSET Nat /\ H # {}
  BY <1>1
<1>3. PICK n \in H : \A m \in H : n <= m
  <2> HIDE DEF H
  <2> QED
    BY <1>2, LowestNumber
<1>4. PICK b \in S : n = MaxHeight - Height(b)
  OBVIOUS
<1>5. ASSUME NEW c \in S PROVE Height(c) <= Height(b)
  <2>1. MaxHeight - Height(b) <= MaxHeight - Height(c)
    BY <1>3, <1>4
  <2> QED
    BY <1>1, <2>1
<1>6. \E d \in S : \A c \in S : Height(c) <= Height(d)
  BY <1>5
<1> QED
  BY <1>6 DEF Highest

(* Where two chains part. *)
LEMMA ForkOf ==
    ASSUME NEW b \in Blocks, NEW c \in Blocks
    PROVE  /\ Fork(b, c) \in Ancestors(b) /\ Fork(b, c) \in Ancestors(c)
           /\ Fork(b, c) \in Blocks
<1> DEFINE S == Ancestors(b) \cap Ancestors(c)
<1>1. S \in SUBSET Blocks
  BY AncestorsOf
<1>2. Genesis \in S
  BY AncestorEnds
<1>3. Highest(S) \in S
  <2> HIDE DEF S
  <2> QED
    BY <1>1, <1>2, HighestBlock
<1> QED
  BY <1>1, <1>3 DEF Fork

-----------------------------------------------------------------------------
(* Types.  That no block is higher than the chain's best is part of them:  *)
(* it is why the emitter never asks for a block that does not exist.       *)
Wallets == [chk : SUBSET Blocks, scanned : SUBSET Blocks]
Emitted == [block : Blocks, on : Blocks]
Passes == [at : {"off", "walk", "connect", "synced"}, wallet : Blocks, target : Blocks,
           ldkFork : Nat, walletFork : Nat, next : Nat, failed : BOOLEAN]
Scans == [at : {"idle", "emit", "ended", "failed"}, seen : SUBSET Blocks, start : Nat,
          queue : Seq(Emitted)]
Budgets == [aborts : 0 .. MaxAborts, failures : 0 .. MaxFailures,
            restarts : 0 .. MaxRestarts]

Under(S) == \A b \in S : Height(b) <= Height(best)

NodeType ==
    /\ best \in Blocks
    /\ mode \in {"unified", "parallel", "legacy"}
    /\ restored \in BOOLEAN
    /\ since \in 0 .. MaxHeight /\ born \in 0 .. MaxHeight
    /\ since <= Height(best)
    /\ lost \in SUBSET Blocks

MoverType ==
    /\ ldk \in Blocks
    /\ state \in {"PendingInitialSync", "ListenersSynced", "Running"}
    /\ grace \in BOOLEAN
    /\ budget \in Budgets

WalletType ==
    /\ chk \in SUBSET Blocks /\ Genesis \in chk /\ scanned \in SUBSET Blocks
    /\ disk \in Wallets /\ Genesis \in disk.chk
    /\ disk.scanned \subseteq scanned
    /\ Under(chk) /\ Under(disk.chk)
    /\ reached \in BOOLEAN

PassType ==
    /\ pass \in Passes
    /\ pass.next <= Height(pass.target) + 1
    /\ pass.at = "connect" => pass.next > 0
    /\ Height(pass.target) <= Height(best)

ScanType ==
    /\ scan \in Scans
    /\ scan.at # "idle" => Genesis \in scan.seen
    /\ scan.start <= Height(best)
    /\ \A i \in 1 .. Len(scan.queue) :
          /\ Height(scan.queue[i].block) <= Height(best)
          /\ scan.queue[i].on \in Ancestors(scan.queue[i].block)

TypeInv == NodeType /\ MoverType /\ WalletType /\ PassType /\ ScanType

LEMMA TypeInvOK == TypeInv => TypeOK
<1>1. SUFFICES ASSUME TypeInv PROVE TypeOK
  OBVIOUS
<1>2. /\ best \in Blocks /\ mode \in {"unified", "parallel", "legacy"}
      /\ restored \in BOOLEAN /\ {since, born} \subseteq 0 .. MaxHeight
      /\ lost \subseteq Blocks
  BY <1>1 DEF TypeInv, NodeType
<1>3. /\ ldk \in Blocks /\ grace \in BOOLEAN
      /\ state \in {"PendingInitialSync", "ListenersSynced", "Running"}
      /\ budget \in [aborts : 0 .. MaxAborts, failures : 0 .. MaxFailures,
                     restarts : 0 .. MaxRestarts]
  BY <1>1 DEF TypeInv, MoverType, Budgets
<1>4. /\ chk \subseteq Blocks /\ Genesis \in chk /\ scanned \subseteq Blocks
      /\ disk.chk \subseteq Blocks /\ disk.scanned \subseteq scanned
      /\ reached \in BOOLEAN
  BY <1>1 DEF TypeInv, WalletType, Wallets
<1>5. /\ pass.at \in {"off", "walk", "connect", "synced"}
      /\ pass.target \in Blocks /\ pass.next <= Height(pass.target) + 1
  BY <1>1 DEF TypeInv, PassType, Passes
<1>6. /\ scan.at \in {"idle", "emit", "ended", "failed"}
      /\ scan.seen \subseteq Blocks
      /\ scan.queue \in Seq([block : Blocks, on : Blocks])
  BY <1>1 DEF TypeInv, ScanType, Scans, Emitted
<1> QED
  BY <1>2, <1>3, <1>4, <1>5, <1>6 DEF TypeOK

(* What a step leaves alone keeps its type. *)
LEMMA SameTypes ==
    ASSUME TypeInv, UNCHANGED nodeVars
    PROVE  /\ NodeType'
           /\ UNCHANGED walletVars => WalletType'
           /\ UNCHANGED pass => PassType'
           /\ UNCHANGED scan => ScanType'
           /\ UNCHANGED <<ldk, state, grace, budget>> => MoverType'
<1>1. UNCHANGED <<best, mode, restored, since, born, lost>>
  BY DEF nodeVars
<1>2. NodeType'
  BY <1>1 DEF TypeInv, NodeType
<1>3. UNCHANGED walletVars => WalletType'
  BY <1>1 DEF TypeInv, WalletType, walletVars, Under
<1>4. UNCHANGED pass => PassType'
  BY <1>1 DEF TypeInv, PassType
<1>5. UNCHANGED scan => ScanType'
  BY <1>1 DEF TypeInv, ScanType
<1>6. UNCHANGED <<ldk, state, grace, budget>> => MoverType'
  BY DEF TypeInv, MoverType
<1> QED
  BY <1>2, <1>3, <1>4, <1>5, <1>6

LEMMA NoPassTyped == NoPass \in Passes
  BY GenesisBlock DEF NoPass, Passes

LEMMA NoPassType ==
    ASSUME best' \in Blocks, pass' \in Passes, pass'.at # "connect",
           pass'.next = 0, pass'.target = Genesis
    PROVE  PassType'
<1>1. Height(Genesis) = 0 /\ Height(best') \in Nat
  BY GenesisBlock, BlockLength
<1> QED
  BY <1>1 DEF PassType

LEMMA NoScanType ==
    ASSUME best' \in Blocks, scan' = NoScan
    PROVE  ScanType'
<1>1. <<>> \in Seq(Emitted) /\ Len(<<>>) = 0
  BY EmptySeq
<1>2. Height(best') \in Nat
  BY BlockLength
<1>3. NoScan \in Scans
  BY <1>1 DEF NoScan, Scans
<1>4. /\ scan'.at = "idle" /\ scan'.start = 0 /\ scan'.queue = <<>>
  BY DEF NoScan
<1> QED
  BY <1>1, <1>2, <1>3, <1>4 DEF ScanType

(* A merge keeps to the block's chain, or adds blocks of that chain. *)
LEMMA MergedTyped ==
    ASSUME NodeType, WalletType, NEW b \in Blocks, NEW on \in Ancestors(b),
           Height(b) <= Height(best)
    PROVE  /\ Merged(b, on) \in SUBSET Blocks /\ Genesis \in Merged(b, on)
           /\ Under(Merged(b, on))
<1>1. best \in Blocks /\ Height(best) \in Nat
  BY BlockLength DEF NodeType
<1>2. chk \in SUBSET Blocks /\ Genesis \in chk /\ Under(chk)
  BY DEF WalletType
<1>3. Genesis \in Ancestors(b) /\ b \in Ancestors(b) /\ Front(b) \in Ancestors(b)
  BY AncestorEnds, FrontAt
<1>4. Update(b, on) \subseteq Ancestors(b)
  BY <1>3 DEF Update
<1>5. \A c \in Ancestors(b) : c \in Blocks /\ Height(c) <= Height(best)
  <2>1. SUFFICES ASSUME NEW c \in Ancestors(b)
                 PROVE  c \in Blocks /\ Height(c) <= Height(best)
    OBVIOUS
  <2>2. c \in Blocks /\ Height(c) \in Nat /\ Height(c) <= Height(b)
    BY AncestorAt
  <2>3. Height(b) \in Nat
    BY BlockLength
  <2> QED
    BY <1>1, <2>2, <2>3
<1>6. \/ Merged(b, on) = chk \cup Update(b, on)
      \/ Merged(b, on) = (chk \cap Ancestors(b)) \cup Update(b, on)
  BY DEF Merged
<1> QED
  BY <1>2, <1>3, <1>4, <1>5, <1>6 DEF Under

LEMMA ApplyTyped ==
    ASSUME NodeType, WalletType, budget \in Budgets, UNCHANGED best,
           NEW b \in Blocks, NEW on \in Ancestors(b), Height(b) <= Height(best),
           ApplyOk(b, on) \/ ApplyFails(b, on)
    PROVE  WalletType' /\ budget' \in Budgets
<1>1. /\ Merged(b, on) \in SUBSET Blocks /\ Genesis \in Merged(b, on)
      /\ Under(Merged(b, on))
  BY MergedTyped
<1>2. /\ chk \in SUBSET Blocks /\ Genesis \in chk /\ scanned \in SUBSET Blocks
      /\ disk \in Wallets /\ Genesis \in disk.chk
      /\ disk.scanned \subseteq scanned
      /\ Under(chk) /\ Under(disk.chk) /\ reached \in BOOLEAN
  BY DEF WalletType
<1>3. CASE ApplyOk(b, on)
  <2>1. /\ chk' = Merged(b, on) /\ scanned' = scanned \cup {b}
        /\ disk' = [chk |-> chk', scanned |-> scanned'] /\ UNCHANGED budget
        /\ reached' \in BOOLEAN
    BY <1>3 DEF ApplyOk
  <2>2. disk' \in Wallets /\ disk'.chk = chk' /\ disk'.scanned = scanned'
    BY <1>1, <1>2, <2>1 DEF Wallets
  <2> QED
    BY <1>1, <1>2, <2>1, <2>2 DEF WalletType, Under
<1>4. CASE ApplyFails(b, on) /\ ~Merges(b, on)
  BY <1>4 DEF ApplyFails, WalletType, walletVars, Under
<1>5. CASE ApplyFails(b, on) /\ Merges(b, on)
  <2>1. /\ chk' = Merged(b, on) /\ scanned' = scanned \cup {b} /\ UNCHANGED disk
        /\ budget.failures > 0
        /\ budget' = [budget EXCEPT !.failures = @ - 1]
        /\ reached' \in BOOLEAN
    BY <1>5 DEF ApplyFails
  <2>2. budget' \in Budgets
    BY <2>1, BoundAssumption DEF Budgets
  <2> QED
    BY <1>1, <1>2, <2>1, <2>2 DEF WalletType, Under
<1> QED
  BY <1>3, <1>4, <1>5

LEMMA InitTypes == Init => TypeInv
<1>1. SUFFICES ASSUME Init PROVE TypeInv
  OBVIOUS
<1>2. MaxHeight \in Nat
  BY HeightAssumption
<1>3. /\ best = Start /\ best \in Blocks
      /\ Height(best) \in Nat /\ Height(best) <= MaxHeight
  BY <1>1, <1>2, BlockLength, StartAssumption DEF Init
<1>4. NodeType
  BY <1>1, <1>2, <1>3 DEF Init, NodeType
<1>5. MoverType
  <2>1. MaxAborts \in Nat /\ MaxFailures \in Nat /\ MaxRestarts \in Nat
    BY BoundAssumption
  <2>2. [aborts |-> MaxAborts, failures |-> MaxFailures, restarts |-> MaxRestarts]
            \in Budgets
    BY <2>1 DEF Budgets
  <2>3. ldk = best /\ state = "PendingInitialSync" /\ grace = FALSE
    BY <1>1 DEF Init
  <2>4. budget \in Budgets
    BY <1>1, <2>2 DEF Init
  <2> QED
    BY <1>3, <2>3, <2>4 DEF MoverType
<1>6. WalletType
  <2>1. chk = {Genesis} \/ chk = {Genesis, best}
    BY <1>1 DEF Init, Listened
  <2>2. Under({Genesis, best}) /\ Under({Genesis})
    BY <1>2, <1>3, GenesisBlock DEF Under
  <2>3. chk \in SUBSET Blocks /\ Genesis \in chk /\ Under(chk)
    BY <1>3, <2>1, <2>2, GenesisBlock
  <2>4. scanned = {} /\ disk = [chk |-> chk, scanned |-> {}] /\ reached \in BOOLEAN
    BY <1>1 DEF Init, Reaches
  <2> QED
    BY <2>3, <2>4 DEF WalletType, Wallets
<1>7. PassType
  BY <1>1, <1>2, <1>3, GenesisBlock DEF Init, NoPass, PassType, Passes
<1>8. ScanType
  <2>1. scan = NoScan /\ <<>> \in Seq(Emitted) /\ Len(<<>>) = 0
    BY <1>1, EmptySeq DEF Init
  <2> QED
    BY <1>2, <1>3, <2>1 DEF NoScan, ScanType, Scans
<1> QED
  BY <1>4, <1>5, <1>6, <1>7, <1>8 DEF TypeInv

LEMMA TipBlock ==
    ASSUME WalletType
    PROVE  Tip \in chk /\ Tip \in Blocks /\ \A c \in chk : Height(c) <= Height(Tip)
  BY HighestBlock DEF WalletType, Tip

(* The emitter's next block is one of the best chain, above the block the  *)
(* emitter agrees with, which is an ancestor of it.                        *)
NextHeight == IF Height(Agreed) < scan.start THEN scan.start ELSE Height(Agreed) + 1

LEMMA AgreedBlock ==
    ASSUME NodeType, ScanType, scan.at # "idle"
    PROVE  /\ Agreed \in scan.seen /\ Agreed \in Ancestors(best)
           /\ \A c \in scan.seen \cap Ancestors(best) : Height(c) <= Height(Agreed)
<1>1. best \in Blocks /\ Genesis \in scan.seen
  BY DEF NodeType, ScanType
<1> DEFINE S == scan.seen \cap Ancestors(best)
<1>2. S \in SUBSET Blocks /\ S # {}
  BY <1>1, AncestorEnds, AncestorsOf
<1>3. Highest(S) \in S /\ \A c \in S : Height(c) <= Height(Highest(S))
  <2> HIDE DEF S
  <2> QED
    BY <1>2, HighestBlock
<1>4. Agreed = Highest(S)
  BY DEF Agreed
<1> QED
  BY <1>3, <1>4

LEMMA NextBlock ==
    ASSUME NodeType, ScanType, scan.at # "idle", Agreed # best
    PROVE  /\ NextHeight \in 0 .. Height(best) /\ Height(Agreed) < NextHeight
           /\ scan.start <= NextHeight
           /\ At(best, NextHeight) \in Blocks
           /\ Height(At(best, NextHeight)) = NextHeight
           /\ At(best, NextHeight) \in Ancestors(best)
           /\ Agreed \in Ancestors(At(best, NextHeight))
<1>1. best \in Blocks /\ Height(best) \in Nat
  BY BlockLength DEF NodeType
<1>2. scan.start \in Nat /\ scan.start <= Height(best)
  BY DEF ScanType, Scans
<1>3. Agreed \in Ancestors(best)
  BY AgreedBlock
<1>4. /\ Height(Agreed) \in Nat /\ Height(Agreed) <= Height(best)
      /\ Agreed = At(best, Height(Agreed))
  BY <1>1, <1>3, AncestorAt
<1>5. Height(Agreed) # Height(best)
  BY <1>1, <1>4, AtTop
<1>6. /\ NextHeight \in 0 .. Height(best) /\ Height(Agreed) < NextHeight
      /\ scan.start <= NextHeight
  BY <1>1, <1>2, <1>4, <1>5 DEF NextHeight
<1>7. /\ At(best, NextHeight) \in Blocks
      /\ Height(At(best, NextHeight)) = NextHeight
      /\ At(best, NextHeight) \in Ancestors(best)
  BY <1>1, <1>6, AtBlock, AtAncestor
<1>8. Agreed \in Ancestors(At(best, NextHeight))
  BY <1>1, <1>3, <1>4, <1>6, <1>7, AncestorChain
<1> QED
  BY <1>6, <1>7, <1>8

(* What EmitBlock does to the scan. *)
LEMMA Emits ==
    ASSUME NodeType, ScanType, EmitBlock
    PROVE  LET b == At(best, NextHeight) IN
           /\ scan.at = "emit" /\ Agreed # best
           /\ scan'.at = "emit" /\ scan'.start = scan.start
           /\ scan'.seen = (scan.seen \cap Ancestors(b)) \cup {b}
           /\ scan'.queue = Append(scan.queue, [block |-> b, on |-> Agreed])
           /\ scan' \in Scans
<1> DEFINE b == At(best, NextHeight)
           e == [block |-> b, on |-> Agreed]
<1>1. /\ scan.at = "emit" /\ Agreed # best
      /\ scan' = [scan EXCEPT !.seen = (@ \cap Ancestors(b)) \cup {b},
                              !.queue = Append(@, e)]
  BY DEF EmitBlock, NextHeight
<1>2. scan \in Scans
  BY DEF ScanType
<1>3. best \in Blocks /\ b \in Blocks /\ Agreed \in Blocks
  BY <1>1, NextBlock, AgreedBlock, AncestorsOf DEF NodeType
<1>4. e \in Emitted
  BY <1>3 DEF Emitted
<1> HIDE DEF b, e
<1>5. Append(scan.queue, e) \in Seq(Emitted)
  BY <1>2, <1>4 DEF Scans
<1>6. /\ scan'.at = "emit" /\ scan'.start = scan.start
      /\ scan'.seen = (scan.seen \cap Ancestors(b)) \cup {b}
      /\ scan'.queue = Append(scan.queue, e)
      /\ scan' \in Scans
  BY <1>1, <1>2, <1>3, <1>5 DEF Scans
<1> QED
  BY <1>1, <1>6 DEF b, e

(* What is left of a queue, and what a longer one has. *)
LEMMA QueueRest ==
    ASSUME NEW q \in Seq(Emitted), q # <<>>
    PROVE  /\ Len(q) \in Nat /\ 1 \in 1 .. Len(q) /\ Head(q) = q[1]
           /\ Head(q) \in Emitted
           /\ Tail(q) \in Seq(Emitted) /\ Len(Tail(q)) = Len(q) - 1
           /\ \A i \in 1 .. Len(Tail(q)) : i + 1 \in 1 .. Len(q) /\ Tail(q)[i] = q[i + 1]
<1>1. Len(q) \in Nat \ {0}
  BY EmptySeq
<1>2. /\ Head(q) \in Emitted /\ Tail(q) \in Seq(Emitted) /\ Len(Tail(q)) = Len(q) - 1
      /\ \A i \in 1 .. Len(Tail(q)) : Tail(q)[i] = q[i + 1]
  BY HeadTailProperties
<1> QED
  BY <1>1, <1>2

LEMMA QueueMore ==
    ASSUME NEW q \in Seq(Emitted), NEW e \in Emitted
    PROVE  /\ Len(q) \in Nat /\ Len(Append(q, e)) = Len(q) + 1
           /\ \A i \in 1 .. Len(q) : Append(q, e)[i] = q[i]
           /\ Append(q, e)[Len(q) + 1] = e
  BY AppendProperties, LenProperties

LEMMA TypeStep == TypeInv /\ [Next]_vars => TypeInv'
<1>1. SUFFICES ASSUME TypeInv, [Next]_vars PROVE TypeInv'
  OBVIOUS
<1>2. NodeType /\ MoverType /\ WalletType /\ PassType /\ ScanType
  BY <1>1 DEF TypeInv
<1>3. /\ best \in Blocks /\ ldk \in Blocks /\ pass \in Passes /\ scan \in Scans
      /\ state \in {"PendingInitialSync", "ListenersSynced", "Running"}
      /\ budget \in Budgets /\ budget \in [aborts : 0 .. MaxAborts,
             failures : 0 .. MaxFailures, restarts : 0 .. MaxRestarts]
  BY <1>2 DEF NodeType, MoverType, PassType, ScanType, Budgets
<1>4. Height(best) \in Nat
  BY <1>3, BlockLength
<1>5. ASSUME UNCHANGED nodeVars
      PROVE  /\ NodeType' /\ UNCHANGED best /\ best' \in Blocks
             /\ UNCHANGED walletVars => WalletType'
             /\ UNCHANGED pass => PassType'
             /\ UNCHANGED scan => ScanType'
             /\ UNCHANGED <<ldk, state, grace, budget>> => MoverType'
  BY <1>1, <1>3, <1>5, SameTypes DEF nodeVars
<1>6. CASE StartPass
  <2>1. UNCHANGED <<nodeVars, walletVars, ldk, state, grace, scan, budget>>
    BY <1>6 DEF StartPass
  <2>2. pass' \in Passes /\ pass'.at = "walk" /\ pass'.next = 0 /\ pass'.target = Genesis
    BY <1>2, <1>6, TipBlock, GenesisBlock DEF StartPass, NoPass, Passes
  <2> QED
    BY <1>5, <2>1, <2>2, NoPassType DEF TypeInv
<1>7. CASE WalkBack
  <2>1. UNCHANGED <<nodeVars, walletVars, state, grace, scan, budget>>
    BY <1>7 DEF WalkBack
  <2> DEFINE lf == Fork(ldk, best)
             wf == IF mode = "unified" THEN Height(Fork(pass.wallet, best)) ELSE Height(lf)
             low == IF wf < Height(lf) THEN wf ELSE Height(lf)
  <2>2. /\ lf \in Blocks /\ Height(lf) \in Nat /\ Height(lf) <= Height(best)
    BY <1>3, ForkOf, AncestorAt
  <2>3. pass.wallet \in Blocks
    BY <1>3 DEF Passes
  <2>4. Height(Fork(pass.wallet, best)) \in Nat
    BY <1>3, <2>3, ForkOf, BlockLength
  <2>5. wf \in Nat
    BY <2>2, <2>4
  <2>6. low \in Nat /\ low <= Height(best)
    <3> HIDE DEF lf, wf
    <3> QED
      BY <1>4, <2>2, <2>5
  <2>7. /\ ldk' = lf
        /\ pass' = [at |-> "connect", wallet |-> Genesis, target |-> best,
                    ldkFork |-> Height(lf), walletFork |-> wf, next |-> 1 + low,
                    failed |-> FALSE]
    BY <1>7 DEF WalkBack, NoPass
  <2> HIDE DEF lf, wf, low
  <2>8. /\ pass' \in Passes /\ pass'.next = 1 + low /\ pass'.target = best
    BY <1>3, <2>2, <2>5, <2>6, <2>7, GenesisBlock DEF Passes
  <2>9. PassType'
    BY <1>3, <1>4, <1>5, <2>1, <2>6, <2>8 DEF PassType
  <2>10. MoverType'
    BY <1>2, <2>1, <2>2, <2>7 DEF MoverType
  <2> QED
    BY <1>5, <2>1, <2>9, <2>10 DEF TypeInv
<1>8. CASE ConnectBlock
  <2> DEFINE b == At(pass.target, pass.next)
  <2>1. /\ UNCHANGED <<nodeVars, state, grace, scan>>
        /\ pass.at = "connect" /\ pass.next <= Height(pass.target)
        /\ ldk' = IF pass.next > pass.ldkFork THEN b ELSE ldk
    BY <1>8 DEF ConnectBlock
  <2>2. /\ pass.target \in Blocks /\ pass.next \in Nat
        /\ Height(pass.target) \in Nat /\ Height(pass.target) <= Height(best)
    BY <1>2, <1>3, BlockLength DEF Passes, PassType
  <2>3. pass.next \in 0 .. Height(pass.target)
    BY <2>1, <2>2
  <2>4. b \in Blocks /\ Height(b) <= Height(best) /\ Front(b) \in Ancestors(b)
    BY <1>4, <2>1, <2>2, <2>3, AtBlock, FrontAt
  <2>5. \/ pass' = [pass EXCEPT !.next = @ + 1]
        \/ pass' = [pass EXCEPT !.next = @ + 1, !.failed = TRUE]
    BY <1>8 DEF ConnectBlock
  <2>6. /\ pass' \in Passes /\ pass'.next = pass.next + 1 /\ pass'.target = pass.target
    <3>1. CASE pass' = [pass EXCEPT !.next = @ + 1]
      BY <1>3, <2>2, <3>1 DEF Passes
    <3>2. CASE pass' = [pass EXCEPT !.next = @ + 1, !.failed = TRUE]
      <4> DEFINE n == pass.next + 1
      <4>1. pass' = [pass EXCEPT !.next = n, !.failed = TRUE] /\ n \in Nat
        BY <2>2, <3>2
      <4> HIDE DEF n
      <4>2. pass' \in Passes /\ pass'.next = n /\ pass'.target = pass.target
        BY <1>3, <4>1 DEF Passes
      <4> QED
        BY <4>2 DEF n
    <3> QED
      BY <2>5, <3>1, <3>2
  <2>7. PassType'
    BY <1>5, <2>1, <2>2, <2>6 DEF PassType
  <2>8. WalletType' /\ budget' \in Budgets
    <3>1. CASE UNCHANGED <<walletVars, budget>>
      BY <1>3, <1>5, <2>1, <3>1
    <3>2. CASE ApplyOk(b, Front(b)) \/ ApplyFails(b, Front(b))
      <4> HIDE DEF b
      <4> QED
        BY <1>2, <1>3, <1>5, <2>1, <2>4, <3>2, ApplyTyped
    <3> QED
      BY <1>8, <3>1, <3>2 DEF ConnectBlock
  <2>9. MoverType'
    BY <1>2, <1>3, <2>1, <2>4, <2>8 DEF MoverType
  <2> QED
    BY <1>5, <2>1, <2>7, <2>8, <2>9 DEF TypeInv
<1>9. CASE FinishPass
  <2>1. /\ UNCHANGED <<nodeVars, walletVars, ldk, grace, scan, budget>>
        /\ pass' = [NoPass EXCEPT !.at = "synced"]
    BY <1>9 DEF FinishPass
  <2>2. state' \in {"PendingInitialSync", "ListenersSynced", "Running"}
    BY <1>3, <1>9 DEF FinishPass, MarkListenersSynced, MarkRunning
  <2>3. pass' \in Passes /\ pass'.at = "synced" /\ pass'.next = 0 /\ pass'.target = Genesis
    BY <2>1, GenesisBlock DEF NoPass, Passes
  <2>4. MoverType'
    BY <1>2, <2>1, <2>2 DEF MoverType
  <2> QED
    BY <1>5, <2>1, <2>3, <2>4, NoPassType DEF TypeInv
<1>10. CASE PollBestTip
  <2>1. /\ UNCHANGED <<nodeVars, walletVars, state, grace, pass, scan, budget>>
        /\ ldk' = best
    BY <1>10 DEF PollBestTip, Follow
  <2>2. MoverType'
    BY <1>2, <1>3, <2>1 DEF MoverType
  <2> QED
    BY <1>5, <2>1, <2>2 DEF TypeInv
<1>11. CASE AbortPass
  <2>1. /\ UNCHANGED <<nodeVars, walletVars, ldk, state, grace, scan>>
        /\ pass' = NoPass /\ budget.aborts > 0
        /\ budget' = [budget EXCEPT !.aborts = @ - 1]
    BY <1>11 DEF AbortPass
  <2>2. budget' \in Budgets
    BY <1>3, <2>1, BoundAssumption DEF Budgets
  <2>3. MoverType'
    BY <1>2, <2>1, <2>2 DEF MoverType
  <2>4. pass' \in Passes /\ pass'.at = "off" /\ pass'.next = 0 /\ pass'.target = Genesis
    BY <2>1, GenesisBlock DEF NoPass, Passes
  <2> QED
    BY <1>5, <2>1, <2>3, <2>4, NoPassType DEF TypeInv
<1>12. CASE StartScan
  <2>1. /\ UNCHANGED <<nodeVars, walletVars, ldk, state, grace, pass, budget>>
        /\ scan' = [at |-> "emit", seen |-> chk, start |-> Height(Tip), queue |-> <<>>]
    BY <1>12 DEF StartScan
  <2>2. /\ Height(Tip) \in Nat /\ Height(Tip) <= Height(best)
        /\ chk \in SUBSET Blocks /\ Genesis \in chk
    BY <1>2, TipBlock, BlockLength DEF WalletType, Under
  <2>3. <<>> \in Seq(Emitted) /\ Len(<<>>) = 0
    BY EmptySeq
  <2>4. ScanType'
    <3>1. scan' \in Scans
      BY <2>1, <2>2, <2>3 DEF Scans
    <3>2. scan'.seen = chk /\ scan'.start = Height(Tip) /\ scan'.queue = <<>>
      BY <2>1
    <3> QED
      BY <1>5, <2>1, <2>2, <2>3, <3>1, <3>2 DEF ScanType
  <2> QED
    BY <1>5, <2>1, <2>4 DEF TypeInv
<1>13. CASE EmitBlock
  <2> DEFINE b == At(best, NextHeight)
             e == [block |-> b, on |-> Agreed]
  <2>1. UNCHANGED <<nodeVars, walletVars, ldk, state, grace, pass, budget>>
    BY <1>13 DEF EmitBlock
  <2>2. /\ scan.at = "emit" /\ Agreed # best
        /\ scan'.at = "emit" /\ scan'.start = scan.start
        /\ scan'.seen = (scan.seen \cap Ancestors(b)) \cup {b}
        /\ scan'.queue = Append(scan.queue, e) /\ scan' \in Scans
    BY <1>2, <1>13, Emits
  <2>3. /\ b \in Blocks /\ Height(b) <= Height(best) /\ Agreed \in Ancestors(b)
    BY <1>2, <1>4, <2>2, NextBlock
  <2>4. e \in Emitted
    BY <2>3, AncestorsOf DEF Emitted
  <2>5. e.block = b /\ e.on = Agreed
    OBVIOUS
  <2>6. Genesis \in scan'.seen
    BY <1>2, <2>2, <2>3, AncestorEnds DEF ScanType
  <2>7. scan.queue \in Seq(Emitted)
    BY <1>3 DEF Scans
  <2> HIDE DEF b, e
  <2>8. /\ Len(scan.queue) \in Nat /\ Len(scan'.queue) = Len(scan.queue) + 1
        /\ \A i \in 1 .. Len(scan.queue) : scan'.queue[i] = scan.queue[i]
        /\ scan'.queue[Len(scan.queue) + 1] = e
    BY <2>2, <2>4, <2>7, QueueMore
  <2>9. ASSUME NEW i \in 1 .. Len(scan'.queue)
        PROVE  /\ Height(scan'.queue[i].block) <= Height(best')
               /\ scan'.queue[i].on \in Ancestors(scan'.queue[i].block)
    <3>1. CASE i \in 1 .. Len(scan.queue)
      BY <1>2, <1>5, <2>1, <2>8, <3>1 DEF ScanType
    <3>2. CASE i = Len(scan.queue) + 1
      BY <1>5, <2>1, <2>3, <2>5, <2>8, <3>2
    <3> QED
      BY <2>8, <3>1, <3>2
  <2>10. scan'.start <= Height(best')
    BY <1>2, <1>5, <2>1, <2>2 DEF ScanType
  <2>11. ScanType'
    BY <2>2, <2>6, <2>9, <2>10 DEF ScanType
  <2> QED
    BY <1>5, <2>1, <2>11 DEF TypeInv
<1>14. CASE EmitterEnds
  <2>1. /\ UNCHANGED <<nodeVars, walletVars, ldk, state, grace, pass>>
        /\ scan.at = "emit" /\ scan' = [scan EXCEPT !.at = scan'.at]
        /\ scan'.at \in {"ended", "failed"}
        /\ \/ UNCHANGED budget
           \/ budget.aborts > 0 /\ budget' = [budget EXCEPT !.aborts = @ - 1]
    BY <1>3, <1>14 DEF EmitterEnds, Scans
  <2>2. budget' \in Budgets
    BY <1>3, <2>1, BoundAssumption DEF Budgets
  <2>3. MoverType'
    BY <1>2, <2>1, <2>2 DEF MoverType
  <2>4. /\ scan' \in Scans /\ scan'.seen = scan.seen /\ scan'.start = scan.start
        /\ scan'.queue = scan.queue
    BY <1>3, <2>1 DEF Scans
  <2>5. ScanType'
    BY <1>2, <1>5, <2>1, <2>4 DEF ScanType
  <2> QED
    BY <1>5, <2>1, <2>3, <2>5 DEF TypeInv
<1>15. CASE ApplyEmitted
  <2> DEFINE e == Head(scan.queue)
  <2>1. /\ UNCHANGED <<nodeVars, ldk, state, grace, pass>>
        /\ scan.at # "idle" /\ scan.queue # <<>>
        /\ \/ ApplyOk(e.block, e.on) /\ scan' = [scan EXCEPT !.queue = Tail(@)]
           \/ ApplyFails(e.block, e.on) /\ scan' = NoScan
    BY <1>15 DEF ApplyEmitted
  <2>2. scan.queue \in Seq(Emitted)
    BY <1>3 DEF Scans
  <2>3. /\ Len(scan.queue) \in Nat /\ 1 \in 1 .. Len(scan.queue)
        /\ e = scan.queue[1] /\ e \in Emitted
        /\ Tail(scan.queue) \in Seq(Emitted)
        /\ \A i \in 1 .. Len(Tail(scan.queue)) :
              /\ i + 1 \in 1 .. Len(scan.queue)
              /\ Tail(scan.queue)[i] = scan.queue[i + 1]
    BY <2>1, <2>2, QueueRest
  <2> HIDE DEF e
  <2>4. /\ e.block \in Blocks /\ Height(e.block) <= Height(best)
        /\ e.on \in Ancestors(e.block)
    BY <1>2, <2>3 DEF ScanType, Emitted
  <2>5. WalletType' /\ budget' \in Budgets
    <3>1. UNCHANGED best
      BY <1>5, <2>1
    <3>2. ApplyOk(e.block, e.on) \/ ApplyFails(e.block, e.on)
      BY <2>1
    <3> QED
      BY <1>2, <1>3, <2>4, <3>1, <3>2, ApplyTyped
  <2>6. MoverType'
    BY <1>2, <2>1, <2>5 DEF MoverType
  <2>7. ScanType'
    <3>1. CASE scan' = NoScan
      BY <1>5, <2>1, <3>1, NoScanType
    <3>2. CASE scan' = [scan EXCEPT !.queue = Tail(@)]
      <4>1. /\ scan' \in Scans /\ scan'.seen = scan.seen /\ scan'.start = scan.start
            /\ scan'.queue = Tail(scan.queue)
        BY <1>3, <2>3, <3>2 DEF Scans
      <4>2. ASSUME NEW i \in 1 .. Len(scan'.queue)
            PROVE  /\ Height(scan'.queue[i].block) <= Height(best')
                   /\ scan'.queue[i].on \in Ancestors(scan'.queue[i].block)
        <5>1. i + 1 \in 1 .. Len(scan.queue) /\ scan'.queue[i] = scan.queue[i + 1]
          BY <2>3, <4>1
        <5> QED
          BY <1>2, <1>5, <2>1, <5>1 DEF ScanType
      <4> QED
        BY <1>2, <1>5, <2>1, <4>1, <4>2 DEF ScanType
    <3> QED
      BY <2>1, <3>1, <3>2
  <2> QED
    BY <1>5, <2>1, <2>5, <2>6, <2>7 DEF TypeInv
<1>16. CASE FinishScan
  <2>1. /\ UNCHANGED <<nodeVars, walletVars, ldk, grace, pass, budget>>
        /\ scan' = NoScan
        /\ state' \in {"PendingInitialSync", "ListenersSynced", "Running"}
    BY <1>3, <1>16 DEF FinishScan, MarkRunning
  <2>2. MoverType'
    BY <1>2, <2>1 DEF MoverType
  <2>3. ScanType'
    BY <1>5, <2>1, NoScanType
  <2> QED
    BY <1>5, <2>1, <2>2, <2>3 DEF TypeInv
<1>17. CASE GraceElapses
  <2>1. /\ UNCHANGED <<nodeVars, walletVars, ldk, state, pass, scan, budget>>
        /\ grace' = TRUE
    BY <1>17 DEF GraceElapses
  <2>2. MoverType'
    BY <1>2, <2>1 DEF MoverType
  <2> QED
    BY <1>5, <2>1, <2>2 DEF TypeInv
<1>18. CASE ChainGrows
  <2>1. /\ UNCHANGED <<mode, restored, since, born, walletVars, ldk, state, grace,
                       pass, scan, budget>>
        /\ best' \in Blocks /\ Height(best') = Height(best) + 1
        /\ lost' = lost \cup {At(best', h) : h \in Height(Fork(best', best)) + 1
                                                  .. Height(best) - 1}
    BY <1>18 DEF ChainGrows
  <2>2. UNCHANGED <<chk, scanned, disk, reached>>
    BY <2>1 DEF walletVars
  <2>3. \A b \in Blocks : Height(b) \in Nat
    BY BlockLength
  <2>4. NodeType'
    <3>1. Height(Fork(best', best)) \in Nat
      BY <1>3, <2>1, ForkOf, BlockLength
    <3>2. \A h \in Height(Fork(best', best)) + 1 .. Height(best) - 1 : At(best', h) \in Blocks
      BY <1>4, <2>1, <3>1, AtBlock
    <3> QED
      BY <1>2, <1>4, <2>1, <3>2 DEF NodeType
  <2>5. WalletType'
    <3>1. \A S \in SUBSET Blocks : Under(S) => Under(S)'
      BY <1>4, <2>1, <2>3 DEF Under
    <3>2. chk \in SUBSET Blocks /\ disk.chk \in SUBSET Blocks
      BY <1>2 DEF WalletType, Wallets
    <3>3. Under(chk)' /\ Under(disk.chk)'
      BY <1>2, <1>4, <2>1, <2>2, <2>3, <3>2 DEF WalletType, Under
    <3> QED
      BY <1>2, <2>2, <3>3 DEF WalletType
  <2>6. PassType'
    <3>1. Height(pass.target) \in Nat
      BY <1>3, <2>3 DEF Passes
    <3>2. Height(pass.target) <= Height(best')
      BY <1>2, <1>4, <2>1, <3>1 DEF PassType
    <3> QED
      BY <1>2, <2>1, <3>2 DEF PassType
  <2>7. ScanType'
    <3>1. scan.start \in Nat /\ scan.queue \in Seq(Emitted)
      BY <1>3 DEF Scans
    <3>2. \A i \in 1 .. Len(scan.queue) : scan.queue[i] \in Emitted
      BY <3>1, ElementOfSeq
    <3>3. \A i \in 1 .. Len(scan.queue) : Height(scan.queue[i].block) \in Nat
      BY <2>3, <3>2 DEF Emitted
    <3>4. \A i \in 1 .. Len(scan.queue) :
              /\ Height(scan.queue[i].block) <= Height(best')
              /\ scan.queue[i].on \in Ancestors(scan.queue[i].block)
      BY <1>2, <1>4, <2>1, <3>3 DEF ScanType
    <3>5. scan.start <= Height(best')
      BY <1>2, <1>4, <2>1, <3>1 DEF ScanType
    <3> QED
      BY <1>2, <2>1, <3>4, <3>5 DEF ScanType
  <2>8. MoverType'
    BY <1>2, <2>1 DEF MoverType
  <2> QED
    BY <2>4, <2>5, <2>6, <2>7, <2>8 DEF TypeInv
<1>19. CASE Restart
  <2>1. /\ UNCHANGED <<best, restored, born>>
        /\ budget.restarts > 0
        /\ budget' = [budget EXCEPT !.restarts = @ - 1]
        /\ mode' \in {"unified", "parallel", "legacy"}
        /\ chk' \in Listened(disk.chk)
        /\ scanned' = disk.scanned
        /\ disk' = [disk EXCEPT !.chk = chk']
        /\ ldk' \in Ancestors(ldk)
        /\ state' = "PendingInitialSync" /\ grace' = FALSE
        /\ pass' = NoPass /\ scan' = NoScan /\ since' = Height(best)
        /\ reached' \in BOOLEAN
        /\ lost' = lost \/ lost' = lost \cup Ancestors(best)
    BY <1>19 DEF Restart, Reaches
  <2>2. Height(best) <= MaxHeight /\ MaxHeight \in Nat
    BY <1>3, BlockLength, HeightAssumption
  <2>3. NodeType'
    BY <1>2, <1>3, <1>4, <2>1, <2>2, AncestorsOf DEF NodeType
  <2>4. MoverType'
    <3>1. budget' \in Budgets
      BY <1>3, <2>1, BoundAssumption DEF Budgets
    <3>2. ldk' \in Blocks
      BY <1>3, <2>1, AncestorAt
    <3> QED
      BY <2>1, <3>1, <3>2 DEF MoverType
  <2>5. WalletType'
    <3>1. chk' = disk.chk \/ chk' = disk.chk \cup {best}
      BY <2>1 DEF Listened
    <3>2. disk \in Wallets /\ Genesis \in disk.chk /\ Under(disk.chk)
      BY <1>2 DEF WalletType
    <3>3. /\ chk' \in SUBSET Blocks /\ Genesis \in chk'
          /\ \A b \in chk' : Height(b) <= Height(best')
      BY <1>3, <1>4, <2>1, <3>1, <3>2 DEF Wallets, Under
    <3>4. disk' \in Wallets /\ disk'.chk = chk' /\ disk'.scanned = disk.scanned
      BY <2>1, <3>2, <3>3 DEF Wallets
    <3> QED
      BY <2>1, <3>2, <3>3, <3>4 DEF WalletType, Wallets, Under
  <2>6. PassType'
    <3>1. pass' \in Passes /\ pass'.at = "off" /\ pass'.next = 0 /\ pass'.target = Genesis
      BY <2>1, GenesisBlock DEF NoPass, Passes
    <3> QED
      BY <1>3, <2>1, <3>1, NoPassType
  <2>7. ScanType'
    BY <1>3, <2>1, NoScanType
  <2> QED
    BY <2>3, <2>4, <2>5, <2>6, <2>7 DEF TypeInv
<1>20. CASE UNCHANGED vars
  BY <1>5, <1>20 DEF vars, TypeInv
<1> QED
  BY <1>1, <1>6, <1>7, <1>8, <1>9, <1>10, <1>11, <1>12, <1>13, <1>14, <1>15,
     <1>16, <1>17, <1>18, <1>19, <1>20 DEF Next, Pass, Scan

(* Every step keeps the types of the wallet, the pass, the scan and the    *)
(* coordinator: no block above the chain's best is connected or emitted.   *)
THEOREM TypeCorrect == Spec => []TypeOK
<1>1. Spec => []TypeInv
  BY InitTypes, TypeStep, PTL DEF Spec
<1> QED
  BY <1>1, TypeInvOK, PTL

-----------------------------------------------------------------------------
(* What the node holds of the chain.  A block near the best chain is on    *)
(* it, but perhaps for itself and for blocks that a deep reorg replaced.   *)
Near(b) ==
    /\ Height(b) <= Height(best)
    /\ \A h \in 0 .. Height(b) - 1 : At(b, h) = At(best, h) \/ At(best, h) \in lost

(* The blocks of S have their ancestors, from the wallet's birth on, in S, *)
(* and above it in T, if T is what the wallet has looked at; but for those *)
(* that are lost.                                                          *)
Dense(S) == \A b \in S : \A h \in born .. Height(b) : At(b, h) \in S \cup lost
Looked(S, T) == \A b \in S : \A h \in born + 1 .. Height(b) : At(b, h) \in T \cup lost
OneChain(S) == \A b, c \in S : Height(b) <= Height(c) => b \in Ancestors(c)

(* The checkpoints S of a wallet that has looked at T.                     *)
WalletSafe(S, T) ==
    /\ OneChain(S) /\ Dense(S) /\ Looked(S, T)
    /\ \A b \in S : Near(b)

(* A block to apply: unless a block was lost, it is on the best chain if   *)
(* it is lower than the chain was when the process started; and the blocks *)
(* between it and the one it connects to are lost, or older than the       *)
(* wallet.                                                                 *)
Settled(b) == Near(b) /\ (lost = {} /\ Height(b) < since => b \in Ancestors(best))
Connects(b, on) ==
    /\ on \in Ancestors(b) /\ Height(on) < Height(b)
    /\ \A h \in born .. Height(b) - 1 : Height(on) < h => At(b, h) \in lost

LEMMA NearBest == NodeType => Near(best)
<1>1. SUFFICES ASSUME NodeType PROVE Near(best)
  OBVIOUS
<1>2. Height(best) \in Nat
  BY <1>1, BlockLength DEF NodeType
<1> QED
  BY <1>2 DEF Near

LEMMA NearBelow ==
    ASSUME NodeType, NEW b \in Blocks, Near(b), NEW h \in 0 .. Height(b), h < Height(b),
           At(best, h) \notin lost
    PROVE  At(b, h) = At(best, h) /\ At(b, h) \in Ancestors(best)
<1>1. /\ Height(b) \in Nat /\ Height(best) \in Nat /\ best \in Blocks
      /\ Height(b) <= Height(best)
  BY BlockLength DEF NodeType, Near
<1>2. At(b, h) = At(best, h)
  BY <1>1 DEF Near
<1>3. h \in 0 .. Height(best)
  BY <1>1
<1> QED
  BY <1>1, <1>2, <1>3, AtAncestor

LEMMA NearAncestor ==
    ASSUME NodeType, NEW b \in Blocks, Near(b), NEW c \in Ancestors(b)
    PROVE  Near(c)
<1>1. /\ Height(b) \in Nat /\ Height(best) \in Nat
      /\ Height(b) <= Height(best)
  BY BlockLength DEF NodeType, Near
<1>2. /\ c \in Blocks /\ Height(c) \in Nat /\ Height(c) <= Height(b)
      /\ \A h \in 0 .. Height(c) : At(c, h) = At(b, h)
  BY AncestorAt
<1>3. ASSUME NEW h \in 0 .. Height(c) - 1
      PROVE  At(c, h) = At(best, h) \/ At(best, h) \in lost
  <2>1. h \in 0 .. Height(c) /\ h \in 0 .. Height(b) - 1
    BY <1>1, <1>2
  <2> QED
    BY <1>2, <2>1 DEF Near
<1> QED
  BY <1>1, <1>2, <1>3 DEF Near

LEMMA SettledAncestor ==
    ASSUME NodeType, NEW b \in Blocks, Near(b), Height(b) >= since,
           NEW h \in 0 .. Height(b)
    PROVE  Settled(At(b, h))
<1>1. At(b, h) \in Ancestors(b) /\ Height(At(b, h)) = h
  BY AtAncestor, AtBlock
<1>2. Near(At(b, h))
  BY <1>1, NearAncestor
<1>3. lost = {} /\ h < since => At(b, h) \in Ancestors(best)
  <2>1. since \in Nat /\ Height(b) \in Nat /\ h \in Nat
    BY BlockLength, HeightAssumption DEF NodeType
  <2> QED
    BY <2>1, NearBelow
<1> QED
  BY <1>1, <1>2, <1>3 DEF Settled

(* A reorg leaves what was below the last block, or what it puts there is  *)
(* lost.                                                                   *)
LEMMA GrowthKeeps ==
    ASSUME NodeType, ChainGrows
    PROVE  /\ best' \in Blocks /\ Height(best') = Height(best) + 1
           /\ UNCHANGED <<since, born>> /\ lost \subseteq lost'
           /\ \A h \in 0 .. Height(best) - 1 :
                 At(best', h) = At(best, h) \/ At(best', h) \in lost'
<1>1. PICK b \in Blocks : /\ Height(b) = Height(best) + 1
                          /\ best' = b
                          /\ lost' = lost \cup {At(b, h) : h \in Height(Fork(b, best)) + 1
                                                            .. Height(best) - 1}
  BY DEF ChainGrows
<1>2. best \in Blocks /\ Height(best) \in Nat
  BY BlockLength DEF NodeType
<1> DEFINE f == Fork(b, best)
<1>3. /\ f \in Ancestors(b) /\ f \in Ancestors(best)
      /\ lost' = lost \cup {At(b, h) : h \in Height(f) + 1 .. Height(best) - 1}
  BY <1>1, <1>2, ForkOf
<1> HIDE DEF f
<1>4. /\ Height(f) \in Nat
      /\ \A h \in 0 .. Height(f) : At(f, h) = At(b, h)
      /\ \A h \in 0 .. Height(f) : At(f, h) = At(best, h)
  BY <1>2, <1>3, AncestorAt
<1>5. ASSUME NEW h \in 0 .. Height(best) - 1
      PROVE  At(b, h) = At(best, h) \/ At(b, h) \in lost'
  <2>1. CASE h <= Height(f)
    <3>1. h \in 0 .. Height(f)
      BY <1>2, <1>4, <2>1
    <3> QED
      BY <1>4, <3>1
  <2>2. CASE h > Height(f)
    <3>1. h \in Height(f) + 1 .. Height(best) - 1
      BY <1>2, <1>4, <2>2
    <3> QED
      BY <1>3, <3>1
  <2> QED
    BY <1>2, <1>4, <2>1, <2>2
<1>6. UNCHANGED <<since, born>>
  BY DEF ChainGrows
<1> QED
  BY <1>1, <1>5, <1>6

LEMMA NearGrows ==
    ASSUME NodeType, ChainGrows, NEW b \in Blocks
    PROVE  (Near(b) => Near(b)') /\ (Settled(b) => Settled(b)')
<1>1. /\ best' \in Blocks /\ Height(best') = Height(best) + 1
      /\ UNCHANGED <<since, born>> /\ lost \subseteq lost'
      /\ \A h \in 0 .. Height(best) - 1 :
            At(best', h) = At(best, h) \/ At(best', h) \in lost'
  BY GrowthKeeps
<1>2. /\ best \in Blocks /\ Height(best) \in Nat /\ Height(b) \in Nat
      /\ since \in Nat /\ since <= Height(best)
  BY BlockLength, HeightAssumption DEF NodeType
<1>3. ASSUME Near(b) PROVE Near(b)'
  <2>1. Height(b) <= Height(best)
    BY <1>3 DEF Near
  <2>2. ASSUME NEW h \in 0 .. Height(b) - 1
        PROVE  At(b, h) = At(best', h) \/ At(best', h) \in lost'
    <3>1. h \in 0 .. Height(best) - 1
      BY <1>2, <2>1
    <3>2. At(b, h) = At(best, h) \/ At(best, h) \in lost
      BY <1>3 DEF Near
    <3> QED
      BY <1>1, <3>1, <3>2
  <2> QED
    BY <1>1, <1>2, <2>1, <2>2 DEF Near
<1>4. ASSUME Settled(b) PROVE Settled(b)'
  <2>1. Near(b)'
    BY <1>3, <1>4 DEF Settled
  <2>2. ASSUME lost' = {}, Height(b) < since PROVE b \in Ancestors(best')
    <3>1. b \in Ancestors(best)
      BY <1>1, <1>4, <2>2 DEF Settled
    <3>2. b = At(best, Height(b))
      BY <1>2, <3>1, AncestorAt
    <3>3. Height(b) \in 0 .. Height(best) - 1
      BY <1>2, <2>2
    <3>4. b = At(best', Height(b))
      BY <1>1, <2>2, <3>2, <3>3
    <3>5. Height(b) <= Height(best')
      BY <1>1, <1>2, <3>3
    <3> QED
      BY <1>1, <3>4, <3>5, AncestorsOf
  <2> QED
    BY <1>1, <2>1, <2>2 DEF Settled
<1> QED
  BY <1>3, <1>4

(* BDK refuses a block that lies below a checkpoint of its own chain and   *)
(* is none of the checkpoints: the wallet is never moved back that way.    *)
LEMMA NoRewind ==
    ASSUME chk \in SUBSET Blocks, Genesis \in chk, OneChain(chk),
           NEW b \in Blocks, NEW on \in Ancestors(b), b \notin chk,
           NEW c \in chk, b \in Ancestors(c)
    PROVE  ~Merges(b, on)
<1> DEFINE S == chk \cap Ancestors(b)
           agreed == Highest(S)
           above == {d \in chk : Height(d) > Height(agreed)}
<1>1. S \in SUBSET Blocks /\ S # {}
  BY AncestorEnds
<1>2. agreed \in S /\ \A d \in S : Height(d) <= Height(agreed)
  <2> HIDE DEF S
  <2> QED
    BY <1>1, HighestBlock
<1>3. /\ agreed \in Blocks /\ Height(agreed) \in Nat /\ Height(agreed) <= Height(b)
      /\ Height(b) \in Nat /\ c \in Blocks /\ Height(c) \in Nat /\ Height(b) <= Height(c)
  BY <1>2, AncestorAt, BlockLength
<1>4. Height(b) # Height(c)
  <2>1. b = At(c, Height(b))
    BY <1>3, AncestorAt
  <2>2. c = At(c, Height(c))
    BY <1>3, AtTop
  <2> QED
    BY <2>1, <2>2
<1>5. c \in above
  BY <1>3, <1>4
<1>6. above \in SUBSET Blocks /\ above # {}
  BY <1>5
<1>7. PICK d \in above : \A e \in above : Height(d) <= Height(e)
  <2> HIDE DEF above
  <2> QED
    BY <1>6, LowestBlock
<1>8. ASSUME Merges(b, on) PROVE FALSE
  <2>1. PICK u \in Update(b, on) : Height(u) = Height(d)
    BY <1>7, <1>8 DEF Merges
  <2>2. u \in Ancestors(b)
    BY <2>1, AncestorEnds, FrontAt DEF Update
  <2>3. Height(d) \in Nat /\ Height(d) <= Height(b) /\ d \in Blocks
    BY <2>1, <2>2, AncestorAt
  <2>4. d \in Ancestors(c)
    BY <1>3, <2>3, <1>7 DEF OneChain
  <2>5. d \in Ancestors(b)
    BY <1>3, <2>3, <2>4, AncestorChain
  <2>6. Height(d) <= Height(agreed)
    BY <1>2, <1>7, <2>5
  <2> QED
    BY <1>3, <1>7, <2>3, <2>6
<1> QED
  BY <1>8

(* What a merge makes of the checkpoints: what is kept of them goes up to  *)
(* a block between which and the new one every block is lost.              *)
LEMMA MergedIs ==
    ASSUME NodeType, chk \in SUBSET Blocks, Genesis \in chk,
           NEW b \in Blocks, NEW on, Connects(b, on), Merges(b, on), b \notin chk
    PROVE  /\ Merged(b, on) = (chk \cap Ancestors(b)) \cup {b, Front(b), on}
           /\ \E a \in chk \cap Ancestors(b) :
                 \A h \in born .. Height(b) - 1 : Height(a) < h => At(b, h) \in lost
<1> DEFINE S == chk \cap Ancestors(b)
           agreed == Highest(S)
<1>1. S \in SUBSET Blocks /\ S # {}
  BY AncestorEnds
<1>2. agreed \in S
  <2> HIDE DEF S
  <2> QED
    BY <1>1, HighestBlock
<1>3. agreed \in {b, Front(b), on}
  BY DEF Merges, Update
<1> HIDE DEF agreed
<1>4. ASSUME NEW h \in born .. Height(b) - 1, Height(agreed) < h
      PROVE  At(b, h) \in lost
  <2>1. CASE agreed = on
    BY <1>4, <2>1 DEF Connects
  <2>2. CASE agreed = Front(b)
    <3>1. /\ on \in Ancestors(b) /\ Height(on) < Height(b) /\ Height(b) \in Nat
          /\ Height(on) \in Nat /\ born \in Nat
      BY AncestorAt, BlockLength, HeightAssumption DEF Connects, NodeType
    <3>2. Height(Front(b)) = Height(b) - 1
      BY <3>1, FrontAt
    <3> QED
      BY <1>4, <2>2, <3>1, <3>2
  <2> QED
    BY <1>2, <1>3, <2>1, <2>2
<1> QED
  BY <1>2, <1>4 DEF Merged, Update

(* A block that merges keeps the wallet on one chain, without a gap but    *)
(* for what is lost.                                                       *)
LEMMA MergeSafe ==
    ASSUME NodeType, chk \in SUBSET Blocks, Genesis \in chk,
           WalletSafe(chk, scanned), NEW b \in Blocks, NEW on, Near(b),
           Connects(b, on), Merges(b, on)
    PROVE  /\ WalletSafe(Merged(b, on), scanned \cup {b})
           /\ b \in Merged(b, on)
<1> DEFINE M == Merged(b, on)
           T == scanned \cup {b}
           F == Front(b)
<1>1. /\ OneChain(chk) /\ Dense(chk) /\ Looked(chk, scanned)
      /\ \A c \in chk : Near(c)
  BY DEF WalletSafe
<1>2. born \in Nat /\ Height(b) \in Nat
  BY BlockLength, HeightAssumption DEF NodeType
<1>3. /\ on \in Ancestors(b) /\ F \in Ancestors(b) /\ b \in Ancestors(b)
  BY AncestorEnds, FrontAt DEF Connects
<1>4. \A c \in Ancestors(b) : /\ c \in Blocks /\ Near(c)
                              /\ Height(c) \in Nat /\ Height(c) <= Height(b)
                              /\ \A h \in 0 .. Height(c) : At(c, h) = At(b, h)
  BY NearAncestor, AncestorAt
<1>5. /\ \A h \in 0 .. Height(b) : At(b, h) \in Ancestors(b)
      /\ At(b, Height(b)) = b
  BY AtAncestor, AtTop
<1>6. ASSUME NEW N \in SUBSET (chk \cup Ancestors(b)),
             \A c \in N : c \in chk => \A h \in born .. Height(c) : At(c, h) \in N \cup lost,
             \A h \in born .. Height(b) : At(b, h) \in N \cup lost,
             \A h \in born + 1 .. Height(b) : At(b, h) \in T \cup lost
      PROVE  Dense(N) /\ Looked(N, T) /\ \A c \in N : Near(c)
  <2>1. ASSUME NEW c \in N, c \in Ancestors(b), NEW h \in born .. Height(c)
        PROVE  h \in 0 .. Height(c) /\ h \in born .. Height(b) /\ At(c, h) = At(b, h)
    <3>1. h \in 0 .. Height(c) /\ h \in born .. Height(b)
      BY <1>2, <1>4, <2>1
    <3> QED
      BY <1>4, <2>1, <3>1
  <2>2. Dense(N)
    <3>1. SUFFICES ASSUME NEW c \in N, NEW h \in born .. Height(c)
                   PROVE  At(c, h) \in N \cup lost
      BY DEF Dense
    <3>2. CASE c \in chk
      BY <1>6, <3>1, <3>2
    <3>3. CASE c \in Ancestors(b)
      BY <1>6, <2>1, <3>1, <3>3
    <3> QED
      BY <3>2, <3>3
  <2>3. Looked(N, T)
    <3>1. SUFFICES ASSUME NEW c \in N, NEW h \in born + 1 .. Height(c)
                   PROVE  At(c, h) \in T \cup lost
      BY DEF Looked
    <3>2. CASE c \in chk
      BY <1>1, <3>1, <3>2 DEF Looked
    <3>3. CASE c \in Ancestors(b)
      <4>1. h \in born .. Height(c)
        BY <1>2, <3>1
      <4>2. h \in born + 1 .. Height(b) /\ At(c, h) = At(b, h)
        BY <1>2, <2>1, <3>1, <3>3, <4>1
      <4> QED
        BY <1>6, <4>2
    <3> QED
      BY <3>2, <3>3
  <2> QED
    BY <1>1, <1>4, <2>2, <2>3
<1> HIDE DEF F
<1>7. CASE b \in chk
  <2>1. M = chk \cup {b, F, on}
    BY <1>7 DEF Merged, Update, F
  <2>2. M \in SUBSET (chk \cup Ancestors(b)) /\ chk \subseteq M /\ b \in M
    BY <1>3, <2>1
  <2> HIDE DEF M
  <2>3. OneChain(M)
    <3>1. SUFFICES ASSUME NEW c \in M, NEW d \in M, Height(c) <= Height(d)
                   PROVE  c \in Ancestors(d)
      BY DEF OneChain
    <3>2. /\ c \in Blocks /\ d \in Blocks /\ Height(c) \in Nat /\ Height(d) \in Nat
      BY <1>4, <2>2, BlockLength
    <3>3. CASE c \in chk /\ d \in chk
      BY <1>1, <3>1, <3>3 DEF OneChain
    <3>4. CASE c \in Ancestors(b) /\ d \in Ancestors(b)
      BY <3>1, <3>4, AncestorChain
    <3>5. CASE c \in chk /\ d \in Ancestors(b)
      <4>1. Height(c) <= Height(b)
        BY <1>2, <1>4, <3>1, <3>2, <3>5
      <4>2. c \in Ancestors(b)
        BY <1>1, <1>7, <3>5, <4>1 DEF OneChain
      <4> QED
        BY <3>1, <3>5, <4>2, AncestorChain
    <3>6. CASE c \in Ancestors(b) /\ d \in chk
      <4>1. CASE Height(d) <= Height(b)
        <5>1. d \in Ancestors(b)
          BY <1>1, <1>7, <3>6, <4>1 DEF OneChain
        <5> QED
          BY <3>1, <3>6, <5>1, AncestorChain
      <4>2. CASE Height(b) <= Height(d)
        <5>1. b \in Ancestors(d)
          BY <1>1, <1>7, <3>6, <4>2 DEF OneChain
        <5> QED
          BY <3>2, <3>6, <5>1, AncestorTrans
      <4> QED
        BY <1>2, <3>2, <4>1, <4>2
    <3> QED
      BY <2>2, <3>3, <3>4, <3>5, <3>6
  <2>4. Dense(M) /\ Looked(M, T) /\ \A c \in M : Near(c)
    <3>1. \A c \in chk : \A h \in born .. Height(c) : At(c, h) \in M \cup lost
      BY <1>1, <2>2 DEF Dense
    <3>2. \A h \in born + 1 .. Height(b) : At(b, h) \in T \cup lost
      BY <1>1, <1>7 DEF Looked
    <3> QED
      BY <1>6, <1>7, <2>2, <3>1, <3>2
  <2> QED
    BY <2>2, <2>3, <2>4 DEF WalletSafe, M
<1>8. CASE b \notin chk
  <2>1. /\ M = (chk \cap Ancestors(b)) \cup {b, F, on}
        /\ \E a \in chk \cap Ancestors(b) :
              \A h \in born .. Height(b) - 1 : Height(a) < h => At(b, h) \in lost
    BY <1>8, MergedIs DEF F
  <2>2. PICK a \in chk \cap Ancestors(b) :
              \A h \in born .. Height(b) - 1 : Height(a) < h => At(b, h) \in lost
    BY <2>1
  <2>3. M \in SUBSET Ancestors(b) /\ chk \cap Ancestors(b) \subseteq M /\ b \in M
    BY <1>3, <2>1
  <2> HIDE DEF M
  <2>4. OneChain(M)
    BY <2>3, AncestorChain DEF OneChain
  <2>5. /\ Height(a) \in Nat /\ Height(a) <= Height(b) /\ a \in Blocks
        /\ \A h \in 0 .. Height(a) : At(a, h) = At(b, h)
    BY <1>4, <2>2
  <2>6. ASSUME NEW h \in born .. Height(b)
        PROVE  /\ At(b, h) \in M \cup lost
               /\ h > born => At(b, h) \in T \cup lost
    <3>1. CASE h = Height(b)
      BY <1>5, <2>3, <3>1
    <3>2. CASE h < Height(b) /\ Height(a) < h
      <4>1. h \in born .. Height(b) - 1
        BY <1>2, <3>2
      <4> QED
        BY <2>2, <3>2, <4>1
    <3>3. CASE h <= Height(a)
      <4>1. /\ h \in born .. Height(a) /\ h \in 0 .. Height(a) /\ h \in 0 .. Height(b)
            /\ h > born => h \in born + 1 .. Height(a)
        BY <1>2, <2>5, <3>3
      <4>2. At(a, h) = At(b, h) /\ At(b, h) \in Ancestors(b)
        BY <1>5, <2>5, <4>1
      <4>3. At(a, h) \in chk \cup lost
        BY <1>1, <2>2, <4>1 DEF Dense
      <4>4. h > born => At(a, h) \in scanned \cup lost
        BY <1>1, <2>2, <4>1 DEF Looked
      <4> QED
        BY <2>3, <4>2, <4>3, <4>4
    <3> QED
      BY <1>2, <2>5, <3>1, <3>2, <3>3
  <2>7. Dense(M) /\ Looked(M, T) /\ \A c \in M : Near(c)
    <3>1. ASSUME NEW c \in M, NEW h \in born .. Height(c)
          PROVE  At(c, h) \in M \cup lost
      <4>1. h \in 0 .. Height(c) /\ h \in born .. Height(b)
        BY <1>2, <1>4, <2>3
      <4>2. At(c, h) = At(b, h)
        BY <1>4, <2>3, <4>1
      <4> QED
        BY <2>6, <4>1, <4>2
    <3>2. ASSUME NEW h \in born + 1 .. Height(b)
          PROVE  At(b, h) \in T \cup lost
      <4>1. h \in born .. Height(b) /\ h > born
        BY <1>2
      <4> QED
        BY <2>6, <4>1
    <3> QED
      BY <1>6, <2>3, <2>6, <3>1, <3>2
  <2> QED
    BY <2>3, <2>4, <2>7 DEF WalletSafe, M
<1> QED
  BY <1>7, <1>8

(* Where no block is lost, it does not take the wallet back below where it *)
(* has been.                                                               *)
LEMMA MergeReaches ==
    ASSUME NodeType, chk \in SUBSET Blocks, Genesis \in chk, lost = {},
           WalletSafe(chk, scanned), NEW b \in Blocks, NEW on, Settled(b),
           on \in Ancestors(b), Merges(b, on), Reaches(chk, since)
    PROVE  Reaches(Merged(b, on), since)
<1>1. OneChain(chk) /\ \A c \in chk : Near(c)
  BY DEF WalletSafe
<1>2. since \in Nat /\ best \in Blocks /\ Height(b) \in Nat
  BY BlockLength, HeightAssumption DEF NodeType
<1>3. CASE b \in chk
  BY <1>3 DEF Merged, Reaches
<1>4. CASE b \notin chk /\ Height(b) >= since
  BY <1>4 DEF Merged, Update, Reaches
<1>5. CASE b \notin chk /\ Height(b) < since
  <2>1. PICK c \in chk : Height(c) >= since
    BY DEF Reaches
  <2>2. c \in Blocks /\ Height(c) \in Nat /\ Near(c)
    BY <1>1, <2>1, BlockLength
  <2>3. Height(b) < Height(c) /\ Height(b) \in 0 .. Height(c)
    BY <1>2, <1>5, <2>1, <2>2
  <2>4. b = At(best, Height(b))
    BY <1>2, <1>5, AncestorAt DEF Settled
  <2>5. At(c, Height(b)) = At(best, Height(b))
    BY <2>2, <2>3, NearBelow
  <2>6. b \in Ancestors(c)
    BY <2>2, <2>3, <2>4, <2>5, AtAncestor
  <2> QED
    BY <1>1, <1>5, <2>1, <2>6, NoRewind
<1> QED
  BY <1>2, <1>3, <1>4, <1>5

-----------------------------------------------------------------------------
(* The scan: what the emitter has seen is as safe as a wallet, what it has *)
(* sent can be applied in order, and the wallet will be where the emitter  *)
(* is once all of it is.                                                   *)
Awaits(h) == \E i \in 1 .. Len(scan.queue) : Height(scan.queue[i].block) >= h

ScanSafe ==
    scan.at # "idle" =>
        /\ \A b \in scan.seen : Near(b)
        /\ Dense(scan.seen) /\ Reaches(scan.seen, scan.start)
        /\ \A i \in 1 .. Len(scan.queue) :
              /\ Settled(scan.queue[i].block)
              /\ Connects(scan.queue[i].block, scan.queue[i].on)
        /\ Reaches(scan.seen, since) => reached \/ Awaits(since)
        /\ scan.at = "ended" => Reaches(scan.seen, since)

(* The pass: it connects blocks up to one that is high enough, and whoever *)
(* is not given the last of them has been there already.                   *)
PassSafe ==
    /\ pass.at = "walk" /\ mode = "unified" /\ Height(pass.wallet) >= since => reached
    /\ pass.at = "connect" =>
           /\ Near(pass.target) /\ Height(pass.target) >= since
           /\ mode = "unified" /\ pass.walletFork >= Height(pass.target) => reached
           /\ mode = "unified" /\ ~pass.failed /\ pass.next > Height(pass.target)
                  => reached
           /\ pass.ldkFork >= Height(pass.target) \/ pass.next > Height(pass.target)
                  => Height(ldk) >= Height(pass.target)

(* The coordinator's word is kept for the rest of the process.             *)
StateSafe ==
    /\ state # "PendingInitialSync" => pass.at = "synced" /\ Height(ldk) >= since
    /\ state = "Running" => reached

(* A wallet that has been where the chain was is still there, unless a     *)
(* block was lost.                                                         *)
ReachSafe ==
    /\ Reaches(chk, since) => reached
    /\ lost = {} /\ reached => Reaches(chk, since)

SafeInv ==
    /\ TypeInv
    /\ WalletSafe(chk, scanned) /\ WalletSafe(disk.chk, disk.scanned)
    /\ ScanSafe /\ PassSafe /\ StateSafe /\ ReachSafe

(* A wallet that has jumped to the tip, at its birth or over blocks L that *)
(* are lost then.                                                          *)
LEMMA JumpedSafe ==
    ASSUME NodeType, NEW T, NEW L, born = Height(best) \/ Ancestors(best) \subseteq L
    PROVE  LET S == {Genesis, best} IN
           /\ OneChain(S)
           /\ \A b \in S : /\ Height(b) <= Height(best)
                           /\ \A h \in 0 .. Height(b) - 1 : At(b, h) = At(best, h)
                           /\ \A h \in born .. Height(b) : At(b, h) \in S \cup L
                           /\ \A h \in born + 1 .. Height(b) : At(b, h) \in T \cup L
<1>1. best \in Blocks /\ Height(best) \in Nat /\ born \in Nat
  BY BlockLength, HeightAssumption DEF NodeType
<1>2. Genesis \in Blocks /\ Height(Genesis) = 0
  BY GenesisBlock
<1>3. /\ Height(Genesis) <= Height(best)
      /\ \A h \in 0 .. Height(Genesis) - 1 : At(Genesis, h) = At(best, h)
  BY <1>1, <1>2
<1>4. At(Genesis, 0) = Genesis /\ At(best, Height(best)) = best
  BY <1>1, <1>2, AtTop
<1>5. Genesis \in Ancestors(Genesis) /\ Genesis \in Ancestors(best) /\ best \in Ancestors(best)
  BY <1>1, <1>2, AncestorEnds
<1>6. Height(best) = 0 => best = Genesis
  BY <1>1, GenesisBlock
<1> DEFINE S == {Genesis, best}
<1>7. OneChain(S)
  BY <1>1, <1>2, <1>5, <1>6 DEF OneChain
<1>8. ASSUME NEW h \in born .. Height(best)
      PROVE  At(best, h) \in S \cup L /\ (h > born => At(best, h) \in T \cup L)
  <2>1. At(best, h) \in Ancestors(best)
    BY <1>1, AtAncestor
  <2>2. born = Height(best) => h = Height(best) /\ ~(h > born)
    BY <1>1
  <2> QED
    BY <1>4, <2>1, <2>2
<1>9. /\ \A h \in born .. Height(Genesis) : At(Genesis, h) \in S
      /\ \A h \in born + 1 .. Height(Genesis) : FALSE
  <2>1. \A h \in born .. Height(Genesis) : h = 0
    BY <1>1, <1>2
  <2> QED
    BY <1>1, <1>2, <1>4, <2>1
<1>10. \A h \in born + 1 .. Height(best) : h \in born .. Height(best) /\ h > born
  BY <1>1
<1> QED
  BY <1>1, <1>3, <1>7, <1>8, <1>9, <1>10

(* A wallet that has only genesis. *)
LEMMA FreshSafe ==
    ASSUME NodeType, NEW T
    PROVE  WalletSafe({Genesis}, T)
<1>1. /\ Genesis \in Blocks /\ Height(Genesis) = 0 /\ born \in Nat
      /\ best \in Blocks /\ Height(best) \in Nat
  BY GenesisBlock, BlockLength, HeightAssumption DEF NodeType
<1>2. Near(Genesis)
  BY <1>1 DEF Near
<1>3. At(Genesis, 0) = Genesis /\ Genesis \in Ancestors(Genesis)
  BY <1>1, AtTop, AncestorEnds
<1>4. /\ \A h \in born .. Height(Genesis) : h = 0
      /\ \A h \in born + 1 .. Height(Genesis) : FALSE
  BY <1>1
<1> QED
  BY <1>2, <1>3, <1>4 DEF WalletSafe, OneChain, Dense, Looked

LEMMA InitSafe ==
    ASSUME Init PROVE SafeInv
<1>1. TypeInv /\ NodeType
  BY InitTypes DEF TypeInv
<1>2. /\ chk = {Genesis} \/ (chk = {Genesis, best} /\ ~restored)
      /\ scanned = {} /\ disk.chk = chk /\ disk.scanned = {}
      /\ ~restored => born = Height(best)
      /\ scan.at = "idle" /\ pass.at = "off" /\ state = "PendingInitialSync"
      /\ reached = Reaches(chk, since)
  BY DEF Init, Listened, NoScan, NoPass
<1>3. WalletSafe(chk, {})
  <2>1. CASE chk = {Genesis}
    BY <1>1, <2>1, FreshSafe
  <2>2. CASE chk = {Genesis, best} /\ born = Height(best)
    <3>1. /\ OneChain(chk)
          /\ \A b \in chk : /\ Height(b) <= Height(best)
                            /\ \A h \in 0 .. Height(b) - 1 : At(b, h) = At(best, h)
                            /\ \A h \in born .. Height(b) : At(b, h) \in chk \cup lost
                            /\ \A h \in born + 1 .. Height(b) : At(b, h) \in {} \cup lost
      BY <1>1, <2>2, JumpedSafe, Zenon
    <3>2. Dense(chk) /\ Looked(chk, {}) /\ \A b \in chk : Near(b)
      <4>1. \A b \in chk : Near(b)
        BY <3>1 DEF Near
      <4>2. Dense(chk)
        BY <3>1 DEF Dense
      <4>3. Looked(chk, {})
        BY <3>1 DEF Looked
      <4> QED
        BY <4>1, <4>2, <4>3
    <3> QED
      BY <3>1, <3>2 DEF WalletSafe
  <2> QED
    BY <1>2, <2>1, <2>2
<1>4. ScanSafe /\ PassSafe /\ StateSafe /\ ReachSafe
  BY <1>2 DEF ScanSafe, PassSafe, StateSafe, ReachSafe
<1> QED
  BY <1>1, <1>2, <1>3, <1>4 DEF SafeInv

(* What a step leaves alone stays safe. *)
LEMMA SameSafe ==
    ASSUME SafeInv, UNCHANGED nodeVars, reached => reached'
    PROVE  /\ UNCHANGED walletVars
                => /\ WalletSafe(chk, scanned)' /\ WalletSafe(disk.chk, disk.scanned)'
                   /\ ReachSafe'
           /\ UNCHANGED scan => ScanSafe'
           /\ UNCHANGED <<pass, ldk>> => PassSafe'
           /\ UNCHANGED <<state, pass, ldk>> => StateSafe'
<1>1. UNCHANGED <<best, mode, restored, since, born, lost>>
  BY DEF nodeVars
<1>2. ASSUME UNCHANGED walletVars
      PROVE  /\ WalletSafe(chk, scanned)' /\ WalletSafe(disk.chk, disk.scanned)'
             /\ ReachSafe'
  BY <1>1, <1>2
     DEF SafeInv, WalletSafe, OneChain, Dense, Looked, Reaches, Near, ReachSafe, walletVars
<1>3. ASSUME UNCHANGED scan PROVE ScanSafe'
  <2>1. /\ \A b : Near(b)' <=> Near(b)
        /\ \A b : Settled(b)' <=> Settled(b)
        /\ \A b, c : Connects(b, c)' <=> Connects(b, c)
        /\ Dense(scan.seen)' <=> Dense(scan.seen)
        /\ Reaches(scan.seen, scan.start)' <=> Reaches(scan.seen, scan.start)
        /\ Reaches(scan.seen, since)' <=> Reaches(scan.seen, since)
        /\ Awaits(since)' <=> Awaits(since)
    BY <1>1, <1>3 DEF Near, Settled, Connects, Dense, Reaches, Awaits
  <2>2. ScanSafe
    BY DEF SafeInv
  <2> QED
    BY <1>1, <1>3, <2>1, <2>2 DEF ScanSafe
<1>4. ASSUME UNCHANGED <<pass, ldk>> PROVE PassSafe'
  <2>1. Near(pass.target)' <=> Near(pass.target)
    BY <1>1, <1>4 DEF Near
  <2> QED
    BY <1>1, <1>4, <2>1 DEF SafeInv, PassSafe
<1>5. ASSUME UNCHANGED <<state, pass, ldk>> PROVE StateSafe'
  BY <1>1, <1>5 DEF SafeInv, StateSafe
<1> QED
  BY <1>2, <1>3, <1>4, <1>5

(* A block applied, or not: the wallet and its database are safe after it. *)
LEMMA ApplySafe ==
    ASSUME SafeInv, UNCHANGED nodeVars,
           NEW b \in Blocks, NEW on, Settled(b), Connects(b, on),
           ApplyOk(b, on) \/ ApplyFails(b, on)
    PROVE  /\ WalletSafe(chk, scanned)' /\ WalletSafe(disk.chk, disk.scanned)'
           /\ ReachSafe' /\ (reached => reached')
           /\ ApplyOk(b, on) => (Height(b) >= since => reached')
<1>1. UNCHANGED <<best, mode, restored, since, born, lost>>
  BY DEF nodeVars
<1>2. /\ NodeType /\ chk \in SUBSET Blocks /\ Genesis \in chk /\ ReachSafe
      /\ WalletSafe(chk, scanned) /\ WalletSafe(disk.chk, disk.scanned)
  BY DEF SafeInv, TypeInv, WalletType
<1>3. CASE ~Merges(b, on)
  <2>1. UNCHANGED walletVars /\ ~ApplyOk(b, on)
    BY <1>3 DEF ApplyOk, ApplyFails
  <2>2. UNCHANGED <<chk, scanned, disk, reached>>
    BY <2>1 DEF walletVars
  <2> QED
    BY <2>1, <2>2, SameSafe
<1>4. CASE Merges(b, on)
  <2>1. /\ chk' = Merged(b, on) /\ scanned' = scanned \cup {b}
        /\ reached' = (reached \/ Reaches(chk', since))
        /\ \/ disk'.chk = chk' /\ disk'.scanned = scanned'
           \/ UNCHANGED disk
    BY <1>4 DEF ApplyOk, ApplyFails
  <2>2. WalletSafe(chk', scanned') /\ b \in chk'
    BY <1>2, <1>4, <2>1, MergeSafe DEF Settled
  <2>3. WalletSafe(disk'.chk, disk'.scanned)
    BY <1>2, <2>1, <2>2
  <2>4. WalletSafe(chk, scanned)' /\ WalletSafe(disk.chk, disk.scanned)'
    BY <1>1, <2>2, <2>3 DEF WalletSafe, OneChain, Dense, Looked, Near
  <2>5. ASSUME lost = {}, reached PROVE Reaches(chk', since)
    <3>1. Reaches(chk, since) /\ on \in Ancestors(b)
      BY <1>2, <2>5 DEF ReachSafe, Connects
    <3> QED
      BY <1>2, <1>4, <2>1, <2>5, <3>1, MergeReaches
  <2>6. ReachSafe'
    <3>1. Reaches(chk, since)' <=> Reaches(chk', since)
      BY <1>1 DEF Reaches
    <3> QED
      BY <1>1, <2>1, <2>5, <3>1 DEF ReachSafe
  <2>7. Height(b) >= since => reached'
    BY <2>1, <2>2 DEF Reaches
  <2> QED
    BY <2>1, <2>4, <2>6, <2>7
<1> QED
  BY <1>3, <1>4

(* The emitter starts again at the height the scan started at when it      *)
(* agrees with nothing there; what it has seen is dense, so every block of *)
(* the best chain that it leaves out is lost.                              *)
LEMMA EmitSafe ==
    ASSUME SafeInv, scan.at = "emit", Agreed # best
    PROVE  LET b == At(best, NextHeight)
               seen == (scan.seen \cap Ancestors(b)) \cup {b} IN
           /\ b \in Blocks /\ Settled(b) /\ Connects(b, Agreed)
           /\ \A c \in seen : Near(c)
           /\ Dense(seen) /\ Reaches(seen, scan.start)
<1> DEFINE b == At(best, NextHeight)
           seen == (scan.seen \cap Ancestors(b)) \cup {b}
<1>1. /\ NodeType /\ ScanType /\ ScanSafe /\ best \in Blocks /\ Height(best) \in Nat
      /\ scan \in Scans /\ scan.at # "idle" /\ born \in Nat
  BY BlockLength, HeightAssumption
     DEF SafeInv, TypeInv, NodeType, ScanType
<1>2. /\ \A c \in scan.seen : Near(c)
      /\ Dense(scan.seen) /\ Reaches(scan.seen, scan.start)
  BY <1>1 DEF ScanSafe
<1>3. /\ Agreed \in scan.seen /\ Agreed \in Ancestors(best)
      /\ \A c \in scan.seen \cap Ancestors(best) : Height(c) <= Height(Agreed)
  BY <1>1, AgreedBlock
<1>4. /\ NextHeight \in 0 .. Height(best) /\ Height(Agreed) < NextHeight
      /\ scan.start <= NextHeight
      /\ b \in Blocks /\ Height(b) = NextHeight
      /\ b \in Ancestors(best) /\ Agreed \in Ancestors(b)
  BY <1>1, NextBlock
<1>5. /\ Agreed \in Blocks /\ Height(Agreed) \in Nat
      /\ \A h \in 0 .. Height(Agreed) : At(Agreed, h) = At(b, h)
  BY <1>4, AncestorAt
<1>6. /\ scan.start \in Nat /\ NextHeight \in Nat
      /\ \A h \in 0 .. Height(b) : At(b, h) = At(best, h) /\ At(b, h) \in Ancestors(b)
  BY <1>1, <1>4, AncestorAt, AtAncestor DEF Scans
<1>7. Settled(b)
  BY <1>1, <1>4, NearBest, NearAncestor DEF Settled
<1> HIDE DEF b
<1>8. ASSUME NEW h \in born .. Height(b) - 1, Height(Agreed) < h
      PROVE  At(b, h) \in lost
  <2>1. h \in 0 .. Height(b) /\ h < Height(b)
    BY <1>1, <1>4, <1>6
  <2>2. Height(Agreed) < scan.start /\ Height(b) = scan.start
    BY <1>4, <1>5, <1>6, <1>8 DEF NextHeight
  <2>3. PICK c \in scan.seen : Height(c) >= scan.start
    BY <1>2 DEF Reaches
  <2>4. c \in Blocks /\ Height(c) \in Nat /\ Near(c)
    BY <1>1, <1>2, <2>3, BlockLength DEF Scans
  <2>5. h \in born .. Height(c) /\ h \in 0 .. Height(c) /\ h < Height(c)
    BY <1>1, <1>6, <2>1, <2>2, <2>3, <2>4
  <2>6. SUFFICES ASSUME At(best, h) \notin lost PROVE FALSE
    BY <1>6, <2>1
  <2>7. At(c, h) = At(best, h) /\ At(c, h) \in Ancestors(best)
    BY <1>1, <2>4, <2>5, <2>6, NearBelow
  <2>8. At(c, h) \in scan.seen
    BY <1>2, <2>3, <2>5, <2>6, <2>7 DEF Dense
  <2>9. Height(At(c, h)) = h
    BY <2>4, <2>5, AtBlock
  <2>10. h <= Height(Agreed)
    BY <1>3, <2>7, <2>8, <2>9
  <2> QED
    BY <1>5, <1>8, <2>5, <2>10
<1>9. Connects(b, Agreed)
  BY <1>4, <1>8 DEF Connects
<1>10. \A c \in seen : Near(c)
  BY <1>2, <1>7 DEF Settled
<1>11. Reaches(seen, scan.start)
  BY <1>4 DEF Reaches
<1>12. Dense(seen)
  <2>1. SUFFICES ASSUME NEW c \in seen, NEW h \in born .. Height(c)
                 PROVE  At(c, h) \in seen \cup lost
    BY DEF Dense
  <2>2. CASE c = b /\ h = Height(b)
    BY <1>4, <2>2, AtTop
  <2>3. CASE c = b /\ h # Height(b) /\ Height(Agreed) < h
    <3>1. h \in born .. Height(b) - 1
      BY <1>1, <1>4, <1>6, <2>1, <2>3
    <3> QED
      BY <1>8, <2>3, <3>1
  <2>4. CASE c = b /\ h <= Height(Agreed)
    <3>1. h \in born .. Height(Agreed) /\ h \in 0 .. Height(Agreed) /\ h \in 0 .. Height(b)
      BY <1>1, <1>4, <1>5, <1>6, <2>1, <2>4
    <3>2. At(Agreed, h) \in scan.seen \cup lost
      BY <1>2, <1>3, <3>1 DEF Dense
    <3> QED
      BY <1>5, <1>6, <2>4, <3>1, <3>2
  <2>5. CASE c \in scan.seen /\ c \in Ancestors(b)
    <3>1. At(c, h) \in scan.seen \cup lost
      BY <1>2, <2>1, <2>5 DEF Dense
    <3>2. c \in Blocks
      BY <1>4, <2>5, AncestorAt
    <3>3. h \in 0 .. Height(c)
      BY <1>1, <2>1, <3>2, BlockLength
    <3>4. At(c, h) \in Ancestors(c)
      BY <3>2, <3>3, AtAncestor
    <3>5. At(c, h) \in Ancestors(b)
      BY <1>4, <2>5, <3>4, AncestorTrans
    <3> QED
      BY <3>1, <3>5
  <2>6. h \in Int /\ Height(Agreed) \in Nat
    BY <1>5
  <2> QED
    BY <2>1, <2>2, <2>3, <2>4, <2>5, <2>6
<1> QED
  BY <1>4, <1>7, <1>9, <1>10, <1>11, <1>12 DEF b

LEMMA SafeStep ==
    ASSUME SafeInv, [Next]_vars
    PROVE  SafeInv'
<1>1. /\ TypeInv /\ NodeType /\ MoverType /\ WalletType /\ PassType /\ ScanType
      /\ ScanSafe /\ PassSafe /\ StateSafe /\ ReachSafe
      /\ WalletSafe(chk, scanned) /\ WalletSafe(disk.chk, disk.scanned)
  BY DEF SafeInv, TypeInv
<1>2. TypeInv'
  BY <1>1, TypeStep
<1>3. /\ best \in Blocks /\ ldk \in Blocks /\ pass \in Passes /\ scan \in Scans
      /\ pass.target \in Blocks /\ pass.wallet \in Blocks
      /\ chk \in SUBSET Blocks /\ Genesis \in chk
      /\ scan.queue \in Seq(Emitted) /\ scan.seen \in SUBSET Blocks
      /\ Height(best) \in Nat /\ Height(ldk) \in Nat
      /\ since \in Nat /\ since <= Height(best)
  <2>1. best \in Blocks /\ since \in Nat /\ since <= Height(best)
    BY <1>1, HeightAssumption DEF NodeType
  <2>2. ldk \in Blocks /\ chk \in SUBSET Blocks /\ Genesis \in chk
    BY <1>1 DEF MoverType, WalletType
  <2>3. pass \in Passes /\ pass.target \in Blocks /\ pass.wallet \in Blocks
    BY <1>1 DEF PassType, Passes
  <2>4. scan \in Scans /\ scan.queue \in Seq(Emitted) /\ scan.seen \in SUBSET Blocks
    BY <1>1 DEF ScanType, Scans
  <2> QED
    BY <1>1, <2>1, <2>2, <2>3, <2>4, BlockLength
<1>4. ASSUME UNCHANGED nodeVars, reached => reached'
      PROVE  /\ UNCHANGED <<best, mode, restored, since, born, lost>>
             /\ UNCHANGED walletVars
                  => /\ WalletSafe(chk, scanned)' /\ WalletSafe(disk.chk, disk.scanned)'
                     /\ ReachSafe'
             /\ UNCHANGED scan => ScanSafe'
             /\ UNCHANGED <<pass, ldk>> => PassSafe'
             /\ UNCHANGED <<state, pass, ldk>> => StateSafe'
  BY <1>4, SameSafe DEF nodeVars
<1>5. UNCHANGED walletVars => UNCHANGED <<chk, scanned, disk, reached>>
  BY DEF walletVars
<1>6. CASE StartPass
  <2>1. /\ UNCHANGED <<nodeVars, walletVars, ldk, state, grace, scan, budget>>
        /\ pass.at = "off" /\ pass'.at = "walk"
        /\ mode = "unified" => pass'.wallet = Tip
    BY <1>6 DEF StartPass, NoPass
  <2>2. Tip \in chk
    BY <1>1, TipBlock
  <2>3. PassSafe'
    BY <1>1, <1>4, <1>5, <2>1, <2>2 DEF PassSafe, ReachSafe, Reaches
  <2>4. StateSafe'
    BY <1>1, <2>1 DEF StateSafe
  <2> QED
    BY <1>1, <1>2, <1>4, <1>5, <2>1, <2>3, <2>4 DEF SafeInv
<1>7. CASE WalkBack
  <2> DEFINE lf == Fork(ldk, best)
             wf == IF mode = "unified" THEN Height(Fork(pass.wallet, best)) ELSE Height(lf)
             low == IF wf < Height(lf) THEN wf ELSE Height(lf)
  <2>1. /\ UNCHANGED <<nodeVars, walletVars, state, grace, scan, budget>>
        /\ pass.at = "walk" /\ ldk' = lf
        /\ pass' = [at |-> "connect", wallet |-> Genesis, target |-> best,
                    ldkFork |-> Height(lf), walletFork |-> wf, next |-> 1 + low,
                    failed |-> FALSE]
    BY <1>7 DEF WalkBack, NoPass
  <2>2. Height(lf) \in Nat
    BY <1>3, ForkOf, BlockLength
  <2>3. /\ Height(Fork(pass.wallet, best)) \in Nat /\ Height(pass.wallet) \in Nat
        /\ Height(Fork(pass.wallet, best)) <= Height(pass.wallet)
    BY <1>3, ForkOf, AncestorAt, BlockLength
  <2>4. mode = "unified" /\ wf >= Height(best) => reached
    <3>1. ASSUME mode = "unified", wf >= Height(best) PROVE reached
      <4>1. Height(pass.wallet) >= since
        <5> DEFINE k == Height(Fork(pass.wallet, best))
        <5>1. k >= Height(best) /\ k \in Nat /\ k <= Height(pass.wallet)
          BY <2>3, <3>1
        <5> HIDE DEF k
        <5> QED
          BY <1>3, <2>3, <5>1
      <4> QED
        BY <1>1, <2>1, <3>1, <4>1 DEF PassSafe
    <3> QED
      BY <3>1
  <2>5. wf \in Nat
    BY <2>2, <2>3
  <2> HIDE DEF lf, wf
  <2>6. low \in Nat /\ (low >= Height(best) => wf >= Height(best) /\ Height(lf) >= Height(best))
    BY <1>3, <2>2, <2>5
  <2> HIDE DEF low
  <2>7. /\ pass'.at = "connect" /\ pass'.target = best /\ pass'.walletFork = wf
        /\ pass'.ldkFork = Height(lf) /\ pass'.next = 1 + low
    BY <2>1
  <2>8. Near(best)'
    BY <1>1, <1>4, <1>5, <2>1, NearBest DEF Near
  <2>9. UNCHANGED reached
    BY <1>5, <2>1
  <2>10. pass'.next > Height(best) => wf >= Height(best) /\ Height(lf) >= Height(best)
    BY <1>3, <2>6, <2>7
  <2>11. UNCHANGED <<best, mode, since>>
    BY <1>4, <1>5, <2>1
  <2>12. PassSafe'
    <3>1. ~(pass'.at = "walk")
      BY <2>7
    <3>2. Height(pass'.target) >= since'
      BY <1>3, <2>7, <2>11
    <3>3. mode' = "unified" /\ pass'.walletFork >= Height(pass'.target)
              => reached'
      BY <2>4, <2>7, <2>9, <2>11
    <3>4. mode' = "unified" /\ ~pass'.failed /\ pass'.next > Height(pass'.target)
              => reached'
      BY <2>4, <2>7, <2>9, <2>10, <2>11
    <3>5. pass'.ldkFork >= Height(pass'.target) \/ pass'.next > Height(pass'.target)
              => Height(ldk') >= Height(pass'.target)
      BY <2>1, <2>7, <2>10
    <3>6. Near(pass.target)'
      BY <2>7, <2>8, <2>11 DEF Near
    <3> QED
      BY <3>1, <3>2, <3>3, <3>4, <3>5, <3>6 DEF PassSafe
  <2>13. StateSafe'
    BY <1>1, <2>1 DEF StateSafe
  <2> QED
    BY <1>1, <1>2, <1>4, <1>5, <2>1, <2>12, <2>13 DEF SafeInv
<1>8. CASE ConnectBlock
  <2> DEFINE b == At(pass.target, pass.next)
  <2>1. /\ UNCHANGED <<nodeVars, state, grace, scan>>
        /\ pass.at = "connect" /\ pass.next <= Height(pass.target)
        /\ ldk' = IF pass.next > pass.ldkFork THEN b ELSE ldk
    BY <1>8 DEF ConnectBlock
  <2>2. /\ pass.next \in Nat /\ pass.next > 0 /\ pass.ldkFork \in Nat
        /\ pass.walletFork \in Nat /\ Height(pass.target) \in Nat
    BY <1>1, <1>3, <2>1, BlockLength DEF Passes, PassType
  <2>3. pass.next \in 0 .. Height(pass.target)
    BY <2>1, <2>2
  <2>4. Near(pass.target) /\ Height(pass.target) >= since
    BY <1>1, <2>1 DEF PassSafe
  <2>5. /\ b \in Blocks /\ Height(b) = pass.next /\ Settled(b)
    BY <1>1, <1>3, <2>3, <2>4, AtBlock, SettledAncestor
  <2>6. Connects(b, Front(b))
    <3>1. Height(Front(b)) = pass.next - 1 /\ Front(b) \in Ancestors(b)
      BY <2>2, <2>5, FrontAt
    <3>2. born \in Nat
      BY <1>1, HeightAssumption DEF NodeType
    <3>3. \A h \in born .. pass.next - 1 : ~(pass.next - 1 < h)
      BY <2>2, <3>2
    <3> QED
      BY <2>2, <2>5, <3>1, <3>3 DEF Connects
  <2>7. /\ pass'.at = "connect" /\ pass'.target = pass.target
        /\ pass'.next = pass.next + 1 /\ pass'.ldkFork = pass.ldkFork
        /\ pass'.walletFork = pass.walletFork
        /\ ~pass'.failed => ~pass.failed
    <3> DEFINE n == pass.next + 1
    <3>1. \/ pass' = [pass EXCEPT !.next = n]
          \/ pass' = [pass EXCEPT !.next = n, !.failed = TRUE]
      BY <1>8 DEF ConnectBlock
    <3> HIDE DEF n
    <3>2. CASE pass' = [pass EXCEPT !.next = n]
      BY <1>3, <2>1, <3>2 DEF Passes, n
    <3>3. CASE pass' = [pass EXCEPT !.next = n, !.failed = TRUE]
      BY <1>3, <2>1, <3>3 DEF Passes, n
    <3> QED
      BY <3>1, <3>2, <3>3
  <2> HIDE DEF b
  <2>8. \/ /\ UNCHANGED <<walletVars, budget>>
           /\ mode # "unified" \/ pass.next <= pass.walletFork
        \/ mode = "unified" /\ ApplyOk(b, Front(b))
        \/ mode = "unified" /\ ApplyFails(b, Front(b)) /\ pass'.failed
    <3>1. \/ /\ UNCHANGED <<walletVars, budget>>
             /\ mode # "unified" \/ pass.next <= pass.walletFork
          \/ mode = "unified" /\ ApplyOk(b, Front(b))
          \/ /\ mode = "unified" /\ ApplyFails(b, Front(b))
             /\ pass' = [pass EXCEPT !.next = @ + 1, !.failed = TRUE]
      BY <1>8 DEF ConnectBlock, b
    <3>2. pass' = [pass EXCEPT !.next = @ + 1, !.failed = TRUE] => pass'.failed
      BY <1>3 DEF Passes
    <3> QED
      BY <3>1, <3>2
  <2>9. /\ WalletSafe(chk, scanned)' /\ WalletSafe(disk.chk, disk.scanned)'
        /\ ReachSafe' /\ (reached => reached')
        /\ ApplyOk(b, Front(b)) => (Height(b) >= since => reached')
    <3>1. CASE UNCHANGED walletVars /\ ~ApplyOk(b, Front(b))
      BY <1>4, <1>5, <2>1, <3>1
    <3>2. CASE ApplyOk(b, Front(b)) \/ ApplyFails(b, Front(b))
      <4>1. UNCHANGED nodeVars
        BY <2>1
      <4> QED
        BY <2>5, <2>6, <3>2, <4>1, ApplySafe
    <3> QED
      BY <2>8, <3>1, <3>2
  <2>10. UNCHANGED <<best, mode, since, lost>> /\ ScanSafe'
    BY <1>4, <2>1, <2>9
  <2>11. pass'.next > Height(pass.target)
           => pass.next = Height(pass.target) /\ Height(b) = Height(pass.target)
    BY <2>1, <2>2, <2>5, <2>7
  <2>12. PassSafe'
    <3>1. Near(pass.target)'
      BY <2>4, <2>7, <2>10 DEF Near
    <3>2. mode = "unified" /\ pass.walletFork >= Height(pass.target) => reached'
      BY <1>1, <2>1, <2>9, <2>10 DEF PassSafe
    <3>3. ASSUME mode = "unified", ~pass'.failed, pass'.next > Height(pass.target)
          PROVE  reached'
      <4>1. CASE pass.next <= pass.walletFork
        BY <2>11, <3>2, <3>3, <4>1
      <4>2. CASE ApplyOk(b, Front(b))
        BY <2>4, <2>9, <2>11, <3>3, <4>2
      <4> QED
        BY <2>8, <3>3, <4>1, <4>2
    <3>4. ASSUME pass.ldkFork >= Height(pass.target) \/ pass'.next > Height(pass.target)
          PROVE  Height(ldk') >= Height(pass.target)
      <4>1. CASE pass.ldkFork >= Height(pass.target)
        <5>1. ~(pass.next > pass.ldkFork)
          BY <2>1, <2>2, <4>1
        <5> QED
          BY <1>1, <2>1, <4>1, <5>1 DEF PassSafe
      <4>2. CASE ~(pass.ldkFork >= Height(pass.target))
        <5>1. pass.next > pass.ldkFork /\ Height(b) = Height(pass.target)
          BY <2>2, <2>11, <3>4, <4>2
        <5> QED
          BY <2>1, <2>2, <5>1 DEF b
      <4> QED
        BY <4>1, <4>2
    <3> QED
      BY <2>4, <2>7, <2>10, <3>1, <3>2, <3>3, <3>4 DEF PassSafe
  <2>13. StateSafe'
    BY <1>1, <2>1 DEF StateSafe
  <2> QED
    BY <1>1, <1>2, <2>9, <2>10, <2>12, <2>13 DEF SafeInv
<1>9. CASE FinishPass
  <2>1. /\ UNCHANGED <<nodeVars, walletVars, ldk, grace, scan, budget>>
        /\ pass.at = "connect" /\ pass.next > Height(pass.target)
        /\ pass'.at = "synced"
        /\ state' = IF mode # "unified" \/ pass.failed THEN MarkListenersSynced
                    ELSE MarkRunning(MarkListenersSynced)
    BY <1>9 DEF FinishPass, NoPass
  <2>2. UNCHANGED <<since, reached, ldk>>
    BY <1>4, <1>5, <2>1
  <2>3. state = "PendingInitialSync"
    BY <1>1, <2>1 DEF StateSafe
  <2>4. state' = "Running" => mode = "unified" /\ ~pass.failed
    BY <2>1, <2>3 DEF MarkListenersSynced, MarkRunning
  <2>5. state' = "Running" => reached
    BY <1>1, <2>1, <2>4 DEF PassSafe
  <2>6. Height(ldk) >= since
    <3>1. Height(ldk) >= Height(pass.target) /\ Height(pass.target) >= since
      BY <1>1, <2>1 DEF PassSafe
    <3>2. Height(pass.target) \in Nat
      BY <1>3, BlockLength
    <3> QED
      BY <1>3, <3>1, <3>2
  <2>7. StateSafe'
    BY <2>1, <2>2, <2>5, <2>6 DEF StateSafe
  <2>8. PassSafe'
    BY <2>1 DEF PassSafe
  <2> QED
    BY <1>1, <1>2, <1>4, <1>5, <2>1, <2>7, <2>8 DEF SafeInv
<1>10. CASE PollBestTip
  <2>1. /\ UNCHANGED <<nodeVars, walletVars, state, grace, pass, scan, budget>>
        /\ pass.at = "synced" /\ ldk' = best
    BY <1>10 DEF PollBestTip, Follow
  <2>2. UNCHANGED <<since, reached>>
    BY <1>4, <1>5, <2>1
  <2>3. PassSafe'
    BY <2>1 DEF PassSafe
  <2>4. StateSafe'
    BY <1>1, <1>3, <2>1, <2>2 DEF StateSafe
  <2> QED
    BY <1>1, <1>2, <1>4, <1>5, <2>1, <2>3, <2>4 DEF SafeInv
<1>11. CASE AbortPass
  <2>1. /\ UNCHANGED <<nodeVars, walletVars, ldk, state, grace, scan>>
        /\ pass.at \in {"walk", "connect"} /\ pass'.at = "off"
    BY <1>11 DEF AbortPass, NoPass
  <2>2. PassSafe'
    BY <2>1 DEF PassSafe
  <2>3. StateSafe'
    BY <1>1, <2>1 DEF StateSafe
  <2> QED
    BY <1>1, <1>2, <1>4, <1>5, <2>1, <2>2, <2>3 DEF SafeInv
<1>12. CASE StartScan
  <2>1. /\ UNCHANGED <<nodeVars, walletVars, ldk, state, grace, pass, budget>>
        /\ scan'.at = "emit" /\ scan'.seen = chk /\ scan'.start = Height(Tip)
        /\ scan'.queue = <<>>
    BY <1>12 DEF StartScan
  <2>2. UNCHANGED <<best, since, born, lost, reached>>
    BY <1>4, <1>5, <2>1
  <2>3. Tip \in chk /\ Height(Tip) \in Nat
    BY <1>1, TipBlock, BlockLength
  <2>4. /\ Dense(chk) /\ Reaches(chk, Height(Tip)) /\ \A b \in chk : Near(b)
    BY <1>1, <2>3 DEF WalletSafe, Reaches
  <2>5. Len(scan'.queue) = 0
    BY <2>1, EmptySeq
  <2>6. /\ \A b \in scan'.seen : Near(b)'
        /\ Dense(scan.seen)' /\ Reaches(scan.seen, scan.start)'
        /\ Reaches(scan.seen, since)' => reached'
    BY <1>1, <2>1, <2>2, <2>4 DEF Dense, Near, Reaches, ReachSafe
  <2>7. ScanSafe'
    BY <2>1, <2>5, <2>6 DEF ScanSafe
  <2> QED
    BY <1>1, <1>2, <1>4, <1>5, <2>1, <2>7 DEF SafeInv
<1>13. CASE EmitBlock
  <2> DEFINE b == At(best, NextHeight)
             e == [block |-> b, on |-> Agreed]
             seen == (scan.seen \cap Ancestors(b)) \cup {b}
  <2>1. UNCHANGED <<nodeVars, walletVars, ldk, state, grace, pass, budget>>
    BY <1>13 DEF EmitBlock
  <2>2. /\ scan.at = "emit" /\ Agreed # best /\ scan'.at = "emit"
        /\ scan'.start = scan.start /\ scan'.seen = seen
        /\ scan'.queue = Append(scan.queue, e)
    BY <1>1, <1>13, Emits
  <2>3. /\ b \in Blocks /\ Settled(b) /\ Connects(b, Agreed)
        /\ \A c \in seen : Near(c)
        /\ Dense(seen) /\ Reaches(seen, scan.start)
    BY <2>2, EmitSafe
  <2>4. e \in Emitted /\ e.block = b /\ e.on = Agreed
    BY <2>3, AncestorsOf DEF Emitted, Connects
  <2>5. UNCHANGED <<best, since, born, lost, reached>>
    BY <1>4, <1>5, <2>1
  <2>6. \A c \in seen : c = b \/ (c \in scan.seen /\ c \in Ancestors(b))
    OBVIOUS
  <2> HIDE DEF b, e, seen
  <2>7. /\ Len(scan.queue) \in Nat /\ Len(scan'.queue) = Len(scan.queue) + 1
        /\ \A i \in 1 .. Len(scan.queue) : scan'.queue[i] = scan.queue[i]
        /\ scan'.queue[Len(scan.queue) + 1] = e
    BY <1>3, <2>2, <2>4, QueueMore
  <2>8. ASSUME NEW i \in 1 .. Len(scan'.queue)
        PROVE  /\ Settled(scan'.queue[i].block)
               /\ Connects(scan'.queue[i].block, scan'.queue[i].on)
    <3>1. CASE i \in 1 .. Len(scan.queue)
      BY <1>1, <2>2, <2>7, <3>1 DEF ScanSafe
    <3>2. CASE i = Len(scan.queue) + 1
      BY <2>3, <2>4, <2>7, <3>2
    <3> QED
      BY <2>7, <3>1, <3>2
  <2>9. Reaches(seen, since) => reached \/ Awaits(since)'
    <3>1. SUFFICES ASSUME NEW c \in seen, Height(c) >= since
                   PROVE  Awaits(since)'
      BY DEF Reaches
    <3>2. Height(b) >= since
      <4>1. CASE c = b
        BY <3>1, <4>1
      <4>2. CASE c \in Ancestors(b)
        <5>1. Height(c) \in Nat /\ Height(c) <= Height(b) /\ Height(b) \in Nat
          BY <2>3, <4>2, AncestorAt, BlockLength
        <5> QED
          BY <1>3, <3>1, <5>1
      <4> QED
        BY <2>6, <3>1, <4>1, <4>2
    <3>3. Len(scan.queue) + 1 \in 1 .. Len(scan'.queue)
      BY <2>7
    <3> QED
      BY <2>4, <2>5, <2>7, <3>2, <3>3 DEF Awaits
  <2>10. \A i \in 1 .. Len(scan'.queue) :
            /\ Settled(scan.queue[i].block)'
            /\ Connects(scan.queue[i].block, scan.queue[i].on)'
    BY <2>5, <2>8 DEF Settled, Connects, Near
  <2>11. /\ \A c \in scan'.seen : Near(c)'
         /\ Dense(scan.seen)' /\ Reaches(scan.seen, scan.start)'
         /\ Reaches(scan.seen, since)' => reached' \/ Awaits(since)'
    BY <2>2, <2>3, <2>5, <2>9 DEF Dense, Near, Reaches
  <2>12. ScanSafe'
    BY <2>2, <2>5, <2>10, <2>11 DEF ScanSafe
  <2> QED
    BY <1>1, <1>2, <1>4, <1>5, <2>1, <2>12 DEF SafeInv
<1>14. CASE EmitterEnds
  <2>1. /\ UNCHANGED <<nodeVars, walletVars, ldk, state, grace, pass>>
        /\ scan.at = "emit"
        /\ \/ Agreed = best /\ scan' = [scan EXCEPT !.at = "ended"]
           \/ scan' = [scan EXCEPT !.at = "failed"]
    BY <1>14 DEF EmitterEnds
  <2>2. /\ scan'.seen = scan.seen /\ scan'.start = scan.start
        /\ scan'.queue = scan.queue /\ (scan'.at = "ended" => Agreed = best)
    BY <1>3, <2>1 DEF Scans
  <2>3. UNCHANGED <<best, since, born, lost, reached>>
    BY <1>4, <1>5, <2>1
  <2>4. Agreed = best => Reaches(scan.seen, since)
    BY <1>1, <1>3, <2>1, AgreedBlock DEF Reaches
  <2>5. /\ \A b : Near(b)' <=> Near(b)
        /\ \A b : Settled(b)' <=> Settled(b)
        /\ \A b, c : Connects(b, c)' <=> Connects(b, c)
        /\ Dense(scan.seen)' <=> Dense(scan.seen)
        /\ Reaches(scan.seen, scan.start)' <=> Reaches(scan.seen, scan.start)
        /\ Reaches(scan.seen, since)' <=> Reaches(scan.seen, since)
        /\ Awaits(since)' <=> Awaits(since)
    BY <2>2, <2>3 DEF Near, Settled, Connects, Dense, Reaches, Awaits
  <2>6. ScanSafe'
    BY <1>1, <2>1, <2>2, <2>3, <2>4, <2>5 DEF ScanSafe
  <2> QED
    BY <1>1, <1>2, <1>4, <1>5, <2>1, <2>6 DEF SafeInv
<1>15. CASE ApplyEmitted
  <2> DEFINE e == Head(scan.queue)
  <2>1. /\ UNCHANGED <<nodeVars, ldk, state, grace, pass>>
        /\ scan.at # "idle" /\ scan.queue # <<>>
        /\ \/ ApplyOk(e.block, e.on) /\ scan' = [scan EXCEPT !.queue = Tail(@)]
           \/ ApplyFails(e.block, e.on) /\ scan' = NoScan
    BY <1>15 DEF ApplyEmitted
  <2>2. /\ Len(scan.queue) \in Nat /\ 1 \in 1 .. Len(scan.queue)
        /\ e = scan.queue[1] /\ e \in Emitted
        /\ Len(Tail(scan.queue)) = Len(scan.queue) - 1
        /\ \A i \in 1 .. Len(Tail(scan.queue)) :
              /\ i + 1 \in 1 .. Len(scan.queue)
              /\ Tail(scan.queue)[i] = scan.queue[i + 1]
    BY <1>3, <2>1, QueueRest
  <2> HIDE DEF e
  <2>3. e.block \in Blocks /\ Settled(e.block) /\ Connects(e.block, e.on)
    BY <1>1, <2>1, <2>2 DEF ScanSafe, Emitted
  <2>4. /\ WalletSafe(chk, scanned)' /\ WalletSafe(disk.chk, disk.scanned)'
        /\ ReachSafe' /\ (reached => reached')
        /\ ApplyOk(e.block, e.on) => (Height(e.block) >= since => reached')
    <3>1. UNCHANGED nodeVars /\ (ApplyOk(e.block, e.on) \/ ApplyFails(e.block, e.on))
      BY <2>1
    <3> QED
      BY <2>3, <3>1, ApplySafe
  <2>5. UNCHANGED <<best, since, born, lost>>
    BY <1>4, <2>1, <2>4
  <2>6. ScanSafe'
    <3>1. CASE scan' = NoScan
      BY <3>1 DEF NoScan, ScanSafe
    <3>2. CASE ApplyOk(e.block, e.on) /\ scan' = [scan EXCEPT !.queue = Tail(@)]
      <4>1. /\ scan'.at = scan.at /\ scan'.seen = scan.seen /\ scan'.start = scan.start
            /\ scan'.queue = Tail(scan.queue)
        BY <1>3, <3>2 DEF Scans
      <4>2. /\ \A b : Near(b)' <=> Near(b)
            /\ \A b : Settled(b)' <=> Settled(b)
            /\ \A b, c : Connects(b, c)' <=> Connects(b, c)
            /\ Dense(scan.seen)' <=> Dense(scan.seen)
            /\ Reaches(scan.seen, scan.start)' <=> Reaches(scan.seen, scan.start)
            /\ Reaches(scan.seen, since)' <=> Reaches(scan.seen, since)
        BY <2>5, <4>1 DEF Near, Settled, Connects, Dense, Reaches
      <4>3. \A i \in 1 .. Len(scan'.queue) :
                i + 1 \in 1 .. Len(scan.queue) /\ scan'.queue[i] = scan.queue[i + 1]
        BY <2>2, <4>1
      <4>4. \A i \in 1 .. Len(scan'.queue) :
                /\ Settled(scan'.queue[i].block)
                /\ Connects(scan'.queue[i].block, scan'.queue[i].on)
        BY <1>1, <2>1, <4>3 DEF ScanSafe
      <4>5. Awaits(since) => reached' \/ Awaits(since)'
        <5>1. SUFFICES ASSUME NEW i \in 1 .. Len(scan.queue),
                              Height(scan.queue[i].block) >= since
                       PROVE  reached' \/ Awaits(since)'
          BY DEF Awaits
        <5>2. CASE i = 1
          BY <2>2, <2>4, <3>2, <5>1, <5>2
        <5>3. CASE i # 1
          <6>1. i - 1 \in 1 .. Len(scan'.queue) /\ i = (i - 1) + 1
            BY <2>2, <4>1, <5>3
          <6>2. scan'.queue[i - 1] = scan.queue[i]
            BY <4>3, <6>1
          <6> QED
            BY <2>5, <5>1, <6>1, <6>2 DEF Awaits
        <5> QED
          BY <5>2, <5>3
      <4>6. \A i \in 1 .. Len(scan'.queue) :
                /\ Settled(scan.queue[i].block)'
                /\ Connects(scan.queue[i].block, scan.queue[i].on)'
        BY <4>2, <4>4, <2>5 DEF Settled, Connects, Near
      <4>7. Reaches(scan.seen, since)' => reached' \/ Awaits(since)'
        BY <1>1, <2>1, <2>4, <4>2, <4>5 DEF ScanSafe
      <4> QED
        BY <1>1, <2>1, <4>1, <4>2, <4>6, <4>7 DEF ScanSafe
    <3> QED
      BY <2>1, <3>1, <3>2
  <2> QED
    BY <1>1, <1>2, <1>4, <2>1, <2>4, <2>6 DEF SafeInv
<1>16. CASE FinishScan
  <2>1. /\ UNCHANGED <<nodeVars, walletVars, ldk, grace, pass, budget>>
        /\ scan.at \in {"ended", "failed"} /\ scan.queue = <<>>
        /\ scan'.at = "idle"
        /\ state' = IF scan.at = "ended" THEN MarkRunning(state) ELSE state
    BY <1>16 DEF FinishScan, NoScan
  <2>2. UNCHANGED <<since, reached, ldk, pass>>
    BY <1>4, <1>5, <2>1
  <2>3. /\ state' # "PendingInitialSync" => state # "PendingInitialSync"
        /\ state' = "Running" => state = "Running" \/ scan.at = "ended"
    BY <2>1 DEF MarkRunning
  <2>4. Len(scan.queue) = 0
    BY <2>1, EmptySeq
  <2>5. ~Awaits(since)
    BY <2>4 DEF Awaits
  <2>6. scan.at = "ended" => reached
    BY <1>1, <2>1, <2>5 DEF ScanSafe
  <2>7. StateSafe'
    BY <1>1, <2>2, <2>3, <2>6 DEF StateSafe
  <2>8. ScanSafe'
    BY <2>1 DEF ScanSafe
  <2> QED
    BY <1>1, <1>2, <1>4, <1>5, <2>1, <2>7, <2>8 DEF SafeInv
<1>17. CASE GraceElapses
  <2>1. UNCHANGED <<nodeVars, walletVars, ldk, state, pass, scan, budget>>
    BY <1>17 DEF GraceElapses
  <2> QED
    BY <1>1, <1>2, <1>4, <1>5, <2>1 DEF SafeInv
<1>18. CASE ChainGrows
  <2>1. /\ UNCHANGED <<mode, restored, since, born, walletVars, ldk, state, grace,
                       pass, scan, budget>>
        /\ lost \subseteq lost'
    BY <1>18 DEF ChainGrows
  <2>2. UNCHANGED <<chk, scanned, disk, reached>>
    BY <2>1 DEF walletVars
  <2>3. \A b \in Blocks : (Near(b) => Near(b)') /\ (Settled(b) => Settled(b)')
    BY <1>1, <1>18, NearGrows
  <2>4. ASSUME NEW S \in SUBSET Blocks, NEW T, WalletSafe(S, T)
        PROVE  /\ OneChain(S) /\ \A b \in S : Near(b)'
               /\ \A b \in S : \A h \in born .. Height(b) : At(b, h) \in S \cup lost'
               /\ \A b \in S : \A h \in born + 1 .. Height(b) : At(b, h) \in T \cup lost'
    BY <2>1, <2>3, <2>4 DEF WalletSafe, Dense, Looked
  <2>5. WalletSafe(chk, scanned)' /\ WalletSafe(disk.chk, disk.scanned)'
    <3>1. chk \in SUBSET Blocks /\ disk.chk \in SUBSET Blocks
      BY <1>1, <1>3 DEF WalletType, Wallets
    <3>2. /\ OneChain(chk)' /\ Dense(chk)' /\ Looked(chk, scanned)'
          /\ \A b \in chk : Near(b)'
      BY <1>1, <2>1, <2>2, <2>4, <3>1 DEF OneChain, Dense, Looked
    <3>3. /\ OneChain(disk.chk)' /\ Dense(disk.chk)' /\ Looked(disk.chk, disk.scanned)'
          /\ \A b \in disk.chk : Near(b)'
      BY <1>1, <2>1, <2>2, <2>4, <3>1 DEF OneChain, Dense, Looked
    <3> QED
      BY <2>2, <3>2, <3>3 DEF WalletSafe
  <2>6. StateSafe' /\ ReachSafe'
    BY <1>1, <2>1, <2>2 DEF StateSafe, ReachSafe, Reaches
  <2>7. PassSafe'
    <3>1. Near(pass.target) => Near(pass.target)'
      BY <1>3, <2>1, <2>3 DEF Near
    <3> QED
      BY <1>1, <2>1, <2>2, <3>1 DEF PassSafe
  <2>8. ScanSafe'
    <3>1. SUFFICES ASSUME scan.at # "idle" PROVE ScanSafe'
      BY <2>1 DEF ScanSafe
    <3>2. \A b \in scan.seen : Near(b)'
      BY <1>1, <1>3, <2>3, <3>1 DEF ScanSafe
    <3>3. \A i \in 1 .. Len(scan.queue) :
              scan.queue[i].block \in Blocks
      <4>1. \A i \in 1 .. Len(scan.queue) : scan.queue[i] \in Emitted
        BY <1>3, ElementOfSeq
      <4> QED
        BY <4>1 DEF Emitted
    <3>4. \A i \in 1 .. Len(scan.queue) : Settled(scan.queue[i].block)'
      <4>1. \A i \in 1 .. Len(scan.queue) : Settled(scan.queue[i].block)
        BY <1>1, <3>1 DEF ScanSafe
      <4>2. SUFFICES ASSUME NEW i \in 1 .. Len(scan.queue)
                     PROVE  Settled(scan.queue[i].block)'
        OBVIOUS
      <4>3. PICK b \in Blocks : b = scan.queue[i].block
        BY <3>3, <4>2
      <4>4. Settled(b)'
        BY <2>3, <4>1, <4>2, <4>3
      <4>5. b = (scan.queue[i].block)'
        BY <2>1, <4>3
      <4> QED
        BY <4>4, <4>5 DEF Settled, Near
    <3>5. /\ \A b, c : Connects(b, c) => Connects(b, c)'
          /\ Dense(scan.seen) => Dense(scan.seen)'
          /\ Reaches(scan.seen, scan.start)' <=> Reaches(scan.seen, scan.start)
          /\ Reaches(scan.seen, since)' <=> Reaches(scan.seen, since)
          /\ Awaits(since)' <=> Awaits(since)
      BY <2>1, <2>2 DEF Connects, Dense, Reaches, Awaits
    <3>6. \A i \in 1 .. Len(scan.queue) :
              Connects(scan.queue[i].block, scan.queue[i].on)'
      BY <1>1, <2>1, <3>1 DEF ScanSafe, Connects
    <3> QED
      BY <1>1, <2>1, <2>2, <3>1, <3>2, <3>4, <3>5, <3>6 DEF ScanSafe
  <2> QED
    BY <1>2, <2>5, <2>6, <2>7, <2>8 DEF SafeInv
<1>19. CASE Restart
  <2>1. /\ UNCHANGED <<best, restored, born>>
        /\ chk' \in Listened(disk.chk) /\ scanned' = disk.scanned
        /\ disk' = [disk EXCEPT !.chk = chk']
        /\ state' = "PendingInitialSync" /\ pass'.at = "off" /\ scan'.at = "idle"
        /\ reached' = Reaches(chk', since')
        /\ lost' = IF chk' # disk.chk /\ Height(Highest(disk.chk)) = 0
                   THEN lost \cup Ancestors(best) ELSE lost
    BY <1>19 DEF Restart, NoPass, NoScan
  <2>2. disk \in Wallets /\ Genesis \in disk.chk /\ disk.chk \in SUBSET Blocks
    BY <1>1 DEF WalletType, Wallets
  <2>3. disk'.chk = chk' /\ disk'.scanned = disk.scanned
    BY <2>1, <2>2 DEF Wallets
  <2>4. ASSUME chk' = disk.chk
        PROVE  WalletSafe(chk, scanned)' /\ WalletSafe(disk.chk, disk.scanned)'
    <3>1. UNCHANGED <<best, born, lost>>
      BY <2>1, <2>4
    <3>2. WalletSafe(chk, scanned)' /\ WalletSafe(disk.chk, disk.scanned)'
      BY <1>1, <2>1, <2>3, <2>4, <3>1 DEF WalletSafe, OneChain, Dense, Looked, Near
    <3> QED
      BY <3>2
  <2>5. ASSUME chk' # disk.chk
        PROVE  WalletSafe(chk, scanned)' /\ WalletSafe(disk.chk, disk.scanned)'
    <3>1. Height(Highest(disk.chk)) = 0 /\ chk' = disk.chk \cup {best}
      BY <2>1, <2>5 DEF Listened
    <3>2. \A c \in disk.chk : c \in Blocks /\ Height(c) \in Nat /\ Height(c) <= 0
      BY <2>2, <3>1, HighestBlock, BlockLength
    <3>3. chk' = {Genesis, best}
      BY <2>2, <3>1, <3>2, GenesisBlock
    <3>4. Ancestors(best) \subseteq lost' /\ UNCHANGED <<best, born>>
      BY <2>1, <2>5, <3>1
    <3>5. ASSUME NEW T
          PROVE  /\ OneChain(chk')
                 /\ \A b \in chk' : /\ Height(b) <= Height(best)
                                    /\ \A h \in 0 .. Height(b) - 1 : At(b, h) = At(best, h)
                                    /\ \A h \in born .. Height(b) : At(b, h) \in chk' \cup lost'
                                    /\ \A h \in born + 1 .. Height(b) : At(b, h) \in T \cup lost'
      BY <1>1, <3>3, <3>4, JumpedSafe, Zenon
    <3>6. WalletSafe(chk, scanned)'
      <4>1. (OneChain(chk))'
        BY <3>5 DEF OneChain
      <4>2. (\A b \in chk : Near(b))'
        BY <3>4, <3>5 DEF Near
      <4>3. Dense(chk)'
        BY <3>4, <3>5 DEF Dense
      <4>4. \A b \in chk' : \A h \in born + 1 .. Height(b) : At(b, h) \in scanned' \cup lost'
        BY <3>5
      <4>5. Looked(chk, scanned)'
        BY <2>3, <3>4, <4>4 DEF Looked
      <4> QED
        BY <4>1, <4>2, <4>3, <4>5 DEF WalletSafe
    <3>7. WalletSafe(disk.chk, disk.scanned)'
      <4>1. (OneChain(disk.chk))'
        BY <2>3, <3>5 DEF OneChain
      <4>2. (\A b \in disk.chk : Near(b))'
        BY <2>3, <3>4, <3>5 DEF Near
      <4>3. Dense(disk.chk)'
        BY <2>3, <3>4, <3>5 DEF Dense
      <4>4. \A b \in chk' : \A h \in born + 1 .. Height(b) : At(b, h) \in disk'.scanned \cup lost'
        BY <3>5
      <4>5. Looked(disk.chk, disk.scanned)'
        BY <2>3, <3>4, <4>4 DEF Looked
      <4> QED
        BY <4>1, <4>2, <4>3, <4>5 DEF WalletSafe
    <3> QED
      BY <3>6, <3>7
  <2>6. ScanSafe' /\ PassSafe' /\ StateSafe' /\ ReachSafe'
    BY <2>1 DEF ScanSafe, PassSafe, StateSafe, ReachSafe, Reaches
  <2> QED
    BY <1>2, <2>4, <2>5, <2>6 DEF SafeInv
<1>20. CASE UNCHANGED vars
  BY <1>1, <1>2, <1>4, <1>5, <1>20 DEF vars, SafeInv
<1> QED
  BY <1>6, <1>7, <1>8, <1>9, <1>10, <1>11, <1>12, <1>13, <1>14, <1>15,
     <1>16, <1>17, <1>18, <1>19, <1>20 DEF Next, Pass, Scan

-----------------------------------------------------------------------------
LEMMA SafeAlways == Spec => []SafeInv
<1>1. Init => SafeInv
  BY InitSafe
<1>2. SafeInv /\ [Next]_vars => SafeInv'
  BY SafeStep
<1> QED
  BY <1>1, <1>2, PTL DEF Spec

(* The wallet has looked into every block of its chain since it was born,  *)
(* whichever of the pass, the scan and a restart moved it, but for blocks  *)
(* a deep reorg put below a height it had reached and blocks it was left   *)
(* to jump over a second time.                                             *)
THEOREM NoBlockSkipped == Spec => []OnlyLostSkipped
<1>1. SafeInv => OnlyLostSkipped
  <2>1. SUFFICES ASSUME SafeInv, NEW b \in Ancestors(Tip), Height(b) > born
                 PROVE  b \in scanned \cup lost
    BY DEF OnlyLostSkipped
  <2>2. Tip \in chk /\ Tip \in Blocks
    BY <2>1, TipBlock DEF SafeInv, TypeInv
  <2>3. b = At(Tip, Height(b)) /\ Height(b) \in Nat /\ Height(b) <= Height(Tip)
    BY <2>2, AncestorAt
  <2>4. born \in Nat /\ Height(Tip) \in Nat
    BY <2>1, <2>2, BlockLength, HeightAssumption DEF SafeInv, TypeInv, NodeType
  <2>5. Height(b) \in born + 1 .. Height(Tip)
    BY <2>1, <2>3, <2>4
  <2>6. Looked(chk, scanned)
    BY <2>1 DEF SafeInv, WalletSafe
  <2> QED
    BY <2>2, <2>3, <2>5, <2>6 DEF Looked
<1> QED
  BY <1>1, SafeAlways, PTL

(* Whoever announces Running, the pass or the scan, the LDK listeners and  *)
(* the wallet have been where the chain was when the process started; and  *)
(* no failing write, block of the other path or reorg takes the wallet     *)
(* back below it, as long as no block was lost.                            *)
THEOREM RunningIsCaughtUp == Spec => []RunningCaughtUp
<1>1. SafeInv => RunningCaughtUp
  <2>1. SUFFICES ASSUME SafeInv, state = "Running"
                 PROVE  /\ reached /\ Height(ldk) >= since
                        /\ lost = {} => Height(Tip) >= since
    BY DEF RunningCaughtUp
  <2>2. reached /\ Height(ldk) >= since
    BY <2>1 DEF SafeInv, StateSafe
  <2>3. ASSUME lost = {} PROVE Height(Tip) >= since
    <3>1. PICK c \in chk : Height(c) >= since
      BY <2>1, <2>2, <2>3 DEF SafeInv, ReachSafe, Reaches
    <3>2. chk \in SUBSET Blocks /\ Tip \in Blocks /\ Height(c) <= Height(Tip)
      BY <2>1, TipBlock DEF SafeInv, TypeInv, WalletType
    <3>3. since \in Nat /\ Height(c) \in Nat /\ Height(Tip) \in Nat
      BY <2>1, <3>2, BlockLength, HeightAssumption DEF SafeInv, TypeInv, NodeType
    <3> QED
      BY <3>1, <3>2, <3>3
  <2> QED
    BY <2>2, <2>3
<1> QED
  BY <1>1, SafeAlways, PTL
=============================================================================
