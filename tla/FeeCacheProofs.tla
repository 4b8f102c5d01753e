--------------------------- MODULE FeeCacheProofs ---------------------------
(***************************************************************************)
(* What a reader of the fee cache is promised, for any rates a backend may *)
(* report, on every network: the invariants of FeeCache are those of the   *)
(* one refresh that runs, whose next position says what it has.            *)
(***************************************************************************)
EXTENDS FeeCache, TLAPS

MempoolTarget == "MinAllowedAnchorChannelRemoteFee"
Asked == Rates \cup {RelayFallback}

(* The targets and their places in a refresh. *)
LEMMA TargetFacts ==
    /\ Targets = {"OnchainPayment", "ChannelFunding", "MaximumFeeEstimate",
          "UrgentOnChainSweep", "MinAllowedAnchorChannelRemoteFee",
          "MinAllowedNonAnchorChannelRemoteFee", "AnchorChannelFee",
          "NonAnchorChannelFee", "ChannelCloseMinimum", "OutputSpendingFee"}
    /\ AllTargets[1] = "OnchainPayment"
    /\ AllTargets[2] = "ChannelFunding"
    /\ AllTargets[3] = "MaximumFeeEstimate"
    /\ AllTargets[4] = "UrgentOnChainSweep"
    /\ AllTargets[5] = "MinAllowedAnchorChannelRemoteFee"
    /\ AllTargets[6] = "MinAllowedNonAnchorChannelRemoteFee"
    /\ AllTargets[7] = "AnchorChannelFee"
    /\ AllTargets[8] = "NonAnchorChannelFee"
    /\ AllTargets[9] = "ChannelCloseMinimum"
    /\ AllTargets[10] = "OutputSpendingFee"
<1>1. /\ AllTargets[1] = "OnchainPayment"
      /\ AllTargets[2] = "ChannelFunding"
      /\ AllTargets[3] = "MaximumFeeEstimate"
      /\ AllTargets[4] = "UrgentOnChainSweep"
      /\ AllTargets[5] = "MinAllowedAnchorChannelRemoteFee"
      /\ AllTargets[6] = "MinAllowedNonAnchorChannelRemoteFee"
      /\ AllTargets[7] = "AnchorChannelFee"
      /\ AllTargets[8] = "NonAnchorChannelFee"
      /\ AllTargets[9] = "ChannelCloseMinimum"
      /\ AllTargets[10] = "OutputSpendingFee"
  BY DEF AllTargets
<1>2. \A i \in Positions : i \in {1, 2, 3, 4, 5, 6, 7, 8, 9, 10}
  BY DEF Positions
<1>3. {1, 2, 3, 4, 5, 6, 7, 8, 9, 10} \subseteq Positions
  BY DEF Positions
<1> QED
  BY <1>1, <1>2, <1>3 DEF Targets

(* One target is read at the minimum of the mempool, as it is. *)
LEMMA SourceFacts ==
    /\ \A t \in Targets : Source[t] = MempoolMin => t = MempoolTarget
    /\ \A rate : Adjusted(MempoolTarget, rate) = rate
<1>1. /\ \A n : Economical(n) # MempoolMin /\ Conservative(n) # MempoolMin
  BY DEF Economical, Conservative, MempoolMin
<1> QED
  BY <1>1, TargetFacts DEF Source, MempoolTarget, Adjusted

LEMMA AdjustedNat ==
    ASSUME NEW t \in Targets, NEW rate \in Nat
    PROVE  Adjusted(t, rate) \in Nat
<1>1. AtLeast(Less(rate, 250), Floor) \in Nat
  BY DEF AtLeast, Less, Floor
<1>2. (rate * 11) \div 10 + 2500 \in Nat
  OBVIOUS
<1> QED
  BY <1>1, <1>2 DEF Adjusted

LEMMA WithFacts ==
    ASSUME NEW f, NEW x, NEW v
    PROVE  /\ DOMAIN With(f, x, v) = DOMAIN f \cup {x}
           /\ With(f, x, v)[x] = v
           /\ \A y \in DOMAIN f : y # x => With(f, x, v)[y] = f[y]
  BY DEF With

LEMMA WithRates ==
    ASSUME NEW S, NEW f, RatesOf(f, S), NEW x \in S, NEW v \in Nat
    PROVE  RatesOf(With(f, x, v), S)
<1>1. DOMAIN With(f, x, v) = DOMAIN f \cup {x}
  BY DEF With
<1>2. ASSUME NEW y \in DOMAIN f \cup {x} PROVE With(f, x, v)[y] \in Nat
  <2>1. With(f, x, v)[y] = IF y = x THEN v ELSE f[y]
    BY DEF With
  <2> QED
    BY <2>1 DEF RatesOf
<1> QED
  BY <1>1, <1>2 DEF RatesOf

-----------------------------------------------------------------------------
(* Fallback or not, the rate of a target is that of its source. *)
RateKept(f, b, t) ==
    IF Source[t] = MempoolMin THEN f[t] \in Asked
    ELSE \/ Source[t] \in DOMAIN b /\ f[t] = Adjusted(t, b[Source[t]])
         \/ network \in {"regtest", "signet"} /\ f[t] = Adjusted(t, RelayFallback)

(* The rates that are kept by source: regtest has one only. *)
KeysKept(b) ==
    \A s \in DOMAIN b :
       b[s] \in Asked /\ (network = "regtest" => b[s] = RelayFallback)

SourceKept(f, b) == KeysKept(b) /\ \A t \in DOMAIN f : RateKept(f, b, t)

(* A refresh has the rates of the targets before its next one. *)
UpTo(f, n) == \A i \in Positions : AllTargets[i] \in DOMAIN f <=> i < n

RefreshInv(k) ==
    /\ UpTo(updates[k], next[k])
    /\ SourceKept(updates[k], byKey[k])

CacheInv ==
    /\ cache = Nothing \/ DOMAIN cache = Targets
    /\ SharedEstimate

TaskInv ==
    /\ ~started => \A k \in Spawns : loop[k] = "off"
    /\ OneRefresh

IndInv == TypeOK /\ (\A k \in Spawns : RefreshInv(k)) /\ CacheInv /\ TaskInv

LEMMA NothingFacts ==
    /\ DOMAIN Nothing = {}
    /\ UpTo(Nothing, 1)
    /\ SourceKept(Nothing, Nothing)
    /\ \A S : RatesOf(Nothing, S)
<1>1. DOMAIN Nothing = {}
  BY DEF Nothing
<1>2. UpTo(Nothing, 1)
  BY <1>1 DEF UpTo, Positions
<1> QED
  BY <1>1, <1>2 DEF SourceKept, KeysKept, RatesOf

LEMMA InitInv == Init => IndInv
<1>1. SUFFICES ASSUME Init PROVE IndInv
  OBVIOUS
<1>2. TypeOK
  <2>1. 1 \in Positions
    BY DEF Positions
  <2>2. /\ loop \in [Spawns -> {"off", "top", "target", "sleep", "ended"}]
        /\ next \in [Spawns -> Positions]
    BY <1>1, <2>1 DEF Init
  <2>3. /\ DOMAIN byKey = Spawns /\ DOMAIN updates = Spawns
        /\ \A k \in Spawns : byKey[k] = Nothing /\ updates[k] = Nothing
    BY <1>1 DEF Init
  <2>4. RatesOf(cache, Targets)
    BY <1>1, NothingFacts DEF Init
  <2>5. \A k \in Spawns : RatesOf(byKey[k], Sources) /\ RatesOf(updates[k], Targets)
    BY <2>3, NothingFacts
  <2> QED
    BY <1>1, <2>2, <2>3, <2>4, <2>5 DEF Init, TypeOK
<1>3. \A k \in Spawns : RefreshInv(k)
  BY <1>1, NothingFacts DEF Init, RefreshInv
<1>4. CacheInv
  BY <1>1, NothingFacts DEF Init, CacheInv, SharedEstimate
<1>5. TaskInv
  BY <1>1 DEF Init, TaskInv, OneRefresh
<1> QED
  BY <1>2, <1>3, <1>4, <1>5 DEF IndInv

(* No target is in a refresh twice. *)
LEMMA Places ==
    ASSUME NEW i \in Positions, NEW j \in Positions, AllTargets[i] = AllTargets[j]
    PROVE  i = j
<1>1. i \in {1, 2, 3, 4, 5, 6, 7, 8, 9, 10} /\ j \in {1, 2, 3, 4, 5, 6, 7, 8, 9, 10}
  BY DEF Positions
<1> QED
  BY <1>1, TargetFacts

(* A rate that a target may be kept at, beside the rates by source. *)
MayKeep(t, rate, b) ==
    /\ rate \in Asked
    /\ \/ Source[t] = MempoolMin
       \/ Source[t] \in DOMAIN b /\ b[Source[t]] = rate
       \/ network \in {"regtest", "signet"} /\ rate = RelayFallback

(* What a refresh has once it keeps one more rate. *)
LEMMA KeptRates ==
    ASSUME NEW k \in Spawns, NEW t \in Targets, NEW rate \in Nat, NEW keys,
           RefreshInv(k), RatesOf(updates[k], Targets), next[k] \in Positions,
           t = AllTargets[next[k]],
           \A s \in DOMAIN byKey[k] : s \in DOMAIN keys /\ keys[s] = byKey[k][s],
           KeysKept(keys), MayKeep(t, rate, keys)
    PROVE  LET all == With(updates[k], t, Adjusted(t, rate))
           IN  RatesOf(all, Targets) /\ UpTo(all, next[k] + 1) /\ SourceKept(all, keys)
<1> DEFINE all == With(updates[k], t, Adjusted(t, rate))
<1>1. /\ DOMAIN all = DOMAIN updates[k] \cup {t}
      /\ all[t] = Adjusted(t, rate)
      /\ \A y \in DOMAIN updates[k] : y # t => all[y] = updates[k][y]
  BY DEF With
<1>2. RatesOf(all, Targets)
  BY WithRates, AdjustedNat
<1>3. t \notin DOMAIN updates[k]
  BY DEF RefreshInv, UpTo, Positions
<1>4. UpTo(all, next[k] + 1)
  BY <1>1, Places DEF RefreshInv, UpTo, Positions
<1>5. ASSUME NEW u \in DOMAIN all PROVE RateKept(all, keys, u)
  <2>1. CASE u = t
    <3>1. Source[t] = MempoolMin => Adjusted(t, rate) = rate
      BY SourceFacts
    <3> QED
      BY <1>1, <2>1, <3>1 DEF MayKeep, RateKept
  <2>2. CASE u # t
    <3>1. u \in DOMAIN updates[k] /\ all[u] = updates[k][u]
      BY <1>1, <1>5, <2>2
    <3>2. RateKept(updates[k], byKey[k], u)
      BY <3>1 DEF RefreshInv, SourceKept, KeysKept, RateKept
    <3> HIDE DEF all
    <3> QED
      BY <3>1, <3>2 DEF RateKept
  <2> QED
    BY <2>1, <2>2
<1> QED
  BY <1>2, <1>4, <1>5 DEF SourceKept

-----------------------------------------------------------------------------
(* The maps of both tasks, where only those of one change. *)
LEMMA RefreshOthers ==
    ASSUME NEW k \in Spawns, \A j \in Spawns : RefreshInv(j),
           UNCHANGED network, RefreshInv(k)',
           \A j \in Spawns \ {k} :
               UNCHANGED <<next[j], byKey[j], updates[j]>>
    PROVE  \A j \in Spawns : RefreshInv(j)'
<1>1. ASSUME NEW j \in Spawns \ {k} PROVE RefreshInv(j)'
  BY <1>1 DEF RefreshInv, SourceKept, KeysKept, RateKept
<1> QED
  BY <1>1

(* A refresh that is over, or given up, has nothing left. *)
LEMMA Cleared ==
    ASSUME IndInv, NEW k \in Spawns, Clear(k), UNCHANGED network
    PROVE  /\ next' \in [Spawns -> Positions]
           /\ DOMAIN byKey' = Spawns /\ DOMAIN updates' = Spawns
           /\ \A j \in Spawns : RatesOf(byKey'[j], Sources) /\ RatesOf(updates'[j], Targets)
           /\ \A j \in Spawns : RefreshInv(j)'
<1>1. /\ next \in [Spawns -> Positions] /\ 1 \in Positions
      /\ DOMAIN byKey = Spawns /\ DOMAIN updates = Spawns
      /\ \A j \in Spawns : RatesOf(byKey[j], Sources) /\ RatesOf(updates[j], Targets)
      /\ \A j \in Spawns : RefreshInv(j)
  BY DEF IndInv, TypeOK, Positions
<1>2. /\ next'[k] = 1 /\ byKey'[k] = Nothing /\ updates'[k] = Nothing
      /\ next' \in [Spawns -> Positions]
      /\ DOMAIN byKey' = Spawns /\ DOMAIN updates' = Spawns
      /\ \A j \in Spawns \ {k} : UNCHANGED <<next[j], byKey[j], updates[j]>>
  BY <1>1 DEF Clear
<1>3. RefreshInv(k)'
  BY <1>2, NothingFacts DEF RefreshInv, SourceKept, KeysKept
<1>4. ASSUME NEW j \in Spawns
      PROVE  RatesOf(byKey'[j], Sources) /\ RatesOf(updates'[j], Targets)
  <2>1. CASE j = k
    BY <1>2, <2>1, NothingFacts
  <2>2. CASE j # k
    BY <1>1, <1>2, <2>2
  <2> QED
    BY <2>1, <2>2
<1>5. \A j \in Spawns : RefreshInv(j)'
  BY <1>1, <1>2, <1>3, RefreshOthers
<1> QED
  BY <1>2, <1>4, <1>5

(* The last rate of a refresh makes it the cache's. *)
LEMMA WholeCache ==
    ASSUME NEW k \in Spawns, NEW all, NEW keys, UpTo(all, 11), RatesOf(all, Targets),
           SourceKept(all, keys), cache' = all, UNCHANGED network
    PROVE  DOMAIN cache' = Targets /\ CacheInv' /\ RatesOf(cache', Targets)
<1>1. DOMAIN all = Targets
  <2>1. \A i \in Positions : AllTargets[i] \in DOMAIN all
    BY DEF UpTo, Positions
  <2>2. Targets \subseteq DOMAIN all
    BY <2>1 DEF Targets
  <2> QED
    BY <2>2 DEF RatesOf
<1>2. \A t \in Targets : Get(t)' = AtLeast(all[t], Floor)
  BY <1>1 DEF Get
<1>3. ASSUME NEW s \in Sources
      PROVE  \E rate \in Asked :
                \A t \in Targets :
                   Source[t] = s =>
                       \/ Estimated(t, rate)'
                       \/ network = "signet" /\ Estimated(t, RelayFallback)'
  <2>1. CASE s = MempoolMin
    <3>1. all[MempoolTarget] \in Asked
      <4>1. MempoolTarget \in Targets /\ Source[MempoolTarget] = MempoolMin
        BY TargetFacts DEF MempoolTarget, Source
      <4> QED
        BY <1>1, <4>1 DEF SourceKept, RateKept
    <3>2. \A t \in Targets : Source[t] = s => Estimated(t, all[MempoolTarget])'
      BY <1>2, <2>1, SourceFacts DEF Estimated
    <3> QED
      BY <3>1, <3>2
  <2>2. CASE s # MempoolMin /\ s \in DOMAIN keys
    <3>1. keys[s] \in Asked /\ (network = "regtest" => keys[s] = RelayFallback)
      BY <2>2 DEF SourceKept, KeysKept
    <3>2. ASSUME NEW t \in Targets, Source[t] = s
          PROVE  \/ all[t] = Adjusted(t, keys[s])
                 \/ network = "signet" /\ all[t] = Adjusted(t, RelayFallback)
      BY <1>1, <2>2, <3>1, <3>2 DEF SourceKept, RateKept
    <3>3. ASSUME NEW t \in Targets, Source[t] = s
          PROVE  \/ Estimated(t, keys[s])'
                 \/ network = "signet" /\ Estimated(t, RelayFallback)'
      BY <1>2, <3>2, <3>3 DEF Estimated
    <3> QED
      BY <3>1, <3>3
  <2>3. CASE s # MempoolMin /\ s \notin DOMAIN keys
    <3>1. ASSUME NEW t \in Targets, Source[t] = s
          PROVE  Estimated(t, RelayFallback)'
      BY <1>1, <1>2, <2>3, <3>1 DEF SourceKept, RateKept, Estimated
    <3>2. RelayFallback \in Asked
      BY DEF Asked
    <3> QED
      BY <3>1, <3>2
  <2> QED
    BY <2>1, <2>2, <2>3
<1>4. SharedEstimate'
  BY <1>3 DEF SharedEstimate, Asked
<1> QED
  BY <1>1, <1>4 DEF CacheInv

(* The task of another refresh is left as it is. *)
LEMMA TaskGoesOn ==
    ASSUME IndInv, NEW k \in Spawns, loop[k] \notin {"off", "ended"},
           UNCHANGED started,
           \/ UNCHANGED loop
           \/ \E step \in {"top", "target", "sleep", "ended"} : Goto(k, step)
    PROVE  TaskInv' /\ loop' \in [Spawns -> {"off", "top", "target", "sleep", "ended"}]
<1>1. /\ loop \in [Spawns -> {"off", "top", "target", "sleep", "ended"}]
      /\ started
      /\ OneRefresh
  BY DEF IndInv, TypeOK, TaskInv
<1>2. /\ loop' \in [Spawns -> {"off", "top", "target", "sleep", "ended"}]
      /\ \A j \in Spawns \ {k} : loop'[j] = loop[j]
  BY <1>1 DEF Goto
<1>3. OneRefresh'
  BY <1>1, <1>2 DEF OneRefresh
<1> QED
  BY <1>1, <1>2, <1>3 DEF TaskInv

(* An estimate that ends with a rate. *)
LEMMA KeepInv ==
    ASSUME IndInv, NEW k \in Spawns, NEW t \in Targets, Estimating(k, t),
           NEW rate \in Nat, NEW keys, RatesOf(keys, Sources), Keep(k, t, rate, keys),
           \A s \in DOMAIN byKey[k] : s \in DOMAIN keys /\ keys[s] = byKey[k][s],
           KeysKept(keys), MayKeep(t, rate, keys)
    PROVE  IndInv'
<1> DEFINE all == With(updates[k], t, Adjusted(t, rate))
<1>1. /\ loop[k] = "target" /\ t = AllTargets[next[k]]
      /\ UNCHANGED <<network, started, stop>>
  BY DEF Estimating
<1>2. /\ RefreshInv(k) /\ RatesOf(updates[k], Targets) /\ next[k] \in Positions
      /\ network \in Networks /\ RatesOf(cache, Targets) /\ started \in BOOLEAN
      /\ stop \in {"no", "shutdown", "dropped"}
      /\ DOMAIN byKey = Spawns /\ DOMAIN updates = Spawns
      /\ next \in [Spawns -> Positions]
      /\ \A j \in Spawns : RatesOf(byKey[j], Sources) /\ RatesOf(updates[j], Targets)
      /\ \A j \in Spawns : RefreshInv(j)
      /\ CacheInv
  BY DEF IndInv, TypeOK
<1>3. RatesOf(all, Targets) /\ UpTo(all, next[k] + 1) /\ SourceKept(all, keys)
  BY <1>1, <1>2, KeptRates
<1>4. CASE next[k] = 10
  <2>1. cache' = all /\ Goto(k, "sleep") /\ Clear(k)
    BY <1>4 DEF Keep
  <2>2. UpTo(all, 11)
    BY <1>3, <1>4
  <2>3. CacheInv' /\ RatesOf(cache', Targets)
    BY <1>1, <1>3, <2>1, <2>2, WholeCache
  <2>4. TaskInv' /\ loop' \in [Spawns -> {"off", "top", "target", "sleep", "ended"}]
    BY <1>1, <2>1, TaskGoesOn
  <2>5. /\ next' \in [Spawns -> Positions]
        /\ DOMAIN byKey' = Spawns /\ DOMAIN updates' = Spawns
        /\ \A j \in Spawns : RatesOf(byKey'[j], Sources) /\ RatesOf(updates'[j], Targets)
        /\ \A j \in Spawns : RefreshInv(j)'
    BY <1>1, <2>1, Cleared
  <2>6. TypeOK'
    BY <1>1, <1>2, <2>3, <2>4, <2>5 DEF TypeOK
  <2> QED
    BY <2>3, <2>4, <2>5, <2>6 DEF IndInv
<1>5. CASE next[k] # 10
  <2>1. /\ updates' = [updates EXCEPT ![k] = all]
        /\ byKey' = [byKey EXCEPT ![k] = keys]
        /\ next' = [next EXCEPT ![k] = @ + 1]
        /\ UNCHANGED <<cache, loop>>
    BY <1>5 DEF Keep
  <2>2. next[k] + 1 \in Positions
    BY <1>2, <1>5 DEF Positions
  <2>3. /\ next' \in [Spawns -> Positions]
        /\ DOMAIN byKey' = Spawns /\ DOMAIN updates' = Spawns
        /\ next'[k] = next[k] + 1 /\ byKey'[k] = keys /\ updates'[k] = all
        /\ \A j \in Spawns \ {k} : UNCHANGED <<next[j], byKey[j], updates[j]>>
    BY <1>2, <2>1, <2>2
  <2>4. RefreshInv(k)'
    BY <1>1, <1>3, <2>3 DEF RefreshInv, SourceKept, KeysKept, RateKept
  <2>5. \A j \in Spawns : RefreshInv(j)'
    BY <1>1, <1>2, <2>3, <2>4, RefreshOthers
  <2>6. ASSUME NEW j \in Spawns
        PROVE  RatesOf(byKey'[j], Sources) /\ RatesOf(updates'[j], Targets)
    <3>1. CASE j = k
      BY <1>3, <2>3, <3>1
    <3>2. CASE j # k
      BY <1>2, <2>3, <3>2
    <3> QED
      BY <3>1, <3>2
  <2>7. TaskInv' /\ loop' \in [Spawns -> {"off", "top", "target", "sleep", "ended"}]
    BY <1>1, <2>1, TaskGoesOn
  <2>8. CacheInv'
    BY <1>1, <1>2, <2>1 DEF CacheInv, SharedEstimate, Estimated, Get
  <2>9. TypeOK'
    BY <1>1, <1>2, <2>1, <2>3, <2>6, <2>7 DEF TypeOK
  <2> QED
    BY <2>5, <2>7, <2>8, <2>9 DEF IndInv
<1> QED
  BY <1>4, <1>5

(* A step that leaves the refreshes and the cache alone. *)
LEMMA TaskStep ==
    ASSUME IndInv, TaskInv',
           loop' \in [Spawns -> {"off", "top", "target", "sleep", "ended"}],
           started' \in BOOLEAN, stop' \in {"no", "shutdown", "dropped"},
           UNCHANGED <<network, cache, next, byKey, updates>>
    PROVE  IndInv'
<1>1. TypeOK' /\ CacheInv'
  BY DEF IndInv, TypeOK, CacheInv, SharedEstimate, Estimated, Get
<1>2. ASSUME NEW k \in Spawns PROVE RefreshInv(k)'
  BY DEF IndInv, RefreshInv, SourceKept, KeysKept, RateKept
<1> QED
  BY <1>1, <1>2 DEF IndInv

(* A refresh that is given up. *)
LEMMA GivenUp ==
    ASSUME IndInv, NEW k \in Spawns, loop[k] = "target", Clear(k),
           NEW step \in {"sleep", "ended"}, Goto(k, step),
           UNCHANGED <<network, cache, started, stop>>
    PROVE  IndInv'
<1>1. TaskInv' /\ loop' \in [Spawns -> {"off", "top", "target", "sleep", "ended"}]
  BY TaskGoesOn
<1>2. /\ next' \in [Spawns -> Positions]
      /\ DOMAIN byKey' = Spawns /\ DOMAIN updates' = Spawns
      /\ \A j \in Spawns : RatesOf(byKey'[j], Sources) /\ RatesOf(updates'[j], Targets)
      /\ \A j \in Spawns : RefreshInv(j)'
  BY Cleared
<1>3. CacheInv'
  BY DEF IndInv, CacheInv, SharedEstimate, Estimated, Get
<1>4. TypeOK'
  BY <1>1, <1>2 DEF IndInv, TypeOK
<1> QED
  BY <1>1, <1>2, <1>3, <1>4 DEF IndInv

-----------------------------------------------------------------------------
LEMMA StepInv == IndInv /\ [Next]_vars => IndInv'
<1>1. SUFFICES ASSUME IndInv, [Next]_vars PROVE IndInv'
  OBVIOUS
<1>2. /\ started \in BOOLEAN /\ stop \in {"no", "shutdown", "dropped"}
      /\ loop \in [Spawns -> {"off", "top", "target", "sleep", "ended"}]
      /\ \A k \in Spawns : RatesOf(byKey[k], Sources)
      /\ TaskInv
  BY <1>1 DEF IndInv, TypeOK
<1>3. ASSUME NEW k \in Spawns, Spawn(k) PROVE IndInv'
  <2>1. /\ loop[k] = "off" /\ started' = TRUE
        /\ loop' = [loop EXCEPT ![k] = IF started THEN "ended" ELSE "top"]
        /\ UNCHANGED <<network, cache, stop, next, byKey, updates>>
    BY <1>3 DEF Spawn, Goto
  <2>2. /\ loop' \in [Spawns -> {"off", "top", "target", "sleep", "ended"}]
        /\ loop'[k] = IF started THEN "ended" ELSE "top"
        /\ \A j \in Spawns \ {k} : loop'[j] = loop[j]
    BY <1>2, <2>1
  <2>3. TaskInv'
    BY <1>2, <2>1, <2>2 DEF TaskInv, OneRefresh
  <2> QED
    BY <1>1, <1>2, <2>1, <2>2, <2>3, TaskStep
<1>4. ASSUME NEW k \in Spawns, Begin(k) \/ Interval(k) \/ Stopped(k) PROVE IndInv'
  <2>1. /\ loop[k] \notin {"off", "ended"}
        /\ \E step \in {"top", "target", "sleep", "ended"} : Goto(k, step)
        /\ UNCHANGED <<network, cache, started, stop, next, byKey, updates>>
    BY <1>4 DEF Begin, Interval, Stopped
  <2>2. TaskInv' /\ loop' \in [Spawns -> {"off", "top", "target", "sleep", "ended"}]
    BY <1>1, <2>1, TaskGoesOn
  <2> QED
    BY <1>1, <1>2, <2>1, <2>2, TaskStep
<1>5. ASSUME NEW k \in Spawns, EstimateShared(k) PROVE IndInv'
  <2>1. PICK t \in Targets :
            /\ Estimating(k, t)
            /\ Source[t] \in DOMAIN byKey[k]
            /\ Keep(k, t, byKey[k][Source[t]], byKey[k])
    BY <1>5 DEF EstimateShared
  <2>2. byKey[k][Source[t]] \in Nat
    BY <1>2, <2>1 DEF RatesOf
  <2>3. KeysKept(byKey[k])
    BY <1>1 DEF IndInv, RefreshInv, SourceKept
  <2>4. MayKeep(t, byKey[k][Source[t]], byKey[k])
    BY <2>1, <2>3 DEF MayKeep, KeysKept
  <2> QED
    BY <1>1, <1>2, <2>1, <2>2, <2>3, <2>4, KeepInv
<1>6. ASSUME NEW k \in Spawns, EstimateAsked(k) PROVE IndInv'
  <2>1. PICK t \in Targets :
            /\ Estimating(k, t)
            /\ Source[t] \notin DOMAIN byKey[k]
            /\ \E rate \in Reports(Source[t]) :
                  Keep(k, t, rate, IF Source[t] = MempoolMin THEN byKey[k]
                                   ELSE With(byKey[k], Source[t], rate))
    BY <1>6 DEF EstimateAsked
  <2>2. PICK rate \in Reports(Source[t]) :
            Keep(k, t, rate, IF Source[t] = MempoolMin THEN byKey[k]
                             ELSE With(byKey[k], Source[t], rate))
    BY <2>1
  <2>3. /\ rate \in Nat /\ rate \in Asked
        /\ network = "regtest" /\ Source[t] # MempoolMin => rate = RelayFallback
    BY RatesAssumption
       DEF Reports, FeeRateEstimation, MinimumMempoolFee, RelayFallback, Asked
  <2>4. KeysKept(byKey[k])
    BY <1>1 DEF IndInv, RefreshInv, SourceKept
  <2> DEFINE kept == With(byKey[k], Source[t], rate)
  <2>5. /\ DOMAIN kept = DOMAIN byKey[k] \cup {Source[t]}
        /\ kept[Source[t]] = rate
        /\ \A s \in DOMAIN byKey[k] : kept[s] = byKey[k][s]
    BY <2>1 DEF With
  <2>6. Source[t] \in Sources
    BY DEF Sources
  <2>7. RatesOf(kept, Sources)
    BY <1>2, <2>3, <2>6, WithRates
  <2>8. CASE Source[t] = MempoolMin
    <3>1. Keep(k, t, rate, byKey[k])
      BY <2>2, <2>8
    <3>2. MayKeep(t, rate, byKey[k])
      BY <2>3, <2>8 DEF MayKeep
    <3> QED
      BY <1>1, <1>2, <2>1, <2>3, <2>4, <3>1, <3>2, KeepInv
  <2>9. CASE Source[t] # MempoolMin
    <3>1. Keep(k, t, rate, kept)
      BY <2>2, <2>9
    <3> HIDE DEF kept
    <3>2. KeysKept(kept)
      BY <2>3, <2>4, <2>5, <2>9 DEF KeysKept
    <3>3. MayKeep(t, rate, kept)
      BY <2>3, <2>5 DEF MayKeep
    <3> QED
      BY <1>1, <2>1, <2>3, <2>5, <2>7, <3>1, <3>2, <3>3, KeepInv
  <2> QED
    BY <2>8, <2>9
<1>7. ASSUME NEW k \in Spawns, EstimateFellBack(k) PROVE IndInv'
  <2>1. PICK t \in Targets :
            /\ Estimating(k, t)
            /\ network \in {"regtest", "signet"}
            /\ Keep(k, t, RelayFallback, byKey[k])
    BY <1>7 DEF EstimateFellBack
  <2>2. RelayFallback \in Nat /\ MayKeep(t, RelayFallback, byKey[k])
    BY <2>1 DEF RelayFallback, MayKeep, Asked
  <2>3. KeysKept(byKey[k])
    BY <1>1 DEF IndInv, RefreshInv, SourceKept
  <2> QED
    BY <1>1, <1>2, <2>1, <2>2, <2>3, KeepInv
<1>8. ASSUME NEW k \in Spawns, EstimateFailed(k) PROVE IndInv'
  <2>1. /\ loop[k] = "target" /\ Goto(k, "sleep") /\ Clear(k)
        /\ UNCHANGED <<network, cache, started, stop>>
    BY <1>8 DEF EstimateFailed, Estimating
  <2> QED
    BY <1>1, <2>1, GivenUp
<1>9. ASSUME NEW k \in Spawns, StopRefresh(k) PROVE IndInv'
  BY <1>1, <1>9, GivenUp DEF StopRefresh
<1>10. CASE Stop
  <2>1. /\ UNCHANGED <<network, cache, started, loop, next, byKey, updates>>
        /\ stop' \in {"no", "shutdown", "dropped"}
    BY <1>10 DEF Stop
  <2>2. TaskInv'
    BY <1>2, <2>1 DEF TaskInv, OneRefresh
  <2> QED
    BY <1>1, <1>2, <2>1, <2>2, TaskStep
<1>11. CASE UNCHANGED vars
  <2>1. TaskInv'
    BY <1>2, <1>11 DEF TaskInv, OneRefresh, vars
  <2> QED
    BY <1>1, <1>2, <1>11, <2>1, TaskStep DEF vars
<1> QED
  BY <1>1, <1>3, <1>4, <1>5, <1>6, <1>7, <1>8, <1>9, <1>10, <1>11 DEF Next, Estimate

(* The cache, the refreshes and their task stay well typed. *)
THEOREM TypeCorrect == Spec => []TypeOK
<1>1. IndInv => TypeOK
  BY DEF IndInv
<1> QED
  BY InitInv, StepInv, <1>1, PTL DEF Spec

(* Readers see the rates of one whole refresh, or none. *)
THEOREM CacheWhole == Spec => []WholeRefresh
<1>1. IndInv => WholeRefresh
  BY NothingFacts DEF IndInv, CacheInv, WholeRefresh
<1> QED
  BY InitInv, StepInv, <1>1, PTL DEF Spec

(* On every network the targets of one source are read at one estimate of  *)
(* it, but for the fallbacks of signet.                                    *)
THEOREM EstimatesShared == Spec => []SharedEstimate
<1>1. IndInv => SharedEstimate
  BY DEF IndInv, CacheInv
<1> QED
  BY InitInv, StepInv, <1>1, PTL DEF Spec

(* Two spawns never make two refreshes at a time. *)
THEOREM RefreshAlone == Spec => []OneRefresh
<1>1. IndInv => OneRefresh
  BY DEF IndInv, TaskInv
<1> QED
  BY InitInv, StepInv, <1>1, PTL DEF Spec
=============================================================================
