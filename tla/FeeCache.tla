------------------------------ MODULE FeeCache ------------------------------
(***************************************************************************)
(* The fee rates the node works with: a cache that LDK and the wallet read *)
(* at any moment, and the task that refreshes it from the node's backend,  *)
(* one estimate at a time.  Rates are sat/kW.  The saturation of u32, far  *)
(* above any rate a backend reports, is left out.                          *)
(***************************************************************************)
EXTENDS Naturals, Sequences

CONSTANTS
    Rates,      \* rates the backend may report
    Networks,   \* networks the node may be configured for
    Repeating   \* bound: the networks whose full cache is refreshed again

ASSUME RatesAssumption == Rates \subseteq Nat
ASSUME NetworksAssumption ==
    Networks \subseteq {"bitcoin", "testnet", "signet", "regtest"}
ASSUME RepeatingAssumption == Repeating \subseteq Networks

(* all_targets, in the order they are estimated. *)
AllTargets == <<"OnchainPayment", "ChannelFunding", "MaximumFeeEstimate",
    "UrgentOnChainSweep", "MinAllowedAnchorChannelRemoteFee",
    "MinAllowedNonAnchorChannelRemoteFee", "AnchorChannelFee",
    "NonAnchorChannelFee", "ChannelCloseMinimum", "OutputSpendingFee">>
Positions == 1 .. 10
Targets == {AllTargets[i] : i \in Positions}

Economical(blocks) == <<blocks, "Economical">>
Conservative(blocks) == <<blocks, "Conservative">>
MempoolMin == <<0, "MempoolMin">>

(* source_for_target: what the backend is asked for. *)
Source ==
    [t \in Targets |->
        CASE t = "OnchainPayment" -> Economical(6)
          [] t = "MaximumFeeEstimate" -> Conservative(1)
          [] t = "UrgentOnChainSweep" -> Conservative(6)
          [] t = "MinAllowedAnchorChannelRemoteFee" -> MempoolMin
          [] t \in {"MinAllowedNonAnchorChannelRemoteFee",
                    "ChannelCloseMinimum"} -> Economical(144)
          [] t = "AnchorChannelFee" -> Economical(1008)
          [] OTHER -> Economical(12)]
Sources == {Source[t] : t \in Targets}

Floor == 253
RelayFallback == 250

AtLeast(a, b) == IF a < b THEN b ELSE a
Less(a, b) == IF a < b THEN 0 ELSE a - b   \* saturating_sub

(* fallback_sat_per_kw: read while nothing is cached. *)
Fallback ==
    [t \in Targets |->
        CASE t = "MaximumFeeEstimate" -> 8000
          [] t \in {"OnchainPayment", "UrgentOnChainSweep"} -> 5000
          [] t \in {"AnchorChannelFee", "ChannelCloseMinimum"} -> 500
          [] t \in {"MinAllowedAnchorChannelRemoteFee",
                    "MinAllowedNonAnchorChannelRemoteFee"} -> Floor
          [] OTHER -> 1000]

(* apply_post_estimation_adjustments. *)
Adjusted(t, rate) ==
    CASE t = "MinAllowedNonAnchorChannelRemoteFee" ->
            AtLeast(Less(rate, 250), Floor)
      [] t = "MaximumFeeEstimate" -> (rate * 11) \div 10 + 2500
      [] OTHER -> rate

(* The two calls of spawn_fee_refresh: in init_onchaind, and in listen. *)
Spawns == {"init", "listen"}

VARIABLES
    network,  \* of the configuration
    cache,    \* FeeCache: the rate of every target it has
    started,  \* fee_refresh_started
    stop,     \* the shutdown flag is set, or the daemon was dropped
    loop,     \* where the task of each spawn is
    next,     \* position of the target it estimates
    byKey,    \* by_key: the rates estimated in this refresh, by source
    updates   \* the rates this refresh has for the cache

vars == <<network, cache, started, stop, loop, next, byKey, updates>>

Nothing == [t \in {} |-> 0]
With(f, x, v) == [y \in DOMAIN f \cup {x} |-> IF y = x THEN v ELSE f[y]]

(* A map of some of a set's members to rates. *)
RatesOf(f, S) == DOMAIN f \subseteq S /\ \A x \in DOMAIN f : f[x] \in Nat

TypeOK ==
    /\ network \in Networks
    /\ RatesOf(cache, Targets)
    /\ started \in BOOLEAN
    /\ stop \in {"no", "shutdown", "dropped"}
    /\ loop \in [Spawns -> {"off", "top", "target", "sleep", "ended"}]
    /\ next \in [Spawns -> Positions]
    /\ DOMAIN byKey = Spawns /\ DOMAIN updates = Spawns
    /\ \A k \in Spawns : RatesOf(byKey[k], Sources) /\ RatesOf(updates[k], Targets)

Init ==
    /\ network \in Networks
    /\ cache = Nothing
    /\ started = FALSE
    /\ stop = "no"
    /\ loop = [k \in Spawns |-> "off"]
    /\ next = [k \in Spawns |-> 1]
    /\ byKey = [k \in Spawns |-> Nothing]
    /\ updates = [k \in Spawns |-> Nothing]

-----------------------------------------------------------------------------
(* FeeCache::get, the rate every reader sees. *)
Get(t) == AtLeast(IF t \in DOMAIN cache THEN cache[t] ELSE Fallback[t], Floor)

Goto(k, step) == loop' = [loop EXCEPT ![k] = step]

(* The refresh lost what it had: its maps are locals. *)
Clear(k) ==
    /\ next' = [next EXCEPT ![k] = 1]
    /\ byKey' = [byKey EXCEPT ![k] = Nothing]
    /\ updates' = [updates EXCEPT ![k] = Nothing]

(* Mutant: fee_refresh_started is set, and not looked at. *)
SpawnAgain(k) ==
    /\ loop[k] = "off"
    /\ k = "listen" => loop["init"] # "off"
    /\ started' = TRUE
    /\ Goto(k, "top")
    /\ UNCHANGED <<network, cache, stop, next, byKey, updates>>

(* spawn_fee_refresh; listen comes after init_onchaind. *)
Spawn(k) ==
    /\ loop[k] = "off"
    /\ k = "listen" => loop["init"] # "off"
    /\ started' = TRUE
    /\ Goto(k, IF started THEN "ended" ELSE "top")
    /\ UNCHANGED <<network, cache, stop, next, byKey, updates>>

(* The top of run_fee_refresh, and the first check of refresh_fee_cache. *)
Begin(k) ==
    /\ loop[k] = "top"
    /\ Goto(k, IF stop = "no" THEN "target" ELSE "ended")
    /\ UNCHANGED <<network, cache, started, stop, next, byKey, updates>>

(* What the backend answers: nothing when the call fails or times out.     *)
(* bitcoind is not asked for an estimate on regtest.                       *)
FeeRateEstimation == IF network = "regtest" THEN {RelayFallback} ELSE Rates
MinimumMempoolFee == Rates

Reports(source) ==
    IF source = MempoolMin THEN MinimumMempoolFee ELSE FeeRateEstimation

(* Mutant: each rate goes to the cache when it is there. *)
KeepInPlace(k, t, rate, keys) ==
    /\ cache' = With(cache, t, Adjusted(t, rate))
    /\ IF next[k] = 10
       THEN Goto(k, "sleep") /\ Clear(k)
       ELSE /\ byKey' = [byKey EXCEPT ![k] = keys]
            /\ next' = [next EXCEPT ![k] = @ + 1]
            /\ UNCHANGED <<updates, loop>>

(* The estimate of a target ends with a rate: it is kept for the cache,    *)
(* which is replaced at once when the last is there.                       *)
Keep(k, t, rate, keys) ==
    LET all == With(updates[k], t, Adjusted(t, rate)) IN
    IF next[k] = 10
    THEN /\ cache' = all
         /\ Goto(k, "sleep")
         /\ Clear(k)
    ELSE /\ updates' = [updates EXCEPT ![k] = all]
         /\ byKey' = [byKey EXCEPT ![k] = keys]
         /\ next' = [next EXCEPT ![k] = @ + 1]
         /\ UNCHANGED <<cache, loop>>

(* The next target, when the refresh is not to stop: should_stop sees the  *)
(* flag, and the refresh itself keeps a dropped daemon's manager alive.    *)
Estimating(k, t) ==
    /\ loop[k] = "target"
    /\ stop # "shutdown"
    /\ t = AllTargets[next[k]]
    /\ UNCHANGED <<network, started, stop>>

(* by_key has a rate of this refresh already. *)
EstimateShared(k) ==
    \E t \in Targets :
       /\ Estimating(k, t)
       /\ Source[t] \in DOMAIN byKey[k]
       /\ Keep(k, t, byKey[k][Source[t]], byKey[k])

(* Mutant: a refresh asks again for a rate it has. *)
EstimateAskedTwice(k) ==
    \E t \in Targets :
       /\ Estimating(k, t)
       /\ \E rate \in Reports(Source[t]) :
             Keep(k, t, rate, With(byKey[k], Source[t], rate))

(* The backend answers.  The mempool's minimum is not kept by source. *)
EstimateAsked(k) ==
    \E t \in Targets :
       /\ Estimating(k, t)
       /\ Source[t] \notin DOMAIN byKey[k]
       /\ \E rate \in Reports(Source[t]) :
             Keep(k, t, rate, IF Source[t] = MempoolMin THEN byKey[k]
                              ELSE With(byKey[k], Source[t], rate))

(* on_estimate_error with a fallback, which is not kept by source. *)
EstimateFellBack(k) ==
    \E t \in Targets :
       /\ Estimating(k, t)
       /\ Source[t] \notin DOMAIN byKey[k]
       /\ Reports(Source[t]) = Rates
       /\ network \in {"regtest", "signet"}
       /\ Keep(k, t, RelayFallback, byKey[k])

(* on_estimate_error without: the refresh is given up. *)
EstimateFailed(k) ==
    \E t \in Targets :
       /\ Estimating(k, t)
       /\ Source[t] \notin DOMAIN byKey[k]
       /\ network \notin {"regtest", "signet"}
       /\ Goto(k, "sleep")
       /\ Clear(k)
       /\ UNCHANGED cache

(* should_stop between two targets. *)
StopRefresh(k) ==
    /\ loop[k] = "target"
    /\ stop = "shutdown"
    /\ Goto(k, "ended")
    /\ Clear(k)
    /\ UNCHANGED <<network, cache, started, stop>>

(* FEE_CACHE_REFRESH_SECS are over. *)
Interval(k) ==
    /\ loop[k] = "sleep"
    /\ cache # Nothing => network \in Repeating
    /\ Goto(k, "top")
    /\ UNCHANGED <<network, cache, started, stop, next, byKey, updates>>

(* Mutant: only the drop of the daemon wakes the sleeper, which looks at   *)
(* the flag when its interval is over.                                     *)
StoppedByDrop(k) ==
    /\ loop[k] = "sleep"
    /\ stop = "dropped"
    /\ Goto(k, "ended")
    /\ UNCHANGED <<network, cache, started, stop, next, byKey, updates>>

(* wait_until_fee_refresh_stopped, beside the interval: with both due,     *)
(* either is taken.                                                        *)
Stopped(k) ==
    /\ loop[k] = "sleep"
    /\ stop # "no"
    /\ Goto(k, "ended")
    /\ UNCHANGED <<network, cache, started, stop, next, byKey, updates>>

Estimate(k) ==
    \/ EstimateShared(k)
    \/ EstimateAsked(k)
    \/ EstimateFellBack(k)
    \/ EstimateFailed(k)
    \/ StopRefresh(k)

(* LampoDaemon::shutdown, or the last reference to the daemon goes. *)
Stop ==
    /\ stop = "no"
    /\ stop' \in {"shutdown", "dropped"}
    /\ UNCHANGED <<network, cache, started, loop, next, byKey, updates>>

Next ==
    \/ \E k \in Spawns : Spawn(k) \/ Begin(k) \/ Estimate(k)
    \/ \E k \in Spawns : Interval(k) \/ Stopped(k)
    \/ Stop

Spec == Init /\ [][Next]_vars

(* A spawned task is polled, its RPCs have a timeout of 5 s, the flag is   *)
(* looked at every 100 ms.  Nothing is assumed of the interval: the end of *)
(* the task must not depend on it.                                         *)
Fairness == \A k \in Spawns : WF_vars(Begin(k) \/ Estimate(k) \/ Stopped(k))
FairSpec == Spec /\ Fairness

-----------------------------------------------------------------------------
(* A reader sees no rates, or all the rates of one refresh: never a target *)
(* at its fallback beside another that was estimated, whatever fails or    *)
(* stops in the middle of a refresh.                                       *)
WholeRefresh == DOMAIN cache \in {{}, Targets}

(* What is read of a full cache is of one refresh, in which a source is    *)
(* asked once: the targets of a source are read at one estimate of it,     *)
(* even if the backend's moved in the meantime.  On signet a target may    *)
(* have the fallback instead, when its own call failed.                    *)
Estimated(t, rate) == Get(t) = AtLeast(Adjusted(t, rate), Floor)

SharedEstimate ==
    cache # Nothing =>
        \A s \in Sources :
           \E rate \in Rates \cup {RelayFallback} :
              \A t \in Targets :
                 Source[t] = s =>
                     \/ Estimated(t, rate)
                     \/ network = "signet" /\ Estimated(t, RelayFallback)

(* The two calls of spawn_fee_refresh give one task, which refreshes one   *)
(* at a time.                                                              *)
OneRefresh ==
    \A j, k \in Spawns :
        loop[j] \notin {"off", "ended"} /\ loop[k] \notin {"off", "ended"} => j = k

(* After a shutdown or the drop of the daemon the task ends: it does not   *)
(* wait out the interval, nor keep the wallet and the backend alive.       *)
RefreshEnds ==
    stop # "no" ~> \A k \in Spawns : loop[k] \in {"off", "ended"}
=============================================================================
