# Lampo in TLA+

TLA+ models of the lampo Lightning node (`lampod` and the crates it is built
from), the TLC configurations that check them, and proofs checked by TLAPS.
They cover the parts of the node where several tasks, a peer, bitcoind and time
act on shared state; everything is translated from the source. Names of states,
operations and fields are the code's.

    OpenPromise ◄── OpenChannel ◄─── OpenChannelProofs      opening channels
                    PeerDial ◄────── PeerDialProofs         dialing peers
                    PeerStore ◄───── PeerStoreProofs        remembering peers
                    ChainSync ◄────┬ WalletProofs           following the chain
                    WalletScripts ◄┘                        scripts handed out
                    Payments ◄────── PaymentsProofs         paying
                    CloseChannel ◄── CloseChannelProofs     closing channels
                    FeeCache ◄────── FeeCacheProofs         fee rates
    WalletFiles ◄── Daemon ◄──────── DaemonProofs           start to shutdown

`X ◄── Y`: Y extends X, or implements it (`OpenPromise` is an abstract
specification, instantiated by `OpenChannel`; `Daemon` composes `WalletFiles`
with the rest of the process's life). Each component has
an `MC…` module with its instance for TLC.

To check a module: `tlc -config MCPeerDial.cfg MCPeerDial.tla`; to check proofs:
`tlapm PeerDialProofs.tla`. `PROJECT.json` lists runs, mutants of the models,
hazards, findings and theorems, and the source lines of each definition.

## The system

One daemon process runs on tokio: request handlers of the HTTP server, one task
that handles LDK's events, background jobs, one task per broadcast, and the
chain backend. They meet in LDK's managers, in a process-wide event bus, in a
few mutexes and in files. In brief, with the module that models it:

| Component | State it keeps | Operations | Module |
|---|---|---|---|
| `open_channel`, funding wait state (`lampod/ln/channel_manager.rs`) | locals of each waiter; `funding_wait_state`: temporary channel id → `Accepted` or `Abandoned` | open, hear an event, drain at the deadline, abandon, force-close, clear | OpenChannel |
| Event bus (`lampo-common/event.rs`) | an unbounded queue per subscription | `emit`, `events` | OpenChannel |
| LDK event handler (`lampod/actions/handler.rs`, `lib.rs`) | none; one event at a time | `handle`, `handle_funding_generation`, `abandon_temp_channel` | OpenChannel (funding and closing) |
| Transaction broadcast (`lampo-chain`) | a task per package | `broadcast_transactions`, `brodcast_tx` | OpenChannel |
| Outbound dials (`lampod/ln/peer_manager.rs`) | `outbound_dial_locks`, 32 dial permits | `connect`, `disconnect`, the reconnect loop, `dial` | PeerDial |
| Peer store (same file) | `peers.json` | `remember_peer`, `load_peers` | PeerStore |
| Inbound peers, node announcement | the accept loop's task | accept, announce | Daemon (the loop's life) |
| Chain sync coordinator (`lampo-common/chainsync.rs`) | `ChainSyncState`, grace period, scan progress | `mark_*`, `wallet_scan_allowed` | ChainSync |
| Chain backends (`lampo-chain`) | cached headers, SPV client's tip | `listen`, `synchronize_listeners`, poll | ChainSync |
| On-chain wallet (`lampo-bdk-wallet`) | BDK's checkpoints and transactions, its database, `sync_guard` | `listen`, `sync`, `apply_block_inner`, `block_connected` | ChainSync |
| On-chain wallet's files and scripts | `bdk-wallet.db`, the recovery marker, the last revealed index | `new`, `restore`, `build_wallet`, `next_wallet_script` | WalletFiles, WalletScripts |
| Fee estimates (`lampod/chain`) | a map of fee rates, `fee_refresh_started` | refresh, read | FeeCache |
| Payments (`lampod/jsonrpc/offchain.rs`, `ln/offchain_manager.rs`) | locals of each waiter, payer proofs | `pay`, `keysend`, the handler's payment events | Payments |
| Close and list calls (`lampod/jsonrpc/channels.rs`) | locals of each waiter | `close`, `channels` | CloseChannel |
| Daemon lifecycle, persistence (`lampod-cli`, `lampod/lib.rs`, `persistence`) | `wallet.dat`, LDK's store, the pid file, the shutdown flag | start, restart, shutdown, sweep | WalletFiles, Daemon |
| Keys (`lampo-common/keys.rs`) | the wallet it was given | destination and shutdown scripts | WalletScripts |
| Inventory, payer proofs | records of proofs | store, read | Payments (the store) |
| HTTP server | none | dispatch, stop | Daemon, CloseChannel (as far as they depend on it) |
| Command lines, bindings, configuration, loggers | none that changes | – | – |

How they interact. An `open_channel` request subscribes to the bus, asks LDK for
a channel and waits. LDK and the peer negotiate it and queue
`FundingGenerationReady`; the handler builds the transaction with the wallet,
hands it to LDK under the lock of the funding wait state, and announces
`FundingChannelEnd`. LDK broadcasts through a detached task which announces
`SendRawTransaction` or `FundingChannelFailed{txid}`. At its deadline the waiter
drains its queue and, if LDK has not accepted the funding, abandons the open and
force-closes the channel. `connect` calls, the `ConnectionNeeded` event and the
reconnect loop dial peers; the addresses of those that answered go to
`peers.json`, where the loop finds them again. The backend's initial pass
connects blocks to LDK and (in the unified mode) to the wallet; the wallet also
scans by itself, when the coordinator allows it or a grace period is over.
`pay`, `keysend` and `close` subscribe to the bus, call LDK and wait for the
handler to announce what became of their payment or channel; `close` first asks
the node's own HTTP server for the channels. A task of the chain manager fills
the cache of fee rates that LDK and the wallet read. `main` makes or opens the
wallet, restores what LDK stored, locks the pid file, starts the HTTP server,
the listener and the event loop, and waits for a shutdown.

What is hard, and what makes each part correct:

- **Opening**: the deadline races the event handler, its events wait in queues
  while decisions are taken, and the bus brings every waiter everybody's events.
  Correct means that an answer the caller may retry after is only given for a
  channel that will never be funded, that no funded channel is closed by the
  clean-up, and that success is about the caller's own transaction.
- **Dialing**: locks are created, shared and removed while others wait for them,
  and futures are dropped at any await. Correct means one dial per node at a
  time, no dial waiting for another node's, every call returning.
- **Peer store**: writers are not serialised, and the file is truncated before
  it is written. Correct means that it tells the truth about peers, and that it
  keeps them.
- **Chain sync**: two followers of the chain move one wallet, over reorgs, failed
  writes and restarts. Correct means that the wallet never skips a block (the code
  does, after two kinds of accident), that "running" means caught up, and that
  neither follower can starve the other.
- **Payments**: the bus tells payments by an id that concurrent calls may share,
  announces an end per part, and LDK replays its events after a crash. Correct
  means that a success is the call's own settled payment with its own preimage,
  that a failure is its own too (it need not be), that no preimage is sold for
  less, that proofs are kept.
- **Closing**: the list is read over HTTP while channels close by themselves, and
  the first close announced is taken for one's own. Correct means that an
  accepted close is never missed, whenever it is announced.
- **Fees**: ten estimates, any of which may fail, replace what readers see.
  Correct means that rates are of one refresh, that targets with one source go by
  one estimate of it, and that one task does this and ends with the daemon.
- **Daemon**: a process may die between any two writes, and two of them may be
  at one directory. Correct means that words and database stay one wallet, that
  recovery is not forgotten, that no channel is silently unwatched, that the
  descriptors of every output are kept, and that a shutdown ends the process.
- **Wallet scripts**: an index is revealed in memory and then stored, and an
  output is skipped by the sweeper because the wallet owns it. Correct means
  that no script is given twice and that every output is somebody's.

`PROJECT.json` lists each of these hazards at its line with the properties that
answer it.

## OpenChannel

One request is an element of `Opens`, which is also its temporary channel id and
the name of its funding transaction (LDK and the wallet never give two requests
the same). The variables:

| TLA+ | code |
|---|---|
| `pc`, `expired`, `handed`, `early`, `verdict` | control, deadline, `funding_handed_to_ldk` with `expected_funding_txid`, `early_broadcast` and answer of the waiter in `open_channel` |
| `inbox` | its receiver on the event bus |
| `waitState` | `funding_wait_state` |
| `ldk`, `ldkQueue` | LDK's channel and pending events (external) |
| `handler` | which step of `handle_funding_generation` the event handler is at, for which channel |
| `inflight`, `attempts`, `sent` | the broadcast tasks |
| `heard` | history, for two properties: what a waiter read of its own transaction, and whether another's broadcast followed it into the buffer |

Each `Hear…` operator is an arm of `handle_funding_wait_event`; `StartDrain` and
`EndDrain` are the deadline check and the `try_recv` loop after it;
`AbandonIfUnaccepted`, `CloseAbandoned` and `ClearFundingWait` what follows.
The steps of the handler are its critical sections and its emissions.
`HandOff` is one step because the code calls LDK under the lock of the wait
state; this is what the safety of the timeout rests on.
`FundingChannelFailed{temporary_channel_id}` is `FailedChannel` and
`FundingChannelFailed{txid}` is `FailedTx`. A broadcast or an RPC that may or may
not succeed is a choice. A close of a funded channel (`PeerClosesFunded`) is
announced under the final channel id, so no waiter matches it; it changes LDK's
state only.

`OpenPromise` is what a caller is promised, in three variables: a channel is
funded at most once and only while the request is open, its transaction is on
the network only after that, and the answer is "opened" (on the network), "left
open" (funded) or "retry" (not funded). As the abstract `Fund` requires an
unanswered request, a "retry" stands for ever. `KeepsPromise` says that
OpenChannel implements it.

Runs:

- `open_safety` (two opens, one unrelated transaction, one broadcast per
  transaction, LDK free to refuse a force-close; 563,459 states up to symmetry):
  no retryable answer for a funded channel, no force-close of one, no answer
  about someone else's transaction, a buffered broadcast completes the open, and
  the refinement holds. Two opens are enough to confuse one with
  the other, the third transaction is one no waiter expects, and one handler
  step separates any two of another task. `EarlyBroadcastHonoured` covers whatever
  was broadcast before one's own transaction, and after `FundingChannelEnd`; it
  excepts one case, another broadcast that is read between the two ("overtaken"):
  `early_broadcast` holds one transaction, and the later one overwrites it. Such an
  open ends at its deadline, as "left open".
- `open_live` (two opens, LDK closes what it is told to): every request is
  answered, and one that failed leaves no live channel in LDK. When LDK refuses
  the close, the `Abandoned` entry is kept instead, which `open_safety` covers.
  The drain ends here because the broadcasts are bounded; a bus that fills as fast
  as the waiter drains it is not covered.

`BroadcastFailureHonoured` states a comment, "Tag with txid so an `open_channel`
waiter waiting on this funding broadcast can fail"
(`lampo-chain/src/lib.rs:275`), that does not hold: a failure read before
`FundingChannelEnd` matches nothing and, unlike a success, is not buffered; the
waiter runs into its deadline. TLC refutes it in a few steps when it is added to
`MCOpenChannel.cfg`; no run does.

Fairness: weak, of each waiter, of the deadline and of the event handler. Tokio
polls a task that can run and time passes; nothing is assumed of the peer, LDK
or bitcoind, so that answers come from the deadline when nobody else gives them.

Not modelled: a request dropped by its client and a daemon killed in the middle
of an open (what remains is LDK's state); the arm of `recv` for a closed bus,
which lives as long as the process; the
`Accepted` entry that an open answered "left open" leaves in the map (memory
only: the id is not used again; the model has it, no property needs it).

## PeerDial

`Callers` are concurrent `connect` calls, each free to make another when it
returns (so a few of them are any number of calls in time); `Loop` is the
reconnect loop. `pc` names the code a task runs next, from taking its guard
(`acquire`) over waiting for the lock, the dial, the check and the clean-up of
a dial that ran into its timeout, to the drop of the guard. `lockOf` is the
reference an `OutboundDialLockGuard` holds, `locks` the map, and the references
are what `Arc::strong_count` counts. `DropGuard` and `Release` are two steps
because `drop` looks at the count before the guard's own reference goes; when
two guards are dropped together the entry stays, and the next dial of the node
takes it over. A permit is held exactly by a `Callers` task that is not idle; a
call refused for want of one changes nothing. `Cancel` drops the future of a
call at one of its two awaits. `peers` (external) are the nodes
`peer_by_node_id` finds: peers connect and disconnect at any time;
`disconnect_by_node_id` removes a node whichever socket it came by, and the
`disconnect` call is one more reason for `PeerLost`. Sockets that never complete a
handshake are LDK's own and not seen by this code.

Runs:

- `dial` (two nodes, two calls, each making any number of calls in turn over one
  permit, and the loop; the code has 32 permits, and the proofs cover any
  number): one dial per node at a time, no waiting for another node's lock, and
  every call and every turn of the loop ends. A call whose guard
  is still to be released and the loop's make three references to a lock, which
  is what it takes for a task to create a second one while two share the first.
  `Locks` is larger than the number of references there can be, so allocation
  never fails.

`PeersSurviveCleanup` states the comment at `peer_manager.rs:412`, "an inbound
(or a completed sibling dial) must not be killed with the timed-out socket",
which does not hold: the check and the disconnect are two calls, and a
connection that completes in between is disconnected. `EntriesPruned`
states the comment of the guard, which "removes it from the map on drop when nothing
else references it" (`peer_manager.rs:450`); two guards dropped together leave the
entry. No run checks either.

Fairness: weak fairness of a task (it is polled; a dial has a timeout of 20 s, or
5 s in the loop) and strong fairness of taking the lock, for tokio's `Mutex`
queues its waiters first in, first out.

## PeerStore

A call's dial, then `remember_peer` as the three steps the file system sees:
read, truncate, write. `file` is the map, or `Truncated`, or `Garbled`: two
overlapping writes may leave the tail of the longer text, and a write may fail
half-way. Both read as no peers at all, as `load_peers` has it. `Home` is the
address a node answers at; the handshake authenticates it, so that another
address cannot succeed, unless the peer is connected already: then the dial
succeeds without trying the address, which is stored all the same. A call may
also be LDK's request for a connection (`ConnectionNeeded`), which tries one
address after the other (`more`) until one succeeds. The reconnect loop's
reading and dial are one step.

Runs:

- `store_safety` (two calls, two nodes, two addresses, crashes and failing
  writes): whatever happens to the file, it says of a peer only what a
  successful `connect` was given, and so does every copy on its way to the
  file. It may say less.
- `store_lost` refutes "this file is the only durable record of how to get back
  to a channel counterparty" (`peer_manager.rs:430`) as a promise to keep
  peers: two concurrent calls lose one of theirs, and one that reads while the
  other has truncated the file loses them all.

## ChainSync

A block is the sequence of branch names that leads to it from genesis: height is
length, ancestors are prefixes. The wallet is its checkpoints (`chk`) and the
blocks it applied (`scanned`), in memory and on `disk`. `mode` is one of the
three configurations: the backend's pass moves the wallet too (`unified`), or
only LDK, with the wallet's scan waiting for it (`legacy`) or not (`parallel`).

| TLA+ | code |
|---|---|
| `Listened` | the wallet's `listen`: a wallet at genesis that is no recovery jumps to the tip |
| `ApplyOk`, `ApplyFails` | `apply_block_inner`: merge and persist under the locks, or an error in either |
| `MarkListenersSynced`, `FinishPass`, `FinishScan`, `ScanAllowed` | `mark_initial_sync_complete`, `mark_running` at the end of `sync`, `wallet_scan_allowed` |
| `StartPass` … `FinishPass` | `listen` of the backend around `init::synchronize_listeners`: best blocks read, fork found, LDK disconnected, blocks connected |
| `AbortPass` | a failed or timed-out pass: tried again |
| `PollBestTip` | the SPV client after the pass |
| `StartScan` … `FinishScan` | `innet_sync` and `sync`: the Emitter in its task, the queue, the application |
| `Restart` | the process dies; the database and some earlier state of LDK are left |

BDK's merge (`Merges`, `Merged`) and the Emitter (`EmitBlock`) are external and
modelled as used: the merge refuses a block whose link to the wallet's chain is
not certain, and the Emitter emits nothing below the height it is told to start
at, which the code sets to that of the wallet's checkpoint. The wallet's scans
exclude each other (`sync_guard`), so there is one; the pass and the scan share
the wallet's lock per block only, so they interleave. The LDK listeners are one,
at one tip: they are connected and disconnected together. The scan height and
percentage (read by getinfo only), the mempool, `reindex_from` and a wallet
without `fast_sync` are left out.

Runs:

- `chain` (two heights over genesis, reorgs of one block, an aborted pass, one
  failing write, one restart, a start at which the tip cannot be read; all three
  modes, recovery or not; 351,598 states): `OnlyLostSkipped`, the wallet has looked
  into every block of its chain since it was born but for those in `lost`, whichever
  of pass and scan took it there and in whichever order their blocks came;
  `RunningCaughtUp`, "Running" is only announced when LDK and the wallet have been at
  the height the chain had when the process started; a pass that hangs does not
  keep the wallet from the tip; and if it does not hang, the initial sync completes
  (`InitialSyncCompletes` assumes weak fairness of the pass itself,
  `WalletCatchesUp` nothing of it). Two branches suffice for a fork, of the last
  block, above one that stays. At this height a reorg of several blocks is not
  reached; the theorems about both properties cover it.

That the wallet skips nothing at all (`NothingSkipped`) is what two comments come
to: "Reorgs do not occur during the initial historical catch-up; ongoing reorgs
are handled by the wallet's Emitter poll" (`lampo-chain/src/lib.rs:85`), and the
fast-forward "only ever applies to a fresh wallet (height 0), which has no UTXOs to
miss" (`lampo-bdk-wallet/src/lib.rs:569`). It is stated in the module and does not
hold, of two kinds of block, which the history `lost` collects:

- A reorg of several blocks replaces blocks below the wallet's tip. A scan
  starts at the height of that stale tip, and the Emitter gives it nothing lower.
- When `get_blockchain_info` fails at a new wallet's first start, it stays at
  genesis, and the jump is made at the next start, over what was mined in
  between: addresses handed out before may have been paid there. The same
  happens to a wallet first started on a chain of the genesis block alone, if
  nothing was applied in between.

So `OnlyLostSkipped` says that there is no third kind. `lost` also excuses the
wallet's height after "Running" was announced: a scan that began below the pass
may take the wallet back under it when a reorg of several blocks came in between.

Fairness: weak, of the grace period (time passes) and of the wallet's scan (the
scheduler runs its job and the task is polled). The bounds `MaxAborts`,
`MaxFailures` and `MaxRestarts` limit failures, without which no sync need end;
`MaxHeight` and `MaxReorg` limit the chain, after which it is stable.

## Payments

A payment is named after the call that makes it; what LDK and the bus are told
is its `id`: the offer, the invoice, or for a keysend the call itself (the hash
of a fresh preimage). Two calls for one offer have two payments with one id.

| TLA+ | code |
|---|---|
| `pc`, `receipt`, `answer` | control, `payment_hash`/`payment_preimage` held and result of `wait_for_payment_result` |
| `inbox` | its receiver on the bus |
| `HearReceipt`, `HearEnd`, `HearOther`, `Timeout` | the arms of its `match` and its one deadline |
| `PaymentAccepted`, `PaymentRefused` | `pay_invoice`, `pay_offer`, `keysend`, as LDK takes them on or not |
| `PaymentSent`, `StoreProof`, `PaymentPathSuccessful`, `PaymentFailed` | the handler's arms; the proof is stored after the receipt is announced |
| `decide_payment_claim`, `PaymentClaimable` | the same on the node that is paid |
| `pay`, `known`, `parts`, `queue`, `acked` | LDK: payments, the ids it remembers, parts, its events, and those handled but not yet persisted as handled (external) |
| `proofs`, `unstored` | the `payer_proofs` namespace, and writes of it that failed |

`Hash` is what tells payments with one id apart: those of an offer have a hash
each, those of one invoice share it. LDK remembers an id until a while after the
last event of its payment and refuses it meanwhile; a payment given up is
forgotten at once, with its event still queued. A restart ends the calls and
brings back the events not persisted as handled.

Run `pay` (two calls of any kind, an offer, an invoice, payments of two parts, a
crash; 938,930 states): `SuccessIsOwn`, `ReceiptsPaidInFull`,
`ProofsKept`, `Answered`. Two calls are what one id needs to
be shared, two parts what makes a success be announced twice. Why a success is
never another's is not in one place of the code: it rests on LDK remembering a
settled payment's id for as long as its events are around, on the receipt being
announced before the paths, and on both before a later call's.

Run `pay_foreign` refutes the same of a failure (`FailureIsOwn`), which a comment
of the wait promises: "only events carrying our own payment id are accepted -- a
concurrent payment must not leak its result into ours" (`offchain.rs:126`). A call
made after a payment of its id was given up, and before that failure is
announced, hears it and fails, while its own payment goes on.

Fairness: weak, of LDK's answer to a call and of the deadline; nothing is assumed
of the network, the payee or the event loop.

Not modelled: the decoding of invoices and offers and the choice of amounts (a
payment that is accepted or refused), retries within LDK, and the persistence of
LDK's payments themselves, taken to be as durable as LDK has it.

## CloseChannel

A call's request is a `peer` and perhaps a channel, `named`. `ListChannels` is
`json_channels`, reached by `react` over the node's own HTTP server (external
handlers; it may fail), with the choice after it; `close_channel` asks LDK;
`AwaitClosed` is the wait that begins after it and `HearClosed` the loop; the
subscription is older than all of them, and what is announced between the
acceptance and the wait is queued. `Closed` (external) takes a channel away
whether this node asked for it or not.

Run `close` (two calls, two channels of one peer and one of another; 344,273
states): `CloseNotMissed`, `CloseTakesEffect` and `Answered`. Three channels let one
close by itself while each call has one.

Fairness: weak, of a call and of the event handler; nothing of the peer. The
code's wait has no deadline, so a call whose peer never answers waits for ever;
`Answered` says that it is answered once its channel is closed.

That a call reports somebody else's channel (`answer # chosen`) happens: the
first close announced is taken. `CloseTakesEffect` says what is true of it: the
channel it asked for is closing or closed. Nor is the channel that the request
names always the one that is closed (`ClosesNamed`, stated in the module, checked
by no run): the name is looked at only when several channels are listed, and with
one left that one is closed. The comment "This gives all the channels with
associated peer" (`channels.rs:20`) does not promise otherwise.

## FeeCache

The ten targets in the code's order, their sources, fallbacks and adjustments
are constant functions; `Rates` is what the backend may report. `Spawn` is each
of the two calls of `spawn_fee_refresh`, `Begin` the top of the loop,
`EstimateShared`, `EstimateAsked`, `EstimateFellBack`, `EstimateFailed` and
`StopRefresh` the ways the estimate of a target goes, `Interval` and `Stopped` the
two arms of the `select!` at the end. `Get` is what readers see.

Run `fees` (a rate below the floor and one above; mainnet, regtest and signet;
536,885 states): `WholeRefresh`, `SharedEstimate`, `OneRefresh`, `RefreshEnds`. Two
rates are enough to have two targets differ; testnet behaves as mainnet. A full
cache is refreshed once more on mainnet and regtest (`Repeating`): on signet the
first refresh has all the ways a rate may come about, and the proofs cover any
number. Fairness: weak, of the task, whose calls have a timeout and which looks at
the flag every 100 ms, but not of the interval: the task must not wait for it.

Not claimed, as it is not so: that the node demands no more of a peer than it would
pay itself. The floor of the demand (`MinAllowedNonAnchorChannelRemoteFee`) is an
estimate for 144 blocks, what a funder pays (`NonAnchorChannelFee`) one for 12, and
a backend may report the first above the second. Saturation of `u32` is left out,
and so is bitcoind's conversion from BTC/kvB.

## WalletFiles and Daemon

`Processes` are started on one directory, in any order and number, over and over.
`WalletFiles` is how each comes to its wallet. A seed stands for words,
descriptors and wallet; `db` and `words` are files that are absent, empty, or of
a seed. The commands are `new`, `run` restoring typed words, and `run` from
`wallet.dat`; each step is one operation, on a file or the database, of `restore`,
`build_wallet`, `new` or `write_words_to_file`. `build_wallet` makes three:
`load_wallet` (`Load`) finds a wallet or none; `create_wallet` looks again, inside
BDK, and refuses a database that has one by now (`Create`); then it stores the new
one (`Store`), over whatever another process stored since. `halfMade` and `raced` are
history: the database file was first created on the way to a new wallet; a wallet
was stored over another's.

`Daemon` goes on from there: the monitors are read (`ReadMonitors`), then the
manager (`ReadManager`), which LDK refuses without a monitor for each of its
channels; the monitors are registered (`WatchChannels`), and one that is refused is
logged and gone on without (`refused`); the sweeper is restored, the managers are built,
the pid file locked, the HTTP server started before its handler is registered,
the listener bound, the event loop run. `Spendable`, `SkipMine`, `Track`,
`TrackFails` are the event `SpendableOutputs`, which is in the monitor on disk
(`due`) until a monitor without it is stored. LDK's stores of monitor and manager
are external actions. `Crash` is possible everywhere; so is an error (`Fail`)
wherever the code returns one.

Run `daemon` (two processes, two seeds to generate and one to restore, a channel
and its output; 887,341 states):

- `WordsOpenWallet`: the words of `wallet.dat` open the database, and a process goes
  on with their wallet only, unless two processes both found no wallet and both
  stored theirs (`raced`). That they can, leaving the words of one beside the
  database of the other, TLC shows when the exception is dropped; nothing locks
  the directory yet.
- `RecoveryKept`: a restored wallet scans its history, after any crash, unless a
  new wallet was begun in the directory or raced with it. Without the exception
  (`RecoveryNeverLost`, the comment at `lampo-bdk-wallet/src/lib.rs:254`) it fails:
  a `new` that dies before its wallet is stored leaves an empty database, which a
  later restore takes for a known wallet's.
- `KnownChannelsWatched`: a node goes on with no channel that it neither watches nor
  was refused by LDK, and has logged.
- `OutputsKept`: the descriptors of an output are in a stored event or the stored
  sweeper, unless two processes were past their wallets at a time (`shared`). They
  can be, as the pid file is locked only after the state was restored
  (`main.rs:187`): the second process, which is going to be refused, stores the
  monitors again as it registers them, and with two sweepers one may overwrite
  the other's state.
- `StopEnds`: a shutdown ends the process, even if a sweep fails for ever.

One channel suffices, as channels do not interact in this code; two processes are
what the missing lock takes, and two seeds to generate let two `new`s race. `RacedGoOn
= FALSE` ends the history of a directory where wallets raced, of which the first two
properties say nothing; the proofs are for either value. Fairness: weak, of the
start-up and of the loop's end.

Other things the model shows, stated nowhere in the code as promises: a crash
between the truncation and the write of `wallet.dat` leaves it empty and the node
refuses to start from it, with a database whose words nobody was shown
(`main.rs:53`; for a new wallet the words are printed after the write); monitors
stored before a first manager was are not read, as a fresh start reads no
monitors; an error of `accept` ends the accept loop (`peer_manager.rs:344`,
`AcceptEnds` without a shutdown) and nothing waits for its task, although "a
Lightning node must not run headless" (`peer_manager.rs:213`).

Left out: the configured `private_key`, with which the wallet ignores its words;
the monitor updates of LDK; restoring the scorer and the network graph, which may
be lost without harm.

## WalletScripts

`revealed` is the wallet's last index in memory, `stored` the one in its
database; `NextWalletScript` reveals, persists, then gives; a failed write loses
the index (`NoWalletScript`), and LDK's own script is used where there is one.
`given` is history. `SpendableOutputs` is the handler's filter.

Run `scripts` (two channels, four scripts, lookahead 1; 11,750 states): over
restarts and failing writes, `FreshScripts` and `OutputsClaimable`. Scripts are
handed out under a lock, so any number of callers is a sequence of `Ask`s and
`DestinationScript`s. Not modelled: a restored wallet, whose index is not known
until its scan is done, may hand out scripts that its former life has used; and
`create_transaction`, which does not mark its inputs as used, so that two opens
at a time may choose the same (the second broadcast then fails, which OpenChannel
allows).

## What is proved

Proofs are of every value of the constants that satisfies the named assumptions
(`OpensAssumption`, `TxsDisjoint`, `PermitsAssumption`, `HomeAssumption`,
`SeedsAssumption`, …), which only say that names differ and that bounds are
numbers: any number of opens, tasks, nodes, calls, channels, processes.

- `OpenChannelProofs`: `TypeCorrect`; `Inductive`, the invariant `IndInv`;
  from it `RetrySafe`, `HandoffSafe`, `AnswersTrue`; and `Refinement`, that
  OpenChannel implements OpenPromise. The properties are not inductive: a
  retryable answer is safe only because no event that could still fund the
  channel is queued, or because the wait state will refuse it. `IndInv`
  says, open by open, what the presence of each event in a queue means for LDK's
  state (`LdkQueueInv`, `InboxInv`), what the handler's step means
  (`HandlerInv`), that an accepted funding is recorded while the request is
  undecided (`WaitStateInv`), and which state of LDK each verdict stands for
  (`VerdictInv`). The key notion is `Spent`: the channel's only
  `FundingGenerationReady` is consumed. It needs that there is at most one
  in the queue (`AtMostOnce`), for which the module proves lemmas about the
  queue operators. The refinement goes action by action: `HandOff` is `Fund`, a
  successful broadcast is `Publish`, the last step of a waiter is `Answer`, all
  others stutter. `EarlyBroadcastKept` has an invariant of its own (`EarlyInv`):
  until another broadcast overtakes it, a request's own is in the buffer, and the
  request is answered with `FundingChannelEnd`.
- `PeerDialProofs`: `TypeCorrect`, `DialsExcluded`, `DialsApart`. The invariant
  `IndInv`: the lock a guard refers to is its node's entry until its drop has
  looked (`GuardMapped`), no lock serves two nodes (`LocksDistinct`) and a lock has
  one holder (`OneHolder`). The delicate step is `DropGuard`: removing the entry
  is right only because no other guard refers to the lock.
- `PeerStoreProofs`: `TypeCorrect` and `StoreTruthful`. The strengthening says
  that a call past its dial is one of the answered ones (`PastDial`); the step
  that matters is `Write`, which brings back what a copy taken earlier said.
- `PaymentsProofs`: `TypeCorrect`, `SuccessesAreOwn`, `ReceiptsAreFull`,
  `ProofsRemembered`: all that the run `pay` checks but its
  liveness. `LedgerInv` says what LDK's events mean for the payments they are of:
  one that may still have something to say is remembered, no two remembered ones
  share an id, and the payment whose proof is being stored is that of the first
  event. `AnswerInv` is about what a call has still to hear (`At`): its queue of
  the bus and, after it, the events not announced yet. An announcement moves the
  line between the two and changes nothing else (`StreamEmit`). Up to the first
  end with its id (`Sound`), everything with the id is of the call's own payment,
  its receipt before its paths; and as long as there is no such end, LDK remembers
  the payment (`Pending`) and admits no other. Before LDK admits a call, whatever
  carries its id is of a payment still remembered, or a failure (`AskInv`), so
  that the payment admitted meets no receipt but its own.
- `CloseChannelProofs`: `TypeCorrect`, `NoCloseMissed`, `ClosesTakeEffect`,
  almost inductive (`CallInv` adds what the steps before the wait hold). The step
  to see is `ChannelClosed`: the event leaves LDK's queue and is in the queue of
  every call that waits.
- `FeeCacheProofs`: `TypeCorrect`, `CacheWhole`, `EstimatesShared`, `RefreshAlone`,
  for every target, source and network. A refresh has the rates of the targets
  before its next one (`UpTo`), and each comes from the rate kept for its source,
  or, on regtest and signet, from the fallback (`SourceKept`): this holds because
  a rate is kept by source once it was asked for, and fails when a refresh asks
  twice. `CacheInv` says it of the cache, which a refresh replaces at once.
- `DaemonProofs`: `TypeCorrect`, `WordsAreTheWallets`, `RecoveryRemembered`,
  `ChannelsWatched`, `OutputsRemembered`. `LoadInv`: unless wallets raced, a process
  past the load of its wallet holds the seed of the database. `RecoveryInv`: a
  database that may become the backup's has its marker, and who restores the
  backup recovers, or will find the database to be another's. `ChannelInv`: the
  channels of a restored manager have their monitors among those read, and so,
  once registered, are watched or refused; monitors are never removed.
  `AloneInv`: while processes have not met, the one that runs has the stored sweeper in memory and each stored
  event in its queue, in the sweeper, or of an output that is the wallet's.
- `WalletProofs`, of the scripts: `ScriptsFresh` and `FundsClaimable`, from
  `GivenStored`: every index that left the wallet is below the one in the
  database, so no restart brings it back.
- `WalletProofs`, of ChainSync, for chains of any height and number of branches,
  reorgs of any depth, any number of failures, aborts and restarts, with no
  hypothesis but the named assumptions: `TypeCorrect`, `NoBlockSkipped` and
  `RunningIsCaughtUp`. They rest on an algebra of blocks: the block of a chain at a
  height is unique (`AtAt`), the ancestors of a block are a chain
  (`AncestorChain`), and a set of blocks that has one has a lowest and a highest
  (`LowestBlock`, `HighestBlock`, from well-founded induction).
  - `TypeInv` adds to the types that nothing the node holds is higher than the
    best block (`Under`): this is why the emitter never asks for a block that is
    not there.
  - `WalletSafe` is kept of memory and database alike. The checkpoints are one
    chain (`OneChain`), with every block since the wallet's birth (`Dense`), each
    above it looked into (`Looked`), but for lost ones. What the node holds is on
    the best chain below its last block, except where the best chain has a block
    that was lost (`Near`). A reorg keeps this because the blocks it puts
    below the old tip are added to `lost`.
  - The delicate step is a block applied: the pass and the scan each work from a
    place of the chain that they read earlier, while the other moves the wallet
    and the chain is reorganised. As long as nothing was lost, what is on its way
    is on the best chain if it is lower than the chain was when the process
    started (`Settled`); and between it and what it connects to there are only
    lost blocks and such as are older than the wallet (`Connects`). So BDK's merge
    either refuses it or leaves a wallet that is safe (`MergeSafe`), and never
    takes it back to a lower block of its own chain (`NoRewind`).
  - `ScanSafe`: the emitter has seen what the wallet will have once its queue is
    applied. It starts at the wallet's height and skips only lost blocks below
    it. `PassSafe`: a listener that is given no block has been there already.
    `StateSafe`: "Running", and "ListenersSynced" before it, are kept by every
    later step. `ReachSafe` ties the history `reached` to the checkpoints: with
    nothing lost the wallet is still where it has been.
  - A restart that jumps does so in a wallet whose highest checkpoint is genesis:
    it is the wallet's birth again, over blocks that are lost (`JumpedSafe`).

Only model-checked: liveness (`Answered` of three modules, `FailedOpenDropped`,
`DialsEnd`, `WalletCatchesUp`, `InitialSyncCompletes`, `RefreshEnds`,
`StopEnds`), which with fairness and ENABLED is beyond the prover, as is
induction over data and anything about RECURSIVE operators (no module declares
one).

## Not modelled

The HTTP server and command lines beyond what is said above (stateless), language
bindings (glue over an older interface), configuration, loggers and types (data),
inventory and the encodings of payer proofs (reads and pure functions), the tests.
Of modelled components: the event `OpenChannelRequest` (one call of LDK per
event), the announcement task (it repeats one call), coin selection and signing
(BDK), and what LDK does inside, beyond the choices its documentation leaves open
and this code meets.
