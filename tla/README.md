# dg_xch full node: models, checks and proofs

The node keeps one confirmed chain in a store, follows the heaviest chain the
network offers, and answers wallets, farmers and peers from what it confirmed.
This project models its core in TLA+: the validation engine and its fork choice,
the window path that feeds it, the two stores under it, the pipeline and the
download workers that bring the blocks, the way of a transaction from the
network through the mempool into a farmed block, and the sub-slots and signage
points that a farmer's candidate is built on. TLC checks the models on small
instances; TLAPS proves the main safety properties of the engine, the window
path, the mapped store and its hash table, the queue and the pipeline, the
download, the transaction inbox, the mempool and block assembly for every value of
the constants. `PROJECT.json` holds the map from each definition to its source
lines, the runs, the mutants, the findings and the hazards.

## Inventory

### Components, their state and how they interact

| component (source) | state | operations | talks to |
|---|---|---|---|
| engine (`node/src/engine.rs`, `cache.rs`) | store; walk cache (one record per height); `pending` deltas; `staged_deltas` overlay; `reorg_reports` | `add_block_with_delta`, `stage_block_pre(_in)`, `confirm_staged_batch_in`, `reorg` | every step is `&mut self`, under the chaser's lock; calls the store |
| window path (`node/src/sync/mod.rs`) | locals of one call: staged deltas, carried batch, errors | `follow_blocks_reporting_pre`, `expand_confirmed`, the backtrack and re-land ladders | called by the consumer, the driver and the tip follower; returns deltas to the daemon |
| SQLite store (`stores/src/sqlite`) | coin, block, status and peak tables | `apply_block_in`, `rollback_to_in`, `set_peak_in`, `begin`/`commit` | one writer connection, transactional |
| mapped store (`stores/src/mmap`) | `coins.tbl`, `blocks.tbl`, `heights.dat`, `meta.dat`, `reorg.journal` | the same trait, published by in-place writes and msync | selected by configuration |
| its hash table (`stores/src/mmap/tables.rs`) | record count, bucket heads, records with chain links | `insert`, `insert_batch`, `find`, `set_payload`, `for_each` | one writer under the store's write lock, readers at any time |
| block queue (`node/src/sync/queue.rs`) | slots by height, resident bytes, `low_water`, generation | `admit`, `complete`, `drain_*`, `rebase`, `reclaim` | one mutex, shared by producer, consumer and driver |
| pipeline tasks (`full-node/src/daemon.rs`, `prefetch.rs`, `watchdog.rs`) | per-task locals, readahead windows, recovery channel, in-flight marker, stall clock | `fetch_scheduler`, `block_processor`, `sync_driver`, `tip_follower` | queue, channel with a oneshot reply, chaser lock |
| download workers (`sync/window.rs`, `sync/mod.rs`) | pending heights, one reservation per worker, bodies in the store | `refill`, `reserve`, `complete`, `reclaim`, `download_all`, `sync_range` | peers, store; the driver repeats a failed attempt |
| mempool (`node/src/mempool.rs`) | items, coin index, running cost and fee, parked and conflict caches, seen names, peak | `admit`, `add_to_pool`, `new_peak`, `revalidate_for_reorg`, `create_block_generator` | one lock; reads the coin store; fed by submitters and by the deltas of the followers |
| transaction intake (`tx_queue.rs`, `tx_admission.rs`, `daemon.rs`) | lanes per peer, open pulls, announcements waiting | `push`, `drain_batch`, `on_new_transaction`, `on_respond_transaction`, `admit_spend_bundle`, `broadcast_transactions` | peers, mempool |
| fee estimator, peer manager, peak book | statistics; scores and leases; claims, quarantine | record success and failure, select; claim, retract | mempool; driver (the peer manager is called by no task) |
| slots and signage points (`node/src/slots.rs`, `daemon.rs`) | sub-slots from the peak's slot onward with their signage points; what waits for an infusion, by its challenge | `new_finished_sub_slot`, `new_signage_point`, `new_peak`, `get_finished_sub_slots` | one lock; fed by the gossip inbox and by the tasks that confirm blocks; read, with the store, for a farmer's candidate |
| unfinished blocks, compact VDFs | bounded caches | insert, prune on a new peak | peers, engine |
| wallet subscriptions, RPC, metrics | subscriptions, gauges | push, read | deltas and reorg reports |
| p2p, core consensus, CLVM, cryptography, weight proof, serialization | messages; pure functions | - | used by all of the above |

### What is hard

* **Two commits for one block.** A heavier side-branch block commits its archive
  rows first and its reorg in a second batch; a crash or a failing store call can
  come between.
* **Checked now, confirmed later.** A side-branch block is checked against a fork
  view of the main chain of that moment and confirmed by a later reorg, or rebuilt
  from the archive, without being checked again.
* **A window is one call and many outcomes.** Blocks already had, extensions,
  orphans and a reorg share one batch; a rejection or a failing drain cuts the
  window in the middle; `near_tip` is read twice while other tasks set it.
* **No transactions in the mapped store.** Three mapped files and two small ones
  are written in a fixed order; a crash leaves a mix of old and new.
* **Four tasks, one queue.** Fetches outlive rebases, replies time out and their
  requests are served later, the peak moves under a drained window, the watchdog
  compares with a stale head.
* **Workers that give up.** A reservation outlives its worker's patience, its peer
  and its store; the heights come back split, and another worker has read the
  pending set before it takes the lock.
* **Told late.** The mempool hears of a block after the chaser lock is released,
  from two followers, in any order, or not at all when a window failed; meanwhile
  it reads a store that has moved on.
* **Singletons that move.** Residents are rebased on every peak, several of them
  fast-forward one singleton within one block, and a reorg moves it back.
* **One challenge, two branches.** Branches share their challenge chain while their
  reward chains differ; peaks reach the slots late and out of order, gossip is
  checked against a peak read before the lock, and a candidate is put together from
  two reads of the slots and one of the store.
* **Unequal peers.** A well paying peer must not close the inbox to the others;
  the same bundle is validated twice at once.
* **Limits.** Byte budget, report cap, cache capacity, pending horizon, channel
  capacity, the pool's cost ceiling, the caches and lanes, a block's cost budget.

The list in `PROJECT.json` under `hazards` places each of these at its line.

### What makes each component correct

* engine: the flags are the peak's ancestry, the coin table is the replay of the
  main chain, every confirmed spend is valid on its chain, the archive is closed
  under parents, reorgs are reported completely, and the heaviest archived block
  wins in the end. Seen from outside this is the abstract `Ledger`.
* window path: the same, whatever the window holds; and a call reports exactly
  what it confirmed.
* mapped store: the durable peak never stands over coins that are not the replay
  of its chain; convergence after a torn reorg restores a consistent store.
* hash table: chains end and hold only allocated records whatever a crash cut
  short, as long as it keeps no head without its count; a lookup changes only by a call that writes its key; a sweep touches only
  what is above its fork.
* queue: exact byte accounting, nothing below the head, nothing of an old
  generation.
* pipeline: no hole in the buffer, bounded overshoot, every parked consumer is
  owed exactly one reply, and the node catches up once faults stop.
* download: no height in two hands, the feed is each height once and in order,
  and an attempt ends.
* mempool: index and totals agree with the items, no two residents spend one coin
  plainly, residents are spendable and in time on the chain the mempool knows, and
  nothing parked is overdue.
* intake: exact lanes, a fair share for every peer, every admission announced, and
  once where no cache is involved; what is queued and fits is admitted.
* block assembly: the block is spendable as it stands, carries bundles whole,
  keeps its budget, and is refused only when rivals for a singleton were resident.
* slots: the slots held are connected whatever order peaks and gossip came in, what
  waited for an infusion is held once its block is the peak, and a candidate's
  bundles continue its previous block without a gap up to its own signage point.

## Modules

| module | models | state and actions |
|---|---|---|
| `BlockTree` | the blocks the network can deliver | constants: parent, height, weight, path, coins created and spent; `CoinsOf`, `SpendsValid` are the reference definitions |
| `Ledger` | what the node promises readers | `tip`, `table`; one action `Adopt(b)`: a whole heavier valid chain in one step |
| `Engine` | `add_block_with_delta` over a transactional store | durable `archive`, `onChain`, `peak`, `coins`, `shallow`; volatile `cache`, `pending`, `reports`, `job`. `Extend`, `Orphan`, `BeginReorg` are the arms of `confirm`; `FinishReorg`/`FailReorg` the second batch; `FailAdd` a failing first batch; `Crash` loses the volatile part and re-warms the cache |
| `FollowWindow` | `follow_blocks_reporting_pre`; extends `Engine` | `win` (the call), `overlay` (`staged_deltas`); history: `unproved` and `dropped`, whether a carried batch was ever dropped. `Begin`, `StageSkip/Accept/Reject`, `Drain`, `ConfirmNothing/Run/Rest`, `RestExtend/Orphan/Reorg`, `ReorgDone`, `ReorgFails`, `FailConfirm`, `Return`, `Restart` |
| `MmapStore` | the publish, journal, crash and convergence of the mapped store; reads `Engine`'s coin operators through `INSTANCE` | each file as mapped and as last synced; one action per write group between two syncs; history: `stale`, whether a reorg has met flags that a torn one left on its branch |
| `BlockQueue` | `queue.rs` | `slots`, `bytes`, `lowWater`, `generation`; one action per method (each runs under the mutex) |
| `SyncPipeline` | the four tasks over one `BlockQueue`; extends it | a program counter and locals per task; a step is what a task does between two awaits, lock releases or atomics |
| `ChainedTable` | the hash table of `tables.rs` | the file as mapped and as last synced; `op`, the call under way. `Publish`, `FindOrUpdate`, `WriteRecord`, `SyncRecords`, `PublishCount`, `Link`, `SyncTable`, `Sweep`; `Kill` keeps what is mapped, `PowerLoss` any mix of what is mapped and what was synced; without `Torn` neither leaves a head past the count |
| `BodyDownload` | `ReservationWindow`, `download_worker`, `download_all`, `sync_range` | `written`, `known`, `reserved`, `bodies`, a program counter per worker, the attempt. `Read`, `Claim`, `Write`, `Complete`, `Miss`, `Fault`, `Join`, `Confirm`, `Retry` |
| `Mempool` | `mempool.rs` but block assembly, as operators on one record | `admit`, `can_replace`, `add_to_pool`, `check_time_locks`, `revalidate_for_reorg`, and `new_peak` in its parts: the sweeps, `RetryOne` for each parked bundle that is due, `drain_conflict`, `RetryOne` again. Each takes the tip whose chain the store holds. The items are a set; `older` holds the order of their `seq` |
| `TxIntake` | the mempool among its callers; extends `Mempool` | `tip`, `pool`, `last_delta_hash`, each follower's undelivered reports, each submitter's bundle, the mempool lock and the chain its holder read. `Confirm`, `Swap`, `Revalidate`, `NewPeak`, `Retry`, `DrainConflict`, `PeakDone` of the followers; `Submit`, `Reject`, `Admit` of the submitters; `Acquire` takes the lock |
| `BlockAssembly` | `create_block_generator`, `process_item_spends`; extends `Mempool` | `Offer`, `Advance` and `RetryNext` fill and age the pool. `job` is the selection under way: one action per outcome of an item (`PassOver`, `SkipDedup`, `Fail`, `Skip`, `Include`, `Break`), `Finish` with the re-run; `Runs` is the re-run of one rebased bundle |
| `TxQueue` | `tx_queue.rs`, as operators on one record | `push`, `pop_untrusted`, `pop` |
| `TxGossip` | announcements, pulls, bodies, the validator worker, local submitters, the re-broadcast; extends `TxQueue` | `tx_requested`, `tx_inbox`, `batch`, `task` (each submitter), `resident`, `seen`, `aside` (the two caches), `follower` (a peak's pass), `tx_announce`, `told`, `left` (what the scenario still allows); history: `entered`, how often a bundle became resident. `Begin`, `Finish`, `Push` are `admit_spend_bundle` up to its validation, after it, and after its lock; `Work`, `SendTransaction`, `push_tx` its callers; `RevalidateForReorg`, `NewPeak`, `Retry`, `Regossip` a peak |
| `Slots` | `SlotState`, its feeds, and the slot part of a candidate | `state` (slots and the two caches), `peak`, `feed` and `follower` (peaks reported), `inbox`, `build`. `Confirm`/`Announce` and `TipConfirm`/`TipAnnounce` are the two ways of a peak, `Gather`/`Process` the inbox (a batch under one peak), `Declare`, `FindPrev`, `Assemble` the candidate |
| `MC*` | instances for TLC | the block trees are drawn in the module headers |
| `EngineProofs` | theorems about `Engine` and `FollowWindow` | - |
| `StoreProofs`, `TableProofs` | theorems about `MmapStore` and `ChainedTable` | - |
| `PipelineProofs`, `DownloadProofs` | theorems about `BlockQueue` and `SyncPipeline`, and about `BodyDownload` | - |
| `GossipProofs`, `PoolProofs` | theorems about `TxQueue` and `TxGossip`, and about `Mempool`, `TxIntake` and `BlockAssembly` | - |
| `SetFacts` | lemmas on sets of numbers and on sums over finite sets that the proofs share | - |

Composition: `BlockTree` <- `Engine` <- `FollowWindow`; `Engine` implements
`Ledger` (`LedgerView`, an `INSTANCE ... WITH tip <- peak, table <- coins`);
`BlockQueue` <- `SyncPipeline`, where the engine is abstracted to the height of
the confirmed peak; `BlockTree` <- `Mempool` <- `TxIntake` and `BlockAssembly`,
over the same blocks and coins as the engine; `TxQueue` <- `TxGossip`, where the
pool is the set of its residents. `ChainedTable` is the table under the maps of
`MmapStore`. A proof module extends the modules it speaks of; `StoreProofs` takes
the lemmas on paths, coins and fork views from an `INSTANCE` of `EngineProofs`.

### Abstractions worth knowing

* A block is its place in the tree, its weight and the coins it creates and
  spends. Body, header, reward and proof rules are a pass or a fail: a block the
  model rejects is one whose spends are invalid; one whose proofs are bad is what
  `Drain` cuts.
* `shallow` remembers which records were derived without the ancestry walks.
  Which of its ancestors a walk reads is the block's own matter, so `Walked` is a
  choice.
* `Engine` leaves out headers-first candidate records, checkpoint (`--sync-from`)
  bases, generators and their back-references, hints, and assume-valid statuses.
  The node starts from an empty store at genesis; a crash re-warms the cache from
  a store without record holes.
* `FollowWindow`: a window is a run of consecutive blocks of one branch. It may
  start above, below or past the peak; without a peak it starts at genesis. Each
  read of `near_tip` may find either value. Left out: the body precompute, the
  preloaded reads, generator references, a poisoned sink, and the rows that a
  failing `persist_archive_in` leaves in the carried batch.
* `MmapStore`: a crash leaves at every location written since its file's last
  sync the old value or the new one; renames and removals of `meta.dat` and
  `reorg.journal` are ordered. The chained tables and the logs are maps. What the
  engine keeps in memory after a failed reorg is `held`.
* `ChainedTable`: a payload is the height of its entry, 0 when vacant; the data
  logs and the growth of the file are left out. The sweep's un-spends follow the
  same path as its deletions. A crash may come at every step. The constant `Torn`
  says whether crashes that leave a bucket head past the record count are among
  them: they are the ones under which the table is not sound (`ChainsSurvive` fails), and the
  two properties that pass speak of all others: a process killed anywhere in a batch,
  or in a single insert but between its link and its count; a power loss with any
  part of records, count and heads on disk as long as each head kept is covered by
  the count kept. The file has room for `MaxRecords` records; that
  bound guards `WriteRecord` and never stops a call on the run, whose deadlock
  check is on. A segment table is written entry by entry
  (`"single"`), the others in batches.
* `BodyDownload`: the candidate headers are one chain with one record per height;
  a body that fails its check counts as a miss of its peer, as in the code.
* `Mempool`: a bundle is its spends, cost, fee, locks, fast-forward and dedup
  marks; CLVM and signatures are a pass or a fail. Coins are the tree's. A fee
  rate is compared exactly where the code divides floats. The fee estimator is
  fed and never read by these operations. The two caches that `new_peak` retries
  are hash maps, so a retry takes any name that is left; the call holds the lock
  throughout, so nothing comes between its parts but the store moving on.
* `TxIntake`: a report is a list of deltas; it may be lost with a failing window
  (`LossKinds`). The wallet pushes and announcements it causes are output.
* `BlockAssembly`: a coin that the block spends is a version `<<c, k>>`, the k-th
  successor of `c` within the block. Compression can only make room, and by how
  much is the network's choice; so is when the clock runs out. A rebased bundle
  is run again, and that run refuses a coin spent twice (`Runs`); `Fail` is any
  other reason for it to fail.
* `TxGossip`: a peer announces anything and sends any body at any time. The pool's
  `admit` is reduced to what it may answer (`Outcomes`): admitted at the expense of
  residents, parked, cached as the loser of a conflict, refused; a resident is `Ok`.
  Which bundles are time-locked (`Locked`), spend the same coin (`Rivals`) and may
  replace which (`Beats`) are constants; `Mempool` says when each answer is given.
  A new peak holds the pool's lock over all its retries; announcements, of a
  submitter or of a peak, are queued after the lock is released. Left out: the caps
  of the two caches and of the seen cache, store errors, and that the re-broadcast
  spares the peer a bundle came from.
* `Slots`: a block stands for the reward-chain challenge of its infusion, a bundle
  for its reward-chain hash. Gossip is genuine, so a proof verifies exactly when
  the challenge it starts from is the expected one; deficit, infused-challenge and
  sub-epoch rules are then satisfied. Sub-slot iterations and difficulty are
  constant. A point that is refused for any reason is parked, as in the code. Which
  gossip was drained is chosen when it is processed, up to `MaxBatch` events. The assembly of an infused
  block, and what is announced, are left out.
* `BlockQueue`: `epoch` is a history field, the generation at which a block's
  fetch was sent; only properties read it. The 64-bit generation is a natural.

## Runs

The passing runs; each has a mutant per property, a plausible bug of the mapped code
that the property catches. `window_proof`, the run that fails, is among the findings.

| run | instance | shows |
|---|---|---|
| `queue` | heights 0-3, sizes 1-2, two rebases (`MaxRebases`, a state constraint) | `BytesExact` under any callers: duplicate, late and stale completions in every order |
| `pipeline` | heights 0-2, windows of two, block sizes 1-2, a budget of one byte, one fault (`MaxFaults`), `FairSpec` | `NoHoles`, `OnlyCurrentGeneration`, `OvershootAtMostOneWindow`, `ReplyOwed`, `CatchesUp` |
| `engine` | nine blocks on four branches, cache of three, cap of two, one failure, one crash, `FairSpec` | `FlagsMatchPeak`, `CoinsReplayChain`, `ChainSpendsValid`, `BranchesReplayable`, `ReorgsReported`, `ImplementsLedger`, `HeaviestWins` |
| `window` | seven blocks on two branches, windows up to three, one failing drain, one failing store call, one crash, two of them together (`MaxFaults`) | `WindowsKeepCoins`, `WindowReportsItsBlocks`, `WindowsImplementLedger` |
| `mmap` | eight blocks on two branches; the four scenarios of `Held` | `CoinsFollowPeak`, `ConfirmedOnChain`, `CoinsUpToPeak` |
| `table` | three keys in two buckets, both ways of writing, two crashes (`MaxCrashes`) at any point, `Torn = FALSE` | `ChainsSound`, `LookupsMove` |
| `download` | three workers, four heights, window of three, batches of two, one store error (`MaxFaults`), two attempts, `FairSpec` | `WindowExact`, `FeedIsWhole`, `AttemptEnds` |
| `tx` | five blocks on two branches, seven coins with a singleton, two followers (symmetric), one submitter, one lost report (`MaxLosses`), caches of one | `PoolAccounts`, `NoRivals`, `ResidentsSpendable`, `LocksHold`, `NoOverdueParked` |
| `gossip` | two untrusted peers and a trusted one, lanes of two, inbox of three; two rival bundles of which one is time-locked, one without rivals, one invalid; three scenarios (`Scenarios`): four announcements and a loss of sync; one announcement and a loss of sync beside a wallet; a wallet and an HTTP client with one reorg or eviction; `FairSpec` | `LanesExact`, `FairShare`, `AnnouncedPerAdmission`, `QueuedIsAdmitted` |
| `assembly` | a chain of three blocks on which a singleton moves twice; bundles that fast-forward it, spend it plainly and share spends | `BlockSpendable`, `BundlesWhole`, `RefusedOnlyByRivals`, `BudgetKept` |
| `slots` | four blocks on two branches over three sub-slots, one of the blocks an overflow; four bundles of which two share a challenge-chain hash, three signage points; caches of one key with two entries (`MaxKeys`, `MaxPerKey`), batches of two (`MaxBatch`), a channel of one (`FeedCap`) | `SlotsConnected`, `ReleasesParked`, `CandidateSound` |

The type invariants of the modules (`TypeOK` of `Engine`, `QueueTypeOK`, `WTypeOK`
and so on) hold on these instances too, as do `NothingBelowHead` (`BlockQueue`) and
`DrainedIsWritten` (`BodyDownload`), which are proved.

Why the bounds are enough to be interesting. In the engine's tree branch `b` wins
at height 2 over a chain of height 3, `e3` wins it back, `a1` and `b1` tie, `d2`
double-spends, coins are spent or created on both branches: reorgs up and down,
to shorter chains and back, deeper than the pending horizon and more frequent
than the report cap, all happen. The cache holds fewer records than the tree has
heights times branches, so eviction by a sibling happens. In the pipeline one
fault already gives a rebase under a fetch in flight and under a drained window. A
reply timeout is not counted as a fault. After a confirm that failed and whose reply
timed out, the consumer goes on with the next window, which lies above the peak's
child and is an orphan: a second request is made and awaited while the driver still
has the first, the case `ReplyOwed` is about. A window wholly at or below the
peak asks for nothing, and only the driver's reconcile brings the queue's head back
in line; `CatchesUp` rests on that. A window of two blocks of
two bytes against a budget of one byte is past the bound of one block and within
that of one window, so the run tells the two apart. A `FollowWindow` window of three
blocks over two branches is cut in the middle, mixes an extension with a reorg, and
lies across the peak.

Two keys of the table share a bucket and one has its own, so a batch threads a
chain of its own entries, and a record that one crash wasted meets a second
crash. The download window is smaller than the range and larger than a batch, so
runs split, and three workers leave one waiting while two hold reservations. On
the second branch of the `tx` tree the singleton is melted and `b2` is no
transaction block: a rebased resident loses its coin, and a reorg passes through a
peak the mempool is not told of. The caches hold one entry, so each eviction rule
fires. The gossiping peers announce true and false costs, so the lanes hold entries
of equal and of different rates; an announced cost of zero bans the peer and never
reaches a lane. The inbox is smaller than the lanes together. The scenarios of
`gossip` bound what the world still does (`left`: announcements, losses of sync,
drops, clients), so that each asks its own question without the others' states. In
the third a bundle is admitted, parked, cached against its rival, replaced, dropped
and resubmitted, and every one of these meets a pass of a new peak. In the `slots`
tree the heavier branch ends the second sub-slot with another bundle of the same
challenge-chain hash, so a candidate begun on one branch finds the other's bundle;
its overflow block can be confirmed before its parent is reported, so a peak is
skipped. The bundle `e3a` ends an empty sub-slot, so a candidate behind it carries two
finished bundles; a bundle and a point, or two points, are handled under one peak or
parked under one key; and the caches are full after one key, so refusals happen.

The deadlock check is off in the engine, window and mapped-store runs: a node
that has every block of the tree has nothing left to do. It is on in the others,
where some task can always move or the module says how the node stops.

`mmap` checks four scenarios, each with its own bounds: a fork whose reorg (and
whose convergence) is torn twice; reorgs back and forth over two branches, one of
them torn; one branch whose extensions are torn three times; one branch with two
I/O errors that the process survives. The properties say in which of them they
speak. `CoinsFollowPeak` and `ConfirmedOnChain` need an `Undisturbed` store: no
extension torn, no error survived, and no reorg that met a flag which a torn one
left on its branch (`~stale`). Without the first, rows of a torn extension above
the peak are harmless until the height is confirmed again; without the last,
`set_peak` takes the left-over flag for the fork, stops its walk there and leaves a
block of the abandoned branch in the height index. `CoinsUpToPeak` also holds on
`OneBranch` with either crashes or errors; with both there is a
counterexample (see the findings). On a
fork an extension that is torn can leave its row, flag or height slot beside a
sibling's, and after an I/O error during a reorg the commit of the next batch
clears the armed journal while the half-published coins remain.

`WindowsKeepCoins` and `WindowsImplementLedger` are conditioned on no carried batch
having been dropped (`~dropped`): after a failing drain or store call the walk
cache keeps records the store does not have, and a later block can be staged over a
parent that is in neither the overlay nor the store; see the findings.
`WindowReportsItsBlocks` holds whatever was dropped, while the report queue is
below its cap.

### Fairness

`SyncPipeline!FairSpec` asks weak fairness of each task: each is a loop the
runtime keeps scheduling. Faults are bounded in number and need none.
`Engine!FairSpec` asks weak fairness of `FinishReorg`, the rest of a call that has
begun, and of `AddBlock(b)` for each block: peers keep announcing and serving what
they have, and the engine works on what it is offered; it is stated through
`Waiting`, which holds exactly while `AddBlock(b)` is enabled.
`TxGossip!FairSpec` asks that the validator worker, a task of its own, goes on
while it has work; nothing is asked of peers. `BodyDownload!FairSpec` asks weak
fairness of each worker, since every request ends by its timeout at the latest,
of the join, and of the confirmation behind it. No fairness is asked of failures
or crashes.

### Findings

One run is expected to be violated: the code does something other than a comment
beside it says.

* `window_proof` (`ConfirmedIsProved`) - a block that fails the drain is not confirmed, but its archive
  rows are committed with the window. A heavier descendant that passes its own
  drain later pulls it in by a reorg, from its archived body, and its deferred
  proofs are not verified again.

Three more comments are stated as definitions that a passing run's cfg leaves out;
adding one, with the constants as said, gives the counterexample. The run checks the
weaker property that does hold.

* `OvershootAtMostOneBlock` (`SyncPipeline`, in `pipeline`) - `queue.rs` says twice that the resident bytes exceed the budget by
  at most one block. `fetch_scheduler` asks `can_admit` once per window and then
  completes the whole window, so the excess is up to one window
  (`OvershootAtMostOneWindow`, which holds and is proved).
* `ReGossipIsNew` (`TxGossip`, in `gossip`) - what `new_peak` returns as newly admitted is every retry that `admit`
  answers with `Ok`, and `admit` answers so for a resident. A bundle cached as the
  loser of a conflict, resubmitted and admitted after its rival left, is still in
  the cache; the next peak announces it a second time. `AnnouncedPerAdmission` therefore
  bounds the announcements of a bundle that may be set aside from below only.
* `ChainsSurvive` (`ChainedTable`, in `table` with `Torn = TRUE`) - `insert_batch` promises that a torn shutdown "never corrupts a chain",
  since the count is written before the heads. Nothing orders the two on the disk: a
  power loss that keeps a head and loses the count lets the next batch write over a
  linked record, and the chain leads into another bucket. A single insert links
  before it counts, so for it the kill of the process is enough.

Other places where the code departs from what a comment suggests, or from what one
might expect, each stated as a definition; adding it to the module's cfg shows the
counterexample.

| definition | what happens |
|---|---|
| `HeaviestWins` without its premise (`Engine`) | `reorg` inserts the delta into `pending` before the store calls that can fail; after a failure the heavier block is answered `AlreadyHave` until a child arrives |
| `WalksFallBackToStore` (`Engine`) | an orphan of the same height replaced the parent in the walk cache: the record is derived by the checkpoint path, although the store holds every ancestor |
| `ConfirmedIsReported` (`FollowWindow`) | a window cut in the middle confirms its prefix and returns only the error: those deltas reach neither the wallet server nor the mempool |
| `CoinsReplayChain`, `ChainSpendsValid` after a dropped batch (`Engine`, in the window model) | a catch-up window whose first block fails the drain drops its carried batch, but the records stay in the walk cache. A child in a later window finds its parent there; `fork_view` finds it neither staged nor stored and takes the block for a "checkpoint-anchor bootstrap (pre-anchor state is trusted wholesale, fork view empty)" (`engine.rs:1766-1768`, `1820`), so the child's spends are checked against the main chain instead of its own fork. Once the parent is staged again and a heavier descendant wins, a double spend on the branch is confirmed. Met when the unconditional invariant would not prove; it takes a larger tree than the run's |
| `ConvergesToFork` (`MmapStore`, the scenario of the torn reorg) | convergence finds the flags to clear through the height index; a reorg torn after a flag landed and before its height slot did leaves that flag set |
| `SweepsExact` (`ChainedTable`) | a batch killed between its count and its heads leaves records that are counted and not linked; no lookup finds them, but `for_each` does: when the key is inserted again at a lower height, a rollback to a fork between the two heights vacates the live entry |
| `FaultIsReturned` (`BodyDownload`) | a worker that ends on a store error keeps its reservation; the others find the window busy for ever and `download_all` does not return |
| `LandsWhole` (`BodyDownload`) | a confirmation that fails leaves its bodies in the store; the next attempt downloads and so feeds none of them, and lands without them |
| `ConfirmedOnChain`, `CoinsFollowPeak` without `~stale` (`MmapStore`) | the flag that a torn reorg left behind (row above) stops `set_peak`'s walk when a later reorg returns to that branch: the heights below it are neither retired nor linked, and a block of the other branch stays confirmed. Met when the invariant would not prove |
| `CoinsUpToPeak` with errors and crashes on one branch (`MmapStore`) | an error after `Link` leaves the peak in memory one block ahead of `meta.dat`; the next extension builds on it and is torn, and the restart finds the index two heights past the durable peak. When the lower block is published again the upper one's slot still counts as confirmed: the next reorg forks there, and the spends of that block, lost with the crash, are never applied |
| `NoRivals` without its fast-forward case (`TxIntake`) | `admit` looks a coin up in the index, where a fast-forward spend stands under the latest version only. A reorg gives the singleton back the version a resident was moved on from, and a plain spend of it is admitted beside that resident |
| `ResidentsSpendable` with `LossKinds = {"reorg"}` (`TxIntake`) | two followers report `a2` and then `a1`, which leaves `last_delta_hash` at `a1`; a reorg to a sibling of `a2` whose report the engine's capped queue dropped then chains onto it as a plain extension, nothing is revalidated, and residents of the old branch stay |
| `ResidentsSpendable` for a fast-forward spend of a coin the bundle itself creates (`TxIntake`) | when a rollback takes such a coin off the chain, `revalidate_for_reorg` passes it over as created in the bundle (`mempool.rs:2145`) before it asks whether the spend is fast-forward: the spend stays on the version that the rollback removed. Met when the invariant would not prove |
| `LocksHold` for a `seconds` lock, and for a lock on a coin of the bundle itself (`TxIntake`) | neither is checked again after admission. A `seconds` lock met under a peak that a reorg replaces by one with an earlier timestamp is not met under the new one; a birth lock on a coin of the bundle is resolved against the peak of the day (`RecordHeight`) and is wrong under the next |
| `PeakIsLatest` (`TxIntake`) | two followers report in the other order than they confirmed: the mempool's peak is the older block until the next one |
| `MergedIsIncluded` (`BlockAssembly`) | an item that did not fit has entered its spends into the merge table; a later bundle drops its own identical spend and the block has the spend of neither |
| `PastIsDropped` (`Slots`) | the future caches are said to be dropped "when its key's infusion arrives or the slot list resets"; `new_peak` takes only the key of the block reported and `clear_slots` has no caller, so keys of blocks inside a window, and of challenges that no block gives, stay until the cache is full |

Two of `slots.rs` that no property speaks of: `fork_block` is documented as the
fork block on a reorg and always passed as `None`, so after a reorg the points of
the abandoned branch before the new peak are kept (a candidate on such a point is
dropped when its previous block is not found); and the caches, said to hold only
what misses an infusion, also take points refused for any other reason.

One of the intake: `finish_sync_transition` calls `new_peak` and ignores the names it
returns, so a bundle that this call admits from a cache is announced to nobody
(`NewPeak(quiet)`; `AnnouncedPerAdmission` does not count it).

Two more of the mempool that the properties take into account: `admit` removes the
bundles a newcomer replaces before `add_to_pool` may still refuse the newcomer;
and a fast-forwarding newcomer is not checked against a resident that spends the
singleton's latest version plainly, so that a block with both fails its re-run and
is farmed empty (`RefusedOnlyByRivals` says this is the only way).

## Proofs

Every theorem holds for every value of the constants that satisfies the
assumptions named with it; TLC evaluates each assumption on a run of the module.

| module | theorem | statement |
|---|---|---|
| `EngineProofs` | `EngineTypes` | `Spec => []TypeOK` |
| | `FlagsCorrect` | `Spec => []FlagsMatchPeak` |
| | `CoinsCorrect` | `Spec => []CoinsReplayChain` |
| | `SpendsCorrect` | `Spec => []ChainSpendsValid` |
| | `ArchiveClosed` | `Spec => []BranchesReplayable` |
| | `EngineImplementsLedger` | `Spec => ImplementsLedger` |
| | `ReorgsAreReported` | `Spec => ReorgsReported`, an action property |
| | `WindowsCorrect` | `WSpec => []WindowsKeepCoins` |
| | `WindowsRefineLedger` | `WSpec => WindowsImplementLedger`, the refinement |
| | `WindowsReport` | `WSpec => []WindowReportsItsBlocks` |
| `StoreProofs` | `CoinsFollow` | `Spec => []CoinsFollowPeak` |
| | `ConfirmedIsChain` | `Spec => []ConfirmedOnChain` |
| | `CoinsUpTo` | `Spec => []CoinsUpToPeak` |
| | `StoreTypes` | `Spec => []TypeOK` |
| `PipelineProofs` | `QueueNeverBehind`, `QueueOneBranch`, `QueueBytesExact` | `QueueSpec => []NothingBelowHead`, `[]OnlyCurrentGeneration`, `[]BytesExact`: the queue under any callers |
| | `BufferHasNoHoles` | `Spec => []NoHoles` |
| | `PipelineOneBranch` | `Spec => []OnlyCurrentGeneration` |
| | `ReplyIsOwed` | `Spec => []ReplyOwed` |
| | `PipelineBytesExact` | `Spec => []BytesExact` |
| | `OvershootBounded` | `Spec => []OvershootAtMostOneWindow` |
| | `PipelineTypes` | `Spec => []TypeOK` |
| `DownloadProofs` | `DownloadTypes` | `Spec => []DownloadTypeOK` |
| | `WindowIsExact` | `Spec => []WindowExact` |
| | `NobodyLeavesEarly` | `Spec => []DrainedIsWritten` |
| | `FirstFeedIsWhole` | `Spec => []FeedIsWhole` |
| `GossipProofs` | `AdmissionsAnnounced` | `Spec => []AnnouncedPerAdmission` |
| | `InboxExact` | `Spec => []LanesExact` |
| `PoolProofs` | `PoolAccountsExact` | `Spec => []PoolAccounts`, with `Spec` of `TxIntake` |
| | `NoRivalsEver` | `Spec => []NoRivals` |
| | `NothingOverdue` | `Spec => []NoOverdueParked` |
| | `ResidentsStaySpendable` | `Spec => []ResidentsSpendable`, when `LossKinds \subseteq {"window"}` |
| | `LocksAreMet` | `Spec => []LocksHold` |
| | `BlocksSpendable` | `AssemblySpec => []BlockSpendable` |
| | `BundlesAlwaysWhole` | `AssemblySpec => []BundlesWhole` |
| | `RefusedByRivals` | `AssemblySpec => []RefusedOnlyByRivals` |
| | `BudgetAlwaysKept` | `AssemblySpec => []BudgetKept` |
| | `AssemblyTypes` | `AssemblySpec => []AssemblyTypeOK` |
| `TableProofs` | `ChainsAreSound` | `Spec => []ChainsSound`, when `~Torn` |
| | `LookupsOnlyMove` | `Spec => LookupsMove`, an action property, under the same hypothesis |

Assumptions. `TreeAssumption` (one genesis, a child is one higher and heavier than
its parent), `PathAssumption` (paths are linear, and a later block of a path is
higher and heavier), `CoinAssumption` (a coin's name is a
hash, so along one chain it is created once), `EngineConstants`,
`WindowConstants`; `MmapConstants`; `PoolAssumption` (a bundle's coins, cost, fee
and locks have their types, a block that is no transaction block moves no coin, the
block overhead is at most a block's cost), `SingletonAssumption` (a
chain has at most one unspent version of a coin that is fast-forwarded: its puzzle
names its launcher), `TaskAssumption` (the tasks are distinct), `ChainAssumption`
(what is confirmed is valid: a chain spends coins it has; the engine's
`ChainSpendsValid`) and `AssemblyAssumption`; `QueueConstants` (block sizes are positive and finitely many),
`PipelineConstants`; `DownloadAssumption`; `QueueAssumption` and
`GossipAssumption` (what peers advertise is a fee and a cost);
`TableAssumption`. `ChainsAreSound` and `LookupsOnlyMove` have one hypothesis
more, `~Torn`: no crash, kill or power loss, leaves a bucket head past the record
count. With such crashes, which `insert_batch` does not prevent, the table is not
sound (see the findings); every other kill and every other mix of old and new words is covered.
So has `ResidentsStaySpendable`: a report is lost with its whole window, as in the
run, and not by the engine's capped queue, for which the property is false.

### The engine

None of the properties is inductive alone: that the coins replay the chain after a
reorg needs the branch's spends to be valid and archived; that an accepted block's
spends are valid needs the coin table to be right. The inductive invariant `IInv`
is the conjunction of `TypeOK`, `FlagsMatchPeak`, `CoinsReplayChain`,
`ArchiveValid` (main chain, cache and pending lie in the archive, pending is off
the main chain, nothing is archived before there is a peak, and every archived
block has its path archived and its spends valid) and `JobIsHeavier` (a reorg
under way is to an archived, heavier block off the main chain). The lemmas it rests
on:

* `ForkFacts`: two paths share exactly the prefix up to their highest common
  block, so `SetPeak(b)` is `Path[b]` and the branch is the difference.
* the coin lemmas: applying the rest of a valid path to the replay of a prefix, or
  rolling the replay of a path back to a prefix, gives the replay (`ApplyRest`,
  `RollbackPrefix`).
* `AcceptedIsValid`: what `lookup_removals` finds through the fork view and the
  coin table is the same as what the block's whole ancestry says.
* one lemma per action (`ExtendOK`, `OrphanOK`, `BeginReorgOK`, ...), each proving
  `IInv'` and the ledger step or stutter the action maps to.
* `ReorgReports`: a row that differs after a reorg was created or spent above the
  fork on one of the two branches, and the report names it.

### The window path

`WInv` has three parts. `Layout` (what the phases of a call say about the staged
blocks, the batch and the overlay, and that the flags are the peak's path) holds
always. `Kept` is the engine's invariant with the carried batch added: archive and
batch together hold the ancestry of everything staged or cached, all of it valid;
it holds until a batch is dropped. `Accounted` says that what the call has put on
the main chain is in its list or in a report. `RunIsRest` shows that the run of
staged blocks that a window confirms in one batch is exactly the rest of a path,
so the coin lemmas of the engine apply; each action has a `...Fits` lemma for
`Layout` and a `...Keeps` lemma for `Kept` and the ledger step. The proof of the
unconditional property failed for the reason given in the findings, and `dropped`
is the weakest condition the actions suggest.

### Queue and pipeline

`QInv` is enough for the queue alone. The pipeline's `PInv` adds what relates the
tasks: `Generations` (what the producer holds was sent no earlier than the
generation it read), `Run` (the buffer is one run from the head on, and a dispatch
of the current generation aims just past it) and `Owed` (at most one request is
awaited, by a consumer that waits). `Charged` carries the bytes, as a sum over the
present heights, through every completion, drain and rebase; `Overshoot` bounds
them by what the producer may still complete after its check of the budget.

### Download

`DInv`: `WindowInv` (hands are disjoint runs apart from the pool, together within
capacity), `DrainInv` (a worker that read nothing to fetch read a complete store),
`FeedInv` (in the first attempt a written height is in the feed or in the hand of
the worker that wrote it; afterwards the feed is the unconfirmed rest) and `Parked`.

### Transaction inbox

`CountInv` compares announcements with residences. What a submitter or a peak lets in
is, from that step on, owed, queued or told, so the sum `Sent` is never behind
`entered`; for a bundle that is never set aside (`Fits`) the two are equal, since only
a retry announces a resident and such a bundle is never in a cache. `LaneInv` says that the count is the sum of the
lanes' lengths, each lane is in the order of its fee rates and has one place in the
round; `InsertSorted` is the lemma on the sorted insertion.

### Hash table

`TableInv`: within a bucket links go strictly down among the allocated records
(`ChainInv`), the call under way has written and staged what its program counter
says (`OpInv`), and what is on disk agrees with the mapped file (`DiskInv`): its
heads are chains of their own below its count, and it has the keys and links of
every record up to the mapped count and of those a batch has synced before it
publishes them. So any mix of counts, heads and records has sound chains, provided
each head is below the count that is kept (`LossIs`). A walk over decreasing links
ends (`WalkIsSound`).

`LookupInv` adds what the records say. The inserts of a call form one thread per
bucket whose first record links to the published head (`ThreadInv`); a staged head
is the last record of its thread (`StageInv`); a call names a key once
(`CallInv`); and every entry of the call is still to do, waits for its bucket's
head, or is found (`Settled`). What a walk finds from each record is a function of
the records alone (`Finder`), so two sets of heads are compared over one function:
`LinkLookup` shows that publishing a bucket's head brings in that bucket's inserts
and hides nothing that was found before.

### Mapped store

Three arguments, each an invariant of its own over `Shape` (types, the archive is
closed under parents, and what the step under way says of `op`).

`Sound` is the undisturbed store. At rest the rows, mapped and synced, are the
replay of the peak's chain and both indexes name blocks of it (`Rest`). From the
journal's write to its removal, rolling back to the journal's block gives that
block's table from the mapped rows, from the synced ones, and so from any mix of
them (`Torn`): this is why convergence may itself be torn. `Extending`,
`Reorganising` and `ConvergingTo` say how far each call has come. `MixRollback`
carries `Torn` over a crash; that `Link` fills exactly the heights that `Retire`
vacated needs `~stale`.

On one branch every row says what some archived block did and every height slot
holds a block of its height (`Traced`), so a table is right up to a block or the
block is not yet written. Without a crash the process's view is whole and what a
failed publish leaves lies above the peak (`Steady`). Without an error a restart
finds at most the next height indexed beyond the durable peak, with rows that are
right up to every indexed block (`Settled`), so that whatever is next, extension
or reorg along the branch (`Growing`, `Switching`, `Returning`), rewrites what the
crash left (`Recoverable`).

### Mempool and block assembly

`PoolInv` of one pool record: index, totals and order agree with the residents
(`Residency`), the caches keep their bounds (`Caches`), and two residents share a
coin only as `NoRivals` allows (`RivalFree`). Each operator has a lemma that it
keeps `PoolInv`. That `admit` keeps `RivalFree` rests on the index: a resident
that spends a coin plainly is listed under it, so `Conflicts` finds it. That it
keeps the ceiling rests on a sum: what `Overflow` keeps is a prefix of the order
of priority, and its last member says that the prefix fits (`OverflowFits`).
`Timely` adds the parked bundles: above the peak, or among the names the call
under way has still to retry. `IntakeInv` puts the record among the
tasks; no assumption is made on which tip a task has read, so `PoolAccounts`,
`NoRivals` and `NoOverdueParked` hold however late the reports are.

`ResidentsSpendable` speaks of a pool that has caught up, and why it is right then
depends on every report that was late, lost or out of order before. `HeldInv` says
what is true meanwhile: every resident is good on the tip's chain but for what the
blocks in `Unapplied` spend, the blocks whose delta the pool has still to hear of;
or else a pass over the whole pool is due. It is due for one of three reasons: the
deltas to come do not lead from the last one reported to the tip (`Broken`, the
hash-chain test of `notify_new_peak` will notice), one of them is marked as a reorg
(`Marked`), or a follower already waits for the lock to revalidate (`Waiting`).
`ReadInv` says the same of the tip that the holder of the lock has read: what it
admits, moves or revalidates against is behind the tip by unapplied blocks only, or
a pass is due. `Orderly` relates deltas, the last one reported and the tip by weight:
a report lost whole makes the chain `Broken` at the new tip, which no older delta can
name, and the delta applied by `new_peak` is not one that its own read has missed.
With the capped queue's kind of loss the reorg's tip is itself reported, unmarked,
and the argument (and the property, see the findings) fails.

`LocksHold` follows from `InTime`, which ties each resident's locks to the chain it
was admitted on (`SettledBase`: a coin of that chain is as old on every chain that
goes on) and to the current peak, since `new_peak` sweeps with the peak it sets.

For assembly, `LivePool` says that every resident can be spent on the pool's chain,
a fast-forward spend on an unspent version of its singleton; `new_peak` keeps it,
since the block's own spends move or drop whom they touch. `JobInv` describes a
selection: limits (`Counts`), merges (`Merging`), every version in the block is on
the chain, created by an included bundle, or follows one in use (`Grounded`,
`Chained`), and is either a named coin or one its singleton has left behind
(`Sourced`), from which the re-run finds a coin twice only under `Rivalry`.

### Induction

The provers cannot instantiate the induction rules of the library, which take an
operator. Where a fact needs induction it is argued by a least counterexample
(`LeastOf`, `AllNaturals` of `SetFacts`); a recursive function (`SumsExist`,
`WalkIsDefined`) is shown to exist as the union of its finite parts and to be
unique, so that the `CHOOSE` behind it may be unfolded.

### Only model-checked

* Liveness, which needs fairness and `ENABLED`: `HeaviestWins`, `CatchesUp`,
  `AttemptEnds`, `QueuedIsAdmitted`.
* `FairShare`, which runs the whole service of the inbox to its end by recursion.
* `SlotsConnected`, `CandidateSound` and the action property `ReleasesParked` of
  `Slots`, whose operators fold over sequences of sub-slots and cached entries.

## Not modelled

PostgreSQL store (the SQLite contract again), headers-first and weight-proof sync,
the driver's fast- and long-sync bands, peak book, resume floor, unfinished-block
and compact-VDF stores, wallet server, p2p sessions: listed with their reason in
`PROJECT.json`. The peer manager is called by no task of the node. Core consensus
arithmetic, CLVM, cryptography, proof of space (most of the repository's lines are
its tables and its plotter), serialization, fee statistics, CLI and GUI are pure
functions or I/O and are outside a state model.

## Plan

1. Done: the modules above and their runs; the proofs of the table above.
2. More proofs: `SlotsConnected` of `Slots`.
3. More of the system: `PeakBook` (claims, retraction, quarantine); unfinished
   blocks and their infusion over `Slots`; wallet subscriptions over the reorg
   reports; the fast- and long-sync bands of the driver; `ChainedTable` as the
   refinement of the maps in `MmapStore`.
