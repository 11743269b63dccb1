-------------------------------- MODULE Engine --------------------------------
(***************************************************************************)
(* The validation engine's single-block path (node/src/engine.rs) over a   *)
(* transactional store (stores/src/sqlite).  Engine methods take &mut self *)
(* and run one at a time; what can come between the steps of one is a      *)
(* failing store call or the end of the process.                           *)
(*                                                                         *)
(* Durable state is what the last committed batch left.  A batch that is   *)
(* dropped, or open at a crash, leaves nothing.                            *)
(***************************************************************************)
EXTENDS BlockTree, Sequences

CONSTANTS
  CacheCapacity,  \* BLOCK_RECORD_WINDOW
  WarmDepth,      \* ancestors warm_ancestry needs in the cache
  WalkDepth,      \* ancestors the retarget walk of a block can read
  Horizon,        \* heights below the tip that `pending` keeps
  ReportCap,      \* REORG_REPORT_CAP
  MaxFailures,    \* bound: store calls that fail
  MaxCrashes      \* bound: crashes

ASSUME EngineConstants ==
  /\ CacheCapacity \in Nat \ {0} /\ Horizon \in Nat /\ ReportCap \in Nat \ {0}
  /\ WarmDepth \in Nat /\ WalkDepth \in Nat /\ 2 <= WarmDepth /\ WarmDepth <= WalkDepth
  /\ MaxFailures \in Nat /\ MaxCrashes \in Nat

VARIABLES
  \* durable
  archive,   \* blocks with a record, a body and a status row
  onChain,   \* records flagged in_main_chain
  peak,      \* current_peak
  coins,     \* coin_record
  shallow,   \* blocks whose record was derived without the ancestry walks
  \* volatile
  cache,     \* BlockRecordCache
  pending,   \* blocks whose deltas wait off the main chain
  reports,   \* reorg_reports
  job,       \* the block whose archive rows are committed and whose reorg is not
  failures, crashes

durable == <<archive, onChain, peak, coins, shallow>>
vars == <<durable, cache, pending, reports, job, failures, crashes>>

-----------------------------------------------------------------------------
(* The store.                                                              *)

\* apply_block_in for the blocks of S in height order: each upserts the coins
\* it creates as unspent, then stamps the coins it spends.
Apply(table, S) ==
  [c \in Coins |->
     LET created == IF c \in AddedBy(S) THEN TopHeight({x \in S : c \in Adds[x]})
                    ELSE table[c].created
         spent == IF c \in RemovedBy(S) THEN TopHeight({x \in S : c \in Removes[x]})
                  ELSE IF c \in AddedBy(S) THEN 0
                  ELSE table[c].spent
     IN  IF created = -1 THEN Absent ELSE [created |-> created, spent |-> spent]]

\* rollback_to_in: drop coins created above h, un-spend coins spent above h.
RollbackNoUnspend(table, h) ==
  [c \in Coins |-> IF table[c].created > h THEN Absent ELSE table[c]]

Rollback(table, h) ==
  [c \in Coins |->
     IF table[c].created > h THEN Absent
     ELSE IF table[c].spent > h THEN [table[c] EXCEPT !.spent = 0]
     ELSE table[c]]

\* The height of b's highest ancestor on the main chain, -1 if there is none.
ForkHeight(b) ==
  LET shared == Path[b] \cap onChain IN
  IF shared = {} THEN -1 ELSE TopHeight(shared)

\* set_peak: retire everything flagged above the fork, flag the new ancestry.
SetPeakKeepsSiblings(b) ==
  {x \in onChain : Height[x] <= Height[b]} \cup {x \in Path[b] : Height[x] > ForkHeight(b)}

SetPeak(b) ==
  {x \in onChain : Height[x] <= ForkHeight(b)} \cup {x \in Path[b] : Height[x] > ForkHeight(b)}

\* rolled_back_coin_states: coins created or spent in (h, top].
RolledBackCreatedOnly(h, top) == {c \in Coins : coins[c].created \in h + 1 .. top}

RolledBack(h, top) ==
  {c \in Coins : coins[c].created \in h + 1 .. top \/ coins[c].spent \in h + 1 .. top}

-----------------------------------------------------------------------------
(* Volatile structures.                                                    *)

\* BlockRecordCache::insert for the blocks of S, lowest first: one record per
\* height, the last inserted, and the lowest heights go.
CacheInsert(held, S) ==
  LET kept == {x \in held : \A y \in S : Height[x] # Height[y]} \cup S IN
  {x \in kept : Cardinality({y \in kept : Height[y] > Height[x]}) < CacheCapacity}

\* The reports the daemon has not taken yet; a full queue loses the oldest.
PushReport(report) ==
  LET all == Append(reports, report) IN
  IF Len(all) > ReportCap THEN Tail(all) ELSE all

Prune(S, h) == {x \in S : Height[x] >= h - Horizon}

\* warm_cache_from_store, which resume repair runs after a restart.
WarmCache ==
  {x \in onChain : Cardinality({y \in onChain : Height[y] > Height[x]}) < CacheCapacity}

-----------------------------------------------------------------------------
(* prepare_delta: what a block is checked against.                         *)

\* fork_view walks from b's parent down to the first ancestor that has no
\* delta in memory and is confirmed, or that is nowhere to be found; what it
\* passes, down to genesis if need be, is folded into the view.
WalkEnd(b, overlay) ==
  LET ends == {x \in Path[b] \ {b} : x \notin overlay /\ (x \in onChain \/ x \notin archive)} IN
  IF ends = {} THEN -1 ELSE TopHeight(ends)

Folded(b, overlay) == {x \in Path[b] \ {b} : Height[x] > WalkEnd(b, overlay)}

ViewForkHeight(b, overlay) ==
  IF \/ WalkEnd(b, overlay) = -1
     \/ \E x \in Path[b] \ {b} : Height[x] = WalkEnd(b, overlay) /\ x \in onChain
  THEN WalkEnd(b, overlay) ELSE Height[b] - 1

\* lookup_removals: ephemeral, or not spent in the fork and either a row of
\* the common chain not spent on it, or created in the fork.
LookupIgnoresFork(b, overlay) ==
  \A c \in Removes[b] :
    \/ c \in Adds[b]
    \/ coins[c] # Absent /\ coins[c].spent = 0

LookupRemovals(b, overlay) ==
  LET folded == Folded(b, overlay)
      fork == ViewForkHeight(b, overlay)
  IN  \A c \in Removes[b] :
        \/ c \in Adds[b]
        \/ /\ c \notin RemovedBy(folded)
           /\ IF coins[c] # Absent /\ coins[c].created <= fork
              THEN ~(coins[c].spent # 0 /\ coins[c].spent <= fork)
              ELSE c \in AddedBy(folded)

\* compute_record runs the ancestry walks (retarget, sub-epoch summary, header
\* validation) only when the walk cache holds the parent, the grandparent and
\* enough behind them; otherwise it takes the checkpoint path, which inherits
\* sub_slot_iters and checks the proof of space.
Ancestors(b, depth) == {x \in Path[b] \ {b} : Height[x] >= Height[b] - depth}

Warm(b) == Height[b] >= 2 /\ Ancestors(b, WarmDepth) \subseteq cache

\* repair_walk_ancestry: a walk that runs out of cached records loads what the
\* store has of its depth, and the derivation is run again.
Repaired(b) ==
  LET depth == IF WalkDepth < CacheCapacity THEN WalkDepth ELSE CacheCapacity IN
  CacheInsert(cache, (Ancestors(b, depth) \cap archive) \ cache)

\* The walk cache after b's derivation: how deep the walks went is b's matter.
Walked(b) == {cache} \cup (IF Warm(b) THEN {Repaired(b)} ELSE {})

\* prev_record_by: the parent is in the cache or in the store.  Without a peak
\* the code takes any base block; a genesis sync starts at genesis.
HasParentTrusts(b) == b = Genesis \/ peak # NoBlock

HasParent(b) == b = Genesis \/ Parent[b] \in cache \cup archive

AlreadyHaveArchived(b) == b \in pending \/ b \in archive

AlreadyHave(b) == b \in pending \/ b \in onChain

Accepts(b, overlay) ==
  /\ ~AlreadyHave(b)
  /\ HasParent(b)
  /\ b = Genesis \/ LookupRemovals(b, overlay)

\* persist_archive: record, body and status, in the batch of the caller.
Persist(b) ==
  /\ archive' = archive \cup {b}
  /\ shallow' = IF Warm(b) THEN shallow \ {b} ELSE shallow \cup {b}

-----------------------------------------------------------------------------
(* add_block_with_delta, by the arm of confirm it takes.                   *)

Init ==
  /\ archive = {} /\ onChain = {} /\ peak = NoBlock /\ coins = CoinsOf({}) /\ shallow = {}
  /\ cache = {} /\ pending = {} /\ reports = <<>> /\ job = NoBlock
  /\ failures = 0 /\ crashes = 0

\* The first block, or a heavier child of the peak: archive rows, coins and
\* peak commit in one batch.
Extend(b) ==
  /\ job = NoBlock /\ Accepts(b, pending)
  /\ peak # NoBlock => Weight[b] > Weight[peak] /\ Parent[b] = peak
  /\ Persist(b)
  /\ onChain' = SetPeak(b)
  /\ peak' = b
  /\ coins' = Apply(coins, {b})
  /\ \E walked \in Walked(b) : cache' = CacheInsert(walked, {b})
  /\ pending' = Prune(pending \ {b}, Height[b])
  /\ UNCHANGED <<reports, job, failures, crashes>>

\* No heavier than the peak: archived, and its delta kept in memory.
Orphan(b) ==
  /\ job = NoBlock /\ Accepts(b, pending)
  /\ peak # NoBlock /\ Weight[b] <= Weight[peak]
  /\ Persist(b)
  /\ \E walked \in Walked(b) : cache' = CacheInsert(walked, {b})
  /\ pending' = Prune(pending \cup {b}, Height[b])
  /\ UNCHANGED <<onChain, peak, coins, reports, job, failures, crashes>>

\* Heavier, on another branch: the archive rows commit first.
BeginReorgOnTie(b) ==
  /\ job = NoBlock /\ Accepts(b, pending)
  /\ peak # NoBlock /\ Weight[b] >= Weight[peak] /\ Parent[b] # peak
  /\ Persist(b)
  /\ cache' \in Walked(b)
  /\ job' = b
  /\ UNCHANGED <<onChain, peak, coins, pending, reports, failures, crashes>>

BeginReorg(b) ==
  /\ job = NoBlock /\ Accepts(b, pending)
  /\ peak # NoBlock /\ Weight[b] > Weight[peak] /\ Parent[b] # peak
  /\ Persist(b)
  /\ cache' \in Walked(b)
  /\ job' = b
  /\ UNCHANGED <<onChain, peak, coins, pending, reports, failures, crashes>>

\* A store call of the first batch fails: of prepare_delta's work only what the
\* walks loaded into the cache stays.
FailAdd(b) ==
  /\ job = NoBlock /\ Accepts(b, pending)
  /\ failures < MaxFailures /\ failures' = failures + 1
  /\ cache' \in Walked(b)
  /\ UNCHANGED <<durable, pending, reports, job, crashes>>

\* candidate_branch: the blocks above the fork, whose deltas come from
\* `pending` or are rebuilt from their archived bodies.
Branch(b) == {x \in Path[b] : Height[x] > ForkHeight(b)}

\* The reorg itself: rollback, re-apply, set the peak, one batch.
FinishReorg ==
  LET b == job
      fork == ForkHeight(b)
  IN
  /\ b # NoBlock
  /\ Branch(b) \subseteq archive
  /\ onChain' = SetPeak(b)
  /\ peak' = b
  /\ coins' = Apply(Rollback(coins, fork), Branch(b))
  /\ cache' = CacheInsert(cache, {b})
  /\ pending' = Prune(pending \ Branch(b), Height[b])
  /\ reports' = PushReport([fork |-> fork, rolledBack |-> RolledBack(fork, Height[peak]),
                            reapplied |-> Branch(b)])
  /\ job' = NoBlock
  /\ UNCHANGED <<archive, shallow, failures, crashes>>

\* A store call of the reorg fails.  ensure_reorg_indexes comes before the
\* delta enters `pending`, every other call after it.
FailReorg ==
  /\ job # NoBlock
  /\ failures < MaxFailures /\ failures' = failures + 1
  /\ pending' \in {pending, pending \cup {job}}
  /\ job' = NoBlock
  /\ UNCHANGED <<durable, cache, reports, crashes>>

\* The process ends and starts again.
Crash ==
  /\ crashes < MaxCrashes /\ crashes' = crashes + 1
  /\ cache' = WarmCache
  /\ pending' = {} /\ reports' = <<>> /\ job' = NoBlock
  /\ UNCHANGED <<durable, failures>>

AddBlock(b) == Extend(b) \/ Orphan(b) \/ BeginReorg(b)

Next ==
  \/ \E b \in Blocks : AddBlock(b) \/ FailAdd(b)
  \/ FinishReorg \/ FailReorg \/ Crash

Spec == Init /\ [][Next]_vars

\* Peers keep announcing what they have, so a block is offered again and
\* again, and the engine works on what it is offered.  AddBlock(b) is enabled
\* as long as Waiting(b) holds and ends it, so that the last conjunct is
\* WF_vars(AddBlock(b)) for every b, in a form that is quick to check.
Waiting(b) == job = NoBlock /\ Accepts(b, pending)

FairSpec == Spec /\ WF_vars(FinishReorg) /\ \A b \in Blocks : []<>~Waiting(b)

-----------------------------------------------------------------------------
ChainOf(p) == IF p = NoBlock THEN {} ELSE Path[p]

\* The state has the types of Engine's fields and of the store's tables, and
\* the queue of reorg reports stays within its cap.
TypeOK ==
  /\ archive \subseteq Blocks /\ onChain \subseteq Blocks
  /\ peak \in Blocks \cup {NoBlock} /\ job \in Blocks \cup {NoBlock}
  /\ coins \in CoinTable
  /\ cache \subseteq Blocks /\ pending \subseteq Blocks
  /\ reports \in Seq([fork : Int, rolledBack : SUBSET Coins, reapplied : SUBSET Blocks])
  /\ Len(reports) <= ReportCap
  /\ shallow \subseteq archive
  /\ failures \in 0 .. MaxFailures /\ crashes \in 0 .. MaxCrashes

\* The main-chain flags are the peak's ancestry and nothing else: no reorg,
\* shallow or to a shorter branch, leaves an abandoned sibling flagged.
FlagsMatchPeak == onChain = ChainOf(peak)

\* The coin table is what replaying the main chain gives, whatever reorgs,
\* failures and crashes came before.
CoinsReplayChain == coins = CoinsOf(onChain)

\* Every confirmed block spends coins created on its own chain and spent
\* nowhere else on it, although each was checked at arrival against a fork
\* view and is confirmed later, by a reorg, without being checked again.
ChainSpendsValid == \A b \in onChain : SpendsValid(b)

\* A block off the main chain whose delta is kept has its whole ancestry
\* archived, so a reorg to it can always be replayed.
BranchesReplayable == \A b \in pending \cup archive : Path[b] \subseteq archive

\* A reorg tells the wallet about every coin whose row it changes: one it
\* rolled back, or one the reapplied branch creates or spends.
ReorgsReported ==
  [][ \A c \in Coins :
        (coins'[c] # coins[c] /\ reports' # reports) =>
          LET report == reports'[Len(reports')] IN
          c \in report.rolledBack \cup AddedBy(report.reapplied) \cup RemovedBy(report.reapplied)
    ]_vars

\* The engine implements the ledger: readers of the store see the peak and
\* the coins change together, and only to a heavier valid chain.
LedgerView == INSTANCE Ledger WITH tip <- peak, table <- coins
ImplementsLedger == LedgerView!LSpec

\* In whatever order the blocks come, the peak ends as a heaviest of the blocks
\* archived: prepare_delta answers "AlreadyHave" only when a block is "already
\* confirmed on the main chain", so a block that lost its turn gets another.
\* Across crashes at any point; a store call that fails in reorg leaves the
\* block in pending, and it is then refused until a child of it arrives.
HeaviestWins == [](failures = 0) => <>[](\A b \in archive : Weight[b] <= Weight[peak])

\* prepare_delta, on the record derivation: it "runs the consensus ancestry
\* walks (retarget/SES/header validation) over the walk cache, falling back to
\* the store on a cache miss".  Every ancestor of an accepted block is in the
\* store, so from height 2 on no confirmed record would be a shallow one.
WalksFallBackToStore == \A b \in onChain : Height[b] >= 2 => b \notin shallow
=============================================================================
