------------------------------ MODULE MmapStore ------------------------------
(***************************************************************************)
(* The memory-mapped store (stores/src/mmap) under the engine's confirm.   *)
(* There is no transaction: one batch is published by in-place writes to   *)
(* several mapped files, each with its own msync, and the peak pointer is  *)
(* written last.  A reorg's publish is bracketed by a journal file.        *)
(*                                                                         *)
(* A crash leaves, at every location written since its file's last sync,   *)
(* the old value or the new one: what a kill between two writes or a power *)
(* loss can leave.  Renames and removals of the small files meta.dat and   *)
(* reorg.journal take effect, in order, when they return.                  *)
(***************************************************************************)
EXTENDS BlockTree

\* What one behaviour meets: the blocks delivered, the publishes that are
\* interrupted ("extend", "reorg"), and bounds on the I/O errors the process
\* survives and on the crashes.
CONSTANT Scenarios

ASSUME MmapConstants ==
  Scenarios \subseteq [blocks : SUBSET Blocks, tears : SUBSET {"extend", "reorg"},
                       failures : Nat, crashes : Nat]

Heights == {Height[b] : b \in Blocks}
NoJournal == [fork |-> -1, hash |-> NoBlock]

VARIABLES
  rows, rowsDisk,        \* coins.tbl, as mapped and as last synced
  flags, flagsDisk,      \* blocks.tbl: the entries whose main flag is set
  index, indexDisk,      \* heights.dat
  records,               \* blocks.tbl: the entries
  meta,                  \* meta.dat
  journal,               \* reorg.journal
  armed,                 \* journal_armed
  peak,                  \* the peak in memory
  held,                  \* deltas a failed reorg left in the engine's memory
  pc,                    \* what the process does next
  op,                    \* the publish under way: block, fork height, kind
  last,                  \* how the store got where it is when nothing is under way
  scenario,              \* chosen at the start
  failures, crashes,
  stale                  \* a reorg has adopted a branch that carried a flag already

files == <<rows, rowsDisk, flags, flagsDisk, index, indexDisk>>
vars == <<files, records, meta, journal, armed, peak, held, pc, op, last, scenario, failures, crashes, stale>>

Idle == [block |-> NoBlock, fork |-> -1, kind |-> "none"]

-----------------------------------------------------------------------------
(* The engine's reading of this store: a block is confirmed when the height *)
(* index names it.                                                          *)

Confirmed == {b \in records : index[Height[b]] = b}

View == INSTANCE Engine WITH
  MaxFailures <- 0, MaxCrashes <- 0, CacheCapacity <- 1, WarmDepth <- 2, WalkDepth <- 2, Horizon <- 0, ReportCap <- 1,
  archive <- records, onChain <- Confirmed, coins <- rows, shallow <- {},
  cache <- {}, pending <- held, reports <- <<>>, job <- NoBlock

ChainOf(p) == IF p = NoBlock THEN {} ELSE Path[p]

\* candidate_branch, and the blocks set_peak links: b's ancestry above h.
BranchAbove(b, h) == {x \in Path[b] : Height[x] > h}

Offered(b) ==
  /\ pc = "idle" /\ b \in scenario.blocks
  /\ ~View!AlreadyHave(b)
  /\ IF peak = NoBlock THEN b = Genesis ELSE b # Genesis /\ Parent[b] \in records
  /\ b = Genesis \/ View!LookupRemovals(b, held)

-----------------------------------------------------------------------------
(* The helpers of the store.                                               *)

\* clear_reorg_journal: whatever armed the journal, an unfinished reorg too.
ClearJournal ==
  /\ journal' = IF armed THEN NoJournal ELSE journal
  /\ armed' = FALSE

\* set_peak's fork: the highest ancestor whose entry is flagged.
FlagFork(b) ==
  LET flagged == Path[b] \cap flags IN
  IF flagged = {} THEN -1 ELSE TopHeight(flagged)

Vacate(S) == [h \in Heights |-> IF h \in S THEN NoBlock ELSE index[h]]

PeakHeight == IF peak = NoBlock THEN 0 ELSE Height[peak]

-----------------------------------------------------------------------------
Init ==
  /\ rows = CoinsOf({}) /\ rowsDisk = rows
  /\ flags = {} /\ flagsDisk = {}
  /\ index = [h \in Heights |-> NoBlock] /\ indexDisk = index
  /\ records = {} /\ meta = NoBlock /\ journal = NoJournal /\ armed = FALSE
  /\ peak = NoBlock /\ held = {} /\ pc = "idle" /\ op = Idle /\ last = "opened"
  /\ scenario \in Scenarios /\ failures = 0 /\ crashes = 0 /\ stale = FALSE

(* A batch is opened and filled.  The archive rows are written through; the *)
(* coin images wait in the batch.                                           *)

BeginExtend(b) ==
  /\ Offered(b)
  /\ peak # NoBlock => Weight[b] > Weight[peak] /\ Parent[b] = peak
  /\ records' = records \cup {b}
  /\ op' = [block |-> b, fork |-> Height[b] - 1, kind |-> "extend"]
  /\ pc' = "images"
  /\ UNCHANGED <<files, meta, journal, armed, peak, held, last, scenario, failures, crashes, stale>>

\* commit of a batch with archive rows only.
ArchiveOrphan(b) ==
  /\ Offered(b)
  /\ peak # NoBlock /\ Weight[b] <= Weight[peak]
  /\ records' = records \cup {b}
  /\ ClearJournal
  /\ UNCHANGED <<files, meta, peak, held, pc, op, last, scenario, failures, crashes, stale>>

\* The archive rows are committed, then rollback_to_in and apply_block_in fill
\* the batch of the reorg.  candidate_branch fails if no ancestor is confirmed.
BeginReorg(b) ==
  LET shared == Path[b] \cap Confirmed IN
  /\ Offered(b)
  /\ peak # NoBlock /\ Weight[b] > Weight[peak] /\ Parent[b] # peak
  /\ records' = records \cup {b}
  /\ ClearJournal
  /\ \/ /\ shared # {}
        /\ op' = [block |-> b, fork |-> TopHeight(shared), kind |-> "reorg"]
        /\ pc' = "journal" /\ held' = held
     \/ /\ shared = {}
        /\ held' = held \cup {b}
        /\ UNCHANGED <<op, pc>>
  /\ stale' = (stale \/ ~(Path[b] \cap flags \subseteq ChainOf(peak)))
  /\ UNCHANGED <<files, meta, peak, last, scenario, failures, crashes>>

-----------------------------------------------------------------------------
(* flush_coin_batch.                                                       *)

WriteJournal ==
  /\ pc = "journal" /\ pc' = "sweep"
  /\ journal' = [fork |-> op.fork, hash |-> index[op.fork]]
  /\ armed' = TRUE
  /\ UNCHANGED <<files, records, meta, peak, held, op, last, scenario, failures, crashes, stale>>

\* The staged sweep: deletions and un-spends above the fork.
Sweep ==
  /\ pc = "sweep" /\ pc' = "images"
  /\ rows' = View!Rollback(rows, op.fork)
  /\ UNCHANGED <<rowsDisk, flags, flagsDisk, index, indexDisk, records, meta, journal, armed,
                 peak, held, op, last, scenario, failures, crashes, stale>>

\* The staged images of every block of the batch; they are absolute.
PublishImages ==
  /\ pc = "images" /\ pc' = "syncRows"
  /\ rows' = View!Apply(rows, BranchAbove(op.block, op.fork))
  /\ UNCHANGED <<rowsDisk, flags, flagsDisk, index, indexDisk, records, meta, journal, armed,
                 peak, held, op, last, scenario, failures, crashes, stale>>

SyncRowsSkipped ==
  /\ pc = "syncRows" /\ pc' = "retire"
  /\ UNCHANGED <<files, records, meta, journal, armed, peak, held, op, last, scenario, failures, crashes, stale>>

SyncRows ==
  /\ pc = "syncRows" /\ pc' = "retire"
  /\ rowsDisk' = rows
  /\ UNCHANGED <<rows, flags, flagsDisk, index, indexDisk, records, meta, journal, armed,
                 peak, held, op, last, scenario, failures, crashes, stale>>

(* set_peak.                                                               *)

RetireBelowPeak ==
  LET gone == {h \in Heights : h > FlagFork(op.block) /\ h < PeakHeight} IN
  /\ pc = "retire" /\ pc' = "link"
  /\ flags' = flags \ {index[h] : h \in gone}
  /\ index' = Vacate(gone)
  /\ UNCHANGED <<rows, rowsDisk, flagsDisk, indexDisk, records, meta, journal, armed,
                 peak, held, op, last, scenario, failures, crashes, stale>>

\* The heights above the fork, up to the old peak, lose their block.
Retire ==
  LET gone == {h \in Heights : h > FlagFork(op.block) /\ h <= PeakHeight} IN
  /\ pc = "retire" /\ pc' = "link"
  /\ flags' = flags \ {index[h] : h \in gone}
  /\ index' = Vacate(gone)
  /\ UNCHANGED <<rows, rowsDisk, flagsDisk, indexDisk, records, meta, journal, armed,
                 peak, held, op, last, scenario, failures, crashes, stale>>

\* The ancestry is flagged and indexed, from the new peak down to the first
\* flagged block.
Link ==
  LET linked == BranchAbove(op.block, FlagFork(op.block)) IN
  /\ pc = "link" /\ pc' = "syncTables"
  /\ flags' = flags \cup linked
  /\ index' = [h \in Heights |->
                 IF \E x \in linked : Height[x] = h
                 THEN CHOOSE x \in linked : Height[x] = h ELSE index[h]]
  /\ peak' = op.block
  /\ UNCHANGED <<rows, rowsDisk, flagsDisk, indexDisk, records, meta, journal, armed,
                 held, op, last, scenario, failures, crashes, stale>>

SyncTables ==
  /\ pc = "syncTables" /\ pc' = "meta"
  /\ flagsDisk' = flags /\ indexDisk' = index
  /\ UNCHANGED <<rows, rowsDisk, flags, index, records, meta, journal, armed,
                 peak, held, op, last, scenario, failures, crashes, stale>>

WriteMeta ==
  /\ pc = "meta" /\ pc' = "clear"
  /\ meta' = peak
  /\ UNCHANGED <<files, records, journal, armed, peak, held, op, last, scenario, failures, crashes, stale>>

\* The journal comes off; commit finds nothing left to publish.
FinishPublish ==
  /\ pc = "clear" /\ pc' = "idle"
  /\ ClearJournal
  /\ held' = held \ Path[op.block]
  /\ op' = Idle /\ last' = "published"
  /\ UNCHANGED <<files, records, meta, peak, scenario, failures, crashes, stale>>

Publish ==
  WriteJournal \/ Sweep \/ PublishImages \/ SyncRows \/ Retire \/ Link
    \/ SyncTables \/ WriteMeta \/ FinishPublish

Publishing == {"journal", "sweep", "images", "syncRows", "retire", "link", "syncTables", "meta", "clear"}

\* A call of the publish returns an error, and the batch is dropped.  (An error
\* while the store is opened ends the process: a crash.)
FailPublish ==
  /\ pc \in Publishing /\ op.kind \in scenario.tears
  /\ failures < scenario.failures /\ failures' = failures + 1
  /\ pc' = "idle" /\ op' = Idle /\ last' = "torn"
  /\ held' = IF op.kind = "reorg" THEN held \cup {op.block} ELSE held
  /\ UNCHANGED <<files, records, meta, journal, armed, peak, scenario, crashes, stale>>

-----------------------------------------------------------------------------
(* Crash and open.                                                         *)

\* The values a location may hold after a crash.
Mixes(old, new) == {f \in [DOMAIN old -> {old[x] : x \in DOMAIN old} \cup {new[x] : x \in DOMAIN new}] :
                      \A x \in DOMAIN old : f[x] \in {old[x], new[x]}}

SetMixes(old, new) == {S \in SUBSET (old \cup new) : old \cap new \subseteq S}

Crash ==
  /\ pc # "down" /\ (pc = "idle" \/ op.kind \in scenario.tears)
  /\ crashes < scenario.crashes /\ crashes' = crashes + 1
  /\ rows' \in Mixes(rowsDisk, rows) /\ rowsDisk' = rows'
  /\ flags' \in SetMixes(flagsDisk, flags) /\ flagsDisk' = flags'
  /\ index' \in Mixes(indexDisk, index) /\ indexDisk' = index'
  /\ armed' = FALSE /\ peak' = NoBlock /\ held' = {}
  /\ pc' = "down" /\ op' = Idle /\ last' = "opened"
  /\ UNCHANGED <<records, meta, journal, scenario, failures, stale>>

Open ==
  /\ pc = "down"
  /\ peak' = meta
  /\ IF journal = NoJournal
     THEN pc' = "idle" /\ op' = op
     ELSE pc' = "converge" /\ op' = [block |-> journal.hash, fork |-> journal.fork, kind |-> "reorg"]
  /\ UNCHANGED <<files, records, meta, journal, armed, held, last, scenario, failures, crashes, stale>>

(* converge_torn_reorg.                                                    *)

ConvergeRowsNoUnspend ==
  /\ pc = "converge" /\ pc' = "convergeSync"
  /\ rows' = View!RollbackNoUnspend(rows, op.fork)
  /\ UNCHANGED <<rowsDisk, flags, flagsDisk, index, indexDisk, records, meta, journal, armed,
                 peak, held, op, last, scenario, failures, crashes, stale>>

ConvergeRows ==
  /\ pc = "converge" /\ pc' = "convergeSync"
  /\ rows' = View!Rollback(rows, op.fork)
  /\ UNCHANGED <<rowsDisk, flags, flagsDisk, index, indexDisk, records, meta, journal, armed,
                 peak, held, op, last, scenario, failures, crashes, stale>>

ConvergeSync ==
  /\ pc = "convergeSync" /\ pc' = "convergeIndex"
  /\ rowsDisk' = rows
  /\ UNCHANGED <<rows, flags, flagsDisk, index, indexDisk, records, meta, journal, armed,
                 peak, held, op, last, scenario, failures, crashes, stale>>

\* Every indexed block above the fork is unflagged and its height vacated.
ConvergeIndex ==
  LET gone == {h \in Heights : h > op.fork} IN
  /\ pc = "convergeIndex" /\ pc' = "convergeTables"
  /\ flags' = flags \ {index[h] : h \in gone}
  /\ index' = Vacate(gone)
  /\ peak' = op.block
  /\ UNCHANGED <<rows, rowsDisk, flagsDisk, indexDisk, records, meta, journal, armed,
                 held, op, last, scenario, failures, crashes, stale>>

ConvergeTables ==
  /\ pc = "convergeTables" /\ pc' = "convergeMeta"
  /\ flagsDisk' = flags /\ indexDisk' = index
  /\ UNCHANGED <<rows, rowsDisk, flags, index, records, meta, journal, armed,
                 peak, held, op, last, scenario, failures, crashes, stale>>

ConvergeMeta ==
  /\ pc = "convergeMeta" /\ pc' = "convergeClear"
  /\ meta' = peak
  /\ armed' = TRUE
  /\ UNCHANGED <<files, records, journal, peak, held, op, last, scenario, failures, crashes, stale>>

ConvergeClear ==
  /\ pc = "convergeClear" /\ pc' = "idle"
  /\ ClearJournal
  /\ op' = Idle /\ last' = "converged"
  /\ UNCHANGED <<files, records, meta, peak, held, scenario, failures, crashes, stale>>

Converge ==
  ConvergeRows \/ ConvergeSync \/ ConvergeIndex \/ ConvergeTables \/ ConvergeMeta \/ ConvergeClear

Next ==
  \/ \E b \in Blocks : BeginExtend(b) \/ ArchiveOrphan(b) \/ BeginReorg(b)
  \/ Publish \/ FailPublish \/ Crash \/ Open \/ Converge

Spec == Init /\ [][Next]_vars

-----------------------------------------------------------------------------
IndexOf(p) == [h \in Heights |->
  IF \E x \in ChainOf(p) : Height[x] = h THEN CHOOSE x \in ChainOf(p) : Height[x] = h ELSE NoBlock]

Steps == {"idle", "down", "journal", "sweep", "images", "syncRows", "retire", "link",
          "syncTables", "meta", "clear", "converge", "convergeSync", "convergeIndex",
          "convergeTables", "convergeMeta", "convergeClear"}

\* The files, and the process's view of them, keep their types.
TypeOK ==
  /\ rows \in CoinTable /\ rowsDisk \in CoinTable
  /\ flags \subseteq records /\ flagsDisk \subseteq records /\ records \subseteq Blocks
  /\ index \in [Heights -> records \cup {NoBlock}] /\ indexDisk \in [Heights -> records \cup {NoBlock}]
  /\ meta \in records \cup {NoBlock} /\ peak \in records \cup {NoBlock} /\ held \subseteq records
  /\ journal # NoJournal => journal.fork \in Heights /\ journal.hash \in records \cup {NoBlock}
  /\ armed \in BOOLEAN /\ pc \in Steps
  /\ (pc \in {"idle", "down"}) = (op = Idle)
  /\ scenario \in Scenarios /\ failures \in 0 .. scenario.failures /\ crashes \in 0 .. scenario.crashes

Replayed(p) == rows = CoinsOf(ChainOf(p))
Indexed(p) == index = IndexOf(p)
Flagged(p) == flags = ChainOf(p)

\* No I/O error was survived, no extension was torn, and no reorg met the flags
\* that a torn one left on its branch.
Undisturbed == "extend" \notin scenario.tears /\ failures = 0 /\ ~stale

\* Everything delivered lies on one branch, and errors and crashes do not mix.
OneBranch ==
  /\ \A x, y \in scenario.blocks : x \in Path[y] \/ y \in Path[x]
  /\ failures = 0 \/ crashes = 0

\* Between two publishes the coin table is exactly the replay of the peak's
\* chain, whatever crashes interrupted reorgs and their convergence before.
CoinsFollowPeak == Undisturbed /\ pc = "idle" => Replayed(peak)

\* What the engine then takes for confirmed is an ancestor of the peak: set_peak
\* and the convergence leave no height with a block of another branch.
ConfirmedOnChain == Undisturbed /\ pc = "idle" => Confirmed \subseteq ChainOf(peak)

\* What a restart finds without a journal: up to the durable peak's height the
\* coin table is the replay of its chain, so the peak never stands over coins
\* that are not linked or whose spends were lost.
CoinsUpToPeak ==
  (Undisturbed \/ OneBranch) /\ pc \in {"idle", "down"} /\ journal = NoJournal =>
    View!Rollback(rows, IF meta = NoBlock THEN -1 ELSE Height[meta]) = CoinsOf(ChainOf(meta))

\* The module note of mmap/mod.rs: the store "CONVERGES by rolling coins,
\* main-chain flags, heights, and the peak back to the fork".
ConvergesToFork == pc = "idle" /\ last = "converged" => Replayed(peak) /\ Indexed(peak) /\ Flagged(peak)
=============================================================================
