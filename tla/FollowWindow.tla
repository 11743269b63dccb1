----------------------------- MODULE FollowWindow -----------------------------
(***************************************************************************)
(* The engine's window path: follow_blocks_reporting_pre of                *)
(* node/src/sync/mod.rs over stage_block_pre(_in) and                      *)
(* confirm_staged_batch_in of node/src/engine.rs.  Every follow step of    *)
(* the node is a call of it, under the chaser's lock: one window at a      *)
(* time.  A window is a run of consecutive blocks of one branch; its order *)
(* is that of the heights, so it is held as a set.                         *)
(*                                                                         *)
(* The deferred VDF proofs and signatures of a window are drained together *)
(* after its blocks are staged; a drain fails at the first block with a    *)
(* bad one.  The state and the store are those of Engine.                  *)
(***************************************************************************)
EXTENDS Engine

CONSTANTS
  MaxWindow,   \* blocks of a window
  MaxDrains,   \* bound: windows whose drain fails
  MaxFaults    \* bound: failing drains, failing store calls and crashes together

ASSUME WindowConstants == MaxWindow \in Nat \ {0} /\ MaxDrains \in Nat /\ MaxFaults \in Nat

VARIABLES
  win,       \* the call under way
  overlay,   \* staged_deltas
  unproved,  \* history: blocks whose last staging did not pass the drain
  dropped,   \* history: a carried batch was dropped, the walk cache keeping its records
  drains

windowVars == <<win, overlay, unproved, dropped, drains>>
allVars == <<vars, windowVars>>

\* pc; blocks to stage; staged; batch: archive rows not committed, and those of
\* them derived shallow; per_block as last read; stage_err or vdf_err; blocks
\* confirmed; the main chain when the call began.
Off == [pc |-> "off", todo |-> {}, staged |-> {}, batch |-> {}, dim |-> {}, perBlock |-> FALSE,
        err |-> FALSE, done |-> {}, before |-> {}]

Lowest(S) == CHOOSE x \in S : \A y \in S : Height[x] <= Height[y]

Window(b, h) == {x \in Path[b] : Height[x] >= h}

FaultLeft == failures + crashes + drains < MaxFaults

WInit ==
  Init /\ win = Off /\ overlay = {} /\ unproved = {} /\ dropped = FALSE /\ drains = 0

-----------------------------------------------------------------------------
(* Staging.                                                                *)

\* A window starts anywhere: above the peak, below it (backtrack and re-land),
\* or past it (a window drained after a recovery reply timed out); without a
\* peak, at genesis.  near_tip is a flag other tasks set: each of its two reads
\* may find either value.
Begin(b, h) ==
  /\ win.pc = "off" /\ (peak = NoBlock => h = 0)
  /\ h <= Height[b] /\ Cardinality(Window(b, h)) <= MaxWindow
  /\ \E near \in BOOLEAN :
       win' = [Off EXCEPT !.pc = "stage", !.todo = Window(b, h), !.perBlock = near, !.before = onChain]
  /\ UNCHANGED <<vars, overlay, unproved, dropped, drains>>

\* prepare_delta answered AlreadyHave.
StageSkip ==
  LET b == Lowest(win.todo) IN
  /\ win.pc = "stage" /\ win.todo # {}
  /\ AlreadyHave(b)
  /\ win' = [win EXCEPT !.todo = @ \ {b}]
  /\ UNCHANGED <<vars, overlay, unproved, dropped, drains>>

StageAcceptNoOverlay ==
  LET b == Lowest(win.todo)
      entered == [win EXCEPT !.todo = @ \ {b}, !.staged = @ \cup {b}]
  IN
  /\ win.pc = "stage" /\ win.todo # {}
  /\ Accepts(b, pending)
  /\ \/ /\ win.perBlock
        /\ Persist(b)
        /\ win' = entered
     \/ /\ ~win.perBlock
        /\ win' = [entered EXCEPT !.batch = @ \cup {b}, !.dim = IF Warm(b) THEN @ ELSE @ \cup {b}]
        /\ UNCHANGED <<archive, shallow>>
  /\ \E walked \in Walked(b) : cache' = CacheInsert(walked, {b})
  /\ overlay' = overlay \cup {b}
  /\ UNCHANGED <<onChain, peak, coins, pending, reports, job, failures, crashes, unproved, dropped, drains>>

\* The archive rows are committed (near the tip) or join the window's batch,
\* and finish_stage lets the next block see this one.
StageAccept ==
  LET b == Lowest(win.todo)
      entered == [win EXCEPT !.todo = @ \ {b}, !.staged = @ \cup {b}]
  IN
  /\ win.pc = "stage" /\ win.todo # {}
  /\ Accepts(b, pending \cup overlay)
  /\ \/ /\ win.perBlock
        /\ Persist(b)
        /\ win' = entered
     \/ /\ ~win.perBlock
        /\ win' = [entered EXCEPT !.batch = @ \cup {b}, !.dim = IF Warm(b) THEN @ ELSE @ \cup {b}]
        /\ UNCHANGED <<archive, shallow>>
  /\ \E walked \in Walked(b) : cache' = CacheInsert(walked, {b})
  /\ overlay' = overlay \cup {b}
  /\ UNCHANGED <<onChain, peak, coins, pending, reports, job, failures, crashes, unproved, dropped, drains>>

\* A rejection, or a store call that fails, ends the staging; what was staged
\* before still goes on to the drain.
StageReject ==
  LET b == Lowest(win.todo) IN
  /\ win.pc = "stage" /\ win.todo # {}
  /\ ~AlreadyHave(b)
  /\ \/ ~Accepts(b, pending \cup overlay) /\ UNCHANGED <<cache, failures>>
     \/ /\ Accepts(b, pending \cup overlay)
        /\ FaultLeft /\ failures < MaxFailures /\ failures' = failures + 1
        /\ cache' \in Walked(b)
  /\ win' = [win EXCEPT !.todo = {}, !.err = TRUE]
  /\ UNCHANGED <<durable, pending, reports, job, crashes, overlay, unproved, dropped, drains>>

-----------------------------------------------------------------------------
(* The drain, and the confirm of what passed it.                           *)

\* The blocks below the first failing one go on; the rest is given up.
Drain ==
  /\ win.pc = "stage" /\ win.todo = {}
  /\ \E passed \in {win.staged} \cup {{x \in win.staged : Height[x] < Height[y]} : y \in win.staged},
        near \in BOOLEAN :
       /\ passed # win.staged => FaultLeft /\ drains < MaxDrains
       /\ drains' = IF passed = win.staged THEN drains ELSE drains + 1
       /\ unproved' = (unproved \cup (win.staged \ passed)) \ passed
       /\ win' = [win EXCEPT !.pc = "confirm", !.staged = passed, !.perBlock = near,
                             !.err = @ \/ passed # win.staged]
  /\ reports' = <<>>
  /\ UNCHANGED <<durable, cache, pending, job, failures, crashes, overlay, dropped>>

\* With nothing to confirm the carried batch is dropped.
ConfirmNothing ==
  /\ win.pc = "confirm" /\ win.staged = {} /\ win.done = {}
  /\ win' = [win EXCEPT !.pc = "rest", !.batch = {}, !.dim = {}]
  /\ dropped' = (dropped \/ win.batch # {})
  /\ UNCHANGED <<vars, overlay, unproved, drains>>

Extends(b) ==
  peak # NoBlock => Parent[b] = peak /\ Weight[b] > Weight[peak]

\* The staged blocks that follow each other from the peak.
PlainRun ==
  {x \in win.staged :
     LET first == Lowest(win.staged) IN
     Extends(first) /\ \A y \in Path[x] : Height[y] >= Height[first] => y \in win.staged}

\* What one transaction applies: the whole run, near the tip its first block.
Chunk == IF win.perBlock /\ PlainRun # {} THEN {Lowest(PlainRun)} ELSE PlainRun

Highest(S) == CHOOSE x \in S : \A y \in S : Height[y] <= Height[x]

CommitBatch ==
  /\ archive' = archive \cup win.batch
  /\ shallow' = (shallow \ win.batch) \cup win.dim

ConfirmRunTipCoins ==
  LET run == Chunk
      tip == Highest(run)
  IN
  /\ win.pc = "confirm" /\ win.staged # {} /\ run # {}
  /\ CommitBatch
  /\ onChain' = SetPeak(tip) /\ peak' = tip
  /\ coins' = Apply(coins, {tip})
  /\ cache' = CacheInsert(cache, run)
  /\ pending' = pending \ run
  /\ overlay' = overlay \ run
  /\ win' = [win EXCEPT !.staged = @ \ run, !.batch = {}, !.dim = {}, !.done = @ \cup run]
  /\ UNCHANGED <<reports, job, failures, crashes, unproved, dropped, drains>>

\* Archive rows, coins and peak of a run of extensions, in one commit.
ConfirmRun ==
  LET run == Chunk
      tip == Highest(run)
  IN
  /\ win.pc = "confirm" /\ win.staged # {} /\ run # {}
  /\ CommitBatch
  /\ onChain' = SetPeak(tip) /\ peak' = tip
  /\ coins' = Apply(coins, run)
  /\ cache' = CacheInsert(cache, run)
  /\ pending' = pending \ run
  /\ overlay' = overlay \ run
  /\ win' = [win EXCEPT !.staged = @ \ run, !.batch = {}, !.dim = {}, !.done = @ \cup run]
  /\ UNCHANGED <<reports, job, failures, crashes, unproved, dropped, drains>>

\* The run is over: a batch nothing was applied to commits its archive rows,
\* pending is pruned, and what is left takes the sequential path.
ConfirmRest ==
  LET last == IF win.done = {} THEN Lowest(win.staged) ELSE Highest(win.done) IN
  /\ win.pc = "confirm" /\ win.staged \cup win.done # {}
  /\ PlainRun = {}
  /\ CommitBatch
  /\ pending' = Prune(pending, Height[last])
  /\ win' = [win EXCEPT !.pc = "rest", !.batch = {}, !.dim = {}]
  /\ UNCHANGED <<onChain, peak, coins, cache, reports, job, failures, crashes, overlay, unproved, dropped, drains>>

\* A store call of the confirm fails and the window's call returns at once.  Of
\* a catch-up run, the blocks applied before it have left the overlay and
\* `pending`, and their coins are dropped with the batch.
FailConfirm ==
  /\ win.pc \in {"confirm", "rest"} /\ win.staged # {} /\ job = NoBlock
  /\ FaultLeft /\ failures < MaxFailures /\ failures' = failures + 1
  /\ \E k \in {{}} \cup {{x \in win.staged : Height[x] <= Height[y]} : y \in win.staged} :
       LET gone == CASE win.pc = "rest" -> {Lowest(win.staged)}
                     [] win.pc = "confirm" -> IF win.perBlock THEN {} ELSE k \cap Chunk IN
       /\ overlay' = overlay \ gone
       /\ pending' = IF win.pc = "confirm" THEN pending \ gone ELSE pending
  /\ dropped' = (dropped \/ win.batch # {})
  /\ win' = Off
  /\ UNCHANGED <<durable, cache, reports, job, crashes, unproved, drains>>

-----------------------------------------------------------------------------
(* confirm_staged, by the arm of confirm it takes.                         *)

Retired(b) ==
  /\ win.pc = "rest" /\ win.staged # {} /\ job = NoBlock /\ b = Lowest(win.staged)
  /\ overlay' = overlay \ {b}

RestExtend(b) ==
  /\ Retired(b) /\ Extends(b)
  /\ onChain' = SetPeak(b) /\ peak' = b
  /\ coins' = Apply(coins, {b})
  /\ cache' = CacheInsert(cache, {b})
  /\ pending' = Prune(pending \ {b}, Height[b])
  /\ win' = [win EXCEPT !.staged = @ \ {b}, !.done = @ \cup {b}]
  /\ UNCHANGED <<archive, shallow, reports, job, failures, crashes, unproved, dropped, drains>>

RestOrphan(b) ==
  /\ Retired(b)
  /\ peak # NoBlock /\ Weight[b] <= Weight[peak]
  /\ cache' = CacheInsert(cache, {b})
  /\ pending' = Prune(pending \cup {b}, Height[b])
  /\ win' = [win EXCEPT !.staged = @ \ {b}]
  /\ UNCHANGED <<durable, reports, job, failures, crashes, unproved, dropped, drains>>

RestReorg(b) ==
  /\ Retired(b)
  /\ peak # NoBlock /\ Weight[b] > Weight[peak] /\ Parent[b] # peak
  /\ job' = b
  /\ win' = [win EXCEPT !.staged = @ \ {b}]
  /\ UNCHANGED <<durable, cache, pending, reports, failures, crashes, unproved, dropped, drains>>

ReorgDone == FinishReorg /\ UNCHANGED windowVars

\* The reorg fails in the store, or candidate_branch misses a record.
ReorgFails ==
  /\ \/ FaultLeft /\ FailReorg
     \/ /\ job # NoBlock /\ ~(Branch(job) \subseteq archive)
        /\ pending' = pending \cup {job} /\ job' = NoBlock
        /\ UNCHANGED <<durable, cache, reports, failures, crashes>>
  /\ win' = Off
  /\ UNCHANGED <<overlay, unproved, dropped, drains>>

ReportedPlainOnly == win.done

\* expand_confirmed: a plain confirm reports its block, a reorg its branch.
Reported == win.done \cup UNION {reports[k].reapplied : k \in 1 .. Len(reports)}

\* The call returns: the confirmed deltas, or the error it met on the way.
Returning == win.pc = "rest" /\ win.staged = {} /\ job = NoBlock

Returned == IF win.err THEN {} ELSE Reported

Return ==
  /\ Returning
  /\ overlay' = IF win.err THEN {} ELSE overlay
  /\ reports' = <<>>
  /\ win' = Off
  /\ UNCHANGED <<durable, cache, pending, job, failures, crashes, unproved, dropped, drains>>

Restart ==
  /\ FaultLeft /\ Crash
  /\ win' = Off /\ overlay' = {}
  /\ UNCHANGED <<unproved, dropped, drains>>

WNext ==
  \/ \E b \in Blocks : \E h \in 0 .. Height[b] : Begin(b, h)
  \/ StageSkip \/ StageAccept \/ StageReject
  \/ Drain \/ ConfirmNothing \/ ConfirmRun \/ ConfirmRest \/ FailConfirm
  \/ \E b \in Blocks : RestExtend(b) \/ RestOrphan(b) \/ RestReorg(b)
  \/ ReorgDone \/ ReorgFails \/ Return \/ Restart

WSpec == WInit /\ [][WNext]_allVars

-----------------------------------------------------------------------------
\* The call's own state has the types of follow_blocks_reporting_pre's locals,
\* and a window's batch is open only while the call is.
WTypeOK ==
  /\ TypeOK
  /\ win.pc \in {"off", "stage", "confirm", "rest"}
  /\ win.pc = "off" => win = Off
  /\ win.todo \subseteq Blocks /\ win.staged \subseteq Blocks /\ win.dim \subseteq win.batch
  /\ win.batch # {} => win.pc \in {"stage", "confirm"} /\ ~(win.batch \subseteq onChain)
  /\ overlay \subseteq Blocks /\ unproved \subseteq Blocks
  /\ drains \in 0 .. MaxDrains

\* However windows are staged, cut, confirmed by runs or one by one, reorged or
\* ended by a crash, the coin table is the replay of the main chain, and no
\* block of that chain spends what its own branch had spent or never created.
\* Only a carried batch dropped under a walk cache that keeps its records can
\* end this: fork_view then takes the missing parent for a checkpoint anchor,
\* and checks a block against the main chain in place of its branch.
WindowsKeepCoins == ~dropped => CoinsReplayChain /\ ChainSpendsValid

\* Confirming a window by runs, one commit for many blocks or one each, keeps
\* what the single-block path promises: every step of the store is the adoption
\* of one heavier chain with valid spends.
WindowsImplementLedger ==
  [][~dropped => LedgerView!LNext \/ UNCHANGED <<peak, coins>>]_allVars

\* What a window hands to the wallet server and the mempool is every block it
\* put on the main chain, those that a reorg pulled in from earlier windows too,
\* unless the queue of reorg reports filled up on the way.
WindowReportsItsBlocks ==
  Returning /\ ~win.err /\ Len(reports) < ReportCap => onChain \ win.before \subseteq Returned

\* follow_to_reporting "returns the per-block deltas of newly confirmed blocks -
\* the daemon feeds these to the wallet coin-state subscription server and the
\* mempool's new-peak revalidation": no call leaves a confirmed block out.
ConfirmedIsReported == Returning => onChain \ win.before \subseteq Returned

\* confirm_staged confirms a delta "after its window's VDF drain passed".
ConfirmedIsProved == onChain \cap unproved = {}
=============================================================================
