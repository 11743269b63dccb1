---------------------------- MODULE BlockAssembly ----------------------------
(***************************************************************************)
(* What a farmed block takes from the pool (mempool.rs,                    *)
(* create_block_generator and process_item_spends): the residents by       *)
(* priority, each with its fast-forward spends moved on to the version     *)
(* that the block has reached and its identical spends merged, until the   *)
(* budget, the skips or the clock are used up.  The pool is filled by      *)
(* admissions and new peaks in step with the chain; how these race is      *)
(* TxIntake's matter.  The mempool lock is held for the whole selection.   *)
(*                                                                         *)
(* A coin that a block spends is a version <<c, k>>: the k-th successor of *)
(* c that the block itself creates.  The compressed size of a generator is *)
(* the network's choice: it can only make room.                            *)
(***************************************************************************)
EXTENDS Mempool

CONSTANTS
  SpendCost,           \* what a merged spend saves
  MaxSpends, MaxSkipped, PriorityThreshold, MinCost,
  MaxCoinAmount

ASSUME AssemblyAssumption ==
  /\ SpendCost \in Nat /\ MaxSkipped \in Nat /\ PriorityThreshold \in 1 .. MaxSkipped - 1
  /\ MaxSpends \in Nat \ {0} /\ MinCost \in Nat \ {0} /\ MaxCoinAmount \in Nat

VARIABLES
  phase,               \* "open", "select", or what the selection returned
  job                  \* the selection: the locals of create_block_generator

assemblyVars == <<tip, pool, phase, job>>

Resident(n) == CHOOSE i \in pool.items : i.name = n
Selecting == phase = "select"

\* items_by_fee: the next item is the first one left in the order of priority.
Considered == CHOOSE n \in job.todo : UpTo(pool, ByVirtualCost, job.todo, n) = {n}

\* f, and g where f has no value.
Over(f, g) == [x \in DOMAIN f \cup DOMAIN g |-> IF x \in DOMAIN f THEN f[x] ELSE g[x]]

NewJob(names) ==
  [todo |-> names,
   cost |-> 0, fee |-> 0,
   spends |-> <<>>,                \* <<coin version, solution>>, in block order
   uses |-> [n \in {} |-> {}],     \* included item -> the versions it spends, and how
   dedup |-> [v \in {} |-> ""],    \* version -> the solution the block merges on
   ff |-> [p \in {} |-> <<>>],     \* singleton -> its version after the block so far
   skipped |-> 0,
   lost |-> FALSE]                 \* history: an item was left out for lack of room

AssemblyInit == tip = Genesis /\ pool = EmptyPool /\ phase = "open" /\ job = NewJob({})

-----------------------------------------------------------------------------
(* The pool, between selections.                                           *)

Open == phase = "open" /\ pool.retry = NoRetry

Offer(n) ==
  /\ Open
  /\ pool' = admit(pool, n, tip).pool
  /\ UNCHANGED <<tip, phase, job>>

Advance(b) ==
  /\ Open
  /\ (pool.peak = NoPeak /\ b = tip) \/ (b # Genesis /\ Parent[b] = tip)
  /\ tip' = b
  /\ pool' = new_peak(pool, [height |-> Height[b], time |-> Stamp[b]], Removes[b], b)
  /\ UNCHANGED <<phase, job>>

RetryNext ==
  /\ pool.retry # NoRetry
  /\ IF pool.retry.names # {} THEN \E n \in pool.retry.names : pool' = RetryOne(pool, n, tip)
     ELSE pool' = IF pool.retry.stage = "parked" THEN drain_conflict(pool)
                  ELSE [pool EXCEPT !.retry = NoRetry]
  /\ UNCHANGED <<tip, phase, job>>

Start ==
  /\ Open /\ pool.peak # NoPeak /\ pool.items # {}
  /\ phase' = "select" /\ job' = NewJob(Residents(pool))
  /\ UNCHANGED <<tip, pool>>

-----------------------------------------------------------------------------
(* process_item_spends.                                                    *)

FastForwards(n) == DOMAIN Resident(n).lineage
Special(n) == Bundle[n].dedup # {} \/ FastForwards(n) # {}

\* Where a spend ends up: the block's version of its singleton first, else the
\* version the item knows.
Version(n, c) ==
  IF c \notin FastForwards(n) THEN <<c, 0>>
  ELSE IF Puzzle[c] \in DOMAIN job.ff THEN job.ff[Puzzle[c]]
  ELSE <<Resident(n).lineage[c], 0>>

\* The bundle, moved on, is run again: it may not spend one coin twice.
Runs(n) == \A c, d \in Bundle[n].spends : Version(n, c) = Version(n, d) => c = d

Rebased(n) == {c \in FastForwards(n) : Version(n, c) # <<c, 0>> \/ Puzzle[c] \in DOMAIN job.ff}

ff_update(n) ==
  [p \in {Puzzle[c] : c \in FastForwards(n)} |->
     LET v == Version(n, CHOOSE c \in FastForwards(n) : Puzzle[c] = p) IN <<v[1], v[2] + 1>>]

Solution(n, c) == Bundle[n].solution[c]
Merged(n) == {c \in Bundle[n].dedup : Version(n, c) \in DOMAIN job.dedup}
\* Mutant: the same coin is enough to merge two spends.
DiffersNever(n) == FALSE

Differs(n) == \E c \in Merged(n) : job.dedup[Version(n, c)] # Solution(n, c)

new_dedup(n) ==
  LET Own(v) == CHOOSE c \in Bundle[n].dedup \ Merged(n) : Version(n, c) = v
  IN [v \in {Version(n, c) : c \in Bundle[n].dedup \ Merged(n)} |-> Solution(n, Own(v))]

unique_spends(n) ==
  LET coins == SetToSeq(Bundle[n].spends \ Merged(n))
  IN [k \in DOMAIN coins |-> <<Version(n, coins[k]), Solution(n, coins[k])>>]

\* All it spends, merged or not.
Uses(n) == {<<Version(n, c), Solution(n, c)>> : c \in Bundle[n].spends}

ItemCost(n) == Bundle[n].cost - SpendCost * Cardinality(Merged(n))

-----------------------------------------------------------------------------
(* create_block_generator: one item per step.                              *)

max_cost == MaxBlockCost - Overhead

Next1 == [job EXCEPT !.todo = @ \ {Considered}]
Stop(j) == [j EXCEPT !.todo = {}]
Frame == UNCHANGED <<tip, pool, phase>>

Pending == Selecting /\ job.todo # {}
FeeFits(n) == job.fee + Bundle[n].fee <= MaxCoinAmount
TriesSpecial(n) == job.skipped < PriorityThreshold \/ ~Special(n)

\* Out of time, or the fees no longer make a coin.
Break ==
  /\ Pending
  /\ job' = Stop(job) /\ Frame

\* Past the threshold an item with merged or moved spends is passed over.
PassOver ==
  /\ Pending /\ FeeFits(Considered) /\ ~TriesSpecial(Considered)
  /\ job' = Next1 /\ Frame

\* The block merges this coin on another solution: skipped without a charge.
SkipDedup ==
  /\ Pending /\ FeeFits(Considered) /\ TriesSpecial(Considered)
  /\ Runs(Considered) /\ Differs(Considered)
  /\ job' = Next1 /\ Frame

\* Moved on to the new version, the bundle does not run any more.
Fail ==
  /\ Pending /\ FeeFits(Considered) /\ TriesSpecial(Considered) /\ Rebased(Considered) # {}
  /\ job' = [Next1 EXCEPT !.skipped = @ + 1] /\ Frame

\* What the block merges on is noted before it is known whether the item fits.
Noted == [Next1 EXCEPT !.dedup = Over(new_dedup(Considered), @)]

Ready(n) == Pending /\ FeeFits(n) /\ TriesSpecial(n) /\ Runs(n) /\ ~Differs(n)

Slots(n) == Len(job.spends) + Len(unique_spends(n)) <= MaxSpends

PlainFits(n) == job.cost + ItemCost(n) <= max_cost

\* Mutant: the moved singleton is noted with the rest.
SkipCommitsForward ==
  /\ Pending /\ Ready(Considered) /\ ~(Slots(Considered) /\ PlainFits(Considered))
  /\ LET j == [Noted EXCEPT !.skipped = @ + 1, !.lost = TRUE, !.ff = Over(ff_update(Considered), @)]
     IN job' = IF j.skipped < MaxSkipped THEN j ELSE Stop(j)
  /\ Frame

\* No room: look for a smaller item, up to the last skip.
Skip ==
  /\ Pending /\ Ready(Considered) /\ ~(Slots(Considered) /\ PlainFits(Considered))
  /\ LET j == [Noted EXCEPT !.skipped = @ + 1, !.lost = TRUE]
     IN job' = IF j.skipped < MaxSkipped THEN j ELSE Stop(j)
  /\ Frame

\* Mutant: the next spend of the singleton does not learn of this one.
IncludeUnchained ==
  LET n == Considered
      j == [Noted EXCEPT !.spends = @ \o unique_spends(n),
                         !.uses = Over([k \in {n} |-> Uses(n)], @),
                         !.cost = @ + ItemCost(n),
                         !.fee = @ + Bundle[n].fee]
  IN /\ Pending /\ Ready(n) /\ Slots(n)
     /\ job' = IF max_cost - j.cost < MinCost \/ Len(j.spends) >= MaxSpends THEN Stop(j) ELSE j
     /\ Frame

\* Mutant: a block that is full does not end the selection.
IncludeOn ==
  LET n == Considered
      j == [Noted EXCEPT !.ff = Over(ff_update(n), @),
                         !.spends = @ \o unique_spends(n),
                         !.cost = @ + ItemCost(n),
                         !.fee = @ + Bundle[n].fee]
  IN Pending /\ Ready(n) /\ Slots(n) /\ job' = j /\ Frame

\* It fits, plainly or once compressed.
Include ==
  LET n == Considered
      j == [Noted EXCEPT !.ff = Over(ff_update(n), @),
                         !.spends = @ \o unique_spends(n),
                         !.uses = Over([k \in {n} |-> Uses(n)], @),
                         !.cost = @ + ItemCost(n),
                         !.fee = @ + Bundle[n].fee]
  IN /\ Pending /\ Ready(n) /\ Slots(n)
     /\ job' = IF max_cost - j.cost < MinCost \/ Len(j.spends) >= MaxSpends THEN Stop(j) ELSE j
     /\ Frame

\* The re-run of the generator refuses a coin that is spent twice.
Reruns(spends) == \A k, l \in DOMAIN spends : spends[k][1] = spends[l][1] => k = l

Finish ==
  /\ Selecting /\ job.todo = {}
  /\ phase' = IF job.spends = <<>> THEN "empty"
              ELSE IF Reruns(job.spends) THEN "block" ELSE "refused"
  /\ UNCHANGED <<tip, pool, job>>

Farmed ==
  /\ phase \in {"empty", "block", "refused"}
  /\ phase' = "open" /\ job' = NewJob({})
  /\ UNCHANGED <<tip, pool>>

AssemblyNext ==
  \/ \E n \in Names : Offer(n)
  \/ \E b \in Blocks : Advance(b)
  \/ RetryNext
  \/ Start \/ Break \/ PassOver \/ SkipDedup \/ Fail \/ Skip \/ Include \/ Finish \/ Farmed

AssemblySpec == AssemblyInit /\ [][AssemblyNext]_assemblyVars
-----------------------------------------------------------------------------
Returned == phase = "block"

\* A selection is over residents, and keeps the hard limit on spends.
AssemblyTypeOK ==
  /\ tip \in Blocks /\ phase \in {"open", "select", "empty", "block", "refused"}
  /\ Selecting => /\ job.todo \subseteq Residents(pool)
                  /\ DOMAIN job.uses \subseteq Residents(pool)
                  /\ job.skipped \in 0 .. MaxSkipped

\* Every spend of an included bundle is in the block, as it is or merged.
Whole == \A n \in DOMAIN job.uses : job.uses[n] \subseteq ToSet(job.spends)

\* Whatever was skipped or failed on the way, a block that is returned with its
\* bundles whole spends coins that its chain holds unspent, or that the block
\* itself creates: the versions of a singleton form an unbroken run from the
\* current one.
BlockSpendable ==
  Returned /\ Whole => \A k \in DOMAIN job.spends :
    LET v == job.spends[k][1] IN
    IF v[2] = 0
    THEN \/ OnChain(v[1], tip) /\ ~SpentOn(v[1], tip)
         \/ \E n \in DOMAIN job.uses : v[1] \in Bundle[n].creates
    ELSE \E l \in DOMAIN job.spends : job.spends[l][1] = <<v[1], v[2] - 1>>

\* Bundles are atomic: unless an item was left out for lack of room, every
\* spend of an included bundle is in the block, merged only with one alike.
BundlesWhole == Returned /\ ~job.lost => Whole

\* The re-run refuses the selection, and the farmer gets an empty block, only
\* if a resident plainly spends the version that another one fast-forwards to:
\* two fast-forward spends of one singleton always chain.
RefusedOnlyByRivals ==
  phase = "refused" =>
    \E i, j \in pool.items : \E c \in DOMAIN i.lineage :
      i.lineage[c] \in Bundle[j.name].spends \ DOMAIN j.lineage

\* Only the last item may go over the plain budget, by what compression saves,
\* the spends stay within their number and the fees always make a coin.
BudgetKept ==
  Selecting => /\ job.cost > max_cost => job.todo = {}
               /\ Len(job.spends) <= MaxSpends
               /\ job.fee <= MaxCoinAmount

\* A spend is merged only with one that is in the block (mempool.rs,
\* ProcessedItem: "not repeating already-included identical spends").
MergedIsIncluded == Returned => Whole
=============================================================================
