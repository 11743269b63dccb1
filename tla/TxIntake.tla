------------------------------- MODULE TxIntake -------------------------------
(***************************************************************************)
(* The mempool among the tasks that share it (full-node/src/daemon.rs,     *)
(* tx_admission.rs).  Submitters check, validate off the lock, and admit;  *)
(* followers (the block processor and the tip follower) confirm blocks     *)
(* under the chaser lock and report them to the mempool after releasing    *)
(* it, one delta at a time.  The mempool lock is held across the store     *)
(* reads of one call, and the store may move on meanwhile: a call works on *)
(* the chain it read.  Announcements, wallet pushes and metrics are output *)
(* and not part of the state.                                              *)
(***************************************************************************)
EXTENDS Mempool

CONSTANTS
  Followers, Submitters,
  Invalid,           \* bundles that fail their CLVM run or signature
  LossKinds,         \* what can happen to a report: "window", "reorg"
  MaxLosses          \* bound on the reports it happens to

VARIABLES
  last_delta_hash,
  work,              \* follower -> its unreported deltas and where it is with the first
  task,              \* submitter -> the bundle it is validating
  lock,              \* the mempool lock: who holds it, and the tip it has read
  losses             \* reports lost or cut so far

vars == <<tip, pool, last_delta_hash, work, task, lock, losses>>

Free == [by |-> "none", tip |-> Genesis]
Idle == "idle"
NoWork == [at |-> "swap", deltas |-> {}]

\* The followers and the submitters are different tasks.
ASSUME TaskAssumption ==
  /\ Followers \cap Submitters = {} /\ "none" \notin Followers \cup Submitters
  /\ Idle \notin Names

\* What is confirmed is valid: a chain spends coins that it has.
ASSUME ChainAssumption == \A b \in Blocks : RemovedBy(Path[b]) \subseteq AddedBy(Path[b])

Init ==
  /\ tip = Genesis
  /\ pool = EmptyPool
  /\ last_delta_hash = NoBlock
  /\ work = [f \in Followers |-> NoWork]
  /\ task = [s \in Submitters |-> Idle]
  /\ lock = Free
  /\ losses = 0

-----------------------------------------------------------------------------
(* Followers.                                                              *)

\* The deltas of a confirmed block b, one for each new block: the lowest is
\* marked when they replace others.
Report(b) ==
  LET fresh == Path[b] \ Path[tip]
      Lowest(x) == \A y \in fresh : Height[x] <= Height[y]
  IN {[block |-> x, reorg |-> tip \notin Path[b] /\ Lowest(x)] : x \in fresh}

\* What is left of a report: nothing when the window failed after it had
\* confirmed its blocks, the tip alone when the engine dropped a reorg's report.
Cut(b) ==
  {{} : k \in LossKinds \cap {"window"}}
    \cup {{[block |-> b, reorg |-> FALSE]} :
            k \in {x \in LossKinds \cap {"reorg"} : tip \notin Path[b]}}

Confirm(f, b) ==
  /\ work[f] = NoWork
  /\ Weight[b] > Weight[tip]
  /\ \/ work' = [work EXCEPT ![f].deltas = Report(b)] /\ UNCHANGED losses
     \/ /\ losses < MaxLosses /\ losses' = losses + 1
        /\ \E deltas \in Cut(b) : work' = [work EXCEPT ![f].deltas = deltas]
  /\ tip' = b
  /\ UNCHANGED <<pool, last_delta_hash, task, lock>>

\* Deltas are reported in the order of the chain.
Delta(f) ==
  CHOOSE d \in work[f].deltas : \A e \in work[f].deltas : Height[d.block] <= Height[e.block]

\* What is left of f's work once the first delta has been through `at`.
After(f, at) ==
  IF at = "peak" \/ (at = "revalidate" /\ Stamp[Delta(f).block] = 0)
  THEN [at |-> "swap", deltas |-> work[f].deltas \ {Delta(f)}]
  ELSE [work[f] EXCEPT !.at = IF at = "swap" THEN "revalidate" ELSE "peak"]

\* Mutant: only the engine's word counts as a reorg.
ReorgedAsTold(d) == d.reorg

\* A delta that does not chain onto the last one reported is a reorg landing.
Reorged(d) == d.reorg \/ (last_delta_hash # NoBlock /\ last_delta_hash # Parent[d.block])

\* notify_new_peak, up to the first use of the mempool.
Swap(f) ==
  /\ work[f].deltas # {} /\ work[f].at = "swap"
  /\ last_delta_hash' = Delta(f).block
  /\ work' = [work EXCEPT ![f] = IF Reorged(Delta(f)) THEN After(f, "swap")
                                 ELSE After(f, "revalidate")]
  /\ UNCHANGED <<tip, pool, task, lock, losses>>

Revalidate(f) ==
  /\ lock.by = f /\ work[f].at = "revalidate"
  /\ pool' = revalidate_for_reorg(pool, lock.tip)
  /\ work' = [work EXCEPT ![f] = After(f, "revalidate")]
  /\ lock' = Free
  /\ UNCHANGED <<tip, last_delta_hash, task, losses>>

\* new_peak: the sweeps, the retries of one cache and then the other.
NewPeak(f) ==
  /\ lock.by = f /\ work[f].at = "peak" /\ pool.retry = NoRetry
  /\ LET b == Delta(f).block
     IN pool' = new_peak(pool, [height |-> Height[b], time |-> Stamp[b]], Removes[b], lock.tip)
  /\ UNCHANGED <<tip, last_delta_hash, work, task, lock, losses>>

Retry(f, n) ==
  /\ lock.by = f /\ n \in pool.retry.names
  /\ pool' = RetryOne(pool, n, lock.tip)
  /\ UNCHANGED <<tip, last_delta_hash, work, task, lock, losses>>

DrainConflict(f) ==
  /\ lock.by = f /\ pool.retry = [stage |-> "parked", names |-> {}]
  /\ pool' = drain_conflict(pool)
  /\ UNCHANGED <<tip, last_delta_hash, work, task, lock, losses>>

PeakDone(f) ==
  /\ lock.by = f /\ pool.retry = [stage |-> "conflict", names |-> {}]
  /\ pool' = [pool EXCEPT !.retry = NoRetry]
  /\ work' = [work EXCEPT ![f] = After(f, "peak")]
  /\ lock' = Free
  /\ UNCHANGED <<tip, last_delta_hash, task, losses>>

-----------------------------------------------------------------------------
(* Submitters: admit_spend_bundle.                                         *)

\* A resident clears its seen entry and succeeds; a seen name is refused.
Submit(s, n) ==
  /\ task[s] = Idle /\ lock = Free
  /\ IF n \in Residents(pool)
     THEN pool' = remove_seen(pool, {n}) /\ UNCHANGED task
     ELSE /\ n \notin ToSet(pool.seen)
          /\ task' = [task EXCEPT ![s] = n]
          /\ UNCHANGED pool
  /\ UNCHANGED <<tip, last_delta_hash, work, lock, losses>>

\* Validation, off the lock, found the bundle invalid.
Reject(s) ==
  /\ task[s] \in Invalid /\ lock = Free
  /\ pool' = add_seen(pool, task[s])
  /\ task' = [task EXCEPT ![s] = Idle]
  /\ UNCHANGED <<tip, last_delta_hash, work, lock, losses>>

Admit(s) ==
  /\ lock.by = s
  /\ LET n == task[s]
         answer == admit(pool, n, lock.tip)
     IN pool' = IF answer.reply = "Admitted" THEN add_seen(answer.pool, n) ELSE answer.pool
  /\ task' = [task EXCEPT ![s] = Idle]
  /\ lock' = Free
  /\ UNCHANGED <<tip, last_delta_hash, work, losses>>

\* Taking the mempool lock and reading the store.
Acquire(a) ==
  /\ lock = Free
  /\ \/ a \in Followers /\ work[a].at \in {"revalidate", "peak"}
     \/ a \in Submitters /\ task[a] \in Names \ Invalid
  /\ lock' = [by |-> a, tip |-> tip]
  /\ UNCHANGED <<tip, pool, last_delta_hash, work, task, losses>>

Next ==
  \/ \E f \in Followers, b \in Blocks : Confirm(f, b)
  \/ \E f \in Followers : Swap(f) \/ Revalidate(f) \/ NewPeak(f) \/ DrainConflict(f) \/ PeakDone(f)
  \/ \E f \in Followers, n \in Names : Retry(f, n)
  \/ \E s \in Submitters, n \in Names : Submit(s, n)
  \/ \E s \in Submitters : Reject(s) \/ Admit(s)
  \/ \E a \in Followers \cup Submitters : Acquire(a)

Spec == Init /\ [][Next]_vars

-----------------------------------------------------------------------------
\* The pool's fields, the tasks and the lock keep their types.
TypeOK ==
  /\ tip \in Blocks /\ last_delta_hash \in Blocks \cup {NoBlock}
  /\ \A i \in pool.items : /\ i.name \in Names
                                  /\ DOMAIN i.lineage \subseteq Bundle[i.name].ff
  /\ pool.index \subseteq Coins \X Names
  /\ DOMAIN pool.pending \subseteq Names
  /\ ToSet(pool.conflict) \subseteq Names /\ ToSet(pool.seen) \subseteq Names
  /\ \A f \in Followers : work[f].at \in {"swap", "revalidate", "peak"}
  /\ task \in [Submitters -> Names \cup {Idle}]
  /\ lock.by \in Followers \cup Submitters \cup {"none"} /\ lock.tip \in Blocks
  /\ losses \in 0 .. MaxLosses

\* Whatever mix of admissions, replacements, evictions, expiries, rebases and
\* reorgs the pool went through, the conflict index lists exactly the coins its
\* residents spend (a singleton under its latest version), the running totals
\* are those of the residents and within the ceiling, and the two caches are
\* within their bounds with an exact cost.
PoolAccounts ==
  /\ pool.index = UNION {index_keys(i) : i \in pool.items}
  /\ pool.cost = CostOf(Residents(pool)) /\ pool.cost <= MaxTotalCost
  /\ pool.fee = FeeOf(Residents(pool))
  /\ Cardinality(Residents(pool)) = Cardinality(pool.items)
  /\ pool.conflictCost = CostOf(ToSet(pool.conflict)) /\ pool.conflictCost <= MaxBlockCost
  /\ Cardinality(DOMAIN pool.pending) <= PendingCap

\* Two residents never spend the same coin, unless one of them fast-forwards
\* it or both spend it alike and it is merged: a block assembled from the pool
\* holds no double spend of a named coin.  (A reorg that gives a singleton back
\* the version a resident was moved on from lets a plain spend of it in beside
\* that resident: the index lists it under the later version only.)
NoRivals ==
  \A i, j \in pool.items : \A c \in Bundle[i.name].spends \cap Bundle[j.name].spends :
      \/ i.name = j.name
      \/ c \in DOMAIN i.lineage \cup DOMAIN j.lineage
      \/ /\ c \in Bundle[i.name].dedup \cap Bundle[j.name].dedup
         /\ Bundle[i.name].solution[c] = Bundle[j.name].solution[c]

\* Every follower has reported what it confirmed, ending with the tip.
InStep == lock = Free /\ (\A f \in Followers : work[f] = NoWork) /\ last_delta_hash = tip

\* Once the tip has been reported, no resident spends a coin that the chain
\* has spent or no longer has, and every fast-forward spend is on its
\* singleton's current version; although reports of other followers came late
\* or out of order, some were lost, blocks were rolled back, and bundles were
\* admitted between a block's commit and its report.  (The fast-forward spend
\* of a coin that the bundle itself creates is left out: revalidate_for_reorg
\* passes over it when a rollback takes the coin off the chain, and it stays on
\* the version it had.)
ResidentsSpendable ==
  InStep => \A i \in pool.items : \A c \in Bundle[i.name].spends :
    IF c \in DOMAIN i.lineage
    THEN c \in Bundle[i.name].creates \/ i.lineage[c] = get_unspent_lineage_info(Puzzle[c], tip)
    ELSE IF OnChain(c, tip) THEN ~SpentOn(c, tip) ELSE c \in Bundle[i.name].creates

\* The transaction block at or below b.
TxPeak(b) ==
  LET tx == CHOOSE x \in Path[b] : Stamp[x] # 0 /\ \A y \in Path[b] : Stamp[y] # 0 => Height[y] <= Height[x]
  IN [height |-> Height[tx], time |-> Stamp[tx]]

\* Under the mempool's peak, also between a block's commit and its report, a
\* resident admitted on this chain under no higher peak meets its locks on
\* coins the chain had: what would expire was swept with the peak, and what was
\* parked entered no earlier than its height.  (A resident that a reorg carried
\* over to another branch is not checked again.  Nor is a seconds lock met under
\* a peak that was rolled back for one with an earlier timestamp, nor a lock on
\* a coin of the bundle itself, which was resolved against the peak of the day.)
LocksHold ==
  \A i \in pool.items :
    i.on \in Path[tip] /\ i.height_added <= pool.peak.height =>
      \A l \in ToSet(Bundle[i.name].locks) :
        (l.coin = Absolute \/ OnChain(l.coin, i.on)) /\ l.kind # "seconds"
          => ~Fails(l, tip, pool.peak)

\* A parked bundle waits for a height above the mempool's peak: the peak that
\* reaches it retries it, and a bundle parked against an older record never
\* stays behind.
NoOverdueParked ==
  \A n \in DOMAIN pool.pending :
    \/ pool.pending[n] > pool.peak.height
    \/ pool.retry.stage = "parked" /\ n \in pool.retry.names

\* When every follower has reported all it confirmed, the mempool's peak is the
\* most recent transaction block (daemon.rs, notify_new_peak).
PeakIsLatest ==
  (lock = Free /\ (\A f \in Followers : work[f] = NoWork) /\ last_delta_hash # NoBlock)
    => pool.peak = TxPeak(tip)
=============================================================================
