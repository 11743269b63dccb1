------------------------------- MODULE Mempool -------------------------------
(***************************************************************************)
(* The transaction pool of node/src/mempool.rs as operators on one record: *)
(* admission with replace-by-fee, the caches of parked and of conflicting  *)
(* bundles, eviction, and what a new peak and a reorg do to the residents. *)
(* Every operator that reads the coin store takes the tip t whose chain    *)
(* the store holds at that moment.  The fee estimator is fed, never read,  *)
(* by these operations and is left out; a fee rate is compared exactly     *)
(* where the code divides floats.                                          *)
(***************************************************************************)
EXTENDS BlockTree, Sequences, SequencesExt, FiniteSetsExt

CONSTANTS
  Bundle,              \* name -> [spends, creates, cost, fee, locks, ff, dedup, solution]
  Puzzle, ParentCoin,  \* of each coin
  Stamp,               \* a block's timestamp; 0: not a transaction block
  MaxBlockCost, Overhead, Buffer,
  FeeLimit, FeeSumLimit, MinFeeIncrease, MinFpc, SpendPenalty,
  ExpiringBlocks, ExpiringTime,
  PendingCap, ConflictCap, SeenCap

VARIABLES
  tip,                 \* the peak of the store
  pool                 \* the Mempool

Names == DOMAIN Bundle
NoCoin == "no coin"
Absolute == "absolute"
Never == 1000                        \* an ASSERT_BEFORE bound that is not there
NoPeak == [height |-> -1, time |-> 0]

HeightKinds == {"height", "before_height", "birth_height"}
LockKinds == HeightKinds \cup {"seconds", "before_seconds", "birth_seconds"}

ASSUME PoolAssumption ==
  /\ \A n \in Names :
       /\ Bundle[n].spends \subseteq Coins /\ Bundle[n].creates \subseteq Coins
       /\ IsFiniteSet(Bundle[n].spends)
       /\ Bundle[n].cost \in Nat /\ Bundle[n].fee \in Nat
       /\ Bundle[n].locks \in Seq([kind : LockKinds, coin : Coins \cup {Absolute}, at : Nat])
       /\ Bundle[n].ff \subseteq Bundle[n].spends
       /\ Bundle[n].dedup \subseteq Bundle[n].spends
  /\ Puzzle \in [Coins -> STRING] /\ DOMAIN ParentCoin = Coins
  /\ Stamp \in [Blocks -> Nat]
  /\ \A b \in Blocks : Stamp[b] = 0 => Adds[b] = {} /\ Removes[b] = {}
  /\ MaxBlockCost \in Nat /\ Overhead \in 0 .. MaxBlockCost /\ Buffer \in Nat \ {0} /\ SpendPenalty \in Nat
  /\ PendingCap \in Nat \ {0} /\ ConflictCap \in Nat

MaxTotalCost == MaxBlockCost * Buffer
MaxTxCost == MaxBlockCost \div 2
ExpiringBudget == MaxBlockCost - Overhead

-----------------------------------------------------------------------------
(* What the store answers while it holds the chain that ends in t.         *)

OnChain(c, t) == c \in AddedBy(Path[t])
SpentOn(c, t) == c \in RemovedBy(Path[t])
Born(c, t) == CHOOSE x \in Path[t] : c \in Adds[x]

\* The unspent coins of the puzzle whose parent is spent and of the same puzzle.
Versions(p, t) ==
  {c \in Coins : /\ Puzzle[c] = p /\ OnChain(c, t) /\ ~SpentOn(c, t)
                 /\ ParentCoin[c] \in Coins /\ Puzzle[ParentCoin[c]] = p
                 /\ SpentOn(ParentCoin[c], t)}

\* The only one, if there is one.
get_unspent_lineage_info(p, t) ==
  IF \E c \in Coins : Versions(p, t) = {c} THEN CHOOSE c \in Versions(p, t) : TRUE ELSE NoCoin

\* What is spent by fast-forward is a singleton: its puzzle names its launcher,
\* and no chain has two unspent versions of it.
ASSUME SingletonAssumption ==
  \A n \in Names : \A x \in Bundle[n].ff : \A b \in Blocks :
    \A v, w \in Versions(Puzzle[x], b) : v = w

\* build_bundle_coin_spends: the latest version of each fast-forward spend; a
\* singleton without one degrades to a plain spend.
Lineage(n, t) ==
  [c \in {x \in Bundle[n].ff : get_unspent_lineage_info(Puzzle[x], t) # NoCoin} |->
     get_unspent_lineage_info(Puzzle[c], t)]

-----------------------------------------------------------------------------
(* Time locks, each [kind, coin, at], in the order check_time_locks takes. *)

\* The record a relative or birth lock is resolved against; a coin created in
\* the bundle itself counts as confirmed on top of the peak.
RecordHeight(c, t, peak) == IF OnChain(c, t) THEN Height[Born(c, t)] ELSE peak.height + 1
RecordTime(c, t, peak) == IF OnChain(c, t) THEN Stamp[Born(c, t)] ELSE peak.time

Base(l, t, peak) ==
  IF l.coin = Absolute THEN 0
  ELSE IF l.kind \in HeightKinds THEN RecordHeight(l.coin, t, peak) ELSE RecordTime(l.coin, t, peak)

Fails(l, t, peak) ==
  LET bound == Base(l, t, peak) + l.at IN
  CASE l.kind = "height" -> peak.height < bound
    [] l.kind = "seconds" -> peak.time < bound
    [] l.kind = "before_height" -> peak.height >= bound
    [] l.kind = "before_seconds" -> peak.time >= bound
    [] l.kind \in {"birth_height", "birth_seconds"} -> Base(l, t, peak) # l.at

\* The first lock that fails decides: only a height lock parks the bundle.
check_time_locks(n, t, peak) ==
  LET i == SelectInSeq(Bundle[n].locks, LAMBDA l : Fails(l, t, peak)) IN
  IF i = 0 THEN "Met"
  ELSE CASE Bundle[n].locks[i].kind = "height" -> "Pending"
         [] Bundle[n].locks[i].kind \in {"before_height", "before_seconds"} -> "Expired"
         [] OTHER -> "TimelockNotMet"

effective_timelocks(n, t, peak) ==
  LET Bounds(kind) == {Base(l, t, peak) + l.at : l \in {x \in ToSet(Bundle[n].locks) : x.kind = kind}}
  IN [height |-> Max({0} \cup Bounds("height")),
      seconds |-> Max({0} \cup Bounds("seconds")),
      beforeHeight |-> Min({Never} \cup Bounds("before_height")),
      beforeSeconds |-> Min({Never} \cup Bounds("before_seconds"))]

-----------------------------------------------------------------------------
(* The pool.                                                               *)

NoRetry == [stage |-> "none", names |-> {}]

EmptyPool ==
  [items |-> {},               \* residents
   older |-> {},               \* pairs of residents <<n, k>>: the seq of n is lower
   index |-> {},               \* by_coin, as pairs <<coin, name>>
   cost |-> 0, fee |-> 0,
   peak |-> NoPeak,
   pending |-> [n \in {} |-> 0],  \* parked name -> effective assert height
   conflict |-> <<>>, conflictCost |-> 0,
   seen |-> <<>>,
   retry |-> NoRetry]          \* which cache a new_peak call retries, and what of it is left

Residents(m) == {i.name : i \in m.items}

\* A fast-forward spend is indexed under the latest version of its singleton.
Key(item, c) == IF c \in DOMAIN item.lineage THEN item.lineage[c] ELSE c
index_keys(item) == {<<Key(item, c), item.name>> : c \in Bundle[item.name].spends}

ByCost == [n \in Names |-> Bundle[n].cost]
ByFee == [n \in Names |-> Bundle[n].fee]
CostOf(names) == MapThenSumSet(LAMBDA n : ByCost[n], names)
FeeOf(names) == MapThenSumSet(LAMBDA n : ByFee[n], names)

remove(m, names) ==
  LET gone == {i \in m.items : i.name \in names}
      left == {i.name : i \in gone}
  IN [m EXCEPT !.items = @ \ gone,
               !.older = {p \in @ : p[1] \notin names /\ p[2] \notin names},
               !.index = @ \ UNION {index_keys(i) : i \in gone},
               !.cost = @ - CostOf(left),
               !.fee = @ - FeeOf(left)]

VirtualCost(n) == Bundle[n].cost + SpendPenalty * Cardinality(Bundle[n].spends)
HigherPriority(n, k) == Bundle[n].fee * VirtualCost(k) > Bundle[k].fee * VirtualCost(n)
HigherRate(n, k) == Bundle[n].fee * Bundle[k].cost > Bundle[k].fee * Bundle[n].cost

\* n goes before k: more fee for the given cost, first come first on a tie.
Before(m, cost, n, k) ==
  LET mine == Bundle[n].fee * cost[k]
      theirs == Bundle[k].fee * cost[n]
  IN mine > theirs \/ (mine = theirs /\ <<n, k>> \in m.older)

UpTo(m, cost, S, n) == {k \in S : k = n \/ Before(m, cost, k, n)}

\* items_by_fee sorts by this cost, items_by_feerate by ByCost.
ByVirtualCost == [n \in Names |-> VirtualCost(n)]

\* The names of S whose running total, in the order of priority, exceeds room.
Overflow(m, S, room) == {n \in S : CostOf(UpTo(m, ByVirtualCost, S, n)) > room}

at_full_capacity(m, n) == m.cost + Bundle[n].cost > MaxTotalCost

\* At capacity the fee rate clears the floor and beats the last item, from the
\* cheapest up, that would have to go (get_min_fee_rate).
is_fee_enough(m, n) ==
  LET From(k) == {x \in Residents(m) : k \in UpTo(m, ByCost, Residents(m), x)}
      enough == {k \in Residents(m) : m.cost - CostOf(From(k)) + Bundle[n].cost <= MaxTotalCost}
  IN at_full_capacity(m, n) =>
       /\ Bundle[n].fee >= MinFpc * Bundle[n].cost
       /\ \E k \in enough : enough = UpTo(m, ByCost, enough, k) /\ HigherRate(n, k)

ExpiresSoon(locks, peak) ==
  \/ locks.beforeHeight < peak.height + ExpiringBlocks
  \/ locks.beforeSeconds < peak.time + ExpiringTime

Reply(m, r) == [pool |-> m, reply |-> r]

\* The budget of what expires soon, then the ceiling of the pool, then the item.
add_to_pool(m, item) ==
  LET n == item.name
      soon == {i.name : i \in {x \in m.items : ExpiresSoon(x.locks, m.peak)}}
      late == IF ExpiresSoon(item.locks, m.peak)
              THEN Overflow(m, soon, ExpiringBudget - Bundle[n].cost) ELSE {}
      swept == remove(m, late)
      room == IF at_full_capacity(swept, n)
              THEN remove(swept, Overflow(swept, Residents(swept), MaxTotalCost - Bundle[n].cost))
              ELSE swept
  IN IF \E k \in late : HigherPriority(k, n) THEN Reply(m, "FeeTooLow")
     ELSE Reply([room EXCEPT !.items = @ \cup {item},
                             !.older = @ \cup (Residents(room) \X {n}),
                             !.index = @ \cup index_keys(item),
                             !.cost = @ + Bundle[n].cost,
                             !.fee = @ + Bundle[n].fee], "Admitted")

-----------------------------------------------------------------------------
(* Conflicts.                                                              *)

\* The residents whose spend of one of n's coins can neither chain (two
\* fast-forward spends) nor merge (identical dedup spends) with n's.
Conflicts(m, n, lineage) ==
  LET Theirs(item, c) == IF c \in Bundle[item.name].spends THEN c
                         ELSE CHOOSE e \in DOMAIN item.lineage : item.lineage[e] = c
      Clash(item, c) ==
        LET e == Theirs(item, c)
            ff == c \in DOMAIN lineage
            dedup == c \in Bundle[n].dedup
        IN \/ ~ff /\ ~dedup
           \/ ff /\ e \notin DOMAIN item.lineage
           \/ dedup /\ e \notin Bundle[item.name].dedup
           \/ dedup /\ Bundle[n].solution[c] # Bundle[item.name].solution[e]
  IN {i.name : i \in {x \in m.items :
        \E c \in Bundle[n].spends : <<c, x.name>> \in m.index /\ Clash(x, c)}}

\* Replace-by-fee: spend all they spend, at a higher rate and fee, under the
\* same locks, and keep their spends fast-forward and dedup.
can_replace(m, n, rivals, item) ==
  LET theirs == {i \in m.items : i.name \in rivals} IN
  /\ \A i \in theirs : /\ Bundle[i.name].spends \subseteq Bundle[n].spends
                       /\ DOMAIN i.lineage \subseteq DOMAIN item.lineage
                       /\ Bundle[i.name].dedup \subseteq Bundle[n].dedup
  /\ Bundle[n].fee * CostOf(rivals) > FeeOf(rivals) * Bundle[n].cost
  /\ Bundle[n].fee - FeeOf(rivals) >= MinFeeIncrease
  /\ item.locks.height = Max({i.locks.height : i \in theirs})
  /\ item.locks.beforeHeight = Min({i.locks.beforeHeight : i \in theirs})
  /\ item.locks.beforeSeconds = Min({i.locks.beforeSeconds : i \in theirs})

\* At the cap the entry that is furthest from admissible makes room.
park_pending(m, n, height) ==
  LET worst == CHOOSE k \in DOMAIN m.pending : \A x \in DOMAIN m.pending : m.pending[x] <= m.pending[k]
      left == IF Cardinality(DOMAIN m.pending) >= PendingCap
              THEN DOMAIN m.pending \ {worst} ELSE DOMAIN m.pending
  IN [m EXCEPT !.pending = [x \in left \cup {n} |-> IF x = n THEN height ELSE @[x]]]

\* First in, first out beyond one block's cost or the cap.
cache_conflict(m, n) ==
  LET all == Append(m.conflict, n)
      Kept(k) == SubSeq(all, k, Len(all))
      k == Min({x \in 1 .. Len(all) + 1 : /\ CostOf(ToSet(Kept(x))) <= MaxBlockCost
                                          /\ Len(Kept(x)) <= ConflictCap})
  IN IF n \in ToSet(m.conflict) THEN m
     ELSE [m EXCEPT !.conflict = Kept(k),
                    !.conflictCost = @ + Bundle[n].cost - CostOf(ToSet(SubSeq(all, 1, k - 1)))]

-----------------------------------------------------------------------------
(* Admission.                                                              *)

\* The early returns of admit up to the time locks, in its order.
Refusals(m, n, t) ==
  LET b == Bundle[n]
      lineage == Lineage(n, t)
      locks == effective_timelocks(n, t, m.peak)
  IN << [when |-> m.peak = NoPeak, reply |-> "NoPeak"],
        [when |-> b.cost = 0 \/ b.cost > MaxTxCost, reply |-> "Cost"],
        [when |-> DOMAIN lineage = b.spends, reply |-> "AllFastForward"],
        [when |-> \E c \in b.spends \ b.creates : ~OnChain(c, t), reply |-> "UnknownUnspent"],
        [when |-> b.fee > FeeLimit \/ FeeSumLimit - m.fee <= b.fee, reply |-> "FeeLimitExceeded"],
        [when |-> ~is_fee_enough(m, n), reply |-> "FeeTooLow"],
        [when |-> \E c \in b.spends \ DOMAIN lineage : SpentOn(c, t), reply |-> "DoubleSpend"],
        [when |-> locks.beforeHeight <= locks.height \/ locks.beforeSeconds <= locks.seconds,
         reply |-> "ImpossibleTimelock"] >>

\* Mutant: the bundles that the newcomer replaces stay.
AdmitBeside(m, n, t) ==
  LET refusals == Refusals(m, n, t)
      first == SelectInSeq(refusals, LAMBDA r : r.when)
      item == [name |-> n, lineage |-> Lineage(n, t),
               locks |-> effective_timelocks(n, t, m.peak),
               height_added |-> m.peak.height, on |-> t]
  IN IF n \in Residents(m) \/ first # 0 \/ check_time_locks(n, t, m.peak) # "Met" THEN Reply(m, "Refused")
     ELSE add_to_pool(m, item)

admit(m, n, t) ==
  LET refusals == Refusals(m, n, t)
      first == SelectInSeq(refusals, LAMBDA r : r.when)
      verdict == check_time_locks(n, t, m.peak)
      item == [name |-> n, lineage |-> Lineage(n, t),
               locks |-> effective_timelocks(n, t, m.peak),
               height_added |-> m.peak.height, on |-> t]
      rivals == Conflicts(m, n, item.lineage)
  IN IF n \in Residents(m) THEN Reply(m, "Resident")
     ELSE IF first # 0 THEN Reply(m, refusals[first].reply)
     ELSE IF verdict = "Pending" THEN Reply(park_pending(m, n, item.locks.height), "Pending")
     ELSE IF verdict # "Met" THEN Reply(m, verdict)
     ELSE IF rivals # {} /\ ~can_replace(m, n, rivals, item)
          THEN Reply(cache_conflict(m, n), "Conflict")
     ELSE add_to_pool(remove(m, rivals), item)

add_seen(m, n) ==
  IF n \in ToSet(m.seen) THEN m
  ELSE [m EXCEPT !.seen = IF Len(@) >= SeenCap THEN Append(Tail(@), n) ELSE Append(@, n)]

remove_seen(m, names) == [m EXCEPT !.seen = SelectSeq(@, LAMBDA x : x \notin names)]

-----------------------------------------------------------------------------
(* A new peak, and a reorg.                                                *)

\* Mutant: the lineage moves on, the index stays.
RebaseItemsOnly(m, lineage) ==
  [m EXCEPT !.items = {[i EXCEPT !.lineage = lineage[i]] : i \in @}]

\* Give each item the lineage that is its due, and move its index entries along.
Rebase(m, lineage) ==
  LET Moved(i) == [i EXCEPT !.lineage = lineage[i]]
  IN [m EXCEPT !.items = {Moved(i) : i \in @},
               !.index = (@ \ UNION {index_keys(i) : i \in m.items})
                           \cup UNION {index_keys(Moved(i)) : i \in m.items}]

\* Mutant: a bundle goes one block late.
ExpiredLate(m) == {i.name : i \in {x \in m.items : x.locks.beforeHeight < m.peak.height}}

Expired(m) ==
  {i.name : i \in {x \in m.items : \/ x.locks.beforeHeight <= m.peak.height
                                          \/ x.locks.beforeSeconds <= m.peak.time}}

\* The coins a block spent: a plain spend of one goes with its item, a
\* fast-forward spend moves on to the singleton's new version, if it has one.
ApplySpent(m, spent, t) ==
  LET Hit(item, c) == Key(item, c) \in spent /\ <<Key(item, c), item.name>> \in m.index
      Dead(item) == \E c \in Bundle[item.name].spends :
        /\ Hit(item, c)
        /\ c \in DOMAIN item.lineage => get_unspent_lineage_info(Puzzle[c], t) = NoCoin
      dead == {i.name : i \in {x \in m.items : Dead(x)}}
      moved == [item \in m.items |-> [c \in DOMAIN item.lineage |->
        IF Hit(item, c) THEN get_unspent_lineage_info(Puzzle[c], t) ELSE item.lineage[c]]]
  IN remove_seen(Rebase(remove(m, dead), moved), dead)

\* Mutant: what is due at the very height of the peak waits for another one.
DueLate(m) == {n \in DOMAIN m.pending : m.pending[n] < m.peak.height}

Due(m) == {n \in DOMAIN m.pending : m.pending[n] <= m.peak.height}

\* new_peak, up to the retries: expiries, the block's spends, and what of the
\* parked bundles is due.
new_peak(m, peak, spent, t) ==
  LET at == [m EXCEPT !.peak = peak]
      left == ApplySpent(remove(at, Expired(at)), spent, t)
  IN [left EXCEPT !.retry = [stage |-> "parked", names |-> Due(left)]]

\* One retry; the two caches are hash maps, taken in any order.  A parked
\* bundle may have been pushed out of its cache meanwhile.
RetryOne(m, n, t) ==
  LET next == [m EXCEPT !.retry.names = @ \ {n}]
  IN IF m.retry.stage = "conflict" THEN admit(next, n, t).pool
     ELSE IF n \in DOMAIN m.pending
     THEN admit([next EXCEPT !.pending = Restrict(@, DOMAIN @ \ {n})], n, t).pool
     ELSE next

\* After the parked bundles that are due, all that conflicted.
drain_conflict(m) ==
  [m EXCEPT !.conflict = <<>>, !.conflictCost = 0,
            !.retry = [stage |-> "conflict", names |-> ToSet(m.conflict)]]

\* Every resident against the store: a removal that is gone, or spent and not
\* fast-forward, or a singleton without an unspent version, drops it.
revalidate_for_reorg(m, t) ==
  LET Dead(item) == \E c \in Bundle[item.name].spends :
        IF ~OnChain(c, t) THEN c \notin Bundle[item.name].creates
        ELSE IF c \in DOMAIN item.lineage THEN get_unspent_lineage_info(Puzzle[c], t) = NoCoin
        ELSE SpentOn(c, t)
      moved == [item \in m.items |-> [c \in DOMAIN item.lineage |->
        IF OnChain(c, t) THEN get_unspent_lineage_info(Puzzle[c], t) ELSE item.lineage[c]]]
      dead == {i.name : i \in {x \in m.items : Dead(x)}}
  IN [Rebase(remove(m, dead), moved) EXCEPT !.seen = <<>>]
=============================================================================
