------------------------------ MODULE PoolProofs ------------------------------
(***************************************************************************)
(* Proofs about the mempool: what its operators do to one pool record,     *)
(* then what follows for the pool among the tasks that share it (TxIntake) *)
(* and for the blocks assembled from it (BlockAssembly).                   *)
(***************************************************************************)
EXTENDS TxIntake, BlockAssembly, SequenceTheorems, SetFacts

-----------------------------------------------------------------------------
(* Costs and fees of sets of names.                                        *)

\* The two totals are sums.
LEMMA TotalsAreSums ==
  ASSUME NEW S
  PROVE  CostOf(S) = Sum(ByCost, S) /\ FeeOf(S) = Sum(ByFee, S)
BY DEF CostOf, FeeOf, Sum

\* What is summed is a natural number.
LEMMA RatesAreNat == \A n \in Names : ByCost[n] \in Nat /\ ByFee[n] \in Nat
BY PoolAssumption DEF ByCost, ByFee

\* The totals of a finite set of names are natural numbers.
LEMMA TotalsAreNat ==
  ASSUME NEW S, S \subseteq Names, IsFiniteSet(S)
  PROVE  CostOf(S) \in Nat /\ FeeOf(S) \in Nat
<1>1. \A x \in S : ByCost[x] \in Nat /\ ByFee[x] \in Nat
  BY RatesAreNat
<1>2. Sum(ByCost, S) \in Nat /\ Sum(ByFee, S) \in Nat
  BY <1>1, SumNat
<1> QED BY <1>2, TotalsAreSums

\* The totals of two disjoint sets add up.
LEMMA TotalsSplit ==
  ASSUME NEW A, A \subseteq Names, IsFiniteSet(A), NEW B, B \subseteq Names, IsFiniteSet(B), A \cap B = {}
  PROVE  CostOf(A \cup B) = CostOf(A) + CostOf(B) /\ FeeOf(A \cup B) = FeeOf(A) + FeeOf(B)
<1>1. \A x \in A \cup B : ByCost[x] \in Int /\ ByFee[x] \in Int
  BY RatesAreNat
<1>2. /\ Sum(ByCost, A \cup B) = Sum(ByCost, A) + Sum(ByCost, B)
      /\ Sum(ByFee, A \cup B) = Sum(ByFee, A) + Sum(ByFee, B)
  BY <1>1, SumUnion
<1> QED BY <1>2, TotalsAreSums

\* The totals of nothing and of one name.
LEMMA TotalsOfFew ==
  /\ CostOf({}) = 0 /\ FeeOf({}) = 0
  /\ \A n \in Names : CostOf({n}) = Bundle[n].cost /\ FeeOf({n}) = Bundle[n].fee
<1>1. CostOf({}) = 0 /\ FeeOf({}) = 0
  BY SumEmpty, TotalsAreSums
<1>2. ASSUME NEW n \in Names
      PROVE  CostOf({n}) = Bundle[n].cost /\ FeeOf({n}) = Bundle[n].fee
  <2>1. IsFiniteSet({}) /\ n \notin {} /\ {} \cup {n} = {n}
    BY FS_EmptySet
  <2>2. \A y \in {} \cup {n} : ByCost[y] \in Int /\ ByFee[y] \in Int
    BY RatesAreNat
  <2>3. Sum(ByCost, {} \cup {n}) = Sum(ByCost, {}) + ByCost[n]
    BY <2>1, <2>2, SumAdd
  <2>4. Sum(ByFee, {} \cup {n}) = Sum(ByFee, {}) + ByFee[n]
    BY <2>1, <2>2, SumAdd
  <2>5. ByCost[n] = Bundle[n].cost /\ ByFee[n] = Bundle[n].fee /\ Bundle[n].cost \in Nat /\ Bundle[n].fee \in Nat
    BY PoolAssumption DEF ByCost, ByFee
  <2> QED BY <2>1, <2>3, <2>4, <2>5, SumEmpty, TotalsAreSums
<1> QED BY <1>1, <1>2

\* What a set is left with when some of its names go.
LEMMA TotalsLess ==
  ASSUME NEW S, S \subseteq Names, IsFiniteSet(S), NEW T, T \subseteq S
  PROVE  /\ CostOf(S \ T) = CostOf(S) - CostOf(T) /\ FeeOf(S \ T) = FeeOf(S) - FeeOf(T)
         /\ CostOf(S \ T) \in Nat /\ CostOf(T) \in Nat /\ CostOf(S) \in Nat
         /\ FeeOf(S \ T) \in Nat /\ FeeOf(T) \in Nat /\ FeeOf(S) \in Nat
<1>1. IsFiniteSet(T) /\ IsFiniteSet(S \ T) /\ T \subseteq Names /\ S \ T \subseteq Names
  BY FS_Subset
<1>2. S = (S \ T) \cup T /\ (S \ T) \cap T = {}
  OBVIOUS
<1>3. /\ CostOf((S \ T) \cup T) = CostOf(S \ T) + CostOf(T)
      /\ FeeOf((S \ T) \cup T) = FeeOf(S \ T) + FeeOf(T)
  BY <1>1, <1>2, TotalsSplit
<1>4. CostOf(S) = CostOf(S \ T) + CostOf(T) /\ FeeOf(S) = FeeOf(S \ T) + FeeOf(T)
  BY <1>2, <1>3
<1> HIDE DEF CostOf, FeeOf
<1> QED BY <1>1, <1>4, TotalsAreNat

-----------------------------------------------------------------------------
(* Finite strict total orders.                                             *)

Orders(R, S) ==
  /\ \A a, b \in S : a # b => <<a, b>> \in R \/ <<b, a>> \in R
  /\ \A a, b \in S : ~(<<a, b>> \in R /\ <<b, a>> \in R)
  /\ \A a, b, c \in S : <<a, b>> \in R /\ <<b, c>> \in R => <<a, c>> \in R

Down(R, S, n) == {k \in S : k = n \/ <<k, n>> \in R}

\* A predecessor has fewer elements below it.
LEMMA DownGrows ==
  ASSUME NEW S, IsFiniteSet(S), NEW R, Orders(R, S), NEW a \in S, NEW b \in S, a # b, <<a, b>> \in R
  PROVE  Cardinality(Down(R, S, a)) < Cardinality(Down(R, S, b))
<1>1. Down(R, S, a) \subseteq Down(R, S, b) /\ b \notin Down(R, S, a) /\ b \in Down(R, S, b)
  BY DEF Orders, Down
<1>2. IsFiniteSet(Down(R, S, b)) /\ IsFiniteSet(Down(R, S, a))
  <2>1. Down(R, S, a) \subseteq S /\ Down(R, S, b) \subseteq S
    BY DEF Down
  <2> QED BY <2>1, FS_Subset
<1>3. Down(R, S, a) # Down(R, S, b)
  BY <1>1
<1> QED BY <1>1, <1>2, <1>3, FS_Subset, FS_CardinalityType

\* A finite non-empty set has a first and a last element.
LEMMA OrderEnds ==
  ASSUME NEW S, IsFiniteSet(S), S # {}, NEW R, Orders(R, S)
  PROVE  /\ \E n \in S : Down(R, S, n) = {n}
         /\ \E n \in S : Down(R, S, n) = S
<1> DEFINE T == {Cardinality(Down(R, S, n)) : n \in S}
<1>1. \A n \in S : Down(R, S, n) \subseteq S /\ IsFiniteSet(Down(R, S, n))
  <2>1. \A n \in S : Down(R, S, n) \subseteq S
    BY DEF Down
  <2> QED BY <2>1, FS_Subset
<1>2. \A n \in S : Cardinality(Down(R, S, n)) \in Nat /\ Cardinality(Down(R, S, n)) <= Cardinality(S)
  BY <1>1, FS_Subset, FS_CardinalityType
<1>3. T \subseteq Nat /\ T # {} /\ Cardinality(S) \in Nat /\ \A k \in T : k <= Cardinality(S)
  BY <1>2, FS_CardinalityType
<1>4. PICK lo \in T : \A k \in T : lo <= k
  <2> HIDE DEF T
  <2> QED BY <1>3, LeastOf
<1>5. PICK hi \in T : \A k \in T : k <= hi
  <2> HIDE DEF T
  <2> QED BY <1>3, BoundedHasTop
<1>6. PICK n \in S : lo = Cardinality(Down(R, S, n))
  OBVIOUS
<1>7. PICK m \in S : hi = Cardinality(Down(R, S, m))
  OBVIOUS
<1>8. \A k \in S : k # n => <<k, n>> \notin R
  <2> SUFFICES ASSUME NEW k \in S, k # n, <<k, n>> \in R PROVE FALSE
    OBVIOUS
  <2>1. Cardinality(Down(R, S, k)) < Cardinality(Down(R, S, n))
    BY DownGrows
  <2>2. lo <= Cardinality(Down(R, S, k))
    BY <1>4
  <2> QED BY <1>2, <1>6, <2>1, <2>2
<1>9. \A k \in S : k # m => <<k, m>> \in R
  <2> SUFFICES ASSUME NEW k \in S, k # m, <<k, m>> \notin R PROVE FALSE
    OBVIOUS
  <2>1. <<m, k>> \in R
    BY DEF Orders
  <2>2. Cardinality(Down(R, S, m)) < Cardinality(Down(R, S, k))
    BY <2>1, DownGrows
  <2>3. Cardinality(Down(R, S, k)) <= hi
    BY <1>5
  <2> QED BY <1>2, <1>7, <2>2, <2>3
<1> QED BY <1>8, <1>9 DEF Down

-----------------------------------------------------------------------------
(* The order of priority.                                                  *)

\* Products keep an order, and give it back.
LEMMA Scaling ==
  ASSUME NEW a \in Nat, NEW b \in Nat, NEW v \in Nat \ {0}
  PROVE  (a >= b <=> a * v >= b * v) /\ (a > b <=> a * v > b * v) /\ a * v \in Nat /\ b * v \in Nat
<1>1. a * v \in Nat /\ b * v \in Nat
  OBVIOUS
<1>2. ASSUME NEW x \in Nat, NEW y \in Nat, x > y PROVE x * v > y * v
  <2>1. PICK d \in Nat \ {0} : x = y + d
    <3>1. x - y \in Nat \ {0} /\ x = y + (x - y)
      BY <1>2
    <3> QED BY <3>1
  <2>2. x * v = y * v + d * v
    BY <2>1
  <2>3. d * v \in Nat /\ d * v > 0
    OBVIOUS
  <2>4. y * v \in Nat
    OBVIOUS
  <2> QED BY <2>2, <2>3, <2>4
<1>3. a > b => a * v > b * v
  BY <1>2
<1>4. b > a => b * v > a * v
  BY <1>2
<1> QED BY <1>1, <1>3, <1>4

\* Comparing fee rates across is transitive when every cost is positive.
LEMMA RatesChain ==
  ASSUME NEW f1 \in Nat, NEW f2 \in Nat, NEW f3 \in Nat,
         NEW v1 \in Nat \ {0}, NEW v2 \in Nat \ {0}, NEW v3 \in Nat \ {0},
         f1 * v2 >= f2 * v1, f2 * v3 >= f3 * v2
  PROVE  /\ f1 * v3 >= f3 * v1
         /\ f1 * v2 > f2 * v1 \/ f2 * v3 > f3 * v2 => f1 * v3 > f3 * v1
<1>1. /\ f1 * v2 \in Nat /\ f2 * v1 \in Nat /\ f2 * v3 \in Nat /\ f3 * v2 \in Nat
      /\ f1 * v3 \in Nat /\ f3 * v1 \in Nat
  OBVIOUS
<1>2. (f1 * v2) * v3 >= (f2 * v1) * v3
  BY <1>1, Scaling
<1>3. (f2 * v3) * v1 >= (f3 * v2) * v1
  BY <1>1, Scaling
<1>4. f1 * v2 > f2 * v1 => (f1 * v2) * v3 > (f2 * v1) * v3
  BY <1>1, Scaling
<1>5. f2 * v3 > f3 * v2 => (f2 * v3) * v1 > (f3 * v2) * v1
  BY <1>1, Scaling
<1>6. /\ (f1 * v2) * v3 = (f1 * v3) * v2 /\ (f2 * v1) * v3 = (f2 * v3) * v1
      /\ (f3 * v2) * v1 = (f3 * v1) * v2
  OBVIOUS
<1>7. /\ (f1 * v3) * v2 \in Nat /\ (f3 * v1) * v2 \in Nat /\ (f2 * v3) * v1 \in Nat
  BY <1>1
<1>8. (f1 * v3) * v2 >= (f3 * v1) * v2
  BY <1>2, <1>3, <1>6, <1>7
<1>9. f1 * v2 > f2 * v1 \/ f2 * v3 > f3 * v2 => (f1 * v3) * v2 > (f3 * v1) * v2
  BY <1>2, <1>3, <1>4, <1>5, <1>6, <1>7
<1> QED BY <1>1, <1>8, <1>9, Scaling

\* A bundle that costs anything has a positive virtual cost.
LEMMA VirtualCostPositive ==
  ASSUME NEW n \in Names, Bundle[n].cost > 0
  PROVE  ByVirtualCost[n] \in Nat \ {0}
<1>1. Cardinality(Bundle[n].spends) \in Nat /\ SpendPenalty \in Nat /\ Bundle[n].cost \in Nat
  BY PoolAssumption, FS_CardinalityType
<1>2. SpendPenalty * Cardinality(Bundle[n].spends) \in Nat
  BY <1>1
<1> QED BY <1>1, <1>2 DEF ByVirtualCost, VirtualCost

Priority(m) == {p \in Names \X Names : Before(m, ByVirtualCost, p[1], p[2])}

\* Bundles that pay are totally ordered by priority and age.
LEMMA PriorityOrders ==
  ASSUME NEW m, NEW S, S \subseteq Names, \A n \in S : Bundle[n].cost > 0, Orders(m.older, S)
  PROVE  /\ Orders(Priority(m), S)
         /\ \A n \in S : Down(Priority(m), S, n) = UpTo(m, ByVirtualCost, S, n)
<1> DEFINE F(n) == Bundle[n].fee
           V(n) == ByVirtualCost[n]
<1>1. \A n \in S : F(n) \in Nat /\ V(n) \in Nat \ {0}
  BY PoolAssumption, VirtualCostPositive
<1>2. \A a, b \in S : <<a, b>> \in Priority(m) <=>
        F(a) * V(b) > F(b) * V(a) \/ (F(a) * V(b) = F(b) * V(a) /\ <<a, b>> \in m.older)
  BY DEF Priority, Before
<1>3. \A a, b \in S : F(a) * V(b) \in Nat
  BY <1>1
<1>4. ASSUME NEW a \in S, NEW b \in S, NEW c \in S,
             <<a, b>> \in Priority(m), <<b, c>> \in Priority(m)
      PROVE  <<a, c>> \in Priority(m)
  <2>1. F(a) * V(b) >= F(b) * V(a) /\ F(b) * V(c) >= F(c) * V(b)
    BY <1>2, <1>3, <1>4
  <2>2. /\ F(a) * V(c) >= F(c) * V(a)
        /\ F(a) * V(b) > F(b) * V(a) \/ F(b) * V(c) > F(c) * V(b) => F(a) * V(c) > F(c) * V(a)
    <3>1. F(a) \in Nat /\ F(b) \in Nat /\ F(c) \in Nat /\ V(a) \in Nat \ {0} /\ V(b) \in Nat \ {0} /\ V(c) \in Nat \ {0}
      BY <1>1
    <3> HIDE DEF F, V
    <3> QED BY <2>1, <3>1, RatesChain
  <2>3. CASE F(a) * V(c) > F(c) * V(a)
    BY <1>2, <2>3
  <2>4. CASE F(a) * V(c) = F(c) * V(a)
    <3>1. <<a, b>> \in m.older /\ <<b, c>> \in m.older
      BY <1>2, <1>3, <1>4, <2>2, <2>4
    <3>2. <<a, c>> \in m.older
      BY <3>1 DEF Orders
    <3> QED BY <1>2, <2>4, <3>2
  <2> QED BY <1>3, <2>2, <2>3, <2>4
<1>5. ASSUME NEW a \in S, NEW b \in S
      PROVE  ~(<<a, b>> \in Priority(m) /\ <<b, a>> \in Priority(m))
  <2>1. ~(<<a, b>> \in m.older /\ <<b, a>> \in m.older)
    BY DEF Orders
  <2>2. F(a) * V(b) \in Nat /\ F(b) * V(a) \in Nat
    BY <1>3
  <2> HIDE DEF F, V
  <2> QED BY <1>2, <2>1, <2>2
<1>6. ASSUME NEW a \in S, NEW b \in S, a # b
      PROVE  <<a, b>> \in Priority(m) \/ <<b, a>> \in Priority(m)
  <2>1. <<a, b>> \in m.older \/ <<b, a>> \in m.older
    BY <1>6 DEF Orders
  <2>2. F(a) * V(b) \in Nat /\ F(b) * V(a) \in Nat
    BY <1>3
  <2> HIDE DEF F, V
  <2> QED BY <1>2, <2>1, <2>2
<1>7. Orders(Priority(m), S)
  BY <1>4, <1>5, <1>6 DEF Orders
<1>8. \A n \in S : Down(Priority(m), S, n) = UpTo(m, ByVirtualCost, S, n)
  BY DEF Down, UpTo, Priority
<1> QED BY <1>7, <1>8

\* What is not evicted fits: the survivors are the names up to the last of them.
LEMMA OverflowFits ==
  ASSUME NEW m, NEW S, S \subseteq Names, IsFiniteSet(S), \A n \in S : Bundle[n].cost > 0,
         Orders(m.older, S), NEW room \in Nat
  PROVE  CostOf(S \ Overflow(m, S, room)) <= room
<1> DEFINE L == S \ Overflow(m, S, room)
<1>1. CASE L = {}
  BY <1>1, TotalsOfFew
<1>2. CASE L # {}
  <2>1. IsFiniteSet(L) /\ L \subseteq S /\ L \subseteq Names
    BY FS_Subset
  <2>2. Orders(m.older, L) /\ \A n \in L : Bundle[n].cost > 0
    BY <2>1 DEF Orders
  <2>3. Orders(Priority(m), L) /\ Orders(Priority(m), S)
    <3> HIDE DEF L
    <3> QED BY <2>1, <2>2, PriorityOrders
  <2>4. PICK n \in L : Down(Priority(m), L, n) = L
    <3> HIDE DEF L
    <3> QED BY <1>2, <2>1, <2>3, OrderEnds
  <2>5. CostOf(UpTo(m, ByVirtualCost, S, n)) <= room
    <3>1. n \in S /\ n \notin Overflow(m, S, room)
      OBVIOUS
    <3>2. UpTo(m, ByVirtualCost, S, n) \subseteq S
      BY DEF UpTo
    <3>3. CostOf(UpTo(m, ByVirtualCost, S, n)) \in Nat
      BY <3>2, FS_Subset, TotalsAreNat
    <3>4. ~(CostOf(UpTo(m, ByVirtualCost, S, n)) > room)
      BY <3>1 DEF Overflow
    <3> QED BY <3>3, <3>4
  <2>6. L \subseteq UpTo(m, ByVirtualCost, S, n)
    <3>1. Down(Priority(m), S, n) = UpTo(m, ByVirtualCost, S, n)
      BY PriorityOrders
    <3>2. L \subseteq Down(Priority(m), S, n)
      BY <2>1, <2>4 DEF Down
    <3> QED BY <3>1, <3>2
  <2>7. IsFiniteSet(UpTo(m, ByVirtualCost, S, n)) /\ UpTo(m, ByVirtualCost, S, n) \subseteq Names
    <3>1. UpTo(m, ByVirtualCost, S, n) \subseteq S
      BY DEF UpTo
    <3> QED BY <3>1, FS_Subset
  <2>8. CostOf(L) <= CostOf(UpTo(m, ByVirtualCost, S, n))
    <3> DEFINE U == UpTo(m, ByVirtualCost, S, n)
    <3>0. L \subseteq U /\ IsFiniteSet(U) /\ U \subseteq Names
      BY <2>6, <2>7
    <3> HIDE DEF L, U
    <3>1. CostOf(U \ L) = CostOf(U) - CostOf(L) /\ CostOf(U \ L) \in Nat /\ CostOf(U) \in Nat /\ CostOf(L) \in Nat
      BY <3>0, TotalsLess
    <3>2. CostOf(L) <= CostOf(U)
      BY <3>1
    <3> QED BY <3>2 DEF U
  <2>9. CostOf(L) \in Nat /\ CostOf(UpTo(m, ByVirtualCost, S, n)) \in Nat
    <3> HIDE DEF L
    <3> QED BY <2>1, <2>7, TotalsAreNat
  <2> QED BY <2>5, <2>8, <2>9
<1> QED BY <1>1, <1>2

-----------------------------------------------------------------------------
(* The pool record.                                                        *)

\* The fields of a pool and of an item.
PoolFields ==
  {"items", "older", "index", "cost", "fee", "peak", "pending", "conflict", "conflictCost",
   "seen", "retry"}

IsPool(m) == m = [x \in PoolFields |-> m[x]]

ItemFields == {"name", "lineage", "locks", "height_added", "on"}

IsItem(i) ==
  /\ i = [x \in ItemFields |-> i[x]]
  /\ i.name \in Names /\ Bundle[i.name].cost > 0

\* The residents and what is kept about them agree.
Residency(m) ==
  /\ \A i \in m.items : IsItem(i)
  /\ IsFiniteSet(m.items)
  /\ \A i, j \in m.items : i.name = j.name => i = j
  /\ m.index = UNION {index_keys(i) : i \in m.items}
  /\ m.cost = CostOf(Residents(m)) /\ m.cost <= MaxTotalCost
  /\ m.fee = FeeOf(Residents(m))
  /\ Orders(m.older, Residents(m)) /\ m.older \subseteq Residents(m) \X Residents(m)

\* The caches are within their bounds.
Caches(m) ==
  /\ m.conflict \in Seq(Names)
  /\ \A k, l \in DOMAIN m.conflict : m.conflict[k] = m.conflict[l] => k = l
  /\ m.conflictCost = CostOf(ToSet(m.conflict)) /\ m.conflictCost <= MaxBlockCost
  /\ DOMAIN m.pending \subseteq Names /\ IsFiniteSet(DOMAIN m.pending)
  /\ Cardinality(DOMAIN m.pending) <= PendingCap

\* A coin is spent by two residents only as NoRivals allows.
Compatible(i, j) ==
  \A c \in Bundle[i.name].spends \cap Bundle[j.name].spends :
      \/ i.name = j.name
      \/ c \in DOMAIN i.lineage \cup DOMAIN j.lineage
      \/ /\ c \in Bundle[i.name].dedup \cap Bundle[j.name].dedup
         /\ Bundle[i.name].solution[c] = Bundle[j.name].solution[c]

RivalFree(m) == \A i, j \in m.items : Compatible(i, j)

\* Heights, and what is left to retry, have their types.
Parking(m) ==
  /\ m.peak.height \in Nat \cup {-1}
  /\ m.retry = [stage |-> m.retry.stage, names |-> m.retry.names] /\ m.retry.names \subseteq Names
  /\ \A n \in DOMAIN m.pending : m.pending[n] \in Nat

\* What is parked is above the peak, or about to be retried.
Timely(m) ==
  \A n \in DOMAIN m.pending :
    \/ m.pending[n] > m.peak.height
    \/ m.retry.stage = "parked" /\ n \in m.retry.names

\* What Timely depends on.
SameParked(r, m) == r.peak = m.peak /\ r.pending = m.pending /\ r.retry = m.retry

PoolInv(m) == IsPool(m) /\ Residency(m) /\ Caches(m) /\ RivalFree(m) /\ Parking(m)

\* The residents of a sound pool are finitely many names that pay.
LEMMA ResidentsFinite ==
  ASSUME NEW m, IsFiniteSet(m.items), \A i \in m.items : IsItem(i)
  PROVE  /\ Residents(m) \subseteq Names /\ IsFiniteSet(Residents(m))
         /\ \A n \in Residents(m) : Bundle[n].cost > 0
<1>1. Residents(m) \subseteq Names /\ \A n \in Residents(m) : Bundle[n].cost > 0
  BY DEF Residents, IsItem
<1> DEFINE g == [i \in m.items |-> i.name]
<1>2. g \in Surjection(m.items, Residents(m))
  <2>1. g \in [m.items -> Residents(m)] /\ \A n \in Residents(m) : \E i \in m.items : g[i] = n
    BY DEF Residents
  <2> QED BY <2>1 DEF Surjection
<1>3. IsFiniteSet(Residents(m))
  BY <1>2, FS_Surjection
<1> QED BY <1>1, <1>3

\* As many names as items.
LEMMA OneNameEach ==
  ASSUME NEW m, IsFiniteSet(m.items), \A i, j \in m.items : i.name = j.name => i = j
  PROVE  Cardinality(Residents(m)) = Cardinality(m.items)
<1> DEFINE g == [i \in m.items |-> i.name]
<1>1. g \in Surjection(m.items, Residents(m)) /\ g \in Injection(m.items, Residents(m))
  <2>1. /\ g \in [m.items -> Residents(m)] /\ \A n \in Residents(m) : \E i \in m.items : g[i] = n
        /\ \A i, j \in m.items : g[i] = g[j] => i = j
    BY DEF Residents
  <2> HIDE DEF g
  <2> QED BY <2>1 DEF Surjection, Injection, IsInjective
<1> QED BY <1>1, FS_Surjection

-----------------------------------------------------------------------------
(* Removal.                                                                *)

\* What remove does to each field.
LEMMA RemoveFields ==
  ASSUME NEW m, IsPool(m), NEW names
  PROVE  LET r == remove(m, names)
             gone == {i \in m.items : i.name \in names}
         IN /\ IsPool(r)
            /\ r.items = m.items \ gone
            /\ r.older = {p \in m.older : p[1] \notin names /\ p[2] \notin names}
            /\ r.index = m.index \ UNION {index_keys(i) : i \in gone}
            /\ r.cost = m.cost - CostOf({i.name : i \in gone})
            /\ r.fee = m.fee - FeeOf({i.name : i \in gone})
            /\ r.peak = m.peak /\ r.pending = m.pending /\ r.conflict = m.conflict
            /\ r.conflictCost = m.conflictCost /\ r.retry = m.retry
BY DEF IsPool, PoolFields, remove

\* Removal leaves the items that are not named.
LEMMA RemoveItems ==
  ASSUME NEW m, IsPool(m), NEW names
  PROVE  /\ IsPool(remove(m, names))
         /\ remove(m, names).items = m.items \ {i \in m.items : i.name \in names}
         /\ remove(m, names).items \subseteq m.items
         /\ \A i \in remove(m, names).items : i.name \notin names
<1>1. /\ IsPool(remove(m, names))
      /\ remove(m, names).items = m.items \ {i \in m.items : i.name \in names}
  BY DEF IsPool, PoolFields, remove
<1> QED BY <1>1

\* Removal leaves the caches alone.
LEMMA RemoveCaches ==
  ASSUME NEW m, IsPool(m), NEW names
  PROVE  /\ remove(m, names).peak = m.peak /\ remove(m, names).pending = m.pending
         /\ remove(m, names).conflict = m.conflict /\ remove(m, names).conflictCost = m.conflictCost
         /\ remove(m, names).retry = m.retry
BY DEF IsPool, PoolFields, remove

\* An index entry names its item.
LEMMA KeysNameTheirItem ==
  ASSUME NEW i, NEW p \in index_keys(i)
  PROVE  p = <<p[1], i.name>> /\ p[2] = i.name
BY DEF index_keys

\* Removing residents keeps the accounts.
LEMMA RemoveResidency ==
  ASSUME NEW m, IsPool(m), Residency(m), NEW names
  PROVE  Residency(remove(m, names)) /\ Residents(remove(m, names)) = Residents(m) \ names
<1> DEFINE r == remove(m, names)
           gone == {i \in m.items : i.name \in names}
           left == {i.name : i \in gone}
<1>1. /\ r.items = m.items \ gone
      /\ r.older = {p \in m.older : p[1] \notin names /\ p[2] \notin names}
      /\ r.index = m.index \ UNION {index_keys(i) : i \in gone}
      /\ r.cost = m.cost - CostOf(left) /\ r.fee = m.fee - FeeOf(left)
  BY RemoveFields
<1> HIDE DEF r
<1>2. Residents(r) = Residents(m) \ names /\ Residents(r) = Residents(m) \ left /\ left \subseteq Residents(m)
  BY <1>1 DEF Residents
<1>3. Residents(m) \subseteq Names /\ IsFiniteSet(Residents(m))
  BY ResidentsFinite DEF Residency
<1>4. IsFiniteSet(r.items) /\ r.items \subseteq m.items
  BY <1>1, FS_Subset DEF Residency
<1>5. r.index = UNION {index_keys(i) : i \in r.items}
  <2>1. m.index = UNION {index_keys(i) : i \in m.items}
    BY DEF Residency
  <2>2. ASSUME NEW p \in r.index PROVE p \in UNION {index_keys(i) : i \in r.items}
    <3>1. PICK i \in m.items : p \in index_keys(i)
      BY <1>1, <2>1, <2>2
    <3>2. i \notin gone
      BY <1>1, <2>2, <3>1
    <3> QED BY <1>1, <3>1, <3>2
  <2>3. ASSUME NEW p \in UNION {index_keys(i) : i \in r.items} PROVE p \in r.index
    <3>1. PICK i \in r.items : p \in index_keys(i)
      BY <2>3
    <3>2. i \in m.items /\ i.name \notin names
      BY <1>1, <3>1
    <3>3. \A j \in gone : p \notin index_keys(j)
      BY <3>1, <3>2, KeysNameTheirItem
    <3> QED BY <1>1, <2>1, <3>1, <3>2, <3>3
  <2> QED BY <2>2, <2>3
<1>6. r.cost = CostOf(Residents(r)) /\ r.cost <= MaxTotalCost /\ r.fee = FeeOf(Residents(r))
  <2> DEFINE S == Residents(m)
  <2>1. S \subseteq Names /\ IsFiniteSet(S) /\ left \subseteq S /\ Residents(r) = S \ left
    BY <1>2, <1>3
  <2>2. m.cost = CostOf(S) /\ m.cost <= MaxTotalCost /\ m.fee = FeeOf(S) /\ MaxTotalCost \in Nat
    BY PoolAssumption DEF Residency, MaxTotalCost
  <2> HIDE DEF S, left
  <2>3. /\ CostOf(S \ left) = CostOf(S) - CostOf(left) /\ FeeOf(S \ left) = FeeOf(S) - FeeOf(left)
        /\ CostOf(S \ left) \in Nat /\ CostOf(left) \in Nat /\ CostOf(S) \in Nat
    BY <2>1, TotalsLess
  <2> QED BY <1>1, <2>1, <2>2, <2>3
<1>7. Orders(r.older, Residents(r)) /\ r.older \subseteq Residents(r) \X Residents(r)
  <2>1. Orders(m.older, Residents(m)) /\ m.older \subseteq Residents(m) \X Residents(m)
    BY DEF Residency
  <2>2. \A a, b \in Residents(r) : <<a, b>> \in r.older <=> <<a, b>> \in m.older
    BY <1>1, <1>2
  <2>3. Orders(r.older, Residents(r))
    BY <1>2, <2>1, <2>2 DEF Orders
  <2>4. r.older \subseteq Residents(r) \X Residents(r)
    BY <1>1, <1>2, <2>1
  <2> QED BY <2>3, <2>4
<1>8. \A i \in r.items : IsItem(i)
  BY <1>4 DEF Residency
<1>9. \A i, j \in r.items : i.name = j.name => i = j
  BY <1>4 DEF Residency
<1> HIDE DEF gone, left
<1>10. Residency(r)
  BY <1>4, <1>5, <1>6, <1>7, <1>8, <1>9 DEF Residency
<1> QED BY <1>2, <1>10 DEF r

\* The caches and what is parked depend on their own fields alone.
LEMMA CachesFrame ==
  ASSUME NEW m, NEW r, r.peak = m.peak, r.pending = m.pending, r.conflict = m.conflict,
         r.conflictCost = m.conflictCost, r.retry = m.retry
  PROVE  (Caches(m) => Caches(r)) /\ (Parking(m) => Parking(r))
BY DEF Caches, Parking

\* Removal keeps the invariant of the pool.
LEMMA RemovePool ==
  ASSUME NEW m, PoolInv(m), NEW names
  PROVE  /\ PoolInv(remove(m, names)) /\ Residents(remove(m, names)) = Residents(m) \ names
         /\ SameParked(remove(m, names), m)
<1> DEFINE r == remove(m, names)
<1>1. /\ IsPool(r) /\ r.items \subseteq m.items
      /\ r.peak = m.peak /\ r.pending = m.pending /\ r.conflict = m.conflict
      /\ r.conflictCost = m.conflictCost /\ r.retry = m.retry
  <2>1. IsPool(m)
    BY DEF PoolInv
  <2>2. /\ IsPool(r) /\ r.items = m.items \ {i \in m.items : i.name \in names}
        /\ r.peak = m.peak /\ r.pending = m.pending /\ r.conflict = m.conflict
        /\ r.conflictCost = m.conflictCost /\ r.retry = m.retry
    BY <2>1, RemoveItems, RemoveCaches
  <2> HIDE DEF r
  <2> QED BY <2>2
<1>2. Residency(r) /\ Residents(r) = Residents(m) \ names
  BY RemoveResidency DEF PoolInv
<1> HIDE DEF r
<1>3. Caches(r) /\ Parking(r)
  BY <1>1, CachesFrame DEF PoolInv
<1>4. RivalFree(r)
  BY <1>1 DEF PoolInv, RivalFree
<1>5. PoolInv(r) /\ SameParked(r, m)
  BY <1>1, <1>2, <1>3, <1>4 DEF PoolInv, SameParked
<1> QED BY <1>2, <1>5 DEF r

-----------------------------------------------------------------------------
(* Insertion, with what it evicts.                                         *)

Inserted(m, item) ==
  [m EXCEPT !.items = @ \cup {item},
            !.older = @ \cup (Residents(m) \X {item.name}),
            !.index = @ \cup index_keys(item),
            !.cost = @ + Bundle[item.name].cost,
            !.fee = @ + Bundle[item.name].fee]

\* What an insertion does to each field.
LEMMA InsertFields ==
  ASSUME NEW m, IsPool(m), NEW item
  PROVE  LET r == Inserted(m, item)
         IN /\ IsPool(r)
            /\ r.items = m.items \cup {item}
            /\ r.older = m.older \cup (Residents(m) \X {item.name})
            /\ r.index = m.index \cup index_keys(item)
            /\ r.cost = m.cost + Bundle[item.name].cost
            /\ r.fee = m.fee + Bundle[item.name].fee
            /\ r.peak = m.peak /\ r.pending = m.pending /\ r.conflict = m.conflict
            /\ r.conflictCost = m.conflictCost /\ r.retry = m.retry
BY DEF IsPool, PoolFields, Inserted

\* Insertion adds the item.
LEMMA InsertItems ==
  ASSUME NEW m, IsPool(m), NEW item
  PROVE  Inserted(m, item).items = m.items \cup {item}
BY DEF IsPool, PoolFields, Inserted

\* Two items that may be resident together may be so in either order.
LEMMA CompatibleBothWays ==
  ASSUME NEW i, NEW j, Compatible(i, j)
  PROVE  Compatible(j, i)
BY DEF Compatible

\* The newest name is last in the order of age.
LEMMA OrdersExtend ==
  ASSUME NEW R, NEW S, Orders(R, S), NEW n, n \notin S, \A p \in R : p[1] # n /\ p[2] # n
  PROVE  Orders(R \cup (S \X {n}), S \cup {n})
<1> DEFINE Q == R \cup (S \X {n})
<1>1. \A a, b \in S : <<a, b>> \in Q <=> <<a, b>> \in R
  OBVIOUS
<1>2. \A a \in S : <<a, n>> \in Q
  OBVIOUS
<1>3. \A a : <<n, a>> \notin Q
  OBVIOUS
<1> HIDE DEF Q
<1>4. \A a, b \in S \cup {n} : a # b => <<a, b>> \in Q \/ <<b, a>> \in Q
  BY <1>1, <1>2 DEF Orders
<1>5. \A a, b \in S \cup {n} : ~(<<a, b>> \in Q /\ <<b, a>> \in Q)
  BY <1>1, <1>3 DEF Orders
<1>6. \A a, b, c \in S \cup {n} : <<a, b>> \in Q /\ <<b, c>> \in Q => <<a, c>> \in Q
  BY <1>1, <1>2, <1>3 DEF Orders
<1>7. Orders(Q, S \cup {n})
  BY <1>4, <1>5, <1>6 DEF Orders
<1> QED BY <1>7 DEF Q

\* An item that fits and clashes with nobody enters.
LEMMA InsertPool ==
  ASSUME NEW m, PoolInv(m), NEW item, IsItem(item), item.name \notin Residents(m),
         m.cost + Bundle[item.name].cost <= MaxTotalCost,
         \A i \in m.items : Compatible(i, item)
  PROVE  PoolInv(Inserted(m, item)) /\ SameParked(Inserted(m, item), m)
<1> DEFINE r == Inserted(m, item)
           n == item.name
<1>0. IsPool(m) /\ Residency(m) /\ Caches(m) /\ RivalFree(m) /\ Parking(m)
  BY DEF PoolInv
<1>1. /\ IsPool(r)
      /\ r.items = m.items \cup {item}
      /\ r.older = m.older \cup (Residents(m) \X {n})
      /\ r.index = m.index \cup index_keys(item)
      /\ r.cost = m.cost + Bundle[n].cost
      /\ r.fee = m.fee + Bundle[n].fee
      /\ r.peak = m.peak /\ r.pending = m.pending /\ r.conflict = m.conflict
      /\ r.conflictCost = m.conflictCost /\ r.retry = m.retry
  BY <1>0, InsertFields
<1>2. n \in Names /\ n \notin Residents(m)
  BY DEF IsItem
<1> HIDE DEF r
<1>3. Residents(r) = Residents(m) \cup {n}
  BY <1>1 DEF Residents
<1>4. Residents(m) \subseteq Names /\ IsFiniteSet(Residents(m))
  BY <1>0, ResidentsFinite DEF Residency
<1>5. /\ IsFiniteSet(r.items) /\ \A i \in r.items : IsItem(i)
  BY <1>0, <1>1, FS_AddElement DEF Residency
<1>6. \A i, j \in r.items : i.name = j.name => i = j
  <2>1. \A i \in m.items : i.name # n
    BY <1>2 DEF Residents
  <2> QED BY <1>0, <1>1, <2>1 DEF Residency
<1>7. r.index = UNION {index_keys(i) : i \in r.items}
  <2>1. m.index = UNION {index_keys(i) : i \in m.items}
    BY <1>0 DEF Residency
  <2> QED BY <1>1, <2>1
<1>8. r.cost = CostOf(Residents(r)) /\ r.cost <= MaxTotalCost /\ r.fee = FeeOf(Residents(r))
  <2> DEFINE S == Residents(m)
  <2>1. S \subseteq Names /\ IsFiniteSet(S) /\ {n} \subseteq Names /\ IsFiniteSet({n}) /\ S \cap {n} = {}
    BY <1>2, <1>4, FS_Singleton
  <2>2. m.cost = CostOf(S) /\ m.fee = FeeOf(S)
    BY <1>0 DEF Residency
  <2>3. CostOf({n}) = Bundle[n].cost /\ FeeOf({n}) = Bundle[n].fee
    BY <1>2, TotalsOfFew
  <2> HIDE DEF S
  <2>4. CostOf(S \cup {n}) = CostOf(S) + CostOf({n}) /\ FeeOf(S \cup {n}) = FeeOf(S) + FeeOf({n})
    BY <2>1, TotalsSplit
  <2>5. Residents(r) = S \cup {n}
    BY <1>3 DEF S
  <2> QED BY <1>1, <2>2, <2>3, <2>4, <2>5
<1>9. Orders(r.older, Residents(r)) /\ r.older \subseteq Residents(r) \X Residents(r)
  <2>1. Orders(m.older, Residents(m)) /\ m.older \subseteq Residents(m) \X Residents(m)
    BY <1>0 DEF Residency
  <2>2. \A p \in m.older : p[1] # n /\ p[2] # n
    BY <1>2, <2>1
  <2>3. Orders(r.older, Residents(r))
    BY <1>1, <1>2, <1>3, <2>1, <2>2, OrdersExtend
  <2>4. r.older \subseteq Residents(r) \X Residents(r)
    BY <1>1, <1>3, <2>1
  <2> QED BY <2>3, <2>4
<1>10. Residency(r)
  BY <1>5, <1>6, <1>7, <1>8, <1>9 DEF Residency
<1>11. Caches(r) /\ Parking(r)
  BY <1>0, <1>1, CachesFrame
<1>12. RivalFree(r)
  <2>1. Compatible(item, item)
    BY DEF Compatible
  <2>2. \A i \in m.items : Compatible(i, item) /\ Compatible(item, i)
    BY CompatibleBothWays
  <2>3. \A i, j \in m.items : Compatible(i, j)
    BY <1>0 DEF RivalFree
  <2> QED BY <1>1, <2>1, <2>2, <2>3 DEF RivalFree
<1>13. PoolInv(r) /\ SameParked(r, m)
  BY <1>1, <1>10, <1>11, <1>12 DEF PoolInv, SameParked
<1> QED BY <1>13 DEF r

\* add_to_pool keeps the invariant: what does not fit beside the item goes
\* first.
LEMMA AddPool ==
  ASSUME NEW m, PoolInv(m), NEW item, IsItem(item), item.name \notin Residents(m),
         Bundle[item.name].cost <= MaxTxCost, \A i \in m.items : Compatible(i, item)
  PROVE  PoolInv(add_to_pool(m, item).pool) /\ SameParked(add_to_pool(m, item).pool, m)
<1> DEFINE n == item.name
           soon == {i.name : i \in {x \in m.items : ExpiresSoon(x.locks, m.peak)}}
           late == IF ExpiresSoon(item.locks, m.peak)
                   THEN Overflow(m, soon, ExpiringBudget - Bundle[n].cost) ELSE {}
           swept == remove(m, late)
           over == Overflow(swept, Residents(swept), MaxTotalCost - Bundle[n].cost)
           room == IF at_full_capacity(swept, n) THEN remove(swept, over) ELSE swept
<1>1. n \in Names /\ Bundle[n].cost \in Nat /\ MaxTotalCost \in Nat /\ Bundle[n].cost <= MaxTotalCost
  <2>1. n \in Names /\ Bundle[n].cost \in Nat /\ MaxBlockCost \in Nat /\ Buffer \in Nat \ {0}
    BY PoolAssumption DEF IsItem
  <2>2. MaxTotalCost \in Nat /\ MaxBlockCost <= MaxTotalCost
    <3>1. PICK k \in Nat : Buffer = k + 1
      <4>1. Buffer - 1 \in Nat /\ Buffer = (Buffer - 1) + 1
        BY <2>1
      <4> QED BY <4>1
    <3>2. MaxBlockCost * (k + 1) = MaxBlockCost * k + MaxBlockCost /\ MaxBlockCost * k \in Nat
      BY <2>1
    <3> QED BY <2>1, <3>1, <3>2 DEF MaxTotalCost
  <2>3. MaxTxCost \in Nat /\ MaxTxCost <= MaxBlockCost
    BY <2>1 DEF MaxTxCost
  <2> QED BY <2>1, <2>2, <2>3
<1>2. PoolInv(swept) /\ Residents(swept) = Residents(m) \ late /\ SameParked(swept, m)
  <2> HIDE DEF late
  <2> QED BY RemovePool
<1>3. PoolInv(room) /\ Residents(room) \subseteq Residents(m) /\ SameParked(room, m)
  <2> HIDE DEF swept, over
  <2>1. /\ PoolInv(remove(swept, over)) /\ Residents(remove(swept, over)) = Residents(swept) \ over
        /\ SameParked(remove(swept, over), swept)
    BY <1>2, RemovePool
  <2> QED BY <1>2, <2>1 DEF SameParked
<1>4. \A i \in room.items : Compatible(i, item)
  <2>1. swept.items \subseteq m.items
    <3> HIDE DEF late
    <3>1. IsPool(m)
      BY DEF PoolInv
    <3>2. swept.items = m.items \ {i \in m.items : i.name \in late}
      BY <3>1, RemoveItems
    <3> QED BY <3>2
  <2>2. room.items \subseteq swept.items
    <3> HIDE DEF swept, over
    <3>1. IsPool(swept)
      BY <1>2 DEF PoolInv
    <3>2. remove(swept, over).items = swept.items \ {i \in swept.items : i.name \in over}
      BY <3>1, RemoveItems
    <3> QED BY <3>2
  <2> QED BY <2>1, <2>2
<1>5. room.cost + Bundle[n].cost <= MaxTotalCost
  <2> HIDE DEF swept
  <2>1. Residency(swept)
    BY <1>2 DEF PoolInv
  <2>2. /\ Residents(swept) \subseteq Names /\ IsFiniteSet(Residents(swept))
        /\ \A k \in Residents(swept) : Bundle[k].cost > 0
    BY <2>1, ResidentsFinite DEF Residency
  <2>3. swept.cost = CostOf(Residents(swept)) /\ CostOf(Residents(swept)) \in Nat
    BY <2>1, <2>2, TotalsAreNat DEF Residency
  <2>4. CASE ~at_full_capacity(swept, n)
    BY <1>1, <2>3, <2>4 DEF at_full_capacity
  <2>5. CASE at_full_capacity(swept, n)
    <3>1. Residency(room) /\ Residents(room) = Residents(swept) \ over
      <4> HIDE DEF over
      <4>1. PoolInv(remove(swept, over)) /\ Residents(remove(swept, over)) = Residents(swept) \ over
        BY <1>2, RemovePool
      <4> QED BY <2>5, <4>1 DEF PoolInv
    <3>2. MaxTotalCost - Bundle[n].cost \in Nat
      BY <1>1
    <3>3. Orders(swept.older, Residents(swept))
      BY <2>1 DEF Residency
    <3>4. CostOf(Residents(swept) \ over) <= MaxTotalCost - Bundle[n].cost
      BY <2>2, <3>2, <3>3, OverflowFits
    <3>5. CostOf(Residents(swept) \ over) \in Nat
      <4> HIDE DEF over
      <4>1. Residents(swept) \ over \subseteq Residents(swept)
        OBVIOUS
      <4> QED BY <2>2, <4>1, FS_Subset, TotalsAreNat
    <3>6. room.cost = CostOf(Residents(swept) \ over)
      BY <3>1 DEF Residency
    <3> HIDE DEF room, over
    <3> QED BY <1>1, <3>4, <3>5, <3>6
  <2> QED BY <2>4, <2>5
<1>6. add_to_pool(m, item).pool = IF \E k \in late : HigherPriority(k, n) THEN m ELSE Inserted(room, item)
  BY DEF add_to_pool, Inserted, Reply
<1>7. PoolInv(Inserted(room, item)) /\ SameParked(Inserted(room, item), room)
  <2>1. item.name \notin Residents(room)
    BY <1>3
  <2> HIDE DEF room
  <2> QED BY <1>3, <1>4, <1>5, <2>1, InsertPool
<1> HIDE DEF room, late
<1> QED BY <1>3, <1>6, <1>7 DEF SameParked

-----------------------------------------------------------------------------
(* Parking.                                                                *)

\* The greatest of finitely many naturals is one of them and bounds the rest.
LEMMA MaxIs ==
  ASSUME NEW T, T \subseteq Nat, T # {}, IsFiniteSet(T)
  PROVE  Max(T) \in T /\ \A k \in T : Max(T) >= k
<1>1. \E h \in T : \A k \in T : h >= k
  BY FiniteHasTop
<1> QED BY <1>1, Zenon DEF Max

\* The least of a set of naturals is one of them.
LEMMA FirstIs ==
  ASSUME NEW T, T \subseteq Nat, T # {}
  PROVE  Min(T) \in T
<1>1. \E h \in T : \A k \in T : h <= k
  BY LeastOf
<1> QED BY <1>1, Zenon DEF Min

\* A sequence has finitely many elements.
LEMMA ToSetFinite ==
  ASSUME NEW X, NEW s \in Seq(X)
  PROVE  IsFiniteSet(ToSet(s)) /\ ToSet(s) \subseteq X
<1>1. DOMAIN s = 1 .. Len(s) /\ Len(s) \in Nat
  OBVIOUS
<1>2. IsFiniteSet(DOMAIN s)
  BY <1>1, FS_Interval
<1>3. s \in [DOMAIN s -> ToSet(s)] /\ \A x \in ToSet(s) : \E k \in DOMAIN s : s[k] = x
  <2>1. s = [k \in DOMAIN s |-> s[k]]
    OBVIOUS
  <2> QED BY <2>1 DEF ToSet
<1>4. s \in Surjection(DOMAIN s, ToSet(s))
  BY <1>3, Zenon DEF Surjection
<1>5. ToSet(s) \subseteq X
  BY DEF ToSet
<1> QED BY <1>2, <1>4, <1>5, FS_Surjection

\* A height lock's bound is a height.
LEMMA BoundIsNat ==
  ASSUME NEW n \in Names, NEW t \in Blocks, NEW peak, peak.height \in Nat \cup {-1},
         NEW l \in ToSet(Bundle[n].locks), l.kind = "height"
  PROVE  Base(l, t, peak) + l.at \in Nat
<1>1. l.at \in Nat
  <2>1. Bundle[n].locks \in Seq([kind : LockKinds, coin : Coins \cup {Absolute}, at : Nat])
    BY PoolAssumption
  <2>2. l \in [kind : LockKinds, coin : Coins \cup {Absolute}, at : Nat]
    BY <2>1, ToSetFinite
  <2> QED BY <2>2
<1>2. RecordHeight(l.coin, t, peak) \in Nat
  <2>1. CASE OnChain(l.coin, t)
    <3>1. \E x \in Path[t] : l.coin \in Adds[x]
      BY <2>1 DEF OnChain, AddedBy
    <3>2. Born(l.coin, t) \in Path[t]
      BY <3>1, Zenon DEF Born
    <3>3. Height[Born(l.coin, t)] \in Nat
      BY <3>2, TreeAssumption
    <3> QED BY <2>1, <3>3 DEF RecordHeight
  <2>2. CASE ~OnChain(l.coin, t)
    BY <2>2 DEF RecordHeight
  <2> QED BY <2>1, <2>2
<1>3. Base(l, t, peak) \in Nat
  BY <1>2 DEF Base, HeightKinds
<1> QED BY <1>1, <1>3

\* A bundle is parked for a height above the peak: its assert height is at
\* least the bound of the lock that failed.
LEMMA ParkedAbove ==
  ASSUME NEW n \in Names, NEW t \in Blocks, NEW peak, peak.height \in Nat \cup {-1},
         check_time_locks(n, t, peak) = "Pending"
  PROVE  /\ effective_timelocks(n, t, peak).height \in Nat
         /\ effective_timelocks(n, t, peak).height > peak.height
<1> DEFINE locks == Bundle[n].locks
           H == {x \in ToSet(locks) : x.kind = "height"}
           T == {0} \cup {Base(l, t, peak) + l.at : l \in H}
           I == {k \in 1 .. Len(locks) : Fails(locks[k], t, peak)}
<1>1. locks \in Seq([kind : LockKinds, coin : Coins \cup {Absolute}, at : Nat])
  BY PoolAssumption
<1>2. IsFiniteSet(H)
  <2>1. IsFiniteSet(ToSet(locks)) /\ H \subseteq ToSet(locks)
    BY <1>1, ToSetFinite
  <2> QED BY <2>1, FS_Subset
<1>3. \A l \in H : Base(l, t, peak) + l.at \in Nat
  BY BoundIsNat
<1>4. T \subseteq Nat /\ T # {} /\ IsFiniteSet(T)
  <2> DEFINE B == {Base(l, t, peak) + l.at : l \in H}
             g == [l \in H |-> Base(l, t, peak) + l.at]
  <2>1. g \in [H -> B] /\ \A x \in B : \E l \in H : g[l] = x
    OBVIOUS
  <2>2. g \in Surjection(H, B)
    <3> HIDE DEF g, B
    <3> QED BY <2>1 DEF Surjection
  <2>3. IsFiniteSet(B)
    <3> HIDE DEF g, B
    <3> QED BY <1>2, <2>2, FS_Surjection
  <2>4. IsFiniteSet({0} \cup B)
    BY <2>3, FS_Singleton, FS_Union
  <2> QED BY <1>3, <2>4
<1>5. effective_timelocks(n, t, peak).height = Max(T)
  BY DEF effective_timelocks
<1>I. I \subseteq Nat \ {0}
  BY <1>1
<1>6. PICK k \in I : locks[k].kind = "height"
  <2>1. I # {} /\ locks[Min(I)].kind = "height"
    <3>1. check_time_locks(n, t, peak) =
            LET i == IF I # {} THEN Min(I) ELSE 0
            IN IF i = 0 THEN "Met"
               ELSE CASE locks[i].kind = "height" -> "Pending"
                      [] locks[i].kind \in {"before_height", "before_seconds"} -> "Expired"
                      [] OTHER -> "TimelockNotMet"
      BY DEF check_time_locks, SelectInSeq
    <3>2. I # {}
      <4> HIDE DEF I
      <4> QED BY <3>1
    <3>3. Min(I) \in I
      <4> HIDE DEF I
      <4> QED BY <1>I, <3>2, FirstIs
    <3>4. Min(I) # 0
      BY <1>I, <3>3
    <3> HIDE DEF I, locks
    <3> QED BY <3>1, <3>2, <3>4
  <2> HIDE DEF I
  <2>2. Min(I) \in I
    BY <1>I, <2>1, FirstIs
  <2> QED BY <2>1, <2>2
<1>7. locks[k] \in H
  BY <1>1, <1>6 DEF ToSet
<1>8. peak.height < Base(locks[k], t, peak) + locks[k].at
  <2>1. Fails(locks[k], t, peak)
    OBVIOUS
  <2> HIDE DEF I, locks
  <2> QED BY <1>6, <2>1 DEF Fails
<1>9. Base(locks[k], t, peak) + locks[k].at \in T
  BY <1>7
<1>10. Max(T) \in T /\ \A x \in T : Max(T) >= x
  <2> HIDE DEF T
  <2> QED BY <1>4, MaxIs
<1>11. Max(T) >= Base(locks[k], t, peak) + locks[k].at /\ Max(T) \in Nat
    /\ Base(locks[k], t, peak) + locks[k].at \in Nat
  <2> HIDE DEF T
  <2> QED BY <1>4, <1>9, <1>10
<1> HIDE DEF T, H, I, locks
<1> QED BY <1>5, <1>8, <1>11

\* park_pending keeps the invariant: at the cap one entry goes for one that
\* comes, and what comes is above the peak.
LEMMA ParkPool ==
  ASSUME NEW m, PoolInv(m), NEW n \in Names, NEW h \in Nat, h > m.peak.height
  PROVE  PoolInv(park_pending(m, n, h)) /\ (Timely(m) => Timely(park_pending(m, n, h)))
<1> DEFINE P == DOMAIN m.pending
           worst == CHOOSE k \in P : \A x \in P : m.pending[x] <= m.pending[k]
           left == IF Cardinality(P) >= PendingCap THEN P \ {worst} ELSE P
           q == [x \in left \cup {n} |-> IF x = n THEN h ELSE m.pending[x]]
           r == park_pending(m, n, h)
<1>1. IsPool(m) /\ Residency(m) /\ Caches(m) /\ RivalFree(m) /\ Parking(m)
  BY DEF PoolInv
<1>2. r = [m EXCEPT !.pending = q]
  BY <1>1 DEF park_pending, IsPool, PoolFields
<1>3. /\ IsPool(r) /\ r.items = m.items /\ r.older = m.older /\ r.index = m.index
      /\ r.cost = m.cost /\ r.fee = m.fee
      /\ r.peak = m.peak /\ r.pending = q /\ r.conflict = m.conflict
      /\ r.conflictCost = m.conflictCost /\ r.retry = m.retry
  <2> HIDE DEF q, r
  <2> QED BY <1>1, <1>2 DEF IsPool, PoolFields
<1>4. P \subseteq Names /\ IsFiniteSet(P) /\ Cardinality(P) <= PendingCap /\ Cardinality(P) \in Nat
      /\ PendingCap \in Nat \ {0}
  BY <1>1, PoolAssumption, FS_CardinalityType DEF Caches
<1>5. left \subseteq P /\ IsFiniteSet(left) /\ Cardinality(left) + 1 <= PendingCap /\ Cardinality(left) \in Nat
  <2>1. CASE Cardinality(P) >= PendingCap
    <3>1. P # {}
      BY <1>4, <2>1, FS_EmptySet
    <3>2. worst \in P
      <4> DEFINE g == [x \in P |-> m.pending[x]]
                 V == {m.pending[x] : x \in P}
      <4>1. V \subseteq Nat /\ V # {}
        BY <1>1, <3>1 DEF Parking
      <4>2. g \in [P -> V] /\ \A v \in V : \E x \in P : g[x] = v
        OBVIOUS
      <4>3. g \in Surjection(P, V)
        <5> HIDE DEF g, V, P
        <5> QED BY <4>2 DEF Surjection
      <4>4. IsFiniteSet(V)
        <5> HIDE DEF g, V, P
        <5> QED BY <1>4, <4>3, FS_Surjection
      <4>5. PICK v \in V : \A w \in V : w <= v
        <5> HIDE DEF V
        <5> QED BY <4>1, <4>4, FiniteHasTop
      <4>6. \E k \in P : \A x \in P : m.pending[x] <= m.pending[k]
        BY <4>5
      <4> QED BY <4>6, Zenon
    <3>3. left = P \ {worst}
      BY <2>1
    <3> HIDE DEF worst, P, left
    <3>4. IsFiniteSet(left) /\ Cardinality(left) = Cardinality(P) - 1
      BY <1>4, <3>2, <3>3, FS_RemoveElement
    <3>5. left \subseteq P
      BY <3>3
    <3>6. Cardinality(left) \in Nat
      BY <3>4, FS_CardinalityType
    <3> QED BY <1>4, <3>4, <3>5, <3>6
  <2>2. CASE ~(Cardinality(P) >= PendingCap)
    BY <1>4, <2>2
  <2> QED BY <2>1, <2>2
<1>6. DOMAIN q = left \cup {n} /\ q[n] = h /\ \A x \in left : x # n => q[x] = m.pending[x]
  <2> HIDE DEF left
  <2> QED OBVIOUS
<1> HIDE DEF q, r, left, worst
<1>7. Caches(r)
  <2>1. DOMAIN q \subseteq Names
    BY <1>4, <1>5, <1>6
  <2>2. IsFiniteSet(left \cup {n}) /\ Cardinality(left \cup {n}) <= Cardinality(left) + 1
    <3>1. IsFiniteSet(left) /\ Cardinality(left) \in Nat
      BY <1>5
    <3>2. /\ IsFiniteSet(left \cup {n})
          /\ Cardinality(left \cup {n}) = IF n \in left THEN Cardinality(left) ELSE Cardinality(left) + 1
      BY <3>1, FS_AddElement
    <3> QED BY <3>1, <3>2
  <2>3. IsFiniteSet(DOMAIN q) /\ Cardinality(DOMAIN q) <= PendingCap
    <3>1. Cardinality(left \cup {n}) \in Nat
      BY <2>2, FS_CardinalityType
    <3> HIDE DEF P
    <3> QED BY <1>4, <1>5, <1>6, <2>2, <3>1
  <2> HIDE DEF P
  <2> QED BY <1>1, <1>3, <2>1, <2>3 DEF Caches
<1>8. Parking(r) /\ (Timely(m) => Timely(r))
  <2>1. ASSUME NEW x \in DOMAIN q
        PROVE  q[x] \in Nat
    <3>1. CASE x = n
      BY <1>6, <3>1
    <3>2. CASE x # n
      <4>1. x \in left /\ q[x] = m.pending[x] /\ x \in DOMAIN m.pending
        BY <1>5, <1>6, <3>2
      <4> QED BY <1>1, <4>1 DEF Parking
    <3> QED BY <3>1, <3>2
  <2>2. ASSUME NEW x \in DOMAIN q, Timely(m)
        PROVE  q[x] > m.peak.height \/ (m.retry.stage = "parked" /\ x \in m.retry.names)
    <3>1. CASE x = n
      BY <1>6, <3>1
    <3>2. CASE x # n
      <4>1. x \in left /\ q[x] = m.pending[x] /\ x \in DOMAIN m.pending
        BY <1>5, <1>6, <3>2
      <4> QED BY <2>2, <4>1 DEF Timely
    <3> QED BY <3>1, <3>2
  <2> QED BY <1>1, <1>3, <2>1, <2>2 DEF Parking, Timely
<1>9. Residency(r) /\ RivalFree(r)
  BY <1>1, <1>3 DEF Residency, RivalFree, Residents
<1>10. PoolInv(r)
  BY <1>3, <1>7, <1>8, <1>9 DEF PoolInv
<1> QED BY <1>8, <1>10 DEF r

-----------------------------------------------------------------------------
(* The conflict cache.                                                     *)

Distinct(s) == \A k, l \in DOMAIN s : s[k] = s[l] => k = l

\* A sequence of distinct names falls into a front and a rest.
LEMMA CutInTwo ==
  ASSUME NEW s \in Seq(Names), Distinct(s), NEW k \in 1 .. Len(s) + 1
  PROVE  LET front == SubSeq(s, 1, k - 1)
             rest == SubSeq(s, k, Len(s))
         IN /\ rest \in Seq(Names) /\ Distinct(rest)
            /\ ToSet(s) = ToSet(front) \cup ToSet(rest) /\ ToSet(front) \cap ToSet(rest) = {}
<1> DEFINE front == SubSeq(s, 1, k - 1)
           rest == SubSeq(s, k, Len(s))
           L == Len(s)
<1>1. L \in Nat /\ k \in Nat \ {0} /\ k <= L + 1 /\ DOMAIN s = 1 .. L /\ \A x \in 1 .. L : s[x] \in Names
  OBVIOUS
<1>2. /\ front \in Seq(Names) /\ Len(front) = k - 1
      /\ \A x \in 1 .. k - 1 : front[x] = s[x]
  <2>1. \A x \in 1 .. k - 1 : s[x] \in Names
    BY <1>1
  <2>2. 1 \in Int /\ k - 1 \in Int
    BY <1>1
  <2>3. /\ SubSeq(s, 1, k - 1) \in Seq(Names)
        /\ Len(SubSeq(s, 1, k - 1)) = IF 1 <= k - 1 THEN (k - 1) - 1 + 1 ELSE 0
        /\ \A x \in 1 .. (k - 1) - 1 + 1 : SubSeq(s, 1, k - 1)[x] = s[1 + x - 1]
    BY <2>1, <2>2, SubSeqProperties
  <2> QED BY <1>1, <2>3
<1>3. /\ rest \in Seq(Names) /\ Len(rest) = L - k + 1
      /\ \A x \in 1 .. L - k + 1 : rest[x] = s[k + x - 1]
  <2>1. \A x \in k .. L : s[x] \in Names
    BY <1>1
  <2>2. k \in Int /\ L \in Int
    BY <1>1
  <2>3. /\ SubSeq(s, k, L) \in Seq(Names)
        /\ Len(SubSeq(s, k, L)) = IF k <= L THEN L - k + 1 ELSE 0
        /\ \A x \in 1 .. L - k + 1 : SubSeq(s, k, L)[x] = s[k + x - 1]
    <3> HIDE DEF L
    <3> QED BY <2>1, <2>2, SubSeqProperties
  <2> QED BY <1>1, <2>3
<1>4. DOMAIN front = 1 .. k - 1 /\ DOMAIN rest = 1 .. L - k + 1
  <2>1. DOMAIN front = 1 .. Len(front) /\ DOMAIN rest = 1 .. Len(rest)
    <3> HIDE DEF front, rest
    <3> QED BY <1>2, <1>3
  <2> HIDE DEF front, rest, L
  <2> QED BY <1>2, <1>3, <2>1
<1>5. ToSet(front) = {s[x] : x \in 1 .. k - 1}
  <2> HIDE DEF front, rest, L
  <2> QED BY <1>2, <1>4 DEF ToSet
<1>6. ToSet(rest) = {s[x] : x \in k .. L}
  <2> HIDE DEF front, rest, L
  <2>1. ASSUME NEW y \in ToSet(rest) PROVE y \in {s[x] : x \in k .. L}
    <3>1. PICK x \in 1 .. L - k + 1 : y = rest[x]
      BY <1>4, <2>1 DEF ToSet
    <3>2. k + x - 1 \in k .. L /\ y = s[k + x - 1]
      BY <1>1, <1>3, <3>1
    <3> QED BY <3>2
  <2>2. ASSUME NEW y \in {s[x] : x \in k .. L} PROVE y \in ToSet(rest)
    <3>1. PICK x \in k .. L : y = s[x]
      BY <2>2
    <3>2. x - k + 1 \in 1 .. L - k + 1 /\ k + (x - k + 1) - 1 = x
      BY <1>1
    <3>3. rest[x - k + 1] = s[x]
      BY <1>3, <3>2
    <3> QED BY <1>4, <3>1, <3>2, <3>3 DEF ToSet
  <2> QED BY <2>1, <2>2
<1>7. ToSet(s) = {s[x] : x \in 1 .. L}
  BY <1>1 DEF ToSet
<1>8. Distinct(rest)
  <2> HIDE DEF front, rest, L
  <2> SUFFICES ASSUME NEW x \in 1 .. L - k + 1, NEW y \in 1 .. L - k + 1, rest[x] = rest[y] PROVE x = y
    BY <1>4 DEF Distinct
  <2>1. s[k + x - 1] = s[k + y - 1] /\ k + x - 1 \in 1 .. L /\ k + y - 1 \in 1 .. L
    BY <1>1, <1>3
  <2>2. k + x - 1 = k + y - 1
    BY <1>1, <2>1 DEF Distinct
  <2> QED BY <1>1, <2>2
<1>9. ToSet(s) = ToSet(front) \cup ToSet(rest)
  <2> HIDE DEF front, rest, L
  <2>1. 1 .. L = (1 .. k - 1) \cup (k .. L)
    BY <1>1
  <2> QED BY <1>5, <1>6, <1>7, <2>1
<1>10. ToSet(front) \cap ToSet(rest) = {}
  <2> HIDE DEF front, rest, L
  <2> SUFFICES ASSUME NEW x \in 1 .. k - 1, NEW y \in k .. L, s[x] = s[y] PROVE FALSE
    BY <1>5, <1>6
  <2>1. x \in 1 .. L /\ y \in 1 .. L
    BY <1>1
  <2>2. x = y
    BY <1>1, <2>1 DEF Distinct
  <2> QED BY <1>1, <2>2
<1> QED BY <1>3, <1>8, <1>9, <1>10

\* cache_conflict keeps the invariant: the cost is that of what is kept.
LEMMA ConflictPool ==
  ASSUME NEW m, PoolInv(m), NEW n \in Names
  PROVE  PoolInv(cache_conflict(m, n)) /\ SameParked(cache_conflict(m, n), m)
<1>1. IsPool(m) /\ Residency(m) /\ Caches(m) /\ RivalFree(m) /\ Parking(m)
  BY DEF PoolInv
<1>2. CASE n \in ToSet(m.conflict)
  BY <1>2 DEF cache_conflict, SameParked
<1>3. CASE n \notin ToSet(m.conflict)
  <2> DEFINE s == Append(m.conflict, n)
             Kept(x) == SubSeq(s, x, Len(s))
             K == {x \in 1 .. Len(s) + 1 : /\ CostOf(ToSet(Kept(x))) <= MaxBlockCost
                                           /\ Len(Kept(x)) <= ConflictCap}
             k == Min(K)
             r == cache_conflict(m, n)
  <2>1. m.conflict \in Seq(Names) /\ Distinct(m.conflict)
    BY <1>1 DEF Caches, Distinct
  <2>2. s \in Seq(Names) /\ Distinct(s) /\ ToSet(s) = ToSet(m.conflict) \cup {n}
    <3> DEFINE c == m.conflict
               L == Len(c)
    <3>1. L \in Nat /\ DOMAIN c = 1 .. L
      BY <2>1
    <3>2. /\ s \in Seq(Names) /\ DOMAIN s = 1 .. L + 1
          /\ s[L + 1] = n /\ \A x \in 1 .. L : s[x] = c[x]
      BY <2>1
    <3>3. \A x \in 1 .. L : c[x] # n
      BY <1>3, <3>1 DEF ToSet
    <3> HIDE DEF s, L
    <3>4. Distinct(s)
      <4> SUFFICES ASSUME NEW x \in 1 .. L + 1, NEW y \in 1 .. L + 1, s[x] = s[y] PROVE x = y
        BY <3>2 DEF Distinct
      <4>1. CASE x \in 1 .. L /\ y \in 1 .. L
        BY <2>1, <3>1, <3>2, <4>1 DEF Distinct
      <4>2. CASE x = L + 1
        BY <3>1, <3>2, <3>3, <4>2
      <4>3. CASE y = L + 1
        BY <3>1, <3>2, <3>3, <4>3
      <4> QED BY <3>1, <4>1, <4>2, <4>3
    <3>5. ToSet(s) = ToSet(c) \cup {n}
      <4>1. ToSet(s) = {s[x] : x \in 1 .. L + 1} /\ ToSet(c) = {c[x] : x \in 1 .. L}
        BY <3>1, <3>2 DEF ToSet
      <4>2. 1 .. L + 1 = (1 .. L) \cup {L + 1}
        BY <3>1
      <4> QED BY <3>2, <4>1, <4>2
    <3> QED BY <3>2, <3>4, <3>5
  <2> HIDE DEF s
  <2>3. Len(s) \in Nat /\ MaxBlockCost \in Nat /\ ConflictCap \in Nat
    BY <2>2, PoolAssumption
  <2>4. K # {} /\ K \subseteq Nat
    <3>1. Kept(Len(s) + 1) = <<>>
      BY <2>3, SubSeqEmpty
    <3>2. ToSet(<<>>) = {} /\ Len(<<>>) = 0
      BY DEF ToSet
    <3>3. Len(s) + 1 \in K
      <4>1. CostOf(ToSet(Kept(Len(s) + 1))) = 0 /\ Len(Kept(Len(s) + 1)) = 0
        <5> HIDE DEF Kept
        <5> QED BY <3>1, <3>2, TotalsOfFew
      <4>2. Len(s) + 1 \in 1 .. Len(s) + 1 /\ 0 <= MaxBlockCost /\ 0 <= ConflictCap
        BY <2>3
      <4> HIDE DEF Kept
      <4> QED BY <4>1, <4>2
    <3> QED BY <2>3, <3>3
  <2>5. k \in K
    <3> HIDE DEF K
    <3> QED BY <2>4, FirstIs
  <2>6. k \in 1 .. Len(s) + 1 /\ CostOf(ToSet(Kept(k))) <= MaxBlockCost
    <3> HIDE DEF k
    <3> QED BY <2>5
  <2>7. r = [m EXCEPT !.conflict = Kept(k),
                      !.conflictCost = @ + Bundle[n].cost - CostOf(ToSet(SubSeq(s, 1, k - 1)))]
    BY <1>3 DEF cache_conflict, s
  <2> HIDE DEF k, K
  <2> DEFINE front == ToSet(SubSeq(s, 1, k - 1))
             rest == ToSet(Kept(k))
  <2>8. Kept(k) \in Seq(Names) /\ Distinct(Kept(k)) /\ ToSet(s) = front \cup rest /\ front \cap rest = {}
    BY <2>2, <2>6, CutInTwo
  <2>9. IsFiniteSet(ToSet(s)) /\ ToSet(s) \subseteq Names
    BY <2>2, ToSetFinite
  <2>10. /\ IsPool(r) /\ r.items = m.items /\ r.older = m.older /\ r.index = m.index
         /\ r.cost = m.cost /\ r.fee = m.fee
         /\ r.peak = m.peak /\ r.pending = m.pending /\ r.conflict = Kept(k)
         /\ r.conflictCost = m.conflictCost + Bundle[n].cost - CostOf(front) /\ r.retry = m.retry
    <3> HIDE DEF r, front, Kept
    <3> QED BY <1>1, <2>7 DEF IsPool, PoolFields, front
  <2>11. r.conflictCost = CostOf(rest)
    <3> DEFINE C == ToSet(m.conflict)
    <3>1. IsFiniteSet(C) /\ C \subseteq Names /\ IsFiniteSet({n}) /\ {n} \subseteq Names /\ C \cap {n} = {}
      <4>1. IsFiniteSet(C) /\ C \subseteq Names
        BY <2>1, ToSetFinite
      <4> QED BY <1>3, <4>1, FS_Singleton
    <3>2. m.conflictCost = CostOf(C)
      BY <1>1 DEF Caches
    <3>3. CostOf({n}) = Bundle[n].cost /\ ToSet(s) = C \cup {n}
      BY <2>2, TotalsOfFew
    <3>4. IsFiniteSet(front) /\ IsFiniteSet(rest) /\ front \subseteq Names /\ rest \subseteq Names
      <4>1. front \subseteq ToSet(s) /\ rest \subseteq ToSet(s)
        BY <2>8
      <4> HIDE DEF front, rest
      <4> QED BY <2>9, <4>1, FS_Subset
    <3> HIDE DEF C, front, rest, r
    <3>5. CostOf(C \cup {n}) = CostOf(C) + CostOf({n})
      BY <3>1, TotalsSplit
    <3>6. CostOf(front \cup rest) = CostOf(front) + CostOf(rest)
      BY <2>8, <3>4, TotalsSplit
    <3>7. CostOf(C) \in Nat /\ CostOf({n}) \in Nat /\ CostOf(front) \in Nat /\ CostOf(rest) \in Nat
      BY <3>1, <3>4, TotalsAreNat
    <3>8. CostOf(C) + CostOf({n}) = CostOf(front) + CostOf(rest)
      BY <2>8, <3>3, <3>5, <3>6
    <3> QED BY <2>10, <3>2, <3>3, <3>7, <3>8
  <2> HIDE DEF r, front, Kept
  <2>12. Caches(r)
    <3>1. r.conflictCost <= MaxBlockCost
      BY <2>6, <2>11
    <3> QED BY <1>1, <2>8, <2>10, <2>11, <3>1 DEF Caches, Distinct
  <2>13. Parking(r) /\ Residency(r) /\ RivalFree(r)
    BY <1>1, <2>10 DEF Residency, RivalFree, Residents, Parking
  <2>14. PoolInv(r) /\ SameParked(r, m)
    BY <2>10, <2>12, <2>13 DEF PoolInv, SameParked
  <2> QED BY <2>14 DEF r
<1> QED BY <1>2, <1>3

-----------------------------------------------------------------------------
(* Admission.                                                              *)

\* Whoever is not found to conflict may stay beside the newcomer.
LEMMA ConflictsComplete ==
  ASSUME NEW m, Residency(m), NEW n \in Names, NEW item, item.name = n,
         NEW i \in m.items, i.name \notin Conflicts(m, n, item.lineage)
  PROVE  Compatible(i, item)
<1> SUFFICES ASSUME NEW c \in Bundle[i.name].spends \cap Bundle[n].spends,
                    c \notin DOMAIN i.lineage \cup DOMAIN item.lineage
             PROVE  /\ c \in Bundle[i.name].dedup \cap Bundle[n].dedup
                    /\ Bundle[i.name].solution[c] = Bundle[n].solution[c]
  BY DEF Compatible
<1>1. <<c, i.name>> \in m.index
  <2>1. Key(i, c) = c
    BY DEF Key
  <2>2. <<c, i.name>> \in index_keys(i)
    BY <2>1 DEF index_keys
  <2>3. m.index = UNION {index_keys(x) : x \in m.items}
    BY DEF Residency
  <2> QED BY <2>2, <2>3
<1> DEFINE e == IF c \in Bundle[i.name].spends THEN c
                ELSE CHOOSE x \in DOMAIN i.lineage : i.lineage[x] = c
           Clash == \/ c \notin DOMAIN item.lineage /\ c \notin Bundle[n].dedup
                    \/ c \in DOMAIN item.lineage /\ e \notin DOMAIN i.lineage
                    \/ c \in Bundle[n].dedup /\ e \notin Bundle[i.name].dedup
                    \/ c \in Bundle[n].dedup /\ Bundle[n].solution[c] # Bundle[i.name].solution[e]
<1>2. ~Clash
  <2> SUFFICES ASSUME Clash PROVE i.name \in Conflicts(m, n, item.lineage)
    OBVIOUS
  <2> QED BY <1>1 DEF Conflicts
<1>3. e = c
  OBVIOUS
<1> HIDE DEF e
<1> QED BY <1>2, <1>3

\* What passes the early returns costs something, and no more than a bundle may.
LEMMA NotRefused ==
  ASSUME NEW m, NEW n \in Names, NEW t, SelectInSeq(Refusals(m, n, t), LAMBDA r : r.when) = 0
  PROVE  Bundle[n].cost > 0 /\ Bundle[n].cost <= MaxTxCost
<1> DEFINE q == Refusals(m, n, t)
           I == {k \in 1 .. Len(q) : q[k].when}
<1>1. Len(q) = 8 /\ (Bundle[n].cost = 0 \/ Bundle[n].cost > MaxTxCost => q[2].when)
  BY DEF Refusals
<1>2. (IF I # {} THEN Min(I) ELSE 0) = 0
  BY DEF SelectInSeq
<1> HIDE DEF q
<1>3. I = {}
  <2> SUFFICES ASSUME I # {} PROVE FALSE
    OBVIOUS
  <2>1. I \subseteq Nat \ {0}
    BY <1>1
  <2>2. Min(I) \in I /\ Min(I) = 0
    <3> HIDE DEF I
    <3> QED BY <1>2, <2>1, FirstIs
  <2> QED BY <2>1, <2>2
<1>4. ~q[2].when
  BY <1>1, <1>3
<1>5. Bundle[n].cost \in Nat /\ MaxTxCost \in Nat
  BY PoolAssumption DEF MaxTxCost
<1>6. ~(Bundle[n].cost = 0 \/ Bundle[n].cost > MaxTxCost)
  BY <1>1, <1>4
<1> QED BY <1>5, <1>6

\* Admission keeps the invariant, whatever its verdict.
LEMMA AdmitPool ==
  ASSUME NEW m, PoolInv(m), NEW n \in Names, NEW t \in Blocks
  PROVE  PoolInv(admit(m, n, t).pool) /\ (Timely(m) => Timely(admit(m, n, t).pool))
<1> DEFINE q == Refusals(m, n, t)
           first == SelectInSeq(q, LAMBDA r : r.when)
           verdict == check_time_locks(n, t, m.peak)
           item == [name |-> n, lineage |-> Lineage(n, t),
                    locks |-> effective_timelocks(n, t, m.peak),
                    height_added |-> m.peak.height, on |-> t]
           rivals == Conflicts(m, n, item.lineage)
           Out == admit(m, n, t).pool
<1>1. Out = IF n \in Residents(m) THEN m
            ELSE IF first # 0 THEN m
            ELSE IF verdict = "Pending" THEN park_pending(m, n, item.locks.height)
            ELSE IF verdict # "Met" THEN m
            ELSE IF rivals # {} /\ ~can_replace(m, n, rivals, item) THEN cache_conflict(m, n)
            ELSE add_to_pool(remove(m, rivals), item).pool
  BY DEF admit, Reply
<1> DEFINE Good(x) == PoolInv(x) /\ (Timely(m) => Timely(x))
<1>2. ASSUME verdict = "Pending" PROVE Good(park_pending(m, n, item.locks.height))
  <2>1. m.peak.height \in Nat \cup {-1}
    BY DEF PoolInv, Parking
  <2>2. item.locks.height \in Nat /\ item.locks.height > m.peak.height
    BY <1>2, <2>1, ParkedAbove
  <2> HIDE DEF item
  <2> QED BY <2>2, ParkPool
<1>3. Good(cache_conflict(m, n))
  BY ConflictPool DEF SameParked, Timely
<1>4. ASSUME n \notin Residents(m), first = 0 PROVE Good(add_to_pool(remove(m, rivals), item).pool)
  <2>1. Bundle[n].cost > 0 /\ Bundle[n].cost <= MaxTxCost
    BY <1>4, NotRefused
  <2>2. item.name = n /\ IsItem(item)
    BY <2>1 DEF IsItem, ItemFields
  <2> HIDE DEF item
  <2> DEFINE left == remove(m, rivals)
  <2>3. PoolInv(left) /\ Residents(left) = Residents(m) \ rivals /\ SameParked(left, m)
    <3> HIDE DEF rivals
    <3> QED BY RemovePool
  <2>4. left.items = m.items \ {i \in m.items : i.name \in rivals}
    <3>1. IsPool(m)
      BY DEF PoolInv
    <3> HIDE DEF rivals
    <3> QED BY <3>1, RemoveItems
  <2>5. \A i \in left.items : Compatible(i, item)
    <3>1. Residency(m)
      BY DEF PoolInv
    <3>2. \A i \in left.items : i \in m.items /\ i.name \notin rivals
      BY <2>4
    <3> QED BY <2>2, <3>1, <3>2, ConflictsComplete
  <2>6. item.name \notin Residents(left)
    BY <1>4, <2>2, <2>3
  <2> HIDE DEF left
  <2>7. PoolInv(add_to_pool(left, item).pool) /\ SameParked(add_to_pool(left, item).pool, left)
    BY <2>1, <2>2, <2>3, <2>5, <2>6, AddPool
  <2> DEFINE x == add_to_pool(left, item).pool
  <2> HIDE DEF x
  <2>8. Good(x)
    BY <2>3, <2>7 DEF SameParked, Timely, x
  <2> QED BY <2>8 DEF left, x
<1>5. Good(m)
  OBVIOUS
<1> HIDE DEF q, first, verdict, item, rivals, Out, Good
<1>6. Good(Out)
  BY <1>1, <1>2, <1>3, <1>4, <1>5
<1> QED BY <1>6 DEF Out, Good

-----------------------------------------------------------------------------
(* A new peak, and a reorg.                                                *)

\* The seen list is nobody's business.
LEMMA SeenPool ==
  ASSUME NEW m, PoolInv(m), NEW x
  PROVE  PoolInv([m EXCEPT !.seen = x]) /\ SameParked([m EXCEPT !.seen = x], m)
<1> DEFINE r == [m EXCEPT !.seen = x]
<1>1. IsPool(m)
  BY DEF PoolInv
<1>2. /\ IsPool(r) /\ r.items = m.items /\ r.older = m.older /\ r.index = m.index
      /\ r.cost = m.cost /\ r.fee = m.fee
      /\ r.peak = m.peak /\ r.pending = m.pending /\ r.conflict = m.conflict
      /\ r.conflictCost = m.conflictCost /\ r.retry = m.retry
  BY <1>1 DEF IsPool, PoolFields
<1> HIDE DEF r
<1>3. PoolInv(r) /\ SameParked(r, m)
  BY <1>2 DEF PoolInv, Residency, Caches, RivalFree, Residents, Parking, SameParked
<1> QED BY <1>3 DEF r

\* The two operations on the seen list.
LEMMA SeenOps ==
  ASSUME NEW m, PoolInv(m), NEW names, NEW n
  PROVE  /\ PoolInv(remove_seen(m, names)) /\ SameParked(remove_seen(m, names), m)
         /\ PoolInv(add_seen(m, n)) /\ SameParked(add_seen(m, n), m)
<1>1. PoolInv(remove_seen(m, names)) /\ SameParked(remove_seen(m, names), m)
  BY SeenPool DEF remove_seen
<1>2. PoolInv(add_seen(m, n)) /\ SameParked(add_seen(m, n), m)
  <2>1. CASE n \in ToSet(m.seen)
    BY <2>1 DEF add_seen, SameParked
  <2>2. CASE n \notin ToSet(m.seen)
    <3> DEFINE x == IF Len(m.seen) >= SeenCap THEN Append(Tail(m.seen), n) ELSE Append(m.seen, n)
    <3>1. add_seen(m, n) = [m EXCEPT !.seen = x]
      BY <2>2 DEF add_seen
    <3> HIDE DEF x
    <3>2. PoolInv([m EXCEPT !.seen = x]) /\ SameParked([m EXCEPT !.seen = x], m)
      BY SeenPool, Zenon
    <3> QED BY <3>1, <3>2, Zenon
  <2> QED BY <2>1, <2>2
<1> QED BY <1>1, <1>2

\* Moving the lineages on keeps the invariant: names, costs and the sets of
\* fast-forward spends stay, and the index follows.
LEMMA RebasePool ==
  ASSUME NEW m, PoolInv(m), NEW lineage, \A i \in m.items : DOMAIN lineage[i] = DOMAIN i.lineage
  PROVE  PoolInv(Rebase(m, lineage)) /\ SameParked(Rebase(m, lineage), m)
<1> DEFINE Moved(i) == [i EXCEPT !.lineage = lineage[i]]
           r == Rebase(m, lineage)
           g == [i \in m.items |-> Moved(i)]
<1>0. IsPool(m) /\ Residency(m) /\ Caches(m) /\ RivalFree(m) /\ Parking(m)
  BY DEF PoolInv
<1>1. /\ IsPool(r)
      /\ r.items = {Moved(i) : i \in m.items}
      /\ r.index = (m.index \ UNION {index_keys(i) : i \in m.items})
                      \cup UNION {index_keys(Moved(i)) : i \in m.items}
      /\ r.older = m.older /\ r.cost = m.cost /\ r.fee = m.fee
      /\ r.peak = m.peak /\ r.pending = m.pending /\ r.conflict = m.conflict
      /\ r.conflictCost = m.conflictCost /\ r.retry = m.retry
  BY <1>0 DEF IsPool, PoolFields, Rebase
<1>2. \A i \in m.items : /\ IsItem(Moved(i)) /\ Moved(i).name = i.name
                         /\ DOMAIN Moved(i).lineage = DOMAIN i.lineage
  <2> SUFFICES ASSUME NEW i \in m.items
               PROVE  /\ IsItem(Moved(i)) /\ Moved(i).name = i.name
                      /\ Moved(i).lineage = lineage[i]
    OBVIOUS
  <2>1. IsItem(i)
    BY <1>0 DEF Residency
  <2> QED BY <2>1 DEF IsItem, ItemFields
<1> HIDE DEF r
<1>3. g \in [m.items -> r.items] /\ \A x \in r.items : \E i \in m.items : g[i] = x
  BY <1>1
<1> HIDE DEF Moved
<1>4. IsFiniteSet(r.items)
  <2>1. g \in Surjection(m.items, r.items)
    <3> HIDE DEF g
    <3> QED BY <1>3 DEF Surjection
  <2>2. IsFiniteSet(m.items)
    BY <1>0 DEF Residency
  <2> HIDE DEF g
  <2> QED BY <2>1, <2>2, FS_Surjection
<1>5. Residents(r) = Residents(m)
  BY <1>1, <1>2 DEF Residents
<1>6. r.index = UNION {index_keys(i) : i \in r.items}
  <2>1. m.index = UNION {index_keys(i) : i \in m.items}
    BY <1>0 DEF Residency
  <2>2. r.index = UNION {index_keys(Moved(i)) : i \in m.items}
    BY <1>1, <2>1
  <2> QED BY <1>1, <2>2
<1>7. \A i \in r.items : IsItem(i)
  BY <1>1, <1>2
<1>8. \A i, j \in r.items : i.name = j.name => i = j
  <2>1. \A i, j \in m.items : i.name = j.name => i = j
    BY <1>0 DEF Residency
  <2> QED BY <1>1, <1>2, <2>1
<1>9. Residency(r)
  BY <1>0, <1>1, <1>4, <1>5, <1>6, <1>7, <1>8 DEF Residency
<1>10. Caches(r) /\ Parking(r)
  BY <1>0, <1>1, CachesFrame
<1>11. RivalFree(r)
  <2> SUFFICES ASSUME NEW i \in m.items, NEW j \in m.items PROVE Compatible(Moved(i), Moved(j))
    BY <1>1 DEF RivalFree
  <2>1. Compatible(i, j)
    BY <1>0 DEF RivalFree
  <2> QED BY <1>2, <2>1 DEF Compatible
<1>12. PoolInv(r) /\ SameParked(r, m)
  BY <1>1, <1>9, <1>10, <1>11 DEF PoolInv, SameParked
<1> QED BY <1>12 DEF r

\* A block's spends.
LEMMA SpentPool ==
  ASSUME NEW m, PoolInv(m), NEW spent, NEW t
  PROVE  PoolInv(ApplySpent(m, spent, t)) /\ SameParked(ApplySpent(m, spent, t), m)
<1> DEFINE Hit(item, c) == Key(item, c) \in spent /\ <<Key(item, c), item.name>> \in m.index
           Dead(item) == \E c \in Bundle[item.name].spends :
             /\ Hit(item, c)
             /\ c \in DOMAIN item.lineage => get_unspent_lineage_info(Puzzle[c], t) = NoCoin
           dead == {i.name : i \in {x \in m.items : Dead(x)}}
           moved == [item \in m.items |-> [c \in DOMAIN item.lineage |->
             IF Hit(item, c) THEN get_unspent_lineage_info(Puzzle[c], t) ELSE item.lineage[c]]]
<1>1. ApplySpent(m, spent, t) = remove_seen(Rebase(remove(m, dead), moved), dead)
  BY DEF ApplySpent
<1>2. \A i \in m.items : DOMAIN moved[i] = DOMAIN i.lineage
  OBVIOUS
<1> HIDE DEF dead, moved
<1>3. PoolInv(remove(m, dead)) /\ SameParked(remove(m, dead), m)
  BY RemovePool
<1>4. remove(m, dead).items \subseteq m.items
  <2>1. IsPool(m)
    BY DEF PoolInv
  <2>2. remove(m, dead).items = m.items \ {i \in m.items : i.name \in dead}
    BY <2>1, RemoveItems
  <2> QED BY <2>2
<1>5. /\ PoolInv(Rebase(remove(m, dead), moved))
      /\ SameParked(Rebase(remove(m, dead), moved), remove(m, dead))
  BY <1>2, <1>3, <1>4, RebasePool
<1> QED BY <1>1, <1>3, <1>5, SeenOps DEF SameParked

\* A reorg landing.
LEMMA RevalidatePool ==
  ASSUME NEW m, PoolInv(m), NEW t
  PROVE  PoolInv(revalidate_for_reorg(m, t)) /\ SameParked(revalidate_for_reorg(m, t), m)
<1> DEFINE Dead(item) == \E c \in Bundle[item.name].spends :
             IF ~OnChain(c, t) THEN c \notin Bundle[item.name].creates
             ELSE IF c \in DOMAIN item.lineage THEN get_unspent_lineage_info(Puzzle[c], t) = NoCoin
             ELSE SpentOn(c, t)
           moved == [item \in m.items |-> [c \in DOMAIN item.lineage |->
             IF OnChain(c, t) THEN get_unspent_lineage_info(Puzzle[c], t) ELSE item.lineage[c]]]
           dead == {i.name : i \in {x \in m.items : Dead(x)}}
<1>1. revalidate_for_reorg(m, t) = [Rebase(remove(m, dead), moved) EXCEPT !.seen = <<>>]
  BY DEF revalidate_for_reorg
<1>2. \A i \in m.items : DOMAIN moved[i] = DOMAIN i.lineage
  OBVIOUS
<1> HIDE DEF dead, moved
<1>3. PoolInv(remove(m, dead)) /\ SameParked(remove(m, dead), m)
  BY RemovePool
<1>4. remove(m, dead).items \subseteq m.items
  <2>1. IsPool(m)
    BY DEF PoolInv
  <2>2. remove(m, dead).items = m.items \ {i \in m.items : i.name \in dead}
    BY <2>1, RemoveItems
  <2> QED BY <2>2
<1>5. /\ PoolInv(Rebase(remove(m, dead), moved))
      /\ SameParked(Rebase(remove(m, dead), moved), remove(m, dead))
  BY <1>2, <1>3, <1>4, RebasePool
<1> QED BY <1>1, <1>3, <1>5, SeenPool DEF SameParked

\* A new peak: whatever of the parked bundles it reaches is taken up for retry.
LEMMA PeakPool ==
  ASSUME NEW m, PoolInv(m), NEW peak, peak.height \in Nat \cup {-1}, NEW spent, NEW t
  PROVE  PoolInv(new_peak(m, peak, spent, t)) /\ Timely(new_peak(m, peak, spent, t))
<1> DEFINE at == [m EXCEPT !.peak = peak]
           gone == Expired(at)
           left == ApplySpent(remove(at, gone), spent, t)
           r == [left EXCEPT !.retry = [stage |-> "parked", names |-> Due(left)]]
<1>1. PoolInv(at)
  <2>1. IsPool(m)
    BY DEF PoolInv
  <2>2. /\ IsPool(at) /\ at.items = m.items /\ at.older = m.older /\ at.index = m.index
        /\ at.cost = m.cost /\ at.fee = m.fee
        /\ at.peak = peak /\ at.pending = m.pending /\ at.conflict = m.conflict
        /\ at.conflictCost = m.conflictCost /\ at.retry = m.retry
    BY <2>1 DEF IsPool, PoolFields
  <2> HIDE DEF at
  <2> QED BY <2>2 DEF PoolInv, Residency, Caches, RivalFree, Residents, Parking
<1> HIDE DEF at, gone
<1>2. PoolInv(remove(at, gone))
  BY <1>1, RemovePool
<1>3. PoolInv(left)
  BY <1>2, SpentPool
<1>4. new_peak(m, peak, spent, t) = r
  BY DEF new_peak, at, gone
<1> HIDE DEF left
<1>5. /\ IsPool(r) /\ r.items = left.items /\ r.older = left.older /\ r.index = left.index
      /\ r.cost = left.cost /\ r.fee = left.fee
      /\ r.peak = left.peak /\ r.pending = left.pending /\ r.conflict = left.conflict
      /\ r.conflictCost = left.conflictCost
      /\ r.retry = [stage |-> "parked", names |-> Due(left)]
  <2>1. IsPool(left)
    BY <1>3 DEF PoolInv
  <2> QED BY <2>1 DEF IsPool, PoolFields
<1>6. Due(left) \subseteq Names
  BY <1>3 DEF PoolInv, Caches, Due
<1> HIDE DEF r
<1>7. Parking(r) /\ Timely(r)
  <2>1. Parking(left)
    BY <1>3 DEF PoolInv
  <2>2. Parking(r)
    BY <1>5, <1>6, <2>1 DEF Parking
  <2>3. \A n \in DOMAIN left.pending : left.pending[n] > left.peak.height \/ n \in Due(left)
    BY <2>1 DEF Parking, Due
  <2> QED BY <1>5, <2>2, <2>3 DEF Timely
<1>8. Residency(r) /\ Caches(r) /\ RivalFree(r)
  BY <1>3, <1>5 DEF PoolInv, Residency, Caches, RivalFree, Residents
<1>9. PoolInv(r)
  BY <1>5, <1>7, <1>8 DEF PoolInv
<1> QED BY <1>4, <1>7, <1>9

\* Draining the conflict cache, with no parked bundle left to retry.
LEMMA DrainPool ==
  ASSUME NEW m, PoolInv(m), Timely(m), m.retry.names = {}
  PROVE  PoolInv(drain_conflict(m)) /\ Timely(drain_conflict(m))
<1> DEFINE r == drain_conflict(m)
<1>1. IsPool(m)
  BY DEF PoolInv
<1>2. /\ IsPool(r) /\ r.items = m.items /\ r.older = m.older /\ r.index = m.index
      /\ r.cost = m.cost /\ r.fee = m.fee
      /\ r.peak = m.peak /\ r.pending = m.pending /\ r.conflict = <<>>
      /\ r.conflictCost = 0
      /\ r.retry = [stage |-> "conflict", names |-> ToSet(m.conflict)]
  BY <1>1 DEF IsPool, PoolFields, drain_conflict
<1> HIDE DEF r
<1>3. ToSet(m.conflict) \subseteq Names
  BY ToSetFinite DEF PoolInv, Caches
<1>4. Caches(r)
  <2>1. ToSet(<<>>) = {} /\ <<>> \in Seq(Names) /\ DOMAIN <<>> = {}
    BY DEF ToSet
  <2>2. 0 <= MaxBlockCost
    BY PoolAssumption
  <2>3. Caches(m)
    BY DEF PoolInv
  <2> QED BY <1>2, <2>1, <2>2, <2>3, TotalsOfFew DEF Caches
<1>5. Parking(r) /\ Timely(r)
  BY <1>2, <1>3 DEF PoolInv, Parking, Timely
<1>6. Residency(r) /\ RivalFree(r)
  BY <1>2 DEF PoolInv, Residency, RivalFree, Residents
<1>7. PoolInv(r)
  BY <1>2, <1>4, <1>5, <1>6 DEF PoolInv
<1> QED BY <1>5, <1>7 DEF r

\* The call that handles a new peak is over.
LEMMA DonePool ==
  ASSUME NEW m, PoolInv(m), Timely(m), m.retry.names = {}
  PROVE  PoolInv([m EXCEPT !.retry = NoRetry]) /\ Timely([m EXCEPT !.retry = NoRetry])
<1> DEFINE r == [m EXCEPT !.retry = NoRetry]
<1>1. IsPool(m)
  BY DEF PoolInv
<1>2. /\ IsPool(r) /\ r.items = m.items /\ r.older = m.older /\ r.index = m.index
      /\ r.cost = m.cost /\ r.fee = m.fee
      /\ r.peak = m.peak /\ r.pending = m.pending /\ r.conflict = m.conflict
      /\ r.conflictCost = m.conflictCost /\ r.retry = [stage |-> "none", names |-> {}]
  BY <1>1 DEF IsPool, PoolFields, NoRetry
<1> HIDE DEF r
<1>3. PoolInv(r) /\ Timely(r)
  BY <1>2 DEF PoolInv, Residency, Caches, RivalFree, Residents, Parking, Timely
<1> QED BY <1>3 DEF r

\* One retry: a bundle leaves the list of what is due together with its entry.
LEMMA RetryPool ==
  ASSUME NEW m, PoolInv(m), Timely(m), NEW n \in m.retry.names, NEW t \in Blocks
  PROVE  PoolInv(RetryOne(m, n, t)) /\ Timely(RetryOne(m, n, t))
<1> DEFINE next == [m EXCEPT !.retry.names = @ \ {n}]
           rest == [next EXCEPT !.pending = Restrict(@, DOMAIN @ \ {n})]
           Same(r) == /\ IsPool(r) /\ r.items = m.items /\ r.older = m.older /\ r.index = m.index
                      /\ r.cost = m.cost /\ r.fee = m.fee
                      /\ r.peak = m.peak /\ r.conflict = m.conflict
                      /\ r.conflictCost = m.conflictCost
                      /\ r.retry = [stage |-> m.retry.stage, names |-> m.retry.names \ {n}]
<1>0. IsPool(m) /\ Parking(m) /\ Caches(m) /\ n \in Names
  BY DEF PoolInv, Parking
<1>1. Same(next) /\ next.pending = m.pending
  BY <1>0 DEF IsPool, PoolFields, Parking
<1> HIDE DEF next
<1>2. Same(rest) /\ rest.pending = [x \in DOMAIN m.pending \ {n} |-> m.pending[x]]
  BY <1>1 DEF IsPool, PoolFields, Restrict
<1> HIDE DEF rest
<1>3. PoolInv(next) /\ (m.retry.stage # "parked" \/ n \notin DOMAIN m.pending => Timely(next))
  BY <1>1 DEF PoolInv, Residency, Caches, RivalFree, Residents, Parking, Timely
<1>4. PoolInv(rest) /\ Timely(rest)
  <2>1. DOMAIN rest.pending = DOMAIN m.pending \ {n}
    BY <1>2
  <2>2. /\ IsFiniteSet(DOMAIN rest.pending) /\ DOMAIN rest.pending \subseteq Names
        /\ Cardinality(DOMAIN rest.pending) <= PendingCap
    <3> DEFINE P == DOMAIN m.pending
    <3>1. IsFiniteSet(P) /\ P \subseteq Names /\ Cardinality(P) <= PendingCap /\ PendingCap \in Nat
      BY <1>0, PoolAssumption DEF Caches
    <3> HIDE DEF P
    <3>2. P \ {n} \subseteq P
      OBVIOUS
    <3>3. IsFiniteSet(P \ {n}) /\ Cardinality(P \ {n}) <= Cardinality(P)
      BY <3>1, <3>2, FS_Subset
    <3>4. Cardinality(P) \in Nat /\ Cardinality(P \ {n}) \in Nat
      BY <3>1, <3>3, FS_CardinalityType
    <3>5. DOMAIN rest.pending = P \ {n}
      BY <2>1 DEF P
    <3> QED BY <3>1, <3>3, <3>4, <3>5
  <2>3. Caches(rest)
    BY <1>0, <1>2, <2>2 DEF Caches
  <2>4. Parking(rest) /\ Timely(rest)
    <3>1. \A x \in DOMAIN rest.pending : x \in DOMAIN m.pending /\ x # n /\ rest.pending[x] = m.pending[x]
      BY <1>2
    <3> QED BY <1>0, <1>2, <3>1 DEF Parking, Timely
  <2>5. Residency(rest) /\ RivalFree(rest)
    BY <1>2 DEF PoolInv, Residency, RivalFree, Residents
  <2> QED BY <1>2, <2>3, <2>4, <2>5 DEF PoolInv
<1>5. RetryOne(m, n, t) = IF m.retry.stage = "conflict" THEN admit(next, n, t).pool
                          ELSE IF n \in DOMAIN m.pending THEN admit(rest, n, t).pool
                          ELSE next
  BY DEF RetryOne, next, rest
<1>6. CASE m.retry.stage = "conflict"
  BY <1>0, <1>3, <1>5, <1>6, AdmitPool
<1>7. CASE m.retry.stage # "conflict" /\ n \in DOMAIN m.pending
  BY <1>0, <1>4, <1>5, <1>7, AdmitPool
<1>8. CASE m.retry.stage # "conflict" /\ n \notin DOMAIN m.pending
  BY <1>3, <1>5, <1>8
<1> QED BY <1>6, <1>7, <1>8

\* The pool starts empty.
LEMMA EmptyPoolInv == PoolInv(EmptyPool) /\ Timely(EmptyPool)
<1> DEFINE r == EmptyPool
<1>1. /\ IsPool(r) /\ r.items = {} /\ r.older = {} /\ r.index = {} /\ r.cost = 0 /\ r.fee = 0
      /\ r.peak.height = -1 /\ DOMAIN r.pending = {} /\ r.conflict = <<>> /\ r.conflictCost = 0
      /\ r.retry = [stage |-> "none", names |-> {}]
  BY DEF EmptyPool, IsPool, PoolFields, NoPeak, NoRetry
<1> HIDE DEF r
<1>2. Residents(r) = {} /\ ToSet(<<>>) = {} /\ <<>> \in Seq(Names) /\ DOMAIN <<>> = {}
  BY <1>1 DEF Residents, ToSet
<1>3. 0 <= MaxBlockCost /\ 0 <= MaxTotalCost /\ 0 <= PendingCap
  BY PoolAssumption DEF MaxTotalCost
<1>4. Residency(r)
  BY <1>1, <1>2, <1>3, TotalsOfFew, FS_EmptySet DEF Residency, Orders
<1>5. Caches(r)
  BY <1>1, <1>2, <1>3, TotalsOfFew, FS_EmptySet DEF Caches
<1>6. RivalFree(r) /\ Parking(r) /\ Timely(r)
  BY <1>1 DEF RivalFree, Parking, Timely
<1>7. PoolInv(r)
  BY <1>1, <1>4, <1>5, <1>6 DEF PoolInv
<1> QED BY <1>6, <1>7 DEF r

-----------------------------------------------------------------------------
(* The pool among its tasks.                                               *)

Deltas == [block : Blocks, reorg : BOOLEAN]

\* What a follower holds: it has a delta for as long as it is busy with one.
WorkInv ==
  \A f \in Followers :
    /\ work[f] = [at |-> work[f].at, deltas |-> work[f].deltas]
    /\ work[f].deltas \subseteq Deltas
    /\ work[f].at # "swap" => work[f].deltas # {}

\* Whoever holds the lock read a tip, and a submitter that does has a bundle.
LockInv ==
  /\ lock.tip \in Blocks
  /\ task \in [Submitters -> Names \cup {Idle}]
  /\ lock.by \in Submitters => task[lock.by] \in Names

IntakeInv ==
  /\ PoolInv(pool) /\ Timely(pool) /\ tip \in Blocks
  /\ work \in [Followers -> {work[f] : f \in Followers}]
  /\ WorkInv /\ LockInv

\* A follower with deltas takes the lowest.
LEMMA DeltaIs ==
  ASSUME IntakeInv, NEW f \in Followers, work[f].deltas # {}
  PROVE  Delta(f) \in work[f].deltas /\ Delta(f) \in Deltas
<1> DEFINE D == work[f].deltas
           H == {Height[d.block] : d \in D}
<1>1. D \subseteq Deltas /\ D # {}
  BY DEF IntakeInv, WorkInv
<1> HIDE DEF D
<1>2. \A d \in D : Height[d.block] \in Nat
  BY <1>1, TreeAssumption DEF Deltas
<1>3. H \subseteq Nat /\ H # {}
  BY <1>1, <1>2
<1>4. PICK h \in H : \A k \in H : h <= k
  BY <1>3, LeastOf
<1>5. PICK d \in D : Height[d.block] = h
  BY <1>4
<1>6. \A e \in D : Height[d.block] <= Height[e.block]
  BY <1>4, <1>5
<1>7. (CHOOSE x \in D : \A e \in D : Height[x.block] <= Height[e.block]) \in D
  BY <1>6, Zenon
<1> QED BY <1>1, <1>7 DEF Delta, D

\* What is left of a follower's work has its type.
LEMMA AfterIs ==
  ASSUME IntakeInv, NEW f \in Followers, NEW at, at = "peak" \/ work[f].deltas # {}
  PROVE  LET w == After(f, at)
         IN /\ w = [at |-> w.at, deltas |-> w.deltas] /\ w.deltas \subseteq Deltas
            /\ w.at # "swap" => w.deltas # {}
<1> DEFINE w == After(f, at)
           x == IF at = "swap" THEN "revalidate" ELSE "peak"
<1>1. work[f] = [at |-> work[f].at, deltas |-> work[f].deltas] /\ work[f].deltas \subseteq Deltas
  BY DEF IntakeInv, WorkInv
<1>2. \/ w = [at |-> "swap", deltas |-> work[f].deltas \ {Delta(f)}]
      \/ at # "peak" /\ w = [at |-> x, deltas |-> work[f].deltas]
  BY <1>1 DEF After
<1> HIDE DEF w, x
<1> QED BY <1>1, <1>2 DEF w

\* A step that touches the work of one follower alone keeps WorkInv.
LEMMA WorkStep ==
  ASSUME IntakeInv, NEW f \in Followers, NEW w, work' = [work EXCEPT ![f] = w],
         w = [at |-> w.at, deltas |-> w.deltas], w.deltas \subseteq Deltas, w.at # "swap" => w.deltas # {}
  PROVE  WorkInv' /\ work' \in [Followers -> {work'[g] : g \in Followers}]
<1>1. DOMAIN work = Followers
  BY DEF IntakeInv
<1>2. \A g \in Followers : work'[g] = IF g = f THEN w ELSE work[g]
  BY <1>1
<1>3. WorkInv'
  BY <1>2 DEF IntakeInv, WorkInv
<1> QED BY <1>1, <1>3

\* The pool and its tasks start sound.
LEMMA IntakeInit == Init => IntakeInv
<1> SUFFICES ASSUME Init PROVE IntakeInv
  OBVIOUS
<1>1. PoolInv(pool) /\ Timely(pool) /\ tip \in Blocks
  BY EmptyPoolInv, TreeAssumption DEF Init
<1>2. WorkInv /\ work \in [Followers -> {work[f] : f \in Followers}]
  BY DEF Init, NoWork, WorkInv
<1>3. LockInv
  BY TreeAssumption, TaskAssumption DEF Init, LockInv, Free, Idle
<1> QED BY <1>1, <1>2, <1>3 DEF IntakeInv

\* A confirmed block is reported as a set of deltas, or what is left of one.
LEMMA ConfirmStep ==
  ASSUME IntakeInv, NEW f \in Followers, NEW b \in Blocks, Confirm(f, b)
  PROVE  IntakeInv'
<1>1. Report(b) \subseteq Deltas
  <2>1. Path[b] \subseteq Blocks
    BY TreeAssumption
  <2>2. \A x \in Path[b] : [block |-> x, reorg |-> tip \notin Path[b] /\
            (\A y \in Path[b] \ Path[tip] : Height[x] <= Height[y])] \in Deltas
    BY <2>1 DEF Deltas
  <2> QED BY <2>2 DEF Report
<1>2. \A D \in Cut(b) : D \subseteq Deltas
  <2>1. [block |-> b, reorg |-> FALSE] \in Deltas
    BY DEF Deltas
  <2>2. \A D \in Cut(b) : D = {} \/ D = {[block |-> b, reorg |-> FALSE]}
    BY DEF Cut
  <2> QED BY <2>1, <2>2
<1>3. PICK D : D \subseteq Deltas /\ work' = [work EXCEPT ![f].deltas = D]
  BY <1>1, <1>2 DEF Confirm
<1>4. work[f] = [at |-> "swap", deltas |-> {}]
  BY DEF Confirm, NoWork
<1> DEFINE w == [at |-> "swap", deltas |-> D]
<1>5. [work[f] EXCEPT !.deltas = D] = w
  BY <1>4
<1>6. work' = [work EXCEPT ![f] = w]
  BY <1>3, <1>5
<1>7. w = [at |-> w.at, deltas |-> w.deltas] /\ w.deltas \subseteq Deltas /\ w.at = "swap"
  BY <1>3
<1> HIDE DEF w
<1>10. WorkInv' /\ work' \in [Followers -> {work'[g] : g \in Followers}]
  BY <1>6, <1>7, WorkStep
<1>8. tip' = b /\ UNCHANGED <<pool, task, lock>>
  BY DEF Confirm
<1>9. LockInv'
  BY <1>8 DEF IntakeInv, LockInv
<1> QED BY <1>8, <1>9, <1>10 DEF IntakeInv

\* A follower's use of the lock.
LEMMA FollowerStep ==
  ASSUME IntakeInv, NEW f \in Followers,
         Swap(f) \/ Revalidate(f) \/ NewPeak(f) \/ DrainConflict(f) \/ PeakDone(f)
                 \/ (\E n \in Names : Retry(f, n))
  PROVE  IntakeInv'
<1>1. Free.tip \in Blocks /\ Free.by \notin Submitters
  BY TreeAssumption, TaskAssumption DEF Free
<1>2. lock.tip \in Blocks /\ PoolInv(pool) /\ Timely(pool)
  BY DEF IntakeInv, LockInv
<1>3. CASE Swap(f)
  <2>1. work[f].deltas # {} /\ UNCHANGED <<tip, pool, task, lock>>
    BY <1>3 DEF Swap
  <2>2. PICK at : work' = [work EXCEPT ![f] = After(f, at)]
    BY <1>3 DEF Swap
  <2>3. WorkInv' /\ work' \in [Followers -> {work'[g] : g \in Followers}]
    BY <2>1, <2>2, AfterIs, WorkStep
  <2> QED BY <2>1, <2>3 DEF IntakeInv, LockInv
<1>4. CASE Revalidate(f)
  <2>1. work[f].deltas # {}
    BY <1>4 DEF Revalidate, IntakeInv, WorkInv
  <2>2. WorkInv' /\ work' \in [Followers -> {work'[g] : g \in Followers}]
    BY <1>4, <2>1, AfterIs, WorkStep DEF Revalidate
  <2>3. PoolInv(pool') /\ SameParked(pool', pool)
    BY <1>2, <1>4, RevalidatePool DEF Revalidate
  <2>4. Timely(pool')
    BY <1>2, <2>3 DEF SameParked, Timely
  <2> QED BY <1>1, <1>4, <2>2, <2>3, <2>4 DEF Revalidate, IntakeInv, LockInv
<1>5. CASE NewPeak(f)
  <2>1. Delta(f) \in Deltas
    BY <1>5, DeltaIs DEF NewPeak, IntakeInv, WorkInv
  <2> DEFINE peak == [height |-> Height[Delta(f).block], time |-> Stamp[Delta(f).block]]
  <2>2. peak.height \in Nat \cup {-1}
    BY <2>1, TreeAssumption DEF Deltas
  <2>3. pool' = new_peak(pool, peak, Removes[Delta(f).block], lock.tip)
    BY <1>5 DEF NewPeak
  <2> HIDE DEF peak
  <2>4. PoolInv(pool') /\ Timely(pool')
    BY <1>2, <2>2, <2>3, PeakPool
  <2> QED BY <1>5, <2>4 DEF NewPeak, IntakeInv, WorkInv, LockInv
<1>6. CASE DrainConflict(f)
  <2>1. PoolInv(pool') /\ Timely(pool')
    BY <1>2, <1>6, DrainPool DEF DrainConflict
  <2> QED BY <1>6, <2>1 DEF DrainConflict, IntakeInv, WorkInv, LockInv
<1>7. CASE PeakDone(f)
  <2>1. PoolInv(pool') /\ Timely(pool')
    BY <1>2, <1>7, DonePool DEF PeakDone
  <2>3. WorkInv' /\ work' \in [Followers -> {work'[g] : g \in Followers}]
    BY <1>7, AfterIs, WorkStep DEF PeakDone
  <2> QED BY <1>1, <1>7, <2>1, <2>3 DEF PeakDone, IntakeInv, LockInv
<1>8. CASE \E n \in Names : Retry(f, n)
  <2>1. PICK n \in Names : Retry(f, n)
    BY <1>8
  <2>2. PoolInv(pool') /\ Timely(pool')
    BY <1>2, <2>1, RetryPool DEF Retry
  <2> QED BY <2>1, <2>2 DEF Retry, IntakeInv, WorkInv, LockInv
<1> QED BY <1>3, <1>4, <1>5, <1>6, <1>7, <1>8

\* A submitter's steps.
LEMMA SubmitterStep ==
  ASSUME IntakeInv, NEW s \in Submitters, (\E n \in Names : Submit(s, n)) \/ Reject(s) \/ Admit(s)
  PROVE  IntakeInv'
<1>1. Free.tip \in Blocks /\ Free.by \notin Submitters
  BY TreeAssumption, TaskAssumption DEF Free
<1>2. lock.tip \in Blocks /\ PoolInv(pool) /\ Timely(pool) /\ task \in [Submitters -> Names \cup {Idle}]
  BY DEF IntakeInv, LockInv
<1>3. CASE \E n \in Names : Submit(s, n)
  <2>1. PICK n \in Names : Submit(s, n)
    BY <1>3
  <2>2. lock = Free /\ UNCHANGED <<tip, work, lock>> /\ (task' = [task EXCEPT ![s] = n] \/ task' = task)
    BY <2>1 DEF Submit
  <2>3. pool' = pool \/ pool' = remove_seen(pool, {n})
    BY <2>1 DEF Submit
  <2>4. PoolInv(pool') /\ Timely(pool')
    BY <1>2, <2>3, SeenOps DEF SameParked, Timely
  <2> QED BY <1>1, <1>2, <2>2, <2>4 DEF IntakeInv, WorkInv, LockInv
<1>4. CASE Reject(s)
  <2>1. PoolInv(pool') /\ Timely(pool')
    BY <1>2, <1>4, SeenOps DEF Reject, SameParked, Timely
  <2> QED BY <1>1, <1>2, <1>4, <2>1 DEF Reject, IntakeInv, WorkInv, LockInv
<1>5. CASE Admit(s)
  <2> DEFINE n == task[s]
             a == admit(pool, n, lock.tip)
  <2>1. n \in Names
    BY <1>5 DEF Admit, IntakeInv, LockInv
  <2>2. pool' = a.pool \/ pool' = add_seen(a.pool, n)
    BY <1>5 DEF Admit
  <2> HIDE DEF n
  <2>3. PoolInv(a.pool) /\ Timely(a.pool)
    BY <1>2, <2>1, AdmitPool
  <2> HIDE DEF a
  <2>4. PoolInv(pool') /\ Timely(pool')
    BY <2>2, <2>3, SeenOps DEF SameParked, Timely
  <2> QED BY <1>1, <1>2, <1>5, <2>4 DEF Admit, IntakeInv, WorkInv, LockInv
<1> QED BY <1>3, <1>4, <1>5

\* The invariant of the pool among its tasks is inductive.
LEMMA IntakeInductive == IntakeInv /\ [Next]_vars => IntakeInv'
<1> SUFFICES ASSUME IntakeInv, [Next]_vars PROVE IntakeInv'
  OBVIOUS
<1>1. CASE UNCHANGED vars
  BY <1>1 DEF vars, IntakeInv, WorkInv, LockInv
<1>2. CASE \E f \in Followers, b \in Blocks : Confirm(f, b)
  BY <1>2, ConfirmStep
<1>3. CASE \E f \in Followers : Swap(f) \/ Revalidate(f) \/ NewPeak(f) \/ DrainConflict(f) \/ PeakDone(f)
  BY <1>3, FollowerStep
<1>4. CASE \E f \in Followers, n \in Names : Retry(f, n)
  BY <1>4, FollowerStep
<1>5. CASE \/ \E s \in Submitters, n \in Names : Submit(s, n)
           \/ \E s \in Submitters : Reject(s) \/ Admit(s)
  BY <1>5, SubmitterStep
<1>6. CASE \E a \in Followers \cup Submitters : Acquire(a)
  <2>1. PICK a \in Followers \cup Submitters : Acquire(a)
    BY <1>6
  <2>2. a \in Submitters => task[a] \in Names
    BY <2>1, TaskAssumption DEF Acquire
  <2> QED BY <2>1, <2>2 DEF Acquire, IntakeInv, WorkInv, LockInv
<1> QED BY <1>1, <1>2, <1>3, <1>4, <1>5, <1>6 DEF Next

\* The index, the totals and the caches of the mempool are exact, for every set
\* of bundles, tasks and blocks: admissions with replacement and eviction,
\* expiries, rebases and reorgs in any order the tasks can produce.
THEOREM PoolAccountsExact == Spec => []PoolAccounts
<1>1. IntakeInv => PoolAccounts
  <2> SUFFICES ASSUME PoolInv(pool) PROVE PoolAccounts
    BY DEF IntakeInv
  <2>1. Cardinality(Residents(pool)) = Cardinality(pool.items)
    BY OneNameEach DEF PoolInv, Residency
  <2> QED BY <2>1 DEF PoolInv, Residency, Caches, PoolAccounts
<1> QED BY <1>1, IntakeInit, IntakeInductive, PTL DEF Spec

\* No two residents spend a coin unless one of them fast-forwards it or both
\* spend it alike.
THEOREM NoRivalsEver == Spec => []NoRivals
<1>1. IntakeInv => NoRivals
  BY DEF IntakeInv, PoolInv, RivalFree, Compatible, NoRivals
<1> QED BY <1>1, IntakeInit, IntakeInductive, PTL DEF Spec

\* No parked bundle is left behind by the peak that reaches its height.
THEOREM NothingOverdue == Spec => []NoOverdueParked
<1>1. IntakeInv => NoOverdueParked
  BY DEF IntakeInv, Timely, NoOverdueParked
<1> QED BY <1>1, IntakeInit, IntakeInductive, PTL DEF Spec

-----------------------------------------------------------------------------
(* Residents that the chain lets spend.                                    *)

\* Every spend of the item is of a coin that is unspent on the chain of t or
\* created beside it; a fast-forward spend is on a version of its singleton.
Live(i, t) ==
  /\ DOMAIN i.lineage \subseteq Bundle[i.name].spends
  /\ \A c \in DOMAIN i.lineage :
       /\ i.lineage[c] \in Coins /\ Puzzle[i.lineage[c]] = Puzzle[c]
       /\ OnChain(i.lineage[c], t) /\ ~SpentOn(i.lineage[c], t)
  /\ \A c, d \in DOMAIN i.lineage : Puzzle[c] = Puzzle[d] => i.lineage[c] = i.lineage[d]
  /\ \A c \in Bundle[i.name].spends \ DOMAIN i.lineage :
       ~SpentOn(c, t) /\ (OnChain(c, t) \/ c \in Bundle[i.name].creates)

LivePool(m, t) == \A i \in m.items : Live(i, t)

NewItem(m, n, t) ==
  [name |-> n, lineage |-> Lineage(n, t), locks |-> effective_timelocks(n, t, m.peak),
   height_added |-> m.peak.height, on |-> t]

\* A version that the store finds is one of the singleton, unspent.
LEMMA VersionFound ==
  ASSUME NEW p, NEW t, get_unspent_lineage_info(p, t) # NoCoin
  PROVE  LET c == get_unspent_lineage_info(p, t)
         IN c \in Versions(p, t) /\ c \in Coins /\ Puzzle[c] = p /\ OnChain(c, t) /\ ~SpentOn(c, t)
<1> DEFINE M == Versions(p, t)
<1>1. get_unspent_lineage_info(p, t) = IF \E c \in Coins : M = {c} THEN CHOOSE c \in M : TRUE ELSE NoCoin
  BY DEF get_unspent_lineage_info
<1>2. \A c \in M : c \in Coins /\ Puzzle[c] = p /\ OnChain(c, t) /\ ~SpentOn(c, t)
  BY DEF Versions
<1> HIDE DEF M
<1>3. \E c \in M : TRUE
  BY <1>1
<1>4. (CHOOSE c \in M : TRUE) \in M
  BY <1>3, Zenon
<1>5. get_unspent_lineage_info(p, t) \in M
  BY <1>1, <1>3, <1>4
<1> QED BY <1>2, <1>5 DEF M

\* What passes the early returns spends coins that the chain lets it spend.
LEMMA NotRefusedLive ==
  ASSUME NEW m, NEW n \in Names, NEW t, SelectInSeq(Refusals(m, n, t), LAMBDA r : r.when) = 0
  PROVE  Live(NewItem(m, n, t), t)
<1> DEFINE q == Refusals(m, n, t)
           I == {k \in 1 .. Len(q) : q[k].when}
           lineage == Lineage(n, t)
           item == NewItem(m, n, t)
<1>1. /\ Len(q) = 8
      /\ (\E c \in Bundle[n].spends \ Bundle[n].creates : ~OnChain(c, t)) => q[4].when
      /\ (\E c \in Bundle[n].spends \ DOMAIN lineage : SpentOn(c, t)) => q[7].when
  BY DEF Refusals
<1>2. (IF I # {} THEN Min(I) ELSE 0) = 0
  BY DEF SelectInSeq
<1> HIDE DEF q
<1>3. I = {}
  <2> SUFFICES ASSUME I # {} PROVE FALSE
    OBVIOUS
  <2>1. I \subseteq Nat \ {0}
    BY <1>1
  <2>2. Min(I) \in I /\ Min(I) = 0
    <3> HIDE DEF I
    <3> QED BY <1>2, <2>1, FirstIs
  <2> QED BY <2>1, <2>2
<1>4. ~q[4].when /\ ~q[7].when
  BY <1>1, <1>3
<1>5. \A c \in Bundle[n].spends : OnChain(c, t) \/ c \in Bundle[n].creates
  BY <1>1, <1>4
<1>6. \A c \in Bundle[n].spends \ DOMAIN lineage : ~SpentOn(c, t)
  BY <1>1, <1>4
<1>7. item.name = n /\ item.lineage = lineage
  BY DEF NewItem
<1>8. /\ DOMAIN lineage = {x \in Bundle[n].ff : get_unspent_lineage_info(Puzzle[x], t) # NoCoin}
      /\ \A c \in DOMAIN lineage : lineage[c] = get_unspent_lineage_info(Puzzle[c], t)
  BY DEF Lineage
<1> HIDE DEF lineage, item
<1>9. DOMAIN lineage \subseteq Bundle[n].spends
  BY <1>8, PoolAssumption
<1>10. \A c \in DOMAIN lineage :
         /\ lineage[c] \in Coins /\ Puzzle[lineage[c]] = Puzzle[c]
         /\ OnChain(lineage[c], t) /\ ~SpentOn(lineage[c], t)
  BY <1>8, VersionFound
<1>11. \A c, d \in DOMAIN lineage : Puzzle[c] = Puzzle[d] => lineage[c] = lineage[d]
  BY <1>8
<1>12. Live(item, t)
  BY <1>5, <1>6, <1>7, <1>9, <1>10, <1>11 DEF Live
<1> QED BY <1>12 DEF item

\* Admission adds at most the item, and only if nothing refused it and its locks
\* are met.
LEMMA AdmitItems ==
  ASSUME NEW m, IsPool(m), NEW n, NEW t
  PROVE  \A i \in admit(m, n, t).pool.items :
           \/ i \in m.items
           \/ /\ i = NewItem(m, n, t) /\ SelectInSeq(Refusals(m, n, t), LAMBDA r : r.when) = 0
              /\ check_time_locks(n, t, m.peak) = "Met"
<1> DEFINE first == SelectInSeq(Refusals(m, n, t), LAMBDA r : r.when)
           verdict == check_time_locks(n, t, m.peak)
           item == NewItem(m, n, t)
           rivals == Conflicts(m, n, item.lineage)
           Out == admit(m, n, t).pool
           base == remove(m, rivals)
<1>1. Out = IF n \in Residents(m) THEN m
            ELSE IF first # 0 THEN m
            ELSE IF verdict = "Pending" THEN park_pending(m, n, item.locks.height)
            ELSE IF verdict # "Met" THEN m
            ELSE IF rivals # {} /\ ~can_replace(m, n, rivals, item) THEN cache_conflict(m, n)
            ELSE add_to_pool(base, item).pool
  BY DEF admit, Reply, NewItem
<1>2. \A h : park_pending(m, n, h).items = m.items
  BY DEF IsPool, PoolFields, park_pending
<1>3. cache_conflict(m, n).items = m.items
  BY DEF IsPool, PoolFields, cache_conflict
<1>4. add_to_pool(base, item).pool.items \subseteq m.items \cup {item}
  <2>1. IsPool(base) /\ base.items \subseteq m.items
    <3> HIDE DEF rivals
    <3> QED BY RemoveItems
  <2> HIDE DEF base, item
  <2> DEFINE soon == {i.name : i \in {x \in base.items : ExpiresSoon(x.locks, base.peak)}}
             late == IF ExpiresSoon(item.locks, base.peak)
                     THEN Overflow(base, soon, ExpiringBudget - Bundle[item.name].cost) ELSE {}
             swept == remove(base, late)
             over == Overflow(swept, Residents(swept), MaxTotalCost - Bundle[item.name].cost)
             room == IF at_full_capacity(swept, item.name) THEN remove(swept, over) ELSE swept
  <2>2. add_to_pool(base, item).pool
          = IF \E k \in late : HigherPriority(k, item.name) THEN base ELSE Inserted(room, item)
    BY DEF add_to_pool, Inserted, Reply
  <2>3. IsPool(swept) /\ swept.items \subseteq base.items
    <3> HIDE DEF late
    <3> QED BY <2>1, RemoveItems
  <2>4. IsPool(room) /\ room.items \subseteq base.items
    <3> HIDE DEF swept, over
    <3>1. IsPool(remove(swept, over)) /\ remove(swept, over).items \subseteq swept.items
      BY <2>3, RemoveItems
    <3> QED BY <2>3, <3>1
  <2> HIDE DEF room, late
  <2>5. Inserted(room, item).items = room.items \cup {item}
    BY <2>4, InsertItems
  <2> QED BY <2>1, <2>2, <2>4, <2>5
<1>5. ASSUME NEW i \in Out.items
      PROVE  i \in m.items \/ (i = item /\ first = 0 /\ verdict = "Met")
  <2> HIDE DEF first, verdict, item, rivals, base, Out
  <2> QED BY <1>1, <1>2, <1>3, <1>4, <1>5
<1> QED BY <1>5

\* Admission on the tip keeps the residents live.
LEMMA AdmitLive ==
  ASSUME NEW m, IsPool(m), NEW n \in Names, NEW t, LivePool(m, t)
  PROVE  LivePool(admit(m, n, t).pool, t)
<1> SUFFICES ASSUME NEW i \in admit(m, n, t).pool.items PROVE Live(i, t)
  BY DEF LivePool
<1>1. CASE i \in m.items
  BY <1>1 DEF LivePool
<1>2. CASE i = NewItem(m, n, t) /\ SelectInSeq(Refusals(m, n, t), LAMBDA r : r.when) = 0
  BY <1>2, NotRefusedLive
<1> QED BY <1>1, <1>2, AdmitItems

\* Moving on by a block whose spends are applied keeps the residents live.
LEMMA SpentLive ==
  ASSUME NEW m, PoolInv(m), NEW t \in Blocks, NEW b \in Blocks, LivePool(m, t),
         b = t \/ Path[b] = Path[t] \cup {b}
  PROVE  LivePool(ApplySpent(m, Removes[b], b), b)
<1> DEFINE spent == Removes[b]
           Hit(item, c) == Key(item, c) \in spent /\ <<Key(item, c), item.name>> \in m.index
           Dead(item) == \E c \in Bundle[item.name].spends :
             /\ Hit(item, c)
             /\ c \in DOMAIN item.lineage => get_unspent_lineage_info(Puzzle[c], b) = NoCoin
           dead == {i.name : i \in {x \in m.items : Dead(x)}}
           moved == [item \in m.items |-> [c \in DOMAIN item.lineage |->
             IF Hit(item, c) THEN get_unspent_lineage_info(Puzzle[c], b) ELSE item.lineage[c]]]
           left == remove(m, dead)
           r == Rebase(left, moved)
<1>1. ApplySpent(m, spent, b) = remove_seen(r, dead)
  BY DEF ApplySpent
<1>2. IsPool(m) /\ \A i \in m.items : IsItem(i) /\ index_keys(i) \subseteq m.index
  BY DEF PoolInv, Residency
<1>3. IsPool(left) /\ left.items \subseteq m.items /\ \A i \in left.items : ~Dead(i)
  <2>1. \A i \in m.items : Dead(i) => i.name \in dead
    OBVIOUS
  <2> HIDE DEF dead, Dead
  <2>2. IsPool(left) /\ left.items \subseteq m.items /\ \A i \in left.items : i.name \notin dead
    BY <1>2, RemoveItems
  <2> QED BY <2>1, <2>2
<1>4. IsPool(r) /\ r.items = {[i EXCEPT !.lineage = moved[i]] : i \in left.items}
  <2> HIDE DEF left, moved
  <2> QED BY <1>3 DEF IsPool, PoolFields, Rebase
<1>5. remove_seen(r, dead).items = r.items
  <2> HIDE DEF r, dead
  <2> QED BY <1>4 DEF IsPool, PoolFields, remove_seen
<1>6. \A c : SpentOn(c, b) => SpentOn(c, t) \/ c \in spent
  BY DEF SpentOn, RemovedBy
<1>7. \A c : OnChain(c, t) => OnChain(c, b)
  BY DEF OnChain, AddedBy
<1>8. ASSUME NEW i \in left.items PROVE Live([i EXCEPT !.lineage = moved[i]], b)
  <2> DEFINE x == [i EXCEPT !.lineage = moved[i]]
             S == Bundle[i.name].spends
  <2>1. i \in m.items /\ IsItem(i) /\ index_keys(i) \subseteq m.index /\ ~Dead(i) /\ Live(i, t)
    BY <1>2, <1>3, <1>8 DEF LivePool
  <2>2. x.name = i.name /\ x.lineage = moved[i]
    BY <2>1 DEF IsItem, ItemFields
  <2>3. \A c \in S : <<Key(i, c), i.name>> \in m.index
    BY <2>1 DEF index_keys
  <2>4. /\ DOMAIN moved[i] = DOMAIN i.lineage
        /\ \A c \in DOMAIN i.lineage : moved[i][c] =
             IF Hit(i, c) THEN get_unspent_lineage_info(Puzzle[c], b) ELSE i.lineage[c]
    BY <2>1
  <2> HIDE DEF x, moved
  <2>5. DOMAIN i.lineage \subseteq S
    BY <2>1 DEF Live
  <2>6. ASSUME NEW c \in DOMAIN i.lineage
        PROVE  /\ moved[i][c] \in Coins /\ Puzzle[moved[i][c]] = Puzzle[c]
               /\ OnChain(moved[i][c], b) /\ ~SpentOn(moved[i][c], b)
    <3>1. CASE Hit(i, c)
      <4>1. get_unspent_lineage_info(Puzzle[c], b) # NoCoin
        BY <2>1, <2>5, <3>1
      <4>2. moved[i][c] = get_unspent_lineage_info(Puzzle[c], b)
        BY <2>4, <3>1
      <4> QED BY <4>1, <4>2, VersionFound
    <3>2. CASE ~Hit(i, c)
      <4>1. moved[i][c] = i.lineage[c] /\ Key(i, c) = i.lineage[c]
        BY <2>4, <3>2 DEF Key
      <4>2. i.lineage[c] \notin spent
        BY <2>3, <2>5, <3>2, <4>1
      <4>3. /\ i.lineage[c] \in Coins /\ Puzzle[i.lineage[c]] = Puzzle[c]
            /\ OnChain(i.lineage[c], t) /\ ~SpentOn(i.lineage[c], t)
        BY <2>1 DEF Live
      <4> HIDE DEF Hit, spent
      <4> QED BY <1>6, <1>7, <4>1, <4>2, <4>3
    <3> QED BY <3>1, <3>2
  <2>7. \A c, d \in DOMAIN i.lineage : Puzzle[c] = Puzzle[d] => moved[i][c] = moved[i][d]
    <3> SUFFICES ASSUME NEW c \in DOMAIN i.lineage, NEW d \in DOMAIN i.lineage, Puzzle[c] = Puzzle[d]
                 PROVE  moved[i][c] = moved[i][d]
      OBVIOUS
    <3>1. i.lineage[c] = i.lineage[d]
      BY <2>1 DEF Live
    <3>2. Key(i, c) = Key(i, d)
      BY <3>1 DEF Key
    <3> QED BY <2>4, <3>1, <3>2
  <2>8. ASSUME NEW c \in S \ DOMAIN i.lineage
        PROVE  ~SpentOn(c, b) /\ (OnChain(c, b) \/ c \in Bundle[i.name].creates)
    <3>1. Key(i, c) = c
      BY DEF Key
    <3>2. c \notin spent
      BY <2>1, <2>3, <3>1
    <3>3. ~SpentOn(c, t) /\ (OnChain(c, t) \/ c \in Bundle[i.name].creates)
      BY <2>1 DEF Live
    <3> HIDE DEF spent
    <3> QED BY <1>6, <1>7, <3>2, <3>3
  <2> HIDE DEF Hit, Dead, S
  <2>9. Live(x, b)
    BY <2>2, <2>4, <2>5, <2>6, <2>7, <2>8 DEF Live, S
  <2> QED BY <2>9 DEF x
<1> HIDE DEF r, moved, left, dead
<1> QED BY <1>1, <1>4, <1>5, <1>8 DEF LivePool

\* A new peak that is the next block, or the tip itself, keeps the residents live.
LEMMA PeakLive ==
  ASSUME NEW m, PoolInv(m), NEW t \in Blocks, NEW b \in Blocks, LivePool(m, t),
         b = t \/ Path[b] = Path[t] \cup {b}, NEW peak, peak.height \in Nat \cup {-1}
  PROVE  LivePool(new_peak(m, peak, Removes[b], b), b)
<1> DEFINE at == [m EXCEPT !.peak = peak]
           gone == Expired(at)
           swept == remove(at, gone)
           left == ApplySpent(swept, Removes[b], b)
<1>1. PoolInv(at) /\ at.items = m.items
  <2>1. IsPool(m)
    BY DEF PoolInv
  <2>2. /\ IsPool(at) /\ at.items = m.items /\ at.older = m.older /\ at.index = m.index
        /\ at.cost = m.cost /\ at.fee = m.fee
        /\ at.peak = peak /\ at.pending = m.pending /\ at.conflict = m.conflict
        /\ at.conflictCost = m.conflictCost /\ at.retry = m.retry
    BY <2>1 DEF IsPool, PoolFields
  <2> HIDE DEF at
  <2> QED BY <2>2 DEF PoolInv, Residency, Caches, RivalFree, Residents, Parking
<1> HIDE DEF at, gone
<1>2. PoolInv(swept)
  BY <1>1, RemovePool
<1>3. LivePool(swept, t)
  <2>1. IsPool(at)
    BY <1>1 DEF PoolInv
  <2>2. swept.items \subseteq m.items
    BY <1>1, <2>1, RemoveItems
  <2> QED BY <2>2 DEF LivePool
<1> HIDE DEF swept
<1>4. PoolInv(left)
  BY <1>2, SpentPool
<1>5. LivePool(left, b)
  BY <1>2, <1>3, SpentLive
<1>6. new_peak(m, peak, Removes[b], b) = [left EXCEPT !.retry = [stage |-> "parked", names |-> Due(left)]]
  BY DEF new_peak, at, gone, swept
<1> HIDE DEF left
<1>7. new_peak(m, peak, Removes[b], b).items = left.items
  BY <1>4, <1>6 DEF PoolInv, IsPool, PoolFields
<1> QED BY <1>5, <1>7 DEF LivePool

\* So does a retry, and what ends the retries.
LEMMA RetryLive ==
  ASSUME NEW m, PoolInv(m), NEW n \in m.retry.names, NEW t, LivePool(m, t)
  PROVE  LivePool(RetryOne(m, n, t), t)
<1> DEFINE next == [m EXCEPT !.retry.names = @ \ {n}]
           rest == [next EXCEPT !.pending = Restrict(@, DOMAIN @ \ {n})]
<1>1. IsPool(m) /\ n \in Names
  BY DEF PoolInv, Parking
<1>2. IsPool(next) /\ next.items = m.items
  BY <1>1 DEF IsPool, PoolFields
<1>3. IsPool(rest) /\ rest.items = m.items
  <2> HIDE DEF next
  <2> QED BY <1>2 DEF IsPool, PoolFields
<1>4. \/ RetryOne(m, n, t) = admit(next, n, t).pool
      \/ RetryOne(m, n, t) = admit(rest, n, t).pool
      \/ RetryOne(m, n, t) = next
  BY DEF RetryOne
<1> HIDE DEF next, rest
<1>5. LivePool(next, t) /\ LivePool(rest, t)
  BY <1>2, <1>3 DEF LivePool
<1> QED BY <1>1, <1>2, <1>3, <1>4, <1>5, AdmitLive

-----------------------------------------------------------------------------
(* Block assembly: the state of a selection.                               *)

JobFields == {"todo", "cost", "fee", "spends", "uses", "dedup", "ff", "skipped", "lost"}

IsJob(j) == j = [x \in JobFields |-> j[x]]

\* The selection is over residents and within its limits.
Counts(j) ==
  /\ j.todo \subseteq Residents(pool) /\ DOMAIN j.uses \subseteq Residents(pool) \ j.todo
  /\ j.cost \in Int /\ (j.cost > max_cost => j.todo = {})
  /\ j.fee \in Nat /\ j.fee <= MaxCoinAmount
  /\ (\E X : j.spends \in Seq(X)) /\ Len(j.spends) <= MaxSpends
  /\ j.skipped \in 0 .. MaxSkipped /\ (j.skipped = MaxSkipped => j.todo = {})

\* Unless an item was left out for lack of room, what is merged is in the block.
Merging(j) ==
  \/ j.lost
  \/ /\ \A n \in DOMAIN j.uses : j.uses[n] \subseteq ToSet(j.spends)
     /\ \A v \in DOMAIN j.dedup : <<v, j.dedup[v]>> \in ToSet(j.spends)

\* An included item spends the version v.
Used(j, v) == \E n \in DOMAIN j.uses : \E u \in j.uses[n] : u[1] = v

\* The coin x is what some resident's fast-forward spend is on.
Forwarded(x) == \E i \in pool.items : \E c \in DOMAIN i.lineage : i.lineage[c] = x

IsVersion(v) == v = <<v[1], v[2]>> /\ v[2] \in Nat

\* Every version in the block is one the chain holds, or follows one in use.
Standing(j, v) ==
  /\ IsVersion(v)
  /\ v[2] = 0 => \/ OnChain(v[1], tip) /\ ~SpentOn(v[1], tip)
                 \/ \E n \in DOMAIN j.uses : v[1] \in Bundle[n].creates
  /\ v[2] # 0 => Used(j, <<v[1], v[2] - 1>>)

Grounded(j) == \A s \in ToSet(j.spends) : Standing(j, s[1])

\* The version a singleton has reached follows one that is in use.
Chained(j) ==
  \A p \in DOMAIN j.ff :
    /\ IsVersion(j.ff[p]) /\ j.ff[p][2] # 0 /\ Puzzle[j.ff[p][1]] = p
    /\ Used(j, <<j.ff[p][1], j.ff[p][2] - 1>>)
    /\ Forwarded(j.ff[p][1])

\* A version in the block is a named coin of an included item, noted if it may
\* be merged, or one that its singleton has left behind.
PlainSpend(j, v) ==
  \E i \in pool.items : /\ i.name \in DOMAIN j.uses
                        /\ \E c \in Bundle[i.name].spends \ DOMAIN i.lineage :
                             /\ v = <<c, 0>>
                             /\ c \in Bundle[i.name].dedup => v \in DOMAIN j.dedup

ForwardSpend(j, v) ==
  /\ IsVersion(v) /\ Forwarded(v[1])
  /\ Puzzle[v[1]] \in DOMAIN j.ff
  /\ j.ff[Puzzle[v[1]]][1] = v[1] /\ v[2] < j.ff[Puzzle[v[1]]][2]

Sourced(j) == \A s \in ToSet(j.spends) : PlainSpend(j, s[1]) \/ ForwardSpend(j, s[1])

\* A resident plainly spends what another, or itself, fast-forwards to.
Rivalry ==
  \E i, j \in pool.items : \E c \in DOMAIN i.lineage :
    i.lineage[c] \in Bundle[j.name].spends \ DOMAIN j.lineage

Single(j) == Rivalry \/ Reruns(j.spends)

JobInv(j) ==
  /\ IsJob(j) /\ Counts(j) /\ Merging(j) /\ Grounded(j) /\ Chained(j) /\ Sourced(j) /\ Single(j)

AssemblyInv ==
  /\ PoolInv(pool) /\ Timely(pool) /\ tip \in Blocks /\ LivePool(pool, tip)
  /\ phase \in {"open", "select", "empty", "block", "refused"}
  /\ phase # "open" => pool.retry = NoRetry
  /\ phase = "open" => job = NewJob({})
  /\ phase = "block" => Reruns(job.spends)
  /\ phase = "refused" => ~Reruns(job.spends)
  /\ JobInv(job)

\* A finite set as a sequence: each element once.
LEMMA SetAsSeq ==
  ASSUME NEW S, IsFiniteSet(S)
  PROVE  /\ SetToSeq(S) \in Seq(S) /\ ToSet(SetToSeq(S)) = S
         /\ \A k, l \in DOMAIN SetToSeq(S) : SetToSeq(S)[k] = SetToSeq(S)[l] => k = l
<1> DEFINE N == Cardinality(S)
           s == SetToSeq(S)
<1>1. N \in Nat /\ ExistsBijection(1 .. N, S)
  BY FS_CardinalityType
<1>2. \E f \in [1 .. N -> S] : IsInjective(f)
  BY <1>1 DEF ExistsBijection, Bijection, Injection
<1>3. s \in [1 .. N -> S] /\ IsInjective(s)
  BY <1>2, Zenon DEF SetToSeq
<1> HIDE DEF s
<1>4. s \in Injection(1 .. N, S)
  BY <1>3 DEF Injection
<1>5. Cardinality(1 .. N) = N
  <2> HIDE DEF N
  <2> QED BY <1>1, FS_Interval
<1>6. s \in Surjection(1 .. N, S)
  BY <1>4, <1>5, FS_Injection
<1>7. \A x \in S : \E k \in 1 .. N : s[k] = x
  BY <1>6 DEF Surjection
<1>8. s \in Seq(S) /\ DOMAIN s = 1 .. N
  BY <1>1, <1>3
<1>9. ToSet(s) = S
  BY <1>3, <1>7, <1>8 DEF ToSet
<1> QED BY <1>3, <1>8, <1>9 DEF IsInjective, s

\* The empty selection is sound, for any residents to consider.
LEMMA NewJobInv ==
  ASSUME NEW names, names \subseteq Residents(pool)
  PROVE  JobInv(NewJob(names))
<1> DEFINE j == NewJob(names)
<1>1. /\ IsJob(j) /\ j.todo = names /\ j.cost = 0 /\ j.fee = 0 /\ j.spends = <<>>
      /\ DOMAIN j.uses = {} /\ DOMAIN j.dedup = {} /\ DOMAIN j.ff = {}
      /\ j.skipped = 0 /\ j.lost = FALSE
  BY DEF NewJob, IsJob, JobFields
<1> HIDE DEF j
<1>2. ToSet(<<>>) = {} /\ Len(<<>>) = 0 /\ DOMAIN <<>> = {} /\ <<>> \in Seq({})
  BY DEF ToSet
<1>3. MaxSpends \in Nat /\ MaxCoinAmount \in Nat /\ MaxSkipped \in Nat
  BY AssemblyAssumption
<1>4. max_cost \in Nat /\ MaxSkipped # 0
  BY PoolAssumption, AssemblyAssumption DEF max_cost
<1>5. Counts(j)
  BY <1>1, <1>2, <1>3, <1>4 DEF Counts
<1>6. Merging(j) /\ Grounded(j) /\ Chained(j) /\ Sourced(j)
  BY <1>1, <1>2 DEF Merging, Grounded, Chained, Sourced
<1>7. Single(j)
  BY <1>1, <1>2 DEF Single, Reruns
<1>8. JobInv(j)
  BY <1>1, <1>5, <1>6, <1>7 DEF JobInv
<1> QED BY <1>8 DEF j

\* The item that is considered is one of those left.
LEMMA ConsideredIs ==
  ASSUME AssemblyInv, job.todo # {}
  PROVE  /\ Considered \in job.todo /\ Considered \in Names
         /\ Resident(Considered) \in pool.items /\ Resident(Considered).name = Considered
<1> DEFINE T == job.todo
<1>1. T \subseteq Residents(pool) /\ T # {}
  BY DEF AssemblyInv, JobInv, Counts
<1>2. Residency(pool)
  BY DEF AssemblyInv, PoolInv
<1>3. /\ Residents(pool) \subseteq Names /\ IsFiniteSet(Residents(pool))
      /\ \A n \in Residents(pool) : Bundle[n].cost > 0
  BY <1>2, ResidentsFinite DEF Residency
<1>4. IsFiniteSet(T) /\ Orders(pool.older, T)
  <2>1. Orders(pool.older, Residents(pool))
    BY <1>2 DEF Residency
  <2> HIDE DEF T
  <2> QED BY <1>1, <1>3, <2>1, FS_Subset DEF Orders
<1> HIDE DEF T
<1>5. /\ Orders(Priority(pool), T)
      /\ \A n \in T : Down(Priority(pool), T, n) = UpTo(pool, ByVirtualCost, T, n)
  BY <1>1, <1>3, <1>4, PriorityOrders
<1>6. \E n \in T : Down(Priority(pool), T, n) = {n}
  BY <1>1, <1>4, <1>5, OrderEnds
<1>7. \E n \in T : UpTo(pool, ByVirtualCost, T, n) = {n}
  BY <1>5, <1>6
<1>8. (CHOOSE n \in T : UpTo(pool, ByVirtualCost, T, n) = {n}) \in T
  BY <1>7, Zenon
<1>9. Considered \in T
  BY <1>8 DEF Considered, T
<1>10. \E i \in pool.items : i.name = Considered
  BY <1>1, <1>9 DEF Residents
<1> DEFINE n == Considered
<1> HIDE DEF n
<1>11. (CHOOSE i \in pool.items : i.name = n) \in pool.items /\ (CHOOSE i \in pool.items : i.name = n).name = n
  <2>1. \E i \in pool.items : i.name = n
    BY <1>10 DEF n
  <2> QED BY <2>1, Zenon
<1>12. Resident(n) \in pool.items /\ Resident(n).name = n
  BY <1>11 DEF Resident
<1> QED BY <1>1, <1>3, <1>9, <1>12 DEF T, n

\* An item that is left out changes what is left, and what may be merged.
LEMMA LeftOut ==
  ASSUME NEW j, JobInv(j), NEW k, IsJob(k), k.todo \subseteq j.todo,
         k.cost = j.cost, k.fee = j.fee, k.spends = j.spends, k.uses = j.uses, k.ff = j.ff,
         k.skipped \in 0 .. MaxSkipped, k.skipped = MaxSkipped => k.todo = {},
         DOMAIN j.dedup \subseteq DOMAIN k.dedup,
         k.lost \/ (k.dedup = j.dedup /\ (j.lost => k.lost))
  PROVE  JobInv(k)
<1>1. Counts(k)
  BY DEF JobInv, Counts
<1>2. Merging(k)
  BY DEF JobInv, Merging
<1>3. Grounded(k)
  BY DEF JobInv, Grounded, Standing, Used
<1>4. Chained(k)
  <2>1. \A v : Used(j, v) => Used(k, v)
    BY DEF Used
  <2>2. k.ff = j.ff /\ Chained(j)
    BY DEF JobInv
  <2> QED BY <2>1, <2>2 DEF Chained
<1>5. \A v : PlainSpend(j, v) => PlainSpend(k, v)
  BY DEF PlainSpend
<1>6. \A v : ForwardSpend(j, v) => ForwardSpend(k, v)
  BY DEF ForwardSpend
<1>7. Sourced(k)
  BY <1>5, <1>6 DEF JobInv, Sourced
<1>8. Single(k)
  BY DEF JobInv, Single
<1> QED BY <1>1, <1>2, <1>3, <1>4, <1>7, <1>8 DEF JobInv

-----------------------------------------------------------------------------
(* Block assembly: an item that is included.                               *)

\* What the spends of an item become.
LEMMA VersionIs ==
  ASSUME AssemblyInv, NEW n, Resident(n) \in pool.items, Resident(n).name = n
  PROVE  /\ FastForwards(n) \subseteq Bundle[n].spends
         /\ \A c \in Bundle[n].spends \ FastForwards(n) :
              /\ Version(n, c) = <<c, 0>>
              /\ (OnChain(c, tip) /\ ~SpentOn(c, tip)) \/ c \in Bundle[n].creates
         /\ \A c \in FastForwards(n) :
              /\ IsVersion(Version(n, c)) /\ Puzzle[Version(n, c)[1]] = Puzzle[c]
              /\ Forwarded(Version(n, c)[1])
              /\ Puzzle[c] \in DOMAIN job.ff =>
                   /\ Version(n, c) = job.ff[Puzzle[c]] /\ Version(n, c)[2] # 0
                   /\ Used(job, <<Version(n, c)[1], Version(n, c)[2] - 1>>)
              /\ Puzzle[c] \notin DOMAIN job.ff =>
                   /\ Version(n, c) = <<Resident(n).lineage[c], 0>>
                   /\ Version(n, c)[1] = Resident(n).lineage[c] /\ Version(n, c)[2] = 0
                   /\ OnChain(Version(n, c)[1], tip) /\ ~SpentOn(Version(n, c)[1], tip)
         /\ \A c, d \in FastForwards(n) : Puzzle[c] = Puzzle[d] => Version(n, c) = Version(n, d)
<1> DEFINE i == Resident(n)
<1>1. Live(i, tip)
  BY DEF AssemblyInv, LivePool
<1>2. Chained(job)
  BY DEF AssemblyInv, JobInv
<1>3. FastForwards(n) = DOMAIN i.lineage
  BY DEF FastForwards
<1>4. i \in pool.items /\ i.name = n
  OBVIOUS
<1> HIDE DEF i
<1>5. ASSUME NEW c \in DOMAIN i.lineage, Puzzle[c] \in DOMAIN job.ff
      PROVE  /\ Version(n, c) = job.ff[Puzzle[c]] /\ Version(n, c)[2] # 0
             /\ IsVersion(Version(n, c)) /\ Puzzle[Version(n, c)[1]] = Puzzle[c]
             /\ Forwarded(Version(n, c)[1])
             /\ Used(job, <<Version(n, c)[1], Version(n, c)[2] - 1>>)
  <2>1. Version(n, c) = job.ff[Puzzle[c]]
    BY <1>3, <1>5 DEF Version
  <2> QED BY <1>2, <1>5, <2>1 DEF Chained
<1>6. ASSUME NEW c \in DOMAIN i.lineage, Puzzle[c] \notin DOMAIN job.ff
      PROVE  /\ Version(n, c) = <<i.lineage[c], 0>>
             /\ Version(n, c)[1] = i.lineage[c] /\ Version(n, c)[2] = 0
             /\ OnChain(Version(n, c)[1], tip) /\ ~SpentOn(Version(n, c)[1], tip)
             /\ IsVersion(Version(n, c)) /\ Puzzle[Version(n, c)[1]] = Puzzle[c]
             /\ Forwarded(Version(n, c)[1])
  <2>1. Version(n, c) = <<i.lineage[c], 0>>
    BY <1>3, <1>6 DEF Version, i
  <2>2. /\ Puzzle[i.lineage[c]] = Puzzle[c]
        /\ OnChain(i.lineage[c], tip) /\ ~SpentOn(i.lineage[c], tip)
    BY <1>1 DEF Live
  <2>3. Forwarded(i.lineage[c])
    BY <1>4 DEF Forwarded
  <2> QED BY <2>1, <2>2, <2>3 DEF IsVersion
<1>7. \A c \in Bundle[n].spends \ DOMAIN i.lineage :
        /\ Version(n, c) = <<c, 0>>
        /\ (OnChain(c, tip) /\ ~SpentOn(c, tip)) \/ c \in Bundle[n].creates
  BY <1>1, <1>3, <1>4 DEF Version, Live
<1>8. ASSUME NEW c \in DOMAIN i.lineage, NEW d \in DOMAIN i.lineage, Puzzle[c] = Puzzle[d]
      PROVE  Version(n, c) = Version(n, d)
  <2>1. i.lineage[c] = i.lineage[d]
    BY <1>1, <1>8 DEF Live
  <2>2. CASE Puzzle[c] \in DOMAIN job.ff
    BY <1>5, <1>8, <2>2
  <2>3. CASE Puzzle[c] \notin DOMAIN job.ff
    <3>1. Version(n, c) = <<i.lineage[c], 0>> /\ Version(n, d) = <<i.lineage[d], 0>>
      BY <1>6, <1>8, <2>3
    <3> QED BY <2>1, <3>1
  <2> QED BY <2>2, <2>3
<1>9. DOMAIN i.lineage \subseteq Bundle[n].spends
  BY <1>1, <1>4 DEF Live
<1> QED BY <1>3, <1>5, <1>6, <1>7, <1>8, <1>9 DEF i

\* The spends an item adds: one for each coin that is not merged.
LEMMA UniqueAre ==
  ASSUME NEW n \in Names
  PROVE  /\ \E X : unique_spends(n) \in Seq(X)
         /\ ToSet(unique_spends(n)) = {<<Version(n, c), Solution(n, c)>> : c \in Bundle[n].spends \ Merged(n)}
         /\ Runs(n) => \A k, l \in DOMAIN unique_spends(n) :
                         unique_spends(n)[k][1] = unique_spends(n)[l][1] => k = l
         /\ ItemCost(n) \in Int
<1> DEFINE C == Bundle[n].spends \ Merged(n)
           s == SetToSeq(C)
           P(c) == <<Version(n, c), Solution(n, c)>>
           X == {P(c) : c \in C}
           u == unique_spends(n)
<1>1. IsFiniteSet(C) /\ IsFiniteSet(Merged(n)) /\ Bundle[n].cost \in Nat /\ SpendCost \in Nat
  <2>1. C \subseteq Bundle[n].spends /\ Merged(n) \subseteq Bundle[n].spends
    BY PoolAssumption DEF Merged
  <2> QED BY <2>1, PoolAssumption, AssemblyAssumption, FS_Subset
<1>2. Cardinality(Merged(n)) \in Nat
  BY <1>1, FS_CardinalityType
<1>3. ItemCost(n) \in Int
  BY <1>1, <1>2 DEF ItemCost
<1>4. s \in Seq(C) /\ ToSet(s) = C /\ \A k, l \in DOMAIN s : s[k] = s[l] => k = l
  BY <1>1, SetAsSeq
<1>5. u = [k \in DOMAIN s |-> P(s[k])]
  BY DEF unique_spends
<1> HIDE DEF s, u, C
<1>6. DOMAIN s = 1 .. Len(s) /\ Len(s) \in Nat /\ \A k \in DOMAIN s : s[k] \in C
  BY <1>4
<1>7. u \in Seq(X)
  <2>1. \A k \in DOMAIN s : P(s[k]) \in X
    BY <1>6
  <2> HIDE DEF X, P
  <2>2. u \in [1 .. Len(s) -> X]
    BY <1>5, <1>6, <2>1
  <2> QED BY <1>6, <2>2
<1>8. ToSet(u) = X
  <2>1. \A c \in C : \E k \in DOMAIN s : s[k] = c
    BY <1>4 DEF ToSet
  <2>2. DOMAIN u = DOMAIN s /\ \A k \in DOMAIN s : u[k] = P(s[k])
    BY <1>5
  <2> HIDE DEF P
  <2> QED BY <1>6, <2>1, <2>2 DEF ToSet
<1>9. ASSUME Runs(n), NEW k \in DOMAIN u, NEW l \in DOMAIN u, u[k][1] = u[l][1]
      PROVE  k = l
  <2>1. k \in DOMAIN s /\ l \in DOMAIN s /\ u[k][1] = Version(n, s[k]) /\ u[l][1] = Version(n, s[l])
    BY <1>5
  <2>2. s[k] \in Bundle[n].spends /\ s[l] \in Bundle[n].spends
    BY <1>6, <2>1 DEF C
  <2>3. s[k] = s[l]
    BY <1>9, <2>1, <2>2 DEF Runs
  <2> QED BY <1>4, <2>1, <2>3
<1> QED BY <1>3, <1>7, <1>8, <1>9 DEF u, C

\* What the block may merge on from now on is what the item adds.
LEMMA NotedAre ==
  ASSUME NEW n
  PROVE  /\ DOMAIN new_dedup(n) = {Version(n, c) : c \in Bundle[n].dedup \ Merged(n)}
         /\ \A v \in DOMAIN new_dedup(n) :
              \E c \in Bundle[n].dedup \ Merged(n) : v = Version(n, c) /\ new_dedup(n)[v] = Solution(n, c)
<1> DEFINE D == Bundle[n].dedup \ Merged(n)
           Own(v) == CHOOSE c \in D : Version(n, c) = v
           V == {Version(n, c) : c \in D}
<1>1. new_dedup(n) = [v \in V |-> Solution(n, Own(v))]
  BY DEF new_dedup
<1>2. \A v \in V : Own(v) \in D /\ Version(n, Own(v)) = v
  <2> HIDE DEF D
  <2> QED BY Zenon
<1> HIDE DEF D, Own
<1>3. DOMAIN new_dedup(n) = V
  BY <1>1
<1>4. \A v \in V : new_dedup(n)[v] = Solution(n, Own(v))
  BY <1>1
<1> QED BY <1>2, <1>3, <1>4 DEF D

\* The version after the item, of each singleton it moves.
LEMMA ForwardsAre ==
  ASSUME NEW n, \A c, d \in FastForwards(n) : Puzzle[c] = Puzzle[d] => Version(n, c) = Version(n, d)
  PROVE  /\ DOMAIN ff_update(n) = {Puzzle[c] : c \in FastForwards(n)}
         /\ \A c \in FastForwards(n) :
              ff_update(n)[Puzzle[c]] = <<Version(n, c)[1], Version(n, c)[2] + 1>>
<1> DEFINE F == FastForwards(n)
           P == {Puzzle[c] : c \in F}
           Own(p) == CHOOSE c \in F : Puzzle[c] = p
           W(v) == <<v[1], v[2] + 1>>
<1>1. ff_update(n) = [p \in P |-> W(Version(n, Own(p)))]
  BY DEF ff_update
<1>2. \A c \in F : Own(Puzzle[c]) \in F /\ Puzzle[Own(Puzzle[c])] = Puzzle[c]
  <2> HIDE DEF F
  <2> QED BY Zenon
<1>3. \A c \in F : Version(n, Own(Puzzle[c])) = Version(n, c)
  BY <1>2
<1> HIDE DEF F, Own, W
<1>4. \A c \in F : ff_update(n)[Puzzle[c]] = W(Version(n, Own(Puzzle[c])))
  BY <1>1
<1>5. DOMAIN ff_update(n) = P
  BY <1>1
<1> QED BY <1>3, <1>4, <1>5 DEF F, W

\* The concatenation of two lists of spends is one, of both lengths.
LEMMA SpendsJoined ==
  ASSUME NEW X, NEW s \in Seq(X), NEW Y, NEW u \in Seq(Y)
  PROVE  s \o u \in Seq(X \cup Y) /\ Len(s \o u) = Len(s) + Len(u)
<1>1. s \in Seq(X \cup Y) /\ u \in Seq(X \cup Y)
  OBVIOUS
<1> QED BY <1>1, ConcatProperties

\* The spends of a concatenation are those of the two lists.
LEMMA SpendsTogether ==
  ASSUME NEW X, NEW s \in Seq(X), NEW Y, NEW u \in Seq(Y)
  PROVE  ToSet(s \o u) = ToSet(s) \cup ToSet(u)
<1> DEFINE L == Len(s)
           M == Len(u)
           w == s \o u
<1>1. s \in Seq(X \cup Y) /\ u \in Seq(X \cup Y)
  OBVIOUS
<1>2. /\ w \in Seq(X \cup Y) /\ Len(w) = L + M
      /\ \A k \in 1 .. L + M : w[k] = IF k <= L THEN s[k] ELSE u[k - L]
  BY <1>1, ConcatProperties
<1>3. L \in Nat /\ M \in Nat /\ DOMAIN s = 1 .. L /\ DOMAIN u = 1 .. M /\ DOMAIN w = 1 .. L + M
  BY <1>2
<1> HIDE DEF L, M, w
<1>4. \A k \in 1 .. L : k \in DOMAIN w /\ w[k] = s[k]
  BY <1>2, <1>3
<1>5. \A k \in 1 .. M : L + k \in DOMAIN w /\ w[L + k] = u[k]
  <2> SUFFICES ASSUME NEW k \in 1 .. M PROVE L + k \in DOMAIN w /\ w[L + k] = u[k]
    OBVIOUS
  <2>1. L + k \in 1 .. L + M /\ ~(L + k <= L) /\ (L + k) - L = k
    BY <1>3
  <2> QED BY <1>2, <1>3, <2>1
<1>6. \A k \in DOMAIN w : (k \in 1 .. L /\ w[k] = s[k]) \/ (k - L \in 1 .. M /\ w[k] = u[k - L])
  BY <1>2, <1>3
<1>7. ToSet(w) = ToSet(s) \cup ToSet(u)
  <2>1. \A x \in ToSet(s) : x \in ToSet(w)
    BY <1>3, <1>4 DEF ToSet
  <2>2. \A x \in ToSet(u) : x \in ToSet(w)
    BY <1>3, <1>5 DEF ToSet
  <2>3. \A x \in ToSet(w) : x \in ToSet(s) \cup ToSet(u)
    BY <1>3, <1>6 DEF ToSet
  <2> QED BY <2>1, <2>2, <2>3
<1> QED BY <1>7 DEF w

\* Spends added behind others repeat none if the two lists share no version.
LEMMA SpendsBehind ==
  ASSUME NEW X, NEW s \in Seq(X), NEW Y, NEW u \in Seq(Y)
  PROVE  Reruns(s) /\ Reruns(u) /\ (\A a \in ToSet(s), b \in ToSet(u) : a[1] # b[1]) => Reruns(s \o u)
<1> DEFINE L == Len(s)
           M == Len(u)
           w == s \o u
<1>1. s \in Seq(X \cup Y) /\ u \in Seq(X \cup Y)
  OBVIOUS
<1>2. /\ w \in Seq(X \cup Y) /\ Len(w) = L + M
      /\ \A k \in 1 .. L + M : w[k] = IF k <= L THEN s[k] ELSE u[k - L]
  BY <1>1, ConcatProperties
<1>3. L \in Nat /\ M \in Nat /\ DOMAIN s = 1 .. L /\ DOMAIN u = 1 .. M /\ DOMAIN w = 1 .. L + M
  BY <1>2
<1> HIDE DEF L, M, w
<1>4. \A k \in DOMAIN w : (k \in 1 .. L /\ w[k] = s[k]) \/ (k - L \in 1 .. M /\ w[k] = u[k - L])
  BY <1>2, <1>3
<1>5. ASSUME Reruns(s), Reruns(u), \A a \in ToSet(s), b \in ToSet(u) : a[1] # b[1] PROVE Reruns(w)
  <2> SUFFICES ASSUME NEW k \in DOMAIN w, NEW l \in DOMAIN w, w[k][1] = w[l][1] PROVE k = l
    BY DEF Reruns
  <2>1. k \in 1 .. L + M /\ l \in 1 .. L + M
    BY <1>3
  <2>2. CASE k \in 1 .. L /\ w[k] = s[k] /\ l \in 1 .. L /\ w[l] = s[l]
    BY <1>3, <1>5, <2>2 DEF Reruns
  <2>3. CASE k - L \in 1 .. M /\ w[k] = u[k - L] /\ l - L \in 1 .. M /\ w[l] = u[l - L]
    <3>1. k - L = l - L
      BY <1>3, <1>5, <2>3 DEF Reruns
    <3> QED BY <1>3, <2>1, <3>1
  <2>4. CASE k \in 1 .. L /\ w[k] = s[k] /\ l - L \in 1 .. M /\ w[l] = u[l - L]
    BY <1>3, <1>5, <2>4 DEF ToSet
  <2>5. CASE k - L \in 1 .. M /\ w[k] = u[k - L] /\ l \in 1 .. L /\ w[l] = s[l]
    BY <1>3, <1>5, <2>5 DEF ToSet
  <2> QED BY <1>4, <2>2, <2>3, <2>4, <2>5
<1> QED BY <1>5 DEF w

\* A new spend never repeats one in the block, unless residents are rivals.
LEMMA NoRepeat ==
  ASSUME AssemblyInv, NEW n, n \notin DOMAIN job.uses, Resident(n) \in pool.items, Resident(n).name = n,
         ~Rivalry, NEW a \in ToSet(job.spends), NEW c \in Bundle[n].spends \ Merged(n)
  PROVE  a[1] # Version(n, c)
<1> DEFINE v == Version(n, c)
           i == Resident(n)
<1> SUFFICES ASSUME a[1] = v PROVE FALSE
  OBVIOUS
<1>1. PlainSpend(job, v) \/ ForwardSpend(job, v)
  BY DEF AssemblyInv, JobInv, Sourced
<1>2. i \in pool.items /\ i.name = n /\ FastForwards(n) = DOMAIN i.lineage
  BY DEF FastForwards
<1>3. Chained(job)
  BY DEF AssemblyInv, JobInv
<1>4. CASE c \notin FastForwards(n)
  <2>1. v = <<c, 0>> /\ v[1] = c
    BY <1>4, VersionIs
  <2>2. CASE PlainSpend(job, v)
    <3>1. PICK k \in pool.items : /\ k.name \in DOMAIN job.uses
                                  /\ \E d \in Bundle[k.name].spends \ DOMAIN k.lineage :
                                       /\ v = <<d, 0>>
                                       /\ d \in Bundle[k.name].dedup => v \in DOMAIN job.dedup
      BY <2>2 DEF PlainSpend
    <3>2. /\ c \in Bundle[k.name].spends \ DOMAIN k.lineage
          /\ c \in Bundle[k.name].dedup => v \in DOMAIN job.dedup
      BY <2>1, <3>1
    <3>3. k.name # n
      BY <3>1
    <3>4. Compatible(k, i)
      BY <1>2 DEF AssemblyInv, PoolInv, RivalFree
    <3>5. c \in Bundle[k.name].dedup /\ c \in Bundle[n].dedup
      BY <1>2, <1>4, <3>2, <3>3, <3>4 DEF Compatible
    <3> QED BY <3>2, <3>5 DEF Merged
  <2>3. CASE ForwardSpend(job, v)
    <3>1. Forwarded(c)
      BY <2>1, <2>3 DEF ForwardSpend
    <3>2. c \in Bundle[i.name].spends \ DOMAIN i.lineage
      BY <1>2, <1>4
    <3> HIDE DEF i
    <3> QED BY <1>2, <3>1, <3>2 DEF Forwarded, Rivalry
  <2> QED BY <1>1, <2>2, <2>3
<1>5. CASE c \in FastForwards(n)
  <2>1. CASE Puzzle[c] \in DOMAIN job.ff
    <3>1. v = job.ff[Puzzle[c]] /\ IsVersion(v) /\ v[2] # 0 /\ Puzzle[v[1]] = Puzzle[c]
      BY <1>5, <2>1, VersionIs
    <3> HIDE DEF v
    <3>2. ~PlainSpend(job, v)
      <4>1. \A d : v = <<d, 0>> => v[2] = 0
        OBVIOUS
      <4> QED BY <3>1, <4>1 DEF PlainSpend
    <3>3. ~ForwardSpend(job, v)
      <4>1. v[2] \in Nat /\ ~(v[2] < v[2])
        BY <3>1 DEF IsVersion
      <4> QED BY <3>1, <4>1 DEF ForwardSpend
    <3> QED BY <1>1, <3>2, <3>3
  <2>2. CASE Puzzle[c] \notin DOMAIN job.ff
    <3>1. v = <<i.lineage[c], 0>> /\ v[1] = i.lineage[c] /\ Puzzle[v[1]] = Puzzle[c]
      BY <1>5, <2>2, VersionIs
    <3> HIDE DEF v, i
    <3>2. ~ForwardSpend(job, v)
      BY <2>2, <3>1 DEF ForwardSpend
    <3>3. PICK k \in pool.items : \E d \in Bundle[k.name].spends \ DOMAIN k.lineage : v = <<d, 0>>
      BY <1>1, <3>2 DEF PlainSpend
    <3>4. i.lineage[c] \in Bundle[k.name].spends \ DOMAIN k.lineage
      BY <3>1, <3>3
    <3> QED BY <1>2, <1>5, <3>4 DEF Rivalry
  <2> QED BY <2>1, <2>2
<1> QED BY <1>4, <1>5

\* The selection r once n is included.
Joined(n, r) ==
  /\ IsJob(r) /\ r.todo \subseteq job.todo \ {n}
  /\ r.ff = Over(ff_update(n), job.ff)
  /\ r.spends = job.spends \o unique_spends(n)
  /\ r.uses = Over([k \in {n} |-> Uses(n)], job.uses)
  /\ r.dedup = Over(new_dedup(n), job.dedup)
  /\ r.cost = job.cost + ItemCost(n) /\ (r.cost > max_cost => r.todo = {})
  /\ r.fee = job.fee + Bundle[n].fee
  /\ r.skipped = job.skipped /\ (job.lost => r.lost)

\* An item that is included keeps the selection sound.
LEMMA Included ==
  ASSUME AssemblyInv, NEW n \in job.todo, n \in Names,
         Resident(n) \in pool.items, Resident(n).name = n,
         FeeFits(n), Runs(n), ~Differs(n), Slots(n),
         NEW r, Joined(n, r)
  PROVE  JobInv(r)
<1> DEFINE U == unique_spends(n)
           F == FastForwards(n)
           S == Bundle[n].spends
           i == Resident(n)
<1>0. JobInv(job) /\ i \in pool.items /\ i.name = n /\ F = DOMAIN i.lineage
  BY DEF AssemblyInv, FastForwards
<1>1. /\ n \notin DOMAIN job.uses /\ n \in Residents(pool) /\ n \in DOMAIN r.uses /\ r.uses[n] = Uses(n)
      /\ DOMAIN r.uses = DOMAIN job.uses \cup {n}
      /\ \A k \in DOMAIN job.uses : r.uses[k] = job.uses[k]
  <2>1. n \notin DOMAIN job.uses /\ n \in Residents(pool)
    BY <1>0 DEF JobInv, Counts
  <2>2. r.uses = Over([k \in {n} |-> Uses(n)], job.uses)
    BY DEF Joined
  <2> QED BY <2>1, <2>2 DEF Over
<1>2. PICK X : job.spends \in Seq(X)
  BY <1>0 DEF JobInv, Counts
<1>3. PICK Y : U \in Seq(Y)
  BY UniqueAre
<1>4. ToSet(U) = {<<Version(n, c), Solution(n, c)>> : c \in S \ Merged(n)} /\ Reruns(U) /\ ItemCost(n) \in Int
  BY UniqueAre DEF Reruns
<1>5. /\ r.spends \in Seq(X \cup Y) /\ Len(r.spends) = Len(job.spends) + Len(U)
      /\ ToSet(r.spends) = ToSet(job.spends) \cup ToSet(U)
  <2>1. r.spends = job.spends \o U
    BY DEF Joined
  <2> DEFINE w == job.spends
  <2>2. w \in Seq(X)
    BY <1>2
  <2> HIDE DEF U, w
  <2>3. w \o U \in Seq(X \cup Y)
    BY <1>3, <2>2, SpendsJoined
  <2>4. Len(w \o U) = Len(w) + Len(U)
    BY <1>3, <2>2, SpendsJoined
  <2>5. ToSet(w \o U) = ToSet(w) \cup ToSet(U)
    BY <1>3, <2>2, SpendsTogether, Zenon
  <2> QED BY <2>1, <2>3, <2>4, <2>5 DEF w
<1>6. /\ DOMAIN r.dedup = DOMAIN job.dedup \cup DOMAIN new_dedup(n)
      /\ \A v \in DOMAIN new_dedup(n) : r.dedup[v] = new_dedup(n)[v]
      /\ \A v \in DOMAIN job.dedup \ DOMAIN new_dedup(n) : r.dedup[v] = job.dedup[v]
  BY DEF Over, Joined
<1>7. /\ DOMAIN r.ff = DOMAIN job.ff \cup DOMAIN ff_update(n)
      /\ \A p \in DOMAIN ff_update(n) : r.ff[p] = ff_update(n)[p]
      /\ \A p \in DOMAIN job.ff \ DOMAIN ff_update(n) : r.ff[p] = job.ff[p]
  BY DEF Over, Joined
<1>8. /\ DOMAIN ff_update(n) = {Puzzle[c] : c \in F}
      /\ \A c \in F : ff_update(n)[Puzzle[c]] = <<Version(n, c)[1], Version(n, c)[2] + 1>>
  BY VersionIs, ForwardsAre
<1>17. /\ F \subseteq S
       /\ \A c \in F : IsVersion(Version(n, c)) /\ Puzzle[Version(n, c)[1]] = Puzzle[c] /\ Forwarded(Version(n, c)[1])
  <2>1. F \subseteq S
    BY VersionIs
  <2>2. ASSUME NEW c \in F
        PROVE  IsVersion(Version(n, c)) /\ Puzzle[Version(n, c)[1]] = Puzzle[c] /\ Forwarded(Version(n, c)[1])
    BY VersionIs
  <2> QED BY <2>1, <2>2
<1>18. \A c \in Bundle[n].dedup \ Merged(n) : Version(n, c) \in DOMAIN new_dedup(n)
  <2> DEFINE D == Bundle[n].dedup \ Merged(n)
  <2>1. DOMAIN new_dedup(n) = {Version(n, c) : c \in D}
    BY NotedAre
  <2> HIDE DEF D
  <2>2. \A c \in D : Version(n, c) \in DOMAIN new_dedup(n)
    BY <2>1
  <2> QED BY <2>2 DEF D
<1>19. r.spends = job.spends \o U
  BY DEF Joined
<1> HIDE DEF U, i
<1>9. \A v : Used(job, v) => Used(r, v)
  BY <1>1 DEF Used
<1>10. \A c \in S : Used(r, Version(n, c))
  <2> SUFFICES ASSUME NEW c \in S PROVE Used(r, Version(n, c))
    OBVIOUS
  <2>1. <<Version(n, c), Solution(n, c)>> \in Uses(n)
    BY Zenon DEF Uses
  <2> QED BY <1>1, <2>1 DEF Used
<1>11. Counts(r)
  <2>1. /\ r.todo \subseteq Residents(pool) /\ DOMAIN r.uses \subseteq Residents(pool) \ r.todo
    BY <1>0, <1>1 DEF JobInv, Counts, Joined
  <2>2. r.cost \in Int /\ (r.cost > max_cost => r.todo = {})
    BY <1>0, <1>4 DEF JobInv, Counts, Joined
  <2>3. r.fee \in Nat /\ r.fee <= MaxCoinAmount
    BY <1>0, PoolAssumption DEF JobInv, Counts, FeeFits, Joined
  <2>4. Len(r.spends) <= MaxSpends
    BY <1>5 DEF Slots, U
  <2>5. r.skipped \in 0 .. MaxSkipped /\ (r.skipped = MaxSkipped => r.todo = {})
    BY <1>0 DEF JobInv, Counts, Joined
  <2> QED BY <1>5, <2>1, <2>2, <2>3, <2>4, <2>5 DEF Counts
<1>12. Merging(r)
  <2> SUFFICES ASSUME ~r.lost
               PROVE  /\ \A k \in DOMAIN r.uses : r.uses[k] \subseteq ToSet(r.spends)
                      /\ \A v \in DOMAIN r.dedup : <<v, r.dedup[v]>> \in ToSet(r.spends)
    BY DEF Merging
  <2>1. /\ \A k \in DOMAIN job.uses : job.uses[k] \subseteq ToSet(job.spends)
        /\ \A v \in DOMAIN job.dedup : <<v, job.dedup[v]>> \in ToSet(job.spends)
    BY <1>0 DEF JobInv, Merging, Joined
  <2>2. ASSUME NEW c \in S PROVE <<Version(n, c), Solution(n, c)>> \in ToSet(r.spends)
    <3>1. CASE c \in Merged(n)
      <4>1. Version(n, c) \in DOMAIN job.dedup /\ job.dedup[Version(n, c)] = Solution(n, c)
        BY <3>1 DEF Merged, Differs
      <4> QED BY <1>5, <2>1, <4>1
    <3>2. CASE c \notin Merged(n)
      BY <1>4, <1>5, <2>2, <3>2
    <3> QED BY <3>1, <3>2
  <2>3. \A k \in DOMAIN r.uses : r.uses[k] \subseteq ToSet(r.spends)
    <3>1. \A u \in Uses(n) : u \in ToSet(r.spends)
      BY <2>2 DEF Uses
    <3>2. \A k \in DOMAIN job.uses : r.uses[k] \subseteq ToSet(r.spends)
      BY <1>1, <1>5, <2>1
    <3> QED BY <1>1, <3>1, <3>2
  <2>4. \A v \in DOMAIN new_dedup(n) : <<v, new_dedup(n)[v]>> \in ToSet(r.spends)
    <3>1. Bundle[n].dedup \subseteq S
      BY PoolAssumption
    <3> QED BY <2>2, <3>1, NotedAre
  <2>5. \A v \in DOMAIN r.dedup : <<v, r.dedup[v]>> \in ToSet(r.spends)
    BY <1>5, <1>6, <2>1, <2>4
  <2> QED BY <2>3, <2>5
<1>13. Grounded(r)
  <2>1. \A v : Standing(job, v) => Standing(r, v)
    BY <1>1, <1>9 DEF Standing
  <2>2. ASSUME NEW c \in S PROVE Standing(r, Version(n, c))
    <3>1. CASE c \notin F
      <4>1. /\ Version(n, c) = <<c, 0>>
            /\ (OnChain(c, tip) /\ ~SpentOn(c, tip)) \/ c \in Bundle[n].creates
        BY <3>1, VersionIs
      <4> QED BY <1>1, <4>1 DEF Standing, IsVersion
    <3>2. CASE c \in F
      <4>1. /\ IsVersion(Version(n, c))
            /\ Puzzle[c] \in DOMAIN job.ff =>
                 /\ Version(n, c)[2] # 0
                 /\ Used(job, <<Version(n, c)[1], Version(n, c)[2] - 1>>)
            /\ Puzzle[c] \notin DOMAIN job.ff =>
                 /\ Version(n, c)[2] = 0
                 /\ OnChain(Version(n, c)[1], tip) /\ ~SpentOn(Version(n, c)[1], tip)
        BY <3>2, VersionIs
      <4> QED BY <1>9, <4>1 DEF Standing
    <3> QED BY <3>1, <3>2
  <2>3. \A s \in ToSet(job.spends) : Standing(job, s[1])
    BY <1>0 DEF JobInv, Grounded
  <2>4. \A s \in ToSet(U) : Standing(r, s[1])
    BY <1>4, <2>2
  <2> QED BY <1>5, <2>1, <2>3, <2>4 DEF Grounded
<1>14. Chained(r)
  <2> DEFINE Good(p) == /\ IsVersion(r.ff[p]) /\ r.ff[p][2] # 0 /\ Puzzle[r.ff[p][1]] = p
                        /\ Used(r, <<r.ff[p][1], r.ff[p][2] - 1>>)
                        /\ Forwarded(r.ff[p][1])
  <2>1. ASSUME NEW p \in DOMAIN ff_update(n) PROVE Good(p)
    <3>1. PICK c \in F : p = Puzzle[c]
      BY <1>8
    <3> DEFINE v == Version(n, c)
    <3>2. r.ff[p] = <<v[1], v[2] + 1>>
      BY <1>7, <1>8, <3>1
    <3>3. IsVersion(v) /\ Puzzle[v[1]] = p /\ Forwarded(v[1]) /\ c \in S
      BY <1>17, <3>1
    <3>4. Used(r, v)
      BY <1>10, <3>3
    <3> HIDE DEF v
    <3>5. v = <<v[1], v[2]>> /\ v[2] \in Nat /\ (v[2] + 1) - 1 = v[2] /\ v[2] + 1 # 0 /\ v[2] + 1 \in Nat
      BY <3>3 DEF IsVersion
    <3>6. r.ff[p][1] = v[1] /\ r.ff[p][2] = v[2] + 1 /\ IsVersion(r.ff[p])
      BY <3>2, <3>5 DEF IsVersion
    <3>7. <<r.ff[p][1], r.ff[p][2] - 1>> = v
      BY <3>5, <3>6
    <3> QED BY <3>3, <3>4, <3>5, <3>6, <3>7
  <2>2. ASSUME NEW p \in DOMAIN job.ff \ DOMAIN ff_update(n) PROVE Good(p)
    <3>1. r.ff[p] = job.ff[p]
      BY <1>7
    <3> QED BY <1>0, <1>9, <2>2, <3>1 DEF JobInv, Chained
  <2> QED BY <1>7, <2>1, <2>2 DEF Chained
<1>15. Sourced(r)
  <2>1. \A v : PlainSpend(job, v) => PlainSpend(r, v)
    BY <1>1, <1>6 DEF PlainSpend
  <2>2. ASSUME NEW v, ForwardSpend(job, v) PROVE ForwardSpend(r, v)
    <3> DEFINE p == Puzzle[v[1]]
    <3>1. /\ IsVersion(v) /\ Forwarded(v[1]) /\ p \in DOMAIN job.ff
          /\ job.ff[p][1] = v[1] /\ v[2] < job.ff[p][2]
      BY <2>2 DEF ForwardSpend
    <3> HIDE DEF p
    <3>2. p \in DOMAIN r.ff
      BY <1>7, <3>1
    <3>3. r.ff[p][1] = v[1] /\ v[2] < r.ff[p][2]
      <4>1. CASE p \notin DOMAIN ff_update(n)
        BY <1>7, <3>1, <4>1
      <4>2. CASE p \in DOMAIN ff_update(n)
        <5>1. PICK c \in F : p = Puzzle[c]
          BY <1>8, <4>2
        <5>2. Version(n, c) = job.ff[p]
          BY <3>1, <5>1, VersionIs
        <5>3. r.ff[p] = <<job.ff[p][1], job.ff[p][2] + 1>>
          BY <1>7, <1>8, <4>2, <5>1, <5>2
        <5>4. job.ff[p][2] \in Nat /\ v[2] \in Nat
          BY <1>0, <3>1 DEF JobInv, Chained, IsVersion
        <5> QED BY <3>1, <5>3, <5>4
      <4> QED BY <4>1, <4>2
    <3> QED BY <3>1, <3>2, <3>3 DEF ForwardSpend, p
  <2>3. ASSUME NEW c \in S \ Merged(n)
        PROVE  PlainSpend(r, Version(n, c)) \/ ForwardSpend(r, Version(n, c))
    <3>1. CASE c \notin F
      <4>1. Version(n, c) = <<c, 0>>
        BY <3>1, VersionIs
      <4>2. c \in Bundle[n].dedup => Version(n, c) \in DOMAIN r.dedup
        BY <1>6, <1>18, <2>3
      <4> QED BY <1>0, <1>1, <3>1, <4>1, <4>2 DEF PlainSpend
    <3>2. CASE c \in F
      <4> DEFINE v == Version(n, c)
      <4>1. IsVersion(v) /\ Puzzle[v[1]] = Puzzle[c] /\ Forwarded(v[1])
        BY <1>17, <3>2
      <4>2. Puzzle[c] \in DOMAIN r.ff /\ r.ff[Puzzle[c]] = <<v[1], v[2] + 1>>
        BY <1>7, <1>8, <3>2
      <4> HIDE DEF v
      <4>3. v[2] < v[2] + 1
        BY <4>1 DEF IsVersion
      <4>4. ForwardSpend(r, v)
        BY <4>1, <4>2, <4>3 DEF ForwardSpend
      <4> QED BY <4>4 DEF v
    <3> QED BY <3>1, <3>2
  <2>4. \A s \in ToSet(job.spends) : PlainSpend(job, s[1]) \/ ForwardSpend(job, s[1])
    BY <1>0 DEF JobInv, Sourced
  <2>5. \A s \in ToSet(U) : PlainSpend(r, s[1]) \/ ForwardSpend(r, s[1])
    BY <1>4, <2>3
  <2> QED BY <1>5, <2>1, <2>2, <2>4, <2>5 DEF Sourced
<1>16. Single(r)
  <2> SUFFICES ASSUME ~Rivalry PROVE Reruns(r.spends)
    BY DEF Single
  <2>1. Reruns(job.spends)
    BY <1>0 DEF JobInv, Single
  <2>2. \A a \in ToSet(job.spends) : \A c \in S \ Merged(n) : a[1] # Version(n, c)
    BY <1>1, NoRepeat
  <2>3. \A a \in ToSet(job.spends), b \in ToSet(U) : a[1] # b[1]
    BY <1>4, <2>2
  <2> DEFINE w == job.spends
  <2>4. w \in Seq(X) /\ Reruns(w) /\ \A a \in ToSet(w), b \in ToSet(U) : a[1] # b[1]
    BY <1>2, <2>1, <2>3
  <2> HIDE DEF w
  <2>5. Reruns(w \o U)
    BY <1>3, <1>4, <2>4, SpendsBehind, Zenon
  <2> QED BY <1>19, <2>5 DEF w
<1>20. IsJob(r)
  BY DEF Joined
<1> QED BY <1>11, <1>12, <1>13, <1>14, <1>15, <1>16, <1>20 DEF JobInv

-----------------------------------------------------------------------------
(* Block assembly: the steps.                                              *)

\* A sound selection stays so while the pool and the tip stand still.
LEMMA Carried ==
  ASSUME pool' = pool, tip' = tip, NEW r, JobInv(r), job' = r
  PROVE  JobInv(job)'
<1>1. IsJob(job)'
  BY DEF JobInv, IsJob
<1>2. Counts(job)'
  BY DEF JobInv, Counts, Residents
<1>3. Merging(job)'
  BY DEF JobInv, Merging
<1>4. Grounded(job)'
  BY DEF JobInv, Grounded, Standing, Used
<1>5. Chained(job)'
  <2>1. \A x : Forwarded(x) => Forwarded(x)'
    BY DEF Forwarded
  <2>2. \A v : Used(r, v) => Used(job', v)
    OBVIOUS
  <2> QED BY <2>1, <2>2 DEF JobInv, Chained
<1>6. Sourced(job)'
  <2>1. \A x : Forwarded(x) => Forwarded(x)'
    BY DEF Forwarded
  <2> QED BY <2>1 DEF JobInv, Sourced, PlainSpend, ForwardSpend
<1>7. Single(job)'
  BY DEF JobInv, Single, Rivalry
<1> QED BY <1>1, <1>2, <1>3, <1>4, <1>5, <1>6, <1>7 DEF JobInv

\* The empty selection is sound whatever becomes of the pool and the tip.
LEMMA EmptyJobNext ==
  ASSUME job' = NewJob({})
  PROVE  JobInv(job)'
<1>1. /\ IsJob(NewJob({})) /\ NewJob({}).todo = {} /\ NewJob({}).cost = 0 /\ NewJob({}).fee = 0
      /\ NewJob({}).spends = <<>> /\ DOMAIN NewJob({}).uses = {} /\ DOMAIN NewJob({}).dedup = {}
      /\ DOMAIN NewJob({}).ff = {} /\ NewJob({}).skipped = 0 /\ NewJob({}).lost = FALSE
  BY DEF NewJob, IsJob, JobFields
<1>2. /\ IsJob(job') /\ job'.todo = {} /\ job'.cost = 0 /\ job'.fee = 0
      /\ job'.spends = <<>> /\ DOMAIN job'.uses = {} /\ DOMAIN job'.dedup = {}
      /\ DOMAIN job'.ff = {} /\ job'.skipped = 0 /\ job'.lost = FALSE
  BY <1>1
<1>3. ToSet(<<>>) = {} /\ Len(<<>>) = 0 /\ DOMAIN <<>> = {} /\ <<>> \in Seq({})
  BY DEF ToSet
<1>4. MaxSpends \in Nat /\ MaxCoinAmount \in Nat /\ MaxSkipped \in Nat
  BY AssemblyAssumption
<1>5. Counts(job)'
  <2>1. /\ job'.cost \in Int /\ job'.fee \in Nat /\ job'.fee <= MaxCoinAmount
        /\ job'.skipped \in 0 .. MaxSkipped /\ Len(job'.spends) <= MaxSpends
    BY <1>2, <1>3, <1>4
  <2>2. \E X : job'.spends \in Seq(X)
    BY <1>2, <1>3
  <2> QED BY <1>2, <2>1, <2>2 DEF Counts
<1>6. Merging(job)' /\ Grounded(job)' /\ Chained(job)' /\ Sourced(job)'
  BY <1>2, <1>3 DEF Merging, Grounded, Chained, Sourced
<1>7. Single(job)'
  BY <1>2, <1>3 DEF Single, Reruns
<1>8. IsJob(job)'
  BY <1>2 DEF IsJob
<1> QED BY <1>5, <1>6, <1>7, <1>8 DEF JobInv

\* The assembly starts with an empty pool and nothing selected.
LEMMA AssemblyStarts == AssemblyInit => AssemblyInv
<1> SUFFICES ASSUME AssemblyInit PROVE AssemblyInv
  OBVIOUS
<1>1. PoolInv(pool) /\ Timely(pool) /\ tip \in Blocks
  BY EmptyPoolInv, TreeAssumption DEF AssemblyInit
<1>2. LivePool(pool, tip)
  <2>1. pool.items = {}
    BY DEF AssemblyInit, EmptyPool
  <2> QED BY <2>1 DEF LivePool
<1>3. JobInv(job)
  BY NewJobInv DEF AssemblyInit
<1> QED BY <1>1, <1>2, <1>3 DEF AssemblyInit, AssemblyInv

\* The pool's own steps, between selections.
LEMMA PoolSteps ==
  ASSUME AssemblyInv, (\E n \in Names : Offer(n)) \/ (\E b \in Blocks : Advance(b)) \/ RetryNext
  PROVE  AssemblyInv'
<1>1. phase = "open" /\ UNCHANGED <<phase, job>>
  BY DEF AssemblyInv, Offer, Advance, RetryNext, Open
<1>2. JobInv(job)' /\ job' = NewJob({})
  BY <1>1, EmptyJobNext DEF AssemblyInv
<1>3. PoolInv(pool) /\ IsPool(pool) /\ Timely(pool) /\ tip \in Blocks /\ LivePool(pool, tip)
  BY DEF AssemblyInv, PoolInv
<1> SUFFICES PoolInv(pool') /\ Timely(pool') /\ tip' \in Blocks /\ LivePool(pool', tip')
  BY <1>1, <1>2 DEF AssemblyInv
<1>4. CASE \E n \in Names : Offer(n)
  <2>1. PICK n \in Names : pool' = admit(pool, n, tip).pool /\ tip' = tip
    BY <1>4 DEF Offer
  <2> QED BY <1>3, <2>1, AdmitPool, AdmitLive
<1>5. CASE \E b \in Blocks : Advance(b)
  <2>1. PICK b \in Blocks : Advance(b)
    BY <1>5
  <2> DEFINE peak == [height |-> Height[b], time |-> Stamp[b]]
  <2>2. tip' = b /\ pool' = new_peak(pool, peak, Removes[b], b)
    BY <2>1 DEF Advance
  <2>3. peak.height \in Nat \cup {-1}
    BY TreeAssumption
  <2>4. b = tip \/ Path[b] = Path[tip] \cup {b}
    BY <2>1, TreeAssumption DEF Advance
  <2> HIDE DEF peak
  <2> QED BY <1>3, <2>2, <2>3, <2>4, PeakPool, PeakLive
<1>6. CASE RetryNext
  <2>1. tip' = tip
    BY <1>6 DEF RetryNext
  <2>2. CASE pool.retry.names # {}
    <3>1. PICK n \in pool.retry.names : pool' = RetryOne(pool, n, tip)
      BY <1>6, <2>2 DEF RetryNext
    <3> QED BY <1>3, <2>1, <3>1, RetryPool, RetryLive
  <2>3. CASE pool.retry.names = {}
    <3>1. pool' = drain_conflict(pool) \/ pool' = [pool EXCEPT !.retry = NoRetry]
      BY <1>6, <2>3 DEF RetryNext
    <3>2. PoolInv(pool') /\ Timely(pool')
      BY <1>3, <2>3, <3>1, DrainPool, DonePool
    <3>3. pool'.items = pool.items
      BY <1>3, <3>1 DEF IsPool, PoolFields, drain_conflict
    <3> QED BY <1>3, <2>1, <3>2, <3>3 DEF LivePool
  <2> QED BY <2>2, <2>3
<1> QED BY <1>4, <1>5, <1>6

\* A step of the selection, to a job that is sound.
LEMMA SelectionStep ==
  ASSUME AssemblyInv, Selecting, Frame, NEW r, JobInv(r), job' = r
  PROVE  AssemblyInv'
<1>1. pool' = pool /\ tip' = tip /\ phase' = phase /\ phase = "select"
  BY DEF Frame, Selecting
<1>2. JobInv(job)'
  BY <1>1, Carried
<1> QED BY <1>1, <1>2 DEF AssemblyInv

\* An item that is passed over, skipped or failed, and the end of the selection.
LEMMA LeavingSteps ==
  ASSUME AssemblyInv, Break \/ PassOver \/ SkipDedup \/ Fail \/ Skip
  PROVE  AssemblyInv'
<1>1. Selecting /\ job.todo # {} /\ Frame
  BY DEF Break, PassOver, SkipDedup, Fail, Skip, Pending
<1>2. JobInv(job) /\ IsJob(job) /\ job.skipped \in 0 .. MaxSkipped /\ job.skipped # MaxSkipped
  BY <1>1 DEF AssemblyInv, JobInv, Counts
<1>3. MaxSkipped \in Nat /\ PriorityThreshold \in 1 .. MaxSkipped - 1
  BY AssemblyAssumption
<1> DEFINE Same(k) == /\ IsJob(k) /\ k.todo \subseteq job.todo
                      /\ k.cost = job.cost /\ k.fee = job.fee /\ k.spends = job.spends
                      /\ k.uses = job.uses /\ k.ff = job.ff
<1>4. CASE Break
  <2>1. Same(job') /\ job'.skipped = job.skipped /\ job'.dedup = job.dedup /\ (job.lost => job'.lost)
    BY <1>2, <1>4 DEF Break, Stop, IsJob, JobFields
  <2>2. JobInv(job')
    BY <1>2, <1>3, <2>1, LeftOut
  <2> QED BY <1>1, <2>2, SelectionStep
<1>5. CASE PassOver \/ SkipDedup
  <2>1. job' = Next1
    BY <1>5 DEF PassOver, SkipDedup
  <2>2. Same(job') /\ job'.skipped = job.skipped /\ job'.dedup = job.dedup /\ (job.lost => job'.lost)
    BY <1>2, <2>1 DEF Next1, IsJob, JobFields
  <2>3. JobInv(job')
    BY <1>2, <1>3, <2>2, LeftOut
  <2> QED BY <1>1, <2>3, SelectionStep
<1>6. CASE Fail
  <2>1. job' = [Next1 EXCEPT !.skipped = @ + 1]
    BY <1>6 DEF Fail
  <2>2. /\ Same(job') /\ job'.skipped = job.skipped + 1 /\ job'.dedup = job.dedup
        /\ (job.lost => job'.lost)
    BY <1>2, <2>1 DEF Next1, IsJob, JobFields
  <2>3. job.skipped < PriorityThreshold
    BY <1>6 DEF Fail, TriesSpecial, Special, Rebased
  <2>4. job'.skipped \in 0 .. MaxSkipped /\ job'.skipped # MaxSkipped
    BY <1>2, <1>3, <2>2, <2>3
  <2>5. JobInv(job')
    BY <1>2, <2>2, <2>4, LeftOut
  <2> QED BY <1>1, <2>5, SelectionStep
<1>7. CASE Skip
  <2> DEFINE j == [Noted EXCEPT !.skipped = @ + 1, !.lost = TRUE]
  <2>1. job' = IF j.skipped < MaxSkipped THEN j ELSE Stop(j)
    BY <1>7 DEF Skip
  <2>2. /\ Same(j) /\ j.skipped = job.skipped + 1 /\ j.lost
        /\ j.dedup = Over(new_dedup(Considered), job.dedup)
    BY <1>2 DEF Noted, Next1, IsJob, JobFields
  <2> HIDE DEF j
  <2>3. Same(Stop(j)) /\ Stop(j).skipped = j.skipped /\ Stop(j).lost /\ Stop(j).dedup = j.dedup /\ Stop(j).todo = {}
    BY <2>2 DEF Stop, IsJob, JobFields
  <2>4. Same(job') /\ job'.skipped = job.skipped + 1 /\ job'.lost /\ job'.dedup = j.dedup
    BY <2>1, <2>2, <2>3
  <2>5. DOMAIN job.dedup \subseteq DOMAIN job'.dedup
    BY <2>2, <2>4 DEF Over
  <2>6. job'.skipped \in 0 .. MaxSkipped /\ (job'.skipped = MaxSkipped => job'.todo = {})
    BY <1>2, <1>3, <2>1, <2>2, <2>3, <2>4
  <2>7. JobInv(job')
    BY <1>2, <2>4, <2>5, <2>6, LeftOut
  <2> QED BY <1>1, <2>7, SelectionStep
<1> QED BY <1>4, <1>5, <1>6, <1>7

\* An item that is included.
LEMMA IncludeStep ==
  ASSUME AssemblyInv, Include
  PROVE  AssemblyInv'
<1> DEFINE n == Considered
           j == [Noted EXCEPT !.ff = Over(ff_update(n), @),
                              !.spends = @ \o unique_spends(n),
                              !.uses = Over([k \in {n} |-> Uses(n)], @),
                              !.cost = @ + ItemCost(n),
                              !.fee = @ + Bundle[n].fee]
<1>1. /\ Selecting /\ job.todo # {} /\ Frame
      /\ FeeFits(n) /\ Runs(n) /\ ~Differs(n) /\ Slots(n)
      /\ job' = IF max_cost - j.cost < MinCost \/ Len(j.spends) >= MaxSpends THEN Stop(j) ELSE j
  BY DEF Include, Pending, Ready
<1>2. n \in job.todo /\ n \in Names /\ Resident(n) \in pool.items /\ Resident(n).name = n
  BY <1>1, ConsideredIs
<1>3. IsJob(job) /\ job.cost \in Int
  BY DEF AssemblyInv, JobInv, Counts
<1> DEFINE Fields(k) ==
             /\ IsJob(k)
             /\ k.ff = Over(ff_update(n), job.ff)
             /\ k.spends = job.spends \o unique_spends(n)
             /\ k.uses = Over([x \in {n} |-> Uses(n)], job.uses)
             /\ k.dedup = Over(new_dedup(n), job.dedup)
             /\ k.cost = job.cost + ItemCost(n)
             /\ k.fee = job.fee + Bundle[n].fee
             /\ k.skipped = job.skipped /\ (job.lost => k.lost)
<1>4. Fields(j) /\ j.todo = job.todo \ {n}
  BY <1>3 DEF Noted, Next1, IsJob, JobFields
<1> HIDE DEF j
<1>5. Fields(Stop(j)) /\ Stop(j).todo = {}
  BY <1>4 DEF Stop, IsJob, JobFields
<1> HIDE DEF n
<1>6. ItemCost(n) \in Int /\ max_cost \in Int /\ MinCost \in Nat \ {0}
  BY <1>2, UniqueAre, PoolAssumption, AssemblyAssumption DEF max_cost
<1>7. j.cost > max_cost => max_cost - j.cost < MinCost
  <2>1. j.cost \in Int
    BY <1>3, <1>4, <1>6
  <2> QED BY <1>6, <2>1
<1>8. Joined(n, job')
  <2>1. CASE job' = Stop(j)
    BY <1>5, <2>1 DEF Joined
  <2>2. CASE job' = j /\ ~(max_cost - j.cost < MinCost)
    BY <1>4, <1>7, <2>2 DEF Joined
  <2> QED BY <1>1, <2>1, <2>2
<1>9. JobInv(job')
  BY <1>1, <1>2, <1>8, Included
<1> QED BY <1>1, <1>9, SelectionStep

\* The invariant of block assembly is inductive.
LEMMA AssemblyInductive == AssemblyInv /\ [AssemblyNext]_assemblyVars => AssemblyInv'
<1> SUFFICES ASSUME AssemblyInv, [AssemblyNext]_assemblyVars PROVE AssemblyInv'
  OBVIOUS
<1>0. JobInv(job)
  BY DEF AssemblyInv
<1>1. CASE UNCHANGED assemblyVars
  <2>1. pool' = pool /\ tip' = tip /\ phase' = phase /\ job' = job
    BY <1>1 DEF assemblyVars
  <2>2. JobInv(job)'
    BY <1>0, <2>1, Carried
  <2> QED BY <2>1, <2>2 DEF AssemblyInv
<1>2. CASE Start
  <2>1. pool' = pool /\ tip' = tip /\ phase' = "select" /\ job' = NewJob(Residents(pool)) /\ pool.retry = NoRetry
    BY <1>2 DEF Start, Open
  <2>2. JobInv(NewJob(Residents(pool)))
    BY NewJobInv
  <2>3. JobInv(job)'
    BY <2>1, <2>2, Carried
  <2> QED BY <2>1, <2>3 DEF AssemblyInv
<1>3. CASE Finish
  <2>1. pool' = pool /\ tip' = tip /\ job' = job /\ phase = "select"
    BY <1>3 DEF Finish, Selecting
  <2>2. JobInv(job)'
    BY <1>0, <2>1, Carried
  <2>3. \/ phase' = "empty"
        \/ phase' = "block" /\ Reruns(job.spends)
        \/ phase' = "refused" /\ ~Reruns(job.spends)
    BY <1>3 DEF Finish
  <2> QED BY <2>1, <2>2, <2>3 DEF AssemblyInv
<1>4. CASE Farmed
  <2>1. pool' = pool /\ tip' = tip /\ phase' = "open" /\ job' = NewJob({})
    BY <1>4 DEF Farmed
  <2>2. JobInv(job)'
    BY <2>1, EmptyJobNext
  <2> QED BY <2>1, <2>2 DEF AssemblyInv
<1>5. CASE (\E n \in Names : Offer(n)) \/ (\E b \in Blocks : Advance(b)) \/ RetryNext
  BY <1>5, PoolSteps
<1>6. CASE Break \/ PassOver \/ SkipDedup \/ Fail \/ Skip
  BY <1>6, LeavingSteps
<1>7. CASE Include
  BY <1>7, IncludeStep
<1> QED BY <1>1, <1>2, <1>3, <1>4, <1>5, <1>6, <1>7 DEF AssemblyNext

\* create_block_generator keeps its budgets: only the last item goes over the
\* plain cost, by what compression saves, the spends stay within their number
\* and the fees make a coin, for every set of bundles and every limit.
THEOREM BudgetAlwaysKept == AssemblySpec => []BudgetKept
<1>1. AssemblyInv => BudgetKept
  BY DEF AssemblyInv, JobInv, Counts, BudgetKept
<1> QED BY <1>1, AssemblyStarts, AssemblyInductive, PTL DEF AssemblySpec

\* Bundles are atomic unless an item was left out for lack of room: a merged
\* spend is in the block.
THEOREM BundlesAlwaysWhole == AssemblySpec => []BundlesWhole
<1>1. AssemblyInv => BundlesWhole
  BY DEF AssemblyInv, JobInv, Merging, BundlesWhole, Whole
<1> QED BY <1>1, AssemblyStarts, AssemblyInductive, PTL DEF AssemblySpec

\* What a block with whole bundles spends is unspent on its chain or created
\* in the block, and the versions of a singleton form an unbroken run.
THEOREM BlocksSpendable == AssemblySpec => []BlockSpendable
<1>1. AssemblyInv => BlockSpendable
  <2> SUFFICES ASSUME AssemblyInv, Whole, NEW k \in DOMAIN job.spends
               PROVE  LET v == job.spends[k][1] IN
                      IF v[2] = 0
                      THEN \/ OnChain(v[1], tip) /\ ~SpentOn(v[1], tip)
                           \/ \E n \in DOMAIN job.uses : v[1] \in Bundle[n].creates
                      ELSE \E l \in DOMAIN job.spends : job.spends[l][1] = <<v[1], v[2] - 1>>
    BY DEF BlockSpendable
  <2> DEFINE v == job.spends[k][1]
  <2>1. job.spends[k] \in ToSet(job.spends)
    BY DEF ToSet
  <2>2. Standing(job, v)
    BY <2>1 DEF AssemblyInv, JobInv, Grounded
  <2> HIDE DEF v
  <2>3. Used(job, <<v[1], v[2] - 1>>) => \E l \in DOMAIN job.spends : job.spends[l][1] = <<v[1], v[2] - 1>>
    <3> DEFINE w == <<v[1], v[2] - 1>>
    <3> HIDE DEF w
    <3>1. ASSUME Used(job, w) PROVE \E l \in DOMAIN job.spends : job.spends[l][1] = w
      <4>1. PICK n \in DOMAIN job.uses : \E u \in job.uses[n] : u[1] = w
        BY <3>1 DEF Used
      <4>2. PICK u \in job.uses[n] : u[1] = w
        BY <4>1
      <4>3. u \in ToSet(job.spends)
        BY <4>2 DEF Whole
      <4> QED BY <4>2, <4>3 DEF ToSet
    <3> QED BY <3>1 DEF w
  <2> QED BY <2>2, <2>3 DEF Standing, v
<1> QED BY <1>1, AssemblyStarts, AssemblyInductive, PTL DEF AssemblySpec

\* The re-run refuses a selection only if a resident plainly spends what
\* another fast-forwards to: two fast-forward spends always chain, and two
\* spends of one coin are alike and merged.
THEOREM RefusedByRivals == AssemblySpec => []RefusedOnlyByRivals
<1>1. AssemblyInv => RefusedOnlyByRivals
  BY DEF AssemblyInv, JobInv, Single, Rivalry, RefusedOnlyByRivals
<1> QED BY <1>1, AssemblyStarts, AssemblyInductive, PTL DEF AssemblySpec

\* A selection is over residents, and keeps the limit on skips.
THEOREM AssemblyTypes == AssemblySpec => []AssemblyTypeOK
<1>1. AssemblyInv => AssemblyTypeOK
  BY DEF AssemblyInv, JobInv, Counts, AssemblyTypeOK
<1> QED BY <1>1, AssemblyStarts, AssemblyInductive, PTL DEF AssemblySpec

-----------------------------------------------------------------------------
(* Residents among the tasks: what each one's spends have been checked     *)
(* against.                                                                *)

\* The coin v is a version of the singleton with puzzle p on the chain of t.
VersionOn(v, p, t) ==
  /\ v \in Coins /\ Puzzle[v] = p /\ OnChain(v, t)
  /\ ParentCoin[v] \in Coins /\ Puzzle[ParentCoin[v]] = p /\ SpentOn(ParentCoin[v], t)

\* On the chain of t, no block outside U spends c.
Untouched(c, t, U) == \A x \in Path[t] : c \in Removes[x] => x \in U

\* The spend of c by the item is good on the chain of t, but for what blocks of U
\* may spend.
HeldCoin(i, c, t, U) ==
  IF c \in DOMAIN i.lineage
  THEN \/ c \in Bundle[i.name].creates
       \/ VersionOn(i.lineage[c], Puzzle[c], t) /\ Untouched(i.lineage[c], t, U)
  ELSE (OnChain(c, t) \/ c \in Bundle[i.name].creates) /\ Untouched(c, t, U)

HeldOn(i, t, U) == \A c \in Bundle[i.name].spends : HeldCoin(i, c, t, U)

\* Only a fast-forward spend has a lineage.
ForwardOnly(m) == \A i \in m.items : DOMAIN i.lineage \subseteq Bundle[i.name].ff

\* A coin keeps its standing on a chain that goes on.
LEMMA CoinFurther ==
  ASSUME NEW t, NEW U, NEW b, NEW V, Path[t] \subseteq Path[b], Path[b] \subseteq Blocks,
         \A x \in Path[b] : Stamp[x] # 0 /\ (x \in Path[t] => x \in U) => x \in V
  PROVE  /\ \A c : OnChain(c, t) => OnChain(c, b)
         /\ \A c : Untouched(c, t, U) => Untouched(c, b, V)
         /\ \A v, p : VersionOn(v, p, t) => VersionOn(v, p, b)
<1>1. \A c : OnChain(c, t) => OnChain(c, b)
  BY DEF OnChain, AddedBy
<1>2. \A c : SpentOn(c, t) => SpentOn(c, b)
  BY DEF SpentOn, RemovedBy
<1>3. \A c : Untouched(c, t, U) => Untouched(c, b, V)
  <2> SUFFICES ASSUME NEW c, Untouched(c, t, U), NEW x \in Path[b], c \in Removes[x] PROVE x \in V
    BY DEF Untouched
  <2>1. Stamp[x] # 0
    BY PoolAssumption
  <2>2. x \in Path[t] => x \in U
    BY DEF Untouched
  <2> QED BY <2>1, <2>2
<1>4. \A v, p : VersionOn(v, p, t) => VersionOn(v, p, b)
  BY <1>1, <1>2 DEF VersionOn
<1> QED BY <1>1, <1>3, <1>4

\* So does an item.
LEMMA HeldFurther ==
  ASSUME NEW i, NEW t, NEW U, HeldOn(i, t, U), NEW b, NEW V, Path[t] \subseteq Path[b], Path[b] \subseteq Blocks,
         \A x \in Path[b] : Stamp[x] # 0 /\ (x \in Path[t] => x \in U) => x \in V
  PROVE  HeldOn(i, b, V)
<1>1. /\ \A c : OnChain(c, t) => OnChain(c, b)
      /\ \A c : Untouched(c, t, U) => Untouched(c, b, V)
      /\ \A v, p : VersionOn(v, p, t) => VersionOn(v, p, b)
  BY CoinFurther
<1> SUFFICES ASSUME NEW c \in Bundle[i.name].spends PROVE HeldCoin(i, c, b, V)
  BY DEF HeldOn
<1>2. HeldCoin(i, c, t, U)
  BY DEF HeldOn
<1> QED BY <1>1, <1>2 DEF HeldCoin

\* An unspent version is one that nothing has touched.
LEMMA VersionHeld ==
  ASSUME NEW p, NEW t, get_unspent_lineage_info(p, t) # NoCoin
  PROVE  LET v == get_unspent_lineage_info(p, t) IN VersionOn(v, p, t) /\ Untouched(v, t, {})
<1> DEFINE v == get_unspent_lineage_info(p, t)
<1>1. v \in Versions(p, t)
  BY VersionFound
<1> HIDE DEF v
<1>2. VersionOn(v, p, t) /\ ~SpentOn(v, t)
  BY <1>1 DEF Versions, VersionOn
<1>3. Untouched(v, t, {})
  BY <1>2 DEF SpentOn, RemovedBy, Untouched
<1> QED BY <1>2, <1>3 DEF v

\* What passes the early returns is good on the chain that was read, and the
\* pool has a peak.
LEMMA NotRefusedHeld ==
  ASSUME NEW m, NEW n \in Names, NEW t, SelectInSeq(Refusals(m, n, t), LAMBDA r : r.when) = 0
  PROVE  /\ HeldOn(NewItem(m, n, t), t, {}) /\ m.peak # NoPeak
         /\ DOMAIN NewItem(m, n, t).lineage \subseteq Bundle[n].ff
<1> DEFINE q == Refusals(m, n, t)
           I == {k \in 1 .. Len(q) : q[k].when}
           lineage == Lineage(n, t)
           item == NewItem(m, n, t)
<1>1. /\ Len(q) = 8
      /\ m.peak = NoPeak => q[1].when
      /\ (\E c \in Bundle[n].spends \ Bundle[n].creates : ~OnChain(c, t)) => q[4].when
      /\ (\E c \in Bundle[n].spends \ DOMAIN lineage : SpentOn(c, t)) => q[7].when
  BY DEF Refusals
<1>2. (IF I # {} THEN Min(I) ELSE 0) = 0
  BY DEF SelectInSeq
<1> HIDE DEF q
<1>3. I = {}
  <2> SUFFICES ASSUME I # {} PROVE FALSE
    OBVIOUS
  <2>1. I \subseteq Nat \ {0}
    BY <1>1
  <2>2. Min(I) \in I /\ Min(I) = 0
    <3> HIDE DEF I
    <3> QED BY <1>2, <2>1, FirstIs
  <2> QED BY <2>1, <2>2
<1>4. ~q[1].when /\ ~q[4].when /\ ~q[7].when
  BY <1>1, <1>3
<1>5. \A c \in Bundle[n].spends : OnChain(c, t) \/ c \in Bundle[n].creates
  BY <1>1, <1>4
<1>6. \A c \in Bundle[n].spends \ DOMAIN lineage : ~SpentOn(c, t)
  BY <1>1, <1>4
<1>7. item.name = n /\ item.lineage = lineage
  BY DEF NewItem
<1>8. /\ DOMAIN lineage = {x \in Bundle[n].ff : get_unspent_lineage_info(Puzzle[x], t) # NoCoin}
      /\ \A c \in DOMAIN lineage : lineage[c] = get_unspent_lineage_info(Puzzle[c], t)
  BY DEF Lineage
<1> HIDE DEF lineage, item
<1>9. ASSUME NEW c \in Bundle[n].spends PROVE HeldCoin(item, c, t, {})
  <2>1. CASE c \in DOMAIN lineage
    <3>1. VersionOn(lineage[c], Puzzle[c], t) /\ Untouched(lineage[c], t, {})
      BY <1>8, <2>1, VersionHeld
    <3> QED BY <1>7, <1>8, <2>1, <3>1 DEF HeldCoin
  <2>2. CASE c \notin DOMAIN lineage
    <3>1. Untouched(c, t, {})
      BY <1>6, <2>2 DEF SpentOn, RemovedBy, Untouched
    <3> QED BY <1>5, <1>7, <2>2, <3>1 DEF HeldCoin
  <2> QED BY <2>1, <2>2
<1>10. HeldOn(item, t, {})
  BY <1>7, <1>9 DEF HeldOn
<1> QED BY <1>1, <1>4, <1>7, <1>8, <1>10 DEF item

\* Admission leaves the peak and what is being retried alone.
LEMMA AdmitKeeps ==
  ASSUME NEW m, IsPool(m), NEW n, NEW t
  PROVE  admit(m, n, t).pool.peak = m.peak /\ admit(m, n, t).pool.retry = m.retry
<1> DEFINE first == SelectInSeq(Refusals(m, n, t), LAMBDA r : r.when)
           verdict == check_time_locks(n, t, m.peak)
           item == NewItem(m, n, t)
           rivals == Conflicts(m, n, item.lineage)
           base == remove(m, rivals)
           Out == admit(m, n, t).pool
           Kept(x) == x.peak = m.peak /\ x.retry = m.retry
<1>1. Out = IF n \in Residents(m) THEN m
            ELSE IF first # 0 THEN m
            ELSE IF verdict = "Pending" THEN park_pending(m, n, item.locks.height)
            ELSE IF verdict # "Met" THEN m
            ELSE IF rivals # {} /\ ~can_replace(m, n, rivals, item) THEN cache_conflict(m, n)
            ELSE add_to_pool(base, item).pool
  BY DEF admit, Reply, NewItem
<1>2. \A h : Kept(park_pending(m, n, h))
  BY DEF IsPool, PoolFields, park_pending
<1>3. Kept(cache_conflict(m, n))
  BY DEF IsPool, PoolFields, cache_conflict
<1>4. Kept(add_to_pool(base, item).pool)
  <2>1. IsPool(base) /\ Kept(base)
    <3> HIDE DEF rivals
    <3> QED BY RemoveItems, RemoveCaches
  <2> HIDE DEF base, item
  <2> DEFINE soon == {i.name : i \in {x \in base.items : ExpiresSoon(x.locks, base.peak)}}
             late == IF ExpiresSoon(item.locks, base.peak)
                     THEN Overflow(base, soon, ExpiringBudget - Bundle[item.name].cost) ELSE {}
             swept == remove(base, late)
             over == Overflow(swept, Residents(swept), MaxTotalCost - Bundle[item.name].cost)
             room == IF at_full_capacity(swept, item.name) THEN remove(swept, over) ELSE swept
  <2>2. add_to_pool(base, item).pool
          = IF \E k \in late : HigherPriority(k, item.name) THEN base ELSE Inserted(room, item)
    BY DEF add_to_pool, Inserted, Reply
  <2>3. IsPool(swept) /\ Kept(swept)
    <3> HIDE DEF late
    <3> QED BY <2>1, RemoveItems, RemoveCaches
  <2>4. IsPool(room) /\ Kept(room)
    <3> HIDE DEF swept, over
    <3>1. IsPool(remove(swept, over)) /\ Kept(remove(swept, over))
      BY <2>3, RemoveItems, RemoveCaches
    <3> QED BY <2>3, <3>1
  <2> HIDE DEF room, late
  <2>5. Kept(Inserted(room, item))
    BY <2>4 DEF IsPool, PoolFields, Inserted
  <2> QED BY <2>1, <2>2, <2>5
<1>5. Kept(Out)
  <2> HIDE DEF first, verdict, item, rivals, base, Out, Kept
  <2>1. Kept(m)
    BY DEF Kept
  <2> QED BY <1>1, <1>2, <1>3, <1>4, <2>1
<1> QED BY <1>5

\* It adds at most an item that is good on the chain that was read, once there is
\* a peak.
LEMMA AdmitHeld ==
  ASSUME NEW m, IsPool(m), NEW n \in Names, NEW t, ForwardOnly(m)
  PROVE  LET r == admit(m, n, t).pool
         IN /\ r.peak = m.peak /\ r.retry = m.retry /\ ForwardOnly(r)
            /\ \A i \in r.items : i \in m.items \/ (HeldOn(i, t, {}) /\ m.peak # NoPeak)
<1> DEFINE first == SelectInSeq(Refusals(m, n, t), LAMBDA r : r.when)
           item == NewItem(m, n, t)
           Out == admit(m, n, t).pool
<1>5. Out.peak = m.peak /\ Out.retry = m.retry
  BY AdmitKeeps
<1>6. \A i \in Out.items : i \in m.items \/ (i = item /\ first = 0)
  BY AdmitItems
<1>7. first = 0 => HeldOn(item, t, {}) /\ m.peak # NoPeak /\ DOMAIN item.lineage \subseteq Bundle[n].ff
  BY NotRefusedHeld
<1>8. item.name = n
  BY DEF NewItem
<1> HIDE DEF first, item, Out
<1>9. ForwardOnly(Out)
  BY <1>6, <1>7, <1>8 DEF ForwardOnly
<1> QED BY <1>5, <1>6, <1>7, <1>9 DEF Out

\* One retry.
LEMMA RetryHeld ==
  ASSUME NEW m, PoolInv(m), NEW n \in m.retry.names, NEW t, ForwardOnly(m)
  PROVE  LET r == RetryOne(m, n, t)
         IN /\ r.peak = m.peak /\ r.retry.stage = m.retry.stage /\ ForwardOnly(r)
            /\ \A i \in r.items : i \in m.items \/ (HeldOn(i, t, {}) /\ m.peak # NoPeak)
<1> DEFINE next == [m EXCEPT !.retry.names = @ \ {n}]
           rest == [next EXCEPT !.pending = Restrict(@, DOMAIN @ \ {n})]
           Same(x) == x.items = m.items /\ x.peak = m.peak /\ x.retry.stage = m.retry.stage
<1>1. IsPool(m) /\ n \in Names /\ m.retry = [stage |-> m.retry.stage, names |-> m.retry.names]
  BY DEF PoolInv, Parking
<1>2. IsPool(next) /\ Same(next)
  BY <1>1 DEF IsPool, PoolFields
<1>3. IsPool(rest) /\ Same(rest)
  <2> HIDE DEF next
  <2> QED BY <1>2 DEF IsPool, PoolFields
<1>4. \/ RetryOne(m, n, t) = admit(next, n, t).pool
      \/ RetryOne(m, n, t) = admit(rest, n, t).pool
      \/ RetryOne(m, n, t) = next
  BY DEF RetryOne
<1> HIDE DEF next, rest
<1>5. ForwardOnly(next) /\ ForwardOnly(rest)
  BY <1>2, <1>3 DEF ForwardOnly
<1> DEFINE Good(r) == /\ r.peak = m.peak /\ r.retry.stage = m.retry.stage /\ ForwardOnly(r)
                      /\ \A i \in r.items : i \in m.items \/ (HeldOn(i, t, {}) /\ m.peak # NoPeak)
<1>6. Good(admit(next, n, t).pool)
  BY <1>1, <1>2, <1>5, AdmitHeld
<1>7. Good(admit(rest, n, t).pool)
  BY <1>1, <1>3, <1>5, AdmitHeld
<1>8. Good(next)
  BY <1>2, <1>5
<1> HIDE DEF Good
<1>9. Good(RetryOne(m, n, t))
  BY <1>4, <1>6, <1>7, <1>8
<1> QED BY <1>9 DEF Good

\* A reorg landing leaves what is good on the chain that was read.
LEMMA RevalidateHeld ==
  ASSUME NEW m, PoolInv(m), NEW t \in Blocks, ForwardOnly(m)
  PROVE  LET r == revalidate_for_reorg(m, t)
         IN ForwardOnly(r) /\ (\A i \in r.items : HeldOn(i, t, {})) /\ (m.items = {} => r.items = {})
<1> DEFINE Dead(item) == \E c \in Bundle[item.name].spends :
             IF ~OnChain(c, t) THEN c \notin Bundle[item.name].creates
             ELSE IF c \in DOMAIN item.lineage THEN get_unspent_lineage_info(Puzzle[c], t) = NoCoin
             ELSE SpentOn(c, t)
           moved == [item \in m.items |-> [c \in DOMAIN item.lineage |->
             IF OnChain(c, t) THEN get_unspent_lineage_info(Puzzle[c], t) ELSE item.lineage[c]]]
           dead == {i.name : i \in {x \in m.items : Dead(x)}}
           left == remove(m, dead)
           r == Rebase(left, moved)
<1>1. revalidate_for_reorg(m, t) = [r EXCEPT !.seen = <<>>]
  BY DEF revalidate_for_reorg
<1>2. IsPool(m) /\ \A i \in m.items : IsItem(i)
  BY DEF PoolInv, Residency
<1>3. IsPool(left) /\ left.items \subseteq m.items /\ \A i \in left.items : ~Dead(i)
  <2>1. \A i \in m.items : Dead(i) => i.name \in dead
    OBVIOUS
  <2> HIDE DEF dead, Dead
  <2>2. IsPool(left) /\ left.items \subseteq m.items /\ \A i \in left.items : i.name \notin dead
    BY <1>2, RemoveItems
  <2> QED BY <2>1, <2>2
<1>4. IsPool(r) /\ r.items = {[i EXCEPT !.lineage = moved[i]] : i \in left.items}
  <2> HIDE DEF left, moved
  <2> QED BY <1>3 DEF IsPool, PoolFields, Rebase
<1>5. [r EXCEPT !.seen = <<>>].items = r.items
  <2> HIDE DEF r
  <2> QED BY <1>4 DEF IsPool, PoolFields
<1>6. \A c : SpentOn(c, t) => OnChain(c, t)
  BY ChainAssumption DEF SpentOn, OnChain
<1>7. ASSUME NEW i \in left.items
      PROVE  LET x == [i EXCEPT !.lineage = moved[i]]
             IN HeldOn(x, t, {}) /\ DOMAIN x.lineage \subseteq Bundle[x.name].ff
  <2> DEFINE x == [i EXCEPT !.lineage = moved[i]]
  <2>1. i \in m.items /\ IsItem(i) /\ ~Dead(i) /\ DOMAIN i.lineage \subseteq Bundle[i.name].ff
    BY <1>2, <1>3, <1>7 DEF ForwardOnly
  <2>2. x.name = i.name /\ x.lineage = moved[i]
    BY <2>1 DEF IsItem, ItemFields
  <2>3. /\ DOMAIN moved[i] = DOMAIN i.lineage
        /\ \A c \in DOMAIN i.lineage : OnChain(c, t) => moved[i][c] = get_unspent_lineage_info(Puzzle[c], t)
    BY <2>1
  <2> HIDE DEF x, moved
  <2>4. ASSUME NEW c \in Bundle[i.name].spends PROVE HeldCoin(x, c, t, {})
    <3>1. CASE ~OnChain(c, t)
      <4>1. c \in Bundle[i.name].creates
        BY <2>1, <3>1
      <4>2. Untouched(c, t, {})
        BY <1>6, <3>1 DEF SpentOn, RemovedBy, Untouched
      <4> QED BY <2>2, <4>1, <4>2 DEF HeldCoin
    <3>2. CASE OnChain(c, t) /\ c \in DOMAIN i.lineage
      <4>1. get_unspent_lineage_info(Puzzle[c], t) # NoCoin
        BY <2>1, <3>2
      <4>2. VersionOn(moved[i][c], Puzzle[c], t) /\ Untouched(moved[i][c], t, {})
        BY <2>3, <3>2, <4>1, VersionHeld
      <4> QED BY <2>2, <2>3, <3>2, <4>2 DEF HeldCoin
    <3>3. CASE OnChain(c, t) /\ c \notin DOMAIN i.lineage
      <4>1. ~SpentOn(c, t)
        BY <2>1, <3>3
      <4>2. Untouched(c, t, {})
        BY <4>1 DEF SpentOn, RemovedBy, Untouched
      <4> QED BY <2>2, <2>3, <3>3, <4>2 DEF HeldCoin
    <3> QED BY <3>1, <3>2, <3>3
  <2>5. HeldOn(x, t, {}) /\ DOMAIN x.lineage \subseteq Bundle[x.name].ff
    BY <2>1, <2>2, <2>3, <2>4 DEF HeldOn
  <2> QED BY <2>5 DEF x
<1> HIDE DEF r, moved, left, dead
<1>8. (\A i \in r.items : HeldOn(i, t, {})) /\ ForwardOnly(r) /\ (m.items = {} => r.items = {})
  BY <1>3, <1>4, <1>7 DEF ForwardOnly
<1> DEFINE w == revalidate_for_reorg(m, t)
<1>9. w.items = r.items
  BY <1>1, <1>5
<1> HIDE DEF w
<1> QED BY <1>8, <1>9 DEF ForwardOnly, w

\* The spends of block y, applied on the chain of u, which t goes on from: what y
\* does not touch stays, and what it does is on a version that u has.
LEMMA SpentHeld ==
  ASSUME NEW m, PoolInv(m), ForwardOnly(m), NEW y, NEW u, NEW t, NEW U, NEW V,
         \A i \in m.items : HeldOn(i, t, U),
         Path[u] \subseteq Path[t], Path[t] \subseteq Blocks,
         \A x \in U : x # y => x \in V,
         \A x \in Path[t] \ Path[u] : Stamp[x] # 0 => x \in V
  PROVE  LET r == ApplySpent(m, Removes[y], u)
         IN ForwardOnly(r) /\ \A i \in r.items : HeldOn(i, t, V)
<1> DEFINE spent == Removes[y]
           Hit(item, c) == Key(item, c) \in spent /\ <<Key(item, c), item.name>> \in m.index
           Dead(item) == \E c \in Bundle[item.name].spends :
             /\ Hit(item, c)
             /\ c \in DOMAIN item.lineage => get_unspent_lineage_info(Puzzle[c], u) = NoCoin
           dead == {i.name : i \in {x \in m.items : Dead(x)}}
           moved == [item \in m.items |-> [c \in DOMAIN item.lineage |->
             IF Hit(item, c) THEN get_unspent_lineage_info(Puzzle[c], u) ELSE item.lineage[c]]]
           left == remove(m, dead)
           r == Rebase(left, moved)
<1>1. ApplySpent(m, spent, u) = remove_seen(r, dead)
  BY DEF ApplySpent
<1>2. IsPool(m) /\ \A i \in m.items : IsItem(i) /\ index_keys(i) \subseteq m.index
  BY DEF PoolInv, Residency
<1>3. IsPool(left) /\ left.items \subseteq m.items /\ \A i \in left.items : ~Dead(i)
  <2>1. \A i \in m.items : Dead(i) => i.name \in dead
    OBVIOUS
  <2> HIDE DEF dead, Dead
  <2>2. IsPool(left) /\ left.items \subseteq m.items /\ \A i \in left.items : i.name \notin dead
    BY <1>2, RemoveItems
  <2> QED BY <2>1, <2>2
<1>4. IsPool(r) /\ r.items = {[i EXCEPT !.lineage = moved[i]] : i \in left.items}
  <2> HIDE DEF left, moved
  <2> QED BY <1>3 DEF IsPool, PoolFields, Rebase
<1>5. remove_seen(r, dead).items = r.items
  <2> HIDE DEF r, dead
  <2> QED BY <1>4 DEF IsPool, PoolFields, remove_seen
<1>6. \A k : k \notin spent /\ Untouched(k, t, U) => Untouched(k, t, V)
  BY DEF Untouched
<1>7. \A v, p : VersionOn(v, p, u) /\ Untouched(v, u, {}) => VersionOn(v, p, t) /\ Untouched(v, t, V)
  <2>1. \A x \in Path[t] : Stamp[x] # 0 /\ (x \in Path[u] => x \in {}) => x \in V
    OBVIOUS
  <2> QED BY <2>1, CoinFurther
<1>8. ASSUME NEW i \in left.items
      PROVE  LET x == [i EXCEPT !.lineage = moved[i]]
             IN HeldOn(x, t, V) /\ DOMAIN x.lineage \subseteq Bundle[x.name].ff
  <2> DEFINE x == [i EXCEPT !.lineage = moved[i]]
             S == Bundle[i.name].spends
  <2>1. /\ i \in m.items /\ IsItem(i) /\ index_keys(i) \subseteq m.index /\ ~Dead(i) /\ HeldOn(i, t, U)
        /\ DOMAIN i.lineage \subseteq Bundle[i.name].ff
    BY <1>2, <1>3, <1>8 DEF ForwardOnly
  <2>2. x.name = i.name /\ x.lineage = moved[i]
    BY <2>1 DEF IsItem, ItemFields
  <2>3. \A c \in S : <<Key(i, c), i.name>> \in m.index
    BY <2>1 DEF index_keys
  <2>4. /\ DOMAIN moved[i] = DOMAIN i.lineage
        /\ \A c \in DOMAIN i.lineage : moved[i][c] =
             IF Hit(i, c) THEN get_unspent_lineage_info(Puzzle[c], u) ELSE i.lineage[c]
    BY <2>1
  <2> HIDE DEF x, moved
  <2>5. ASSUME NEW c \in S PROVE HeldCoin(x, c, t, V)
    <3>0. HeldCoin(i, c, t, U)
      BY <2>1 DEF HeldOn
    <3>1. CASE c \in DOMAIN i.lineage /\ Hit(i, c)
      <4>1. get_unspent_lineage_info(Puzzle[c], u) # NoCoin
        BY <2>1, <3>1
      <4>2. VersionOn(moved[i][c], Puzzle[c], u) /\ Untouched(moved[i][c], u, {})
        BY <2>4, <3>1, <4>1, VersionHeld
      <4>3. VersionOn(moved[i][c], Puzzle[c], t) /\ Untouched(moved[i][c], t, V)
        BY <1>7, <4>2
      <4> QED BY <2>2, <2>4, <3>1, <4>3 DEF HeldCoin
    <3>2. CASE c \in DOMAIN i.lineage /\ ~Hit(i, c)
      <4>1. moved[i][c] = i.lineage[c] /\ Key(i, c) = i.lineage[c]
        BY <2>4, <3>2 DEF Key
      <4>2. i.lineage[c] \notin spent
        BY <2>3, <3>2, <4>1
      <4> HIDE DEF spent, Hit
      <4> QED BY <1>6, <2>2, <2>4, <3>0, <3>2, <4>1, <4>2 DEF HeldCoin
    <3>3. CASE c \notin DOMAIN i.lineage
      <4>1. Key(i, c) = c
        BY <3>3 DEF Key
      <4>2. c \notin spent
        BY <2>1, <2>3, <3>3, <4>1
      <4> HIDE DEF spent, Hit
      <4> QED BY <1>6, <2>2, <2>4, <3>0, <3>3, <4>2 DEF HeldCoin
    <3> QED BY <3>1, <3>2, <3>3
  <2> HIDE DEF Hit, Dead
  <2>6. HeldOn(x, t, V) /\ DOMAIN x.lineage \subseteq Bundle[x.name].ff
    BY <2>1, <2>2, <2>4, <2>5 DEF HeldOn
  <2> QED BY <2>6 DEF x
<1> HIDE DEF r, moved, left, dead
<1>9. (\A i \in r.items : HeldOn(i, t, V)) /\ ForwardOnly(r)
  BY <1>4, <1>8 DEF ForwardOnly
<1> DEFINE w == ApplySpent(m, Removes[y], u)
<1>10. w.items = r.items
  BY <1>1, <1>5
<1> HIDE DEF w
<1> QED BY <1>9, <1>10 DEF ForwardOnly, w

\* Applying spends keeps the domain of each lineage.
LEMMA SpentForward ==
  ASSUME NEW m, PoolInv(m), ForwardOnly(m), NEW spent, NEW t
  PROVE  ForwardOnly(ApplySpent(m, spent, t))
<1> DEFINE Hit(item, c) == Key(item, c) \in spent /\ <<Key(item, c), item.name>> \in m.index
           Dead(item) == \E c \in Bundle[item.name].spends :
             /\ Hit(item, c)
             /\ c \in DOMAIN item.lineage => get_unspent_lineage_info(Puzzle[c], t) = NoCoin
           dead == {i.name : i \in {x \in m.items : Dead(x)}}
           moved == [item \in m.items |-> [c \in DOMAIN item.lineage |->
             IF Hit(item, c) THEN get_unspent_lineage_info(Puzzle[c], t) ELSE item.lineage[c]]]
           left == remove(m, dead)
           r == Rebase(left, moved)
           w == ApplySpent(m, spent, t)
<1>1. w = remove_seen(r, dead)
  BY DEF ApplySpent
<1>2. IsPool(m) /\ \A i \in m.items : IsItem(i)
  BY DEF PoolInv, Residency
<1>3. \A i \in m.items : DOMAIN moved[i] = DOMAIN i.lineage
  OBVIOUS
<1> HIDE DEF dead, moved
<1>4. IsPool(left) /\ left.items \subseteq m.items
  BY <1>2, RemoveItems
<1> HIDE DEF left
<1>5. IsPool(r) /\ r.items = {[i EXCEPT !.lineage = moved[i]] : i \in left.items}
  BY <1>4 DEF IsPool, PoolFields, Rebase
<1> HIDE DEF r
<1>6. remove_seen(r, dead).items = r.items
  BY <1>5 DEF IsPool, PoolFields, remove_seen
<1>7. ASSUME NEW i \in left.items
      PROVE  LET x == [i EXCEPT !.lineage = moved[i]] IN DOMAIN x.lineage \subseteq Bundle[x.name].ff
  <2> DEFINE x == [i EXCEPT !.lineage = moved[i]]
  <2>1. i \in m.items /\ IsItem(i) /\ DOMAIN i.lineage \subseteq Bundle[i.name].ff
    BY <1>2, <1>4 DEF ForwardOnly
  <2>2. x.name = i.name /\ x.lineage = moved[i]
    BY <2>1 DEF IsItem, ItemFields
  <2> HIDE DEF x
  <2>3. DOMAIN x.lineage \subseteq Bundle[x.name].ff
    BY <1>3, <2>1, <2>2
  <2> QED BY <2>3 DEF x
<1>8. ForwardOnly(r)
  BY <1>5, <1>7 DEF ForwardOnly
<1> HIDE DEF w
<1>9. w.items = r.items
  BY <1>1, <1>6
<1> QED BY <1>8, <1>9 DEF ForwardOnly, w

\* What a new peak makes of the pool: the sweep, the spends, and what is due.
LEMMA PeakIs ==
  ASSUME NEW m, PoolInv(m), NEW peak, peak.height \in Nat \cup {-1}, NEW spent, NEW u
  PROVE  \E s : /\ PoolInv(s) /\ s.items \subseteq m.items
                /\ LET r == new_peak(m, peak, spent, u)
                   IN /\ r.items = ApplySpent(s, spent, u).items
                      /\ r.peak = peak /\ r.retry.stage = "parked"
<1> DEFINE at == [m EXCEPT !.peak = peak]
           gone == Expired(at)
           s == remove(at, gone)
           left == ApplySpent(s, spent, u)
           r == new_peak(m, peak, spent, u)
<1>1. PoolInv(at) /\ at.items = m.items /\ at.peak = peak
  <2>1. IsPool(m)
    BY DEF PoolInv
  <2>2. /\ IsPool(at) /\ at.items = m.items /\ at.older = m.older /\ at.index = m.index
        /\ at.cost = m.cost /\ at.fee = m.fee
        /\ at.peak = peak /\ at.pending = m.pending /\ at.conflict = m.conflict
        /\ at.conflictCost = m.conflictCost /\ at.retry = m.retry
    BY <2>1 DEF IsPool, PoolFields
  <2> HIDE DEF at
  <2> QED BY <2>2 DEF PoolInv, Residency, Caches, RivalFree, Residents, Parking
<1>2. r = [left EXCEPT !.retry = [stage |-> "parked", names |-> Due(left)]]
  BY DEF new_peak
<1> HIDE DEF at, gone
<1>3. PoolInv(s) /\ SameParked(s, at)
  BY <1>1, RemovePool
<1>4. s.items \subseteq m.items
  <2>1. IsPool(at)
    BY <1>1 DEF PoolInv
  <2> QED BY <1>1, <2>1, RemoveItems
<1> HIDE DEF s
<1>5. PoolInv(left) /\ SameParked(left, s)
  BY <1>3, SpentPool
<1>6. IsPool(left) /\ left.peak = peak
  BY <1>1, <1>3, <1>5 DEF PoolInv, SameParked
<1> HIDE DEF left, r
<1>7. r.items = left.items /\ r.peak = peak /\ r.retry.stage = "parked"
  BY <1>2, <1>6 DEF IsPool, PoolFields
<1> QED BY <1>3, <1>4, <1>7 DEF left, r

-----------------------------------------------------------------------------
(* The residents between a block's commit and its report.                  *)

FirstOf(D) == CHOOSE d \in D : \A e \in D : Height[d.block] <= Height[e.block]

\* The deltas whose report has not begun.
Opened ==
  [g \in Followers |-> IF work[g].at = "swap" THEN work[g].deltas
                       ELSE work[g].deltas \ {FirstOf(work[g].deltas)}]

\* The block whose report has begun, while the pool has not been told of it.
Current ==
  [g \in Followers |-> IF work[g].at = "swap" \/ (lock.by = g /\ pool.retry # NoRetry) THEN {}
                       ELSE {FirstOf(work[g].deltas).block}]

\* The blocks whose spends the pool has still to hear of.
Unapplied ==
  {x \in Blocks : \E g \in Followers : x \in Current[g] \/ \E d \in Opened[g] : d.block = x}

\* The deltas to come do not lead from the last one to the tip.
Broken ==
  /\ last_delta_hash # NoBlock
  /\ \E z \in Path[tip] \ Path[last_delta_hash] :
       \A g \in Followers : \A d \in Opened[g] : d.block # z

\* A delta to come is marked as a reorg landing.
Marked == \E g \in Followers : \E d \in Opened[g] : d.reorg = TRUE

\* A follower is to take the lock and revalidate.
Waiting == \E g \in Followers : work[g].at = "revalidate" /\ lock.by # g

Revalidating == \E g \in Followers : work[g].at = "revalidate" /\ lock.by = g

\* A whole pass over the residents is still to begin.
PassDue == Broken \/ Marked \/ Waiting

\* The ancestors of the tip that are behind it by unapplied blocks only.
Covered ==
  {u \in Path[tip] : \A x \in Path[tip] \ Path[u] : Stamp[x] # 0 => x \in Unapplied}

\* Whoever can put residents in or move them works on a chain that reaches the
\* tip by unapplied blocks, or there is a pass to come.
ReadInv ==
  (lock.by \in Followers \/ (lock.by \in Submitters /\ pool.peak # NoPeak))
    => (PassDue \/ lock.tip \in Covered)

\* The residents are good on the tip's chain but for what unapplied blocks spend,
\* or there is a pass to come.
HeldInv == PassDue \/ Revalidating \/ \A i \in pool.items : HeldOn(i, tip, Unapplied)

\* Deltas, the last one reported and the lock's tip are no later than the tip;
\* what the pool holds began with a report.
Orderly ==
  /\ \A g \in Followers : /\ work[g].at \in {"swap", "revalidate", "peak"}
                          /\ work[g].at # "swap" => last_delta_hash # NoBlock
                          /\ \A d \in work[g].deltas : d.block # Genesis /\ Weight[d.block] <= Weight[tip]
  /\ last_delta_hash # NoBlock =>
       last_delta_hash \in Blocks /\ Weight[last_delta_hash] <= Weight[tip]
  /\ lock.by \in Followers =>
       /\ work[lock.by].at \in {"revalidate", "peak"}
       /\ \A d \in work[lock.by].deltas : Weight[d.block] <= Weight[lock.tip]
  /\ pool.peak # NoPeak => last_delta_hash # NoBlock
  /\ pool.peak = NoPeak => pool.items = {}
  /\ pool.retry # NoRetry => lock.by \in Followers /\ work[lock.by].at = "peak"

SpendableInv == IntakeInv /\ Orderly /\ ForwardOnly(pool) /\ ReadInv /\ HeldInv

-----------------------------------------------------------------------------
\* A block is the heaviest of its path, and an ancestor's path is part of it.
LEMMA PathFacts ==
  ASSUME NEW b \in Blocks
  PROVE  /\ b \in Path[b] /\ Path[b] \subseteq Blocks /\ Genesis \in Path[b]
         /\ \A x \in Path[b] : /\ Path[x] \subseteq Path[b] /\ Weight[x] <= Weight[b]
                               /\ Weight[x] \in Nat
<1>1. b \in Path[b] /\ Path[b] \subseteq Blocks
  BY TreeAssumption
<1>2. \A x \in Path[b] : Weight[x] \in Nat /\ Weight[b] \in Nat
  BY <1>1, TreeAssumption
<1>3. \A x \in Path[b] : Path[x] \subseteq Path[b] /\ Weight[x] <= Weight[b]
  BY <1>2, PathAssumption
<1>4. Genesis \in Path[b]
  BY <1>1, PathAssumption
<1> QED BY <1>1, <1>2, <1>3, <1>4

\* On one path, a block no heavier than another is on the other's path.
LEMMA NotBeyond ==
  ASSUME NEW t \in Blocks, NEW u \in Path[t], NEW y \in Path[t], Weight[y] <= Weight[u]
  PROVE  y \in Path[u]
<1>1. u \in Blocks /\ y \in Blocks
  BY PathFacts
<1>2. Height[u] \in Nat /\ Height[y] \in Nat /\ Weight[u] \in Nat /\ Weight[y] \in Nat
  BY <1>1, TreeAssumption
<1>3. /\ Path[u] = {z \in Path[t] : Height[z] <= Height[u]}
      /\ Path[y] = {z \in Path[t] : Height[z] <= Height[y]}
  BY PathAssumption
<1>4. CASE Height[y] <= Height[u]
  BY <1>3, <1>4
<1>5. CASE Height[u] < Height[y]
  <2>1. u \in Path[y] /\ u # y
    BY <1>2, <1>3, <1>5
  <2>2. Weight[u] < Weight[y]
    BY <1>1, <2>1, PathAssumption
  <2> QED BY <1>2, <2>2
<1> QED BY <1>2, <1>4, <1>5

\* What a step that changes one follower's work does to the deltas to come.
LEMMA WorkView ==
  ASSUME IntakeInv, NEW f \in Followers, NEW w, work' = [work EXCEPT ![f] = w]
  PROVE  /\ \A g \in Followers : work'[g] = IF g = f THEN w ELSE work[g]
         /\ \A g \in Followers : g # f => Opened'[g] = Opened[g]
         /\ Opened'[f] = IF w.at = "swap" THEN w.deltas ELSE w.deltas \ {FirstOf(w.deltas)}
<1>1. DOMAIN work = Followers
  BY DEF IntakeInv
<1>2. \A g \in Followers : work'[g] = IF g = f THEN w ELSE work[g]
  BY <1>1
<1>3. \A g \in Followers :
        Opened'[g] = IF work'[g].at = "swap" THEN work'[g].deltas
                     ELSE work'[g].deltas \ {FirstOf(work'[g].deltas)}
  BY DEF Opened
<1>4. \A g \in Followers :
        Opened[g] = IF work[g].at = "swap" THEN work[g].deltas
                    ELSE work[g].deltas \ {FirstOf(work[g].deltas)}
  BY DEF Opened
<1>5. ASSUME NEW g \in Followers, g # f PROVE Opened'[g] = Opened[g]
  <2>1. work'[g] = work[g]
    BY <1>2, <1>5
  <2> QED BY <1>3, <1>4, <2>1
<1>6. work'[f] = w
  BY <1>2
<1>7. Opened'[f] = IF w.at = "swap" THEN w.deltas ELSE w.deltas \ {FirstOf(w.deltas)}
  BY <1>3, <1>6
<1> QED BY <1>2, <1>5, <1>7

\* A step that changes no follower's work changes no delta to come.
LEMMA WorkSame ==
  ASSUME work' = work
  PROVE  Opened' = Opened
BY DEF Opened

\* Where the first delta goes.
LEMMA AfterView ==
  ASSUME IntakeInv, NEW f \in Followers
  PROVE  LET D == work[f].deltas
             y == FirstOf(D)
         IN /\ Delta(f) = y
            /\ After(f, "swap") = [at |-> "revalidate", deltas |-> D]
            /\ \/ After(f, "revalidate") = [at |-> "peak", deltas |-> D]
               \/ /\ Stamp[y.block] = 0
                  /\ After(f, "revalidate") = [at |-> "swap", deltas |-> D \ {y}]
            /\ After(f, "peak") = [at |-> "swap", deltas |-> D \ {y}]
<1>1. Delta(f) = FirstOf(work[f].deltas)
  BY DEF Delta, FirstOf
<1>2. work[f] = [at |-> work[f].at, deltas |-> work[f].deltas]
  BY DEF IntakeInv, WorkInv
<1> QED BY <1>1, <1>2 DEF After

\* A step that leaves the deltas to come and does not take up a revalidation
\* leaves a pass due.
LEMMA PassKept ==
  ASSUME tip' = tip, last_delta_hash' = last_delta_hash, Opened' = Opened,
         \A g \in Followers : work[g].at = "revalidate" /\ lock.by # g
           => work'[g].at = "revalidate" /\ lock'.by # g
  PROVE  PassDue => PassDue'
<1>1. Broken => Broken'
  BY DEF Broken
<1>2. Marked => Marked'
  BY DEF Marked
<1>3. Waiting => Waiting'
  BY DEF Waiting
<1> QED BY <1>1, <1>2, <1>3 DEF PassDue

\* While no unapplied spend is forgotten, what is covered and what is held stay so.
LEMMA HeldKept ==
  ASSUME tip \in Blocks, tip' = tip, \A x \in Unapplied : Stamp[x] # 0 => x \in Unapplied'
  PROVE  /\ Covered \subseteq Covered'
         /\ \A i : HeldOn(i, tip, Unapplied) => HeldOn(i, tip', Unapplied')
<1>1. Covered \subseteq Covered'
  BY DEF Covered
<1>2. Path[tip] \subseteq Blocks
  BY PathFacts
<1>3. ASSUME NEW i, HeldOn(i, tip, Unapplied) PROVE HeldOn(i, tip, Unapplied')
  <2> DEFINE U == Unapplied
             V == Unapplied'
  <2>1. \A x \in Path[tip] : Stamp[x] # 0 /\ (x \in Path[tip] => x \in U) => x \in V
    OBVIOUS
  <2>2. HeldOn(i, tip, U)
    BY <1>3
  <2> HIDE DEF U, V
  <2>3. HeldOn(i, tip, V)
    BY <1>2, <2>1, <2>2, HeldFurther, Zenon
  <2> QED BY <2>3 DEF V
<1> QED BY <1>1, <1>3

\* What is good on a chain that is covered is held.
LEMMA CoveredHeld ==
  ASSUME tip \in Blocks, NEW u \in Covered, NEW i, HeldOn(i, u, {})
  PROVE  HeldOn(i, tip, Unapplied)
<1> DEFINE V == Unapplied
           none == {}
<1>1. u \in Path[tip] /\ \A x \in Path[tip] \ Path[u] : Stamp[x] # 0 => x \in V
  BY DEF Covered
<1>2. Path[u] \subseteq Path[tip] /\ Path[tip] \subseteq Blocks
  BY <1>1, PathFacts
<1>3. \A x \in Path[tip] : Stamp[x] # 0 /\ (x \in Path[u] => x \in none) => x \in V
  BY <1>1
<1>4. HeldOn(i, u, none)
  OBVIOUS
<1> HIDE DEF V, none
<1>5. HeldOn(i, tip, V)
  BY <1>2, <1>3, <1>4, HeldFurther, Zenon
<1> QED BY <1>5 DEF V

\* Nobody holds the lock.
LEMMA FreeBy ==
  Free.by \notin Followers /\ Free.by \notin Submitters /\ \A g \in Followers : Free.by # g
BY TaskAssumption DEF Free

\* A sound state to start from.
LEMMA SpendableInit == Init => SpendableInv
<1> SUFFICES ASSUME Init PROVE SpendableInv
  OBVIOUS
<1>1. /\ \A g \in Followers : work[g] = [at |-> "swap", deltas |-> {}]
      /\ last_delta_hash = NoBlock /\ lock.by \notin Followers /\ lock.by \notin Submitters
  BY FreeBy DEF Init, NoWork
<1>2. pool.items = {} /\ pool.peak = NoPeak /\ pool.retry = NoRetry
  BY DEF Init, EmptyPool
<1>3. Orderly
  BY <1>1, <1>2 DEF Orderly
<1>4. ForwardOnly(pool) /\ ReadInv /\ HeldInv
  BY <1>1, <1>2 DEF ForwardOnly, ReadInv, HeldInv
<1> QED BY <1>3, <1>4, IntakeInit DEF SpendableInv

\* A confirmed block whose report the follower has: the deltas either go on from
\* the old tip or open with a marked one.
LEMMA ReportView ==
  ASSUME NEW b \in Blocks, tip \in Blocks, Weight[b] > Weight[tip]
  PROVE  /\ \A d \in Report(b) : /\ d.block \in Path[b] \ Path[tip]
                                 /\ d.block # Genesis /\ Weight[d.block] <= Weight[b]
         /\ \A x \in Path[b] \ Path[tip] : \E d \in Report(b) : d.block = x
         /\ tip \notin Path[b] => \E d \in Report(b) : d.reorg = TRUE
<1> DEFINE fresh == Path[b] \ Path[tip]
           Lowest(x) == \A y \in fresh : Height[x] <= Height[y]
           delta(x) == [block |-> x, reorg |-> tip \notin Path[b] /\ Lowest(x)]
<1>1. Report(b) = {delta(x) : x \in fresh}
  BY DEF Report
<1>2. \A x \in fresh : delta(x).block = x
  OBVIOUS
<1>3. \A x \in fresh : x # Genesis /\ Weight[x] <= Weight[b]
  BY PathFacts
<1>4. ASSUME tip \notin Path[b] PROVE \E d \in Report(b) : d.reorg = TRUE
  <2>1. b \in fresh
    <3>1. b \in Path[b] /\ Weight[b] \in Nat /\ Weight[tip] \in Nat
      BY TreeAssumption
    <3>2. b \in Path[tip] => Weight[b] <= Weight[tip]
      BY PathFacts
    <3> QED BY <3>1, <3>2
  <2> DEFINE H == {Height[x] : x \in fresh}
  <2>2. H \subseteq Nat /\ H # {}
    <3>1. \A x \in fresh : Height[x] \in Nat
      BY PathFacts, TreeAssumption
    <3> QED BY <2>1, <3>1
  <2>3. PICK h \in H : \A k \in H : h <= k
    <3> HIDE DEF H
    <3> QED BY <2>2, LeastOf
  <2>4. PICK x \in fresh : Height[x] = h
    BY <2>3
  <2>5. Lowest(x)
    BY <2>3, <2>4
  <2>6. (tip \notin Path[b] /\ Lowest(x)) = TRUE
    BY <1>4, <2>5
  <2>7. delta(x).reorg = TRUE
    BY <2>6
  <2> QED BY <1>1, <2>4, <2>7
<1> HIDE DEF delta, fresh
<1>5. \A d \in Report(b) : d.block \in fresh
  BY <1>1, <1>2
<1>6. \A x \in fresh : \E d \in Report(b) : d.block = x
  BY <1>1, <1>2
<1> QED BY <1>3, <1>4, <1>5, <1>6 DEF fresh

\* A confirmed block: its deltas go on from the old tip, or a pass comes due.
LEMMA ConfirmHeld ==
  ASSUME LossKinds \subseteq {"window"}, SpendableInv, NEW f \in Followers, NEW b \in Blocks, Confirm(f, b)
  PROVE  Orderly' /\ ReadInv' /\ HeldInv'
<1>1. /\ IntakeInv /\ Orderly /\ ReadInv /\ HeldInv /\ tip \in Blocks
      /\ tip' = b /\ last_delta_hash' = last_delta_hash /\ pool' = pool /\ lock' = lock
      /\ Weight[b] > Weight[tip] /\ Weight[b] \in Nat /\ Weight[tip] \in Nat
  BY TreeAssumption DEF Confirm, SpendableInv, IntakeInv
<1>2. work[f] = [at |-> "swap", deltas |-> {}]
  BY DEF Confirm, NoWork
<1>3. PICK D : (D = Report(b) \/ D = {}) /\ work' = [work EXCEPT ![f].deltas = D]
  <2>1. \A E \in Cut(b) : E = {}
    BY DEF Cut
  <2> QED BY <2>1 DEF Confirm
<1> DEFINE w == [at |-> "swap", deltas |-> D]
<1>4. work' = [work EXCEPT ![f] = w]
  <2>1. [work[f] EXCEPT !.deltas = D] = w
    BY <1>2
  <2> QED BY <1>3, <2>1
<1>5. w.at = "swap" /\ w.deltas = D
  OBVIOUS
<1> HIDE DEF w
<1>6. /\ \A g \in Followers : work'[g] = IF g = f THEN w ELSE work[g]
      /\ \A g \in Followers : g # f => Opened'[g] = Opened[g]
      /\ Opened'[f] = D
  <2>1. /\ \A g \in Followers : work'[g] = IF g = f THEN w ELSE work[g]
        /\ \A g \in Followers : g # f => Opened'[g] = Opened[g]
        /\ Opened'[f] = IF w.at = "swap" THEN w.deltas ELSE w.deltas \ {FirstOf(w.deltas)}
    BY <1>1, <1>4, WorkView, Zenon
  <2>2. Opened'[f] = D
    BY <1>5, <2>1
  <2> QED BY <2>1, <2>2
<1>7. Opened[f] = {} /\ Current[f] = {} /\ lock.by # f
  BY <1>1, <1>2 DEF Opened, Current, Orderly
<1>8. /\ \A d \in D : /\ d.block \in Path[b] \ Path[tip]
                      /\ d.block # Genesis /\ Weight[d.block] <= Weight[b]
      /\ D # {} => \A x \in Path[b] \ Path[tip] : \E d \in D : d.block = x
      /\ D # {} /\ tip \notin Path[b] => \E d \in D : d.reorg = TRUE
  BY <1>1, <1>3, ReportView
<1>9. Orderly'
  <2>1. ASSUME NEW g \in Followers
        PROVE  /\ work'[g].at \in {"swap", "revalidate", "peak"}
               /\ work'[g].at # "swap" => last_delta_hash' # NoBlock
               /\ \A d \in work'[g].deltas : d.block # Genesis /\ Weight[d.block] <= Weight[tip']
    <3>1. CASE g = f
      BY <1>1, <1>5, <1>6, <1>8, <3>1
    <3>2. CASE g # f
      <4>1. work'[g] = work[g]
        BY <1>6, <3>2
      <4>2. \A d \in work[g].deltas : d.block # Genesis /\ Weight[d.block] <= Weight[tip] /\ Weight[d.block] \in Nat
        BY <1>1, TreeAssumption DEF Orderly, IntakeInv, WorkInv, Deltas
      <4> QED BY <1>1, <4>1, <4>2 DEF Orderly
    <3> QED BY <3>1, <3>2
  <2>2. last_delta_hash' # NoBlock =>
          last_delta_hash' \in Blocks /\ Weight[last_delta_hash'] <= Weight[tip']
    BY <1>1, TreeAssumption DEF Orderly
  <2>3. lock'.by \in Followers => work'[lock'.by] = work[lock.by] /\ lock'.by = lock.by
    BY <1>1, <1>6, <1>7
  <2> QED BY <1>1, <2>1, <2>2, <2>3 DEF Orderly
<1>10. Path[b] \subseteq Blocks
  BY PathFacts
<1>11. \A x \in Unapplied : x \in Unapplied'
  <2>1. \A g \in Followers : g # f => Current'[g] = Current[g]
    BY <1>1, <1>6 DEF Current
  <2> QED BY <1>6, <1>7, <2>1 DEF Unapplied
<1>12. Revalidating => Revalidating'
  BY <1>1, <1>2, <1>6 DEF Revalidating
<1>13. CASE D # {} /\ tip \in Path[b]
  <2>1. Path[tip] \subseteq Path[b]
    BY <1>13, PathFacts
  <2>2. PassDue => PassDue'
    <3>1. Broken => Broken'
      BY <1>1, <1>6, <1>8, <2>1 DEF Broken
    <3>2. Marked => Marked'
      BY <1>6, <1>7 DEF Marked
    <3>3. Waiting => Waiting'
      BY <1>1, <1>2, <1>6 DEF Waiting
    <3> QED BY <3>1, <3>2, <3>3 DEF PassDue
  <2>3. \A x \in Path[b] \ Path[tip] : x \in Unapplied'
    BY <1>6, <1>8, <1>10, <1>13 DEF Unapplied
  <2>4. Covered \subseteq Covered'
    BY <1>1, <1>11, <2>1, <2>3 DEF Covered
  <2>5. ReadInv'
    BY <1>1, <2>2, <2>4 DEF ReadInv
  <2>6. ASSUME NEW i, HeldOn(i, tip, Unapplied) PROVE HeldOn(i, b, Unapplied')
    <3> DEFINE U == Unapplied
               V == Unapplied'
    <3>1. \A x \in Path[b] : Stamp[x] # 0 /\ (x \in Path[tip] => x \in U) => x \in V
      BY <1>11, <2>3
    <3>2. HeldOn(i, tip, U)
      BY <2>6
    <3> HIDE DEF U, V
    <3>3. HeldOn(i, b, V)
      BY <1>10, <2>1, <3>1, <3>2, HeldFurther, Zenon
    <3> QED BY <3>3 DEF V
  <2>7. HeldInv'
    BY <1>1, <1>12, <2>2, <2>6 DEF HeldInv
  <2> QED BY <1>9, <2>5, <2>7
<1>14. CASE D # {} /\ tip \notin Path[b]
  <2>1. Marked'
    BY <1>6, <1>8, <1>14 DEF Marked
  <2> QED BY <1>9, <2>1 DEF ReadInv, HeldInv, PassDue
<1>15. CASE D = {} /\ last_delta_hash # NoBlock
  <2>1. b \in Path[b] /\ last_delta_hash \in Blocks /\ Weight[last_delta_hash] <= Weight[tip]
    BY <1>1, <1>15, PathFacts DEF Orderly
  <2>2. b \notin Path[last_delta_hash]
    <3>1. b \in Path[last_delta_hash] => Weight[b] <= Weight[last_delta_hash]
      BY <2>1, PathFacts
    <3>2. Weight[last_delta_hash] \in Nat
      BY <2>1, TreeAssumption
    <3> QED BY <1>1, <2>1, <3>1, <3>2
  <2>3. ASSUME NEW g \in Followers, NEW d \in Opened'[g] PROVE d.block # b
    <3>1. g # f /\ d \in Opened[g]
      BY <1>6, <1>15, <2>3
    <3>2. d \in work[g].deltas
      BY <3>1 DEF Opened
    <3>3. Weight[d.block] <= Weight[tip]
      BY <1>1, <3>2 DEF Orderly
    <3> QED BY <1>1, <3>3
  <2>4. Broken'
    BY <1>1, <1>15, <2>1, <2>2, <2>3 DEF Broken
  <2> QED BY <1>9, <2>4 DEF ReadInv, HeldInv, PassDue
<1>16. CASE last_delta_hash = NoBlock
  <2>1. pool.peak = NoPeak /\ pool.items = {} /\ lock.by \notin Followers
    BY <1>1, <1>16 DEF Orderly
  <2> QED BY <1>1, <1>9, <2>1 DEF ReadInv, HeldInv
<1> QED BY <1>13, <1>14, <1>15, <1>16

\* notify_new_peak takes up a delta: one that does not chain brings a pass, one
\* that chains takes its block from what is to come.
LEMMA SwapHeld ==
  ASSUME SpendableInv, NEW f \in Followers, Swap(f)
  PROVE  Orderly' /\ ReadInv' /\ HeldInv'
<1> DEFINE D == work[f].deltas
           y == FirstOf(D)
<1>1. /\ IntakeInv /\ Orderly /\ ReadInv /\ HeldInv /\ tip \in Blocks
      /\ tip' = tip /\ pool' = pool /\ lock' = lock /\ D # {} /\ work[f].at = "swap"
  BY DEF Swap, SpendableInv, IntakeInv
<1>2. y = Delta(f) /\ y \in D /\ y.block \in Blocks /\ y.block # Genesis /\ Weight[y.block] <= Weight[tip]
  <2>1. Delta(f) = y
    BY DEF Delta, FirstOf
  <2>2. Delta(f) \in D /\ Delta(f) \in Deltas
    BY <1>1, DeltaIs
  <2> QED BY <1>1, <2>1, <2>2 DEF Orderly, Deltas
<1>3. last_delta_hash' = y.block
  BY <1>2 DEF Swap
<1>4. PICK w : /\ work' = [work EXCEPT ![f] = w]
               /\ \/ Reorged(y) /\ w = [at |-> "revalidate", deltas |-> D]
                  \/ ~Reorged(y) /\ w = [at |-> "peak", deltas |-> D]
                  \/ ~Reorged(y) /\ Stamp[y.block] = 0 /\ w = [at |-> "swap", deltas |-> D \ {y}]
  <2>1. /\ After(f, "swap") = [at |-> "revalidate", deltas |-> D]
        /\ \/ After(f, "revalidate") = [at |-> "peak", deltas |-> D]
           \/ /\ Stamp[y.block] = 0
              /\ After(f, "revalidate") = [at |-> "swap", deltas |-> D \ {y}]
    BY <1>1, AfterView
  <2>2. work' = [work EXCEPT ![f] = IF Reorged(Delta(f)) THEN After(f, "swap")
                                    ELSE After(f, "revalidate")]
    BY DEF Swap
  <2> HIDE DEF D, y
  <2> QED BY <1>2, <2>1, <2>2
<1> HIDE DEF y
<1>5. lock.by # f
  BY <1>1 DEF Orderly
<1>6. /\ \A g \in Followers : work'[g] = IF g = f THEN w ELSE work[g]
      /\ \A g \in Followers : g # f => Opened'[g] = Opened[g]
      /\ Opened'[f] = IF w.at = "swap" THEN w.deltas ELSE w.deltas \ {FirstOf(w.deltas)}
  BY <1>1, <1>4, WorkView, Zenon
<1>7. Opened[f] = D /\ Opened'[f] = D \ {y} /\ Current[f] = {}
  <2>1. Opened'[f] = D \ {y}
    BY <1>4, <1>6 DEF y
  <2> QED BY <1>1, <2>1 DEF Opened, Current
<1>8. /\ w.at \in {"swap", "revalidate", "peak"} /\ w.deltas \subseteq D
      /\ Reorged(y) => w.at = "revalidate"
      /\ ~Reorged(y) => w.at = "peak" \/ Stamp[y.block] = 0
  BY <1>4
<1>9. Orderly'
  <2>1. ASSUME NEW g \in Followers
        PROVE  /\ work'[g].at \in {"swap", "revalidate", "peak"}
               /\ \A d \in work'[g].deltas : d.block # Genesis /\ Weight[d.block] <= Weight[tip']
    <3>1. CASE g = f
      BY <1>1, <1>6, <1>8, <3>1 DEF Orderly
    <3>2. CASE g # f
      <4>1. work'[g] = work[g]
        BY <1>6, <3>2
      <4> QED BY <1>1, <4>1 DEF Orderly
    <3> QED BY <3>1, <3>2
  <2>2. last_delta_hash' # NoBlock /\ last_delta_hash' \in Blocks /\ Weight[last_delta_hash'] <= Weight[tip']
    BY <1>1, <1>2, <1>3, TreeAssumption
  <2>3. lock'.by \in Followers => work'[lock'.by] = work[lock.by] /\ lock'.by = lock.by
    BY <1>1, <1>5, <1>6
  <2> QED BY <1>1, <2>1, <2>2, <2>3 DEF Orderly
<1>10. CASE Reorged(y)
  <2>1. Waiting'
    BY <1>1, <1>5, <1>6, <1>8, <1>10 DEF Waiting
  <2> QED BY <1>9, <2>1 DEF ReadInv, HeldInv, PassDue
<1>11. CASE ~Reorged(y) /\ last_delta_hash = NoBlock
  <2>1. pool.peak = NoPeak /\ pool.items = {} /\ lock.by \notin Followers
    BY <1>1, <1>11 DEF Orderly
  <2> QED BY <1>1, <1>9, <2>1 DEF ReadInv, HeldInv
<1>12. CASE ~Reorged(y) /\ last_delta_hash # NoBlock
  <2>1. y.reorg # TRUE /\ last_delta_hash = Parent[y.block]
    BY <1>12 DEF Reorged
  <2>2. Path[y.block] = Path[last_delta_hash] \cup {y.block}
    BY <1>2, <2>1, TreeAssumption
  <2>3. PassDue => PassDue'
    <3>1. Broken => Broken'
      <4>1. \A g \in Followers : Opened'[g] \subseteq Opened[g]
        BY <1>6, <1>7
      <4>2. y \in Opened[f]
        BY <1>2, <1>7
      <4>3. y.block # NoBlock
        BY <1>2, TreeAssumption
      <4> QED BY <1>1, <1>3, <2>2, <4>1, <4>2, <4>3 DEF Broken
    <3>2. Marked => Marked'
      <4>1. \A g \in Followers : \A d \in Opened[g] : d # y => d \in Opened'[g]
        BY <1>6, <1>7
      <4> QED BY <2>1, <4>1 DEF Marked
    <3>3. Waiting => Waiting'
      BY <1>1, <1>6 DEF Waiting
    <3> QED BY <3>1, <3>2, <3>3 DEF PassDue
  <2>4. Revalidating => Revalidating'
    BY <1>1, <1>5, <1>6 DEF Revalidating
  <2>5. \A x \in Unapplied : Stamp[x] # 0 => x \in Unapplied'
    <3>1. \A g \in Followers : g # f => Current'[g] = Current[g]
      BY <1>1, <1>6 DEF Current
    <3>2. Stamp[y.block] # 0 => Current'[f] = {y.block}
      <4>1. Stamp[y.block] # 0 => w.at = "peak" /\ w.deltas = D
        BY <1>4, <1>12
      <4>2. Current'[f] = IF w.at = "swap" \/ (lock'.by = f /\ pool'.retry # NoRetry) THEN {}
                          ELSE {FirstOf(w.deltas).block}
        BY <1>6 DEF Current
      <4> QED BY <1>1, <1>5, <4>1, <4>2 DEF y
    <3>3. ASSUME NEW x \in Unapplied, Stamp[x] # 0 PROVE x \in Unapplied'
      <4>1. PICK g \in Followers : x \in Current[g] \/ \E d \in Opened[g] : d.block = x
        BY DEF Unapplied
      <4>2. x \in Blocks
        BY DEF Unapplied
      <4>3. x \in Current'[g] \/ \E d \in Opened'[g] : d.block = x
        BY <1>6, <1>7, <3>1, <3>2, <3>3, <4>1
      <4> QED BY <4>2, <4>3 DEF Unapplied
    <3> QED BY <3>3
  <2>6. Covered \subseteq Covered' /\ \A i : HeldOn(i, tip, Unapplied) => HeldOn(i, tip', Unapplied')
    BY <1>1, <2>5, HeldKept, Zenon
  <2>7. ReadInv'
    BY <1>1, <2>3, <2>6 DEF ReadInv
  <2>8. HeldInv'
    BY <1>1, <2>3, <2>4, <2>6 DEF HeldInv
  <2> QED BY <1>9, <2>7, <2>8
<1> QED BY <1>10, <1>11, <1>12

\* A step that changes no follower's work forgets no unapplied block, unless it
\* tells the pool of one.
LEMMA UnappliedKept ==
  ASSUME work' = work, Opened' = Opened,
         \A g \in Followers : lock'.by = g /\ pool'.retry # NoRetry => lock.by = g /\ pool.retry # NoRetry
  PROVE  \A x \in Unapplied : x \in Unapplied'
<1>1. \A g \in Followers : Current[g] \subseteq Current'[g]
  BY DEF Current
<1> QED BY <1>1 DEF Unapplied

\* The whole pass: everyone who stays is good on the chain that was read.
LEMMA RevalidateStep ==
  ASSUME SpendableInv, NEW f \in Followers, Revalidate(f)
  PROVE  Orderly' /\ ForwardOnly(pool') /\ ReadInv' /\ HeldInv'
<1> DEFINE D == work[f].deltas
           y == FirstOf(D)
           r == revalidate_for_reorg(pool, lock.tip)
<1>1. /\ IntakeInv /\ Orderly /\ ReadInv /\ HeldInv /\ tip \in Blocks /\ PoolInv(pool) /\ ForwardOnly(pool)
      /\ lock.tip \in Blocks
      /\ tip' = tip /\ last_delta_hash' = last_delta_hash /\ pool' = r /\ lock' = Free
      /\ lock.by = f /\ work[f].at = "revalidate"
  BY DEF Revalidate, SpendableInv, IntakeInv, LockInv
<1>2. ForwardOnly(r) /\ (\A i \in r.items : HeldOn(i, lock.tip, {})) /\ (pool.items = {} => r.items = {})
  BY <1>1, RevalidateHeld
<1>3. r.peak = pool.peak /\ r.retry = pool.retry
  BY <1>1, RevalidatePool DEF SameParked
<1> HIDE DEF r
<1>4. pool.retry = NoRetry /\ lock'.by \notin Followers /\ lock'.by \notin Submitters
  BY <1>1, FreeBy DEF Orderly
<1>5. PICK w : /\ work' = [work EXCEPT ![f] = w]
               /\ \/ w = [at |-> "peak", deltas |-> D]
                  \/ Stamp[y.block] = 0 /\ w = [at |-> "swap", deltas |-> D \ {y}]
  <2>1. \/ After(f, "revalidate") = [at |-> "peak", deltas |-> D]
        \/ /\ Stamp[y.block] = 0
           /\ After(f, "revalidate") = [at |-> "swap", deltas |-> D \ {y}]
    BY <1>1, AfterView
  <2>2. work' = [work EXCEPT ![f] = After(f, "revalidate")]
    BY DEF Revalidate
  <2> HIDE DEF D, y
  <2> QED BY <2>1, <2>2
<1> HIDE DEF y
<1>6. /\ \A g \in Followers : work'[g] = IF g = f THEN w ELSE work[g]
      /\ \A g \in Followers : g # f => Opened'[g] = Opened[g]
      /\ Opened'[f] = IF w.at = "swap" THEN w.deltas ELSE w.deltas \ {FirstOf(w.deltas)}
  BY <1>1, <1>5, WorkView, Zenon
<1>7. Opened[f] = D \ {y} /\ Opened'[f] = D \ {y}
  <2>1. Opened'[f] = D \ {y}
    BY <1>5, <1>6 DEF y
  <2> QED BY <1>1, <2>1 DEF Opened, y
<1>8. Opened' = Opened
  <2>1. Opened = [g \in Followers |-> Opened[g]] /\ Opened' = [g \in Followers |-> Opened'[g]]
    BY DEF Opened
  <2>2. \A g \in Followers : Opened'[g] = Opened[g]
    BY <1>6, <1>7
  <2> QED BY <2>1, <2>2
<1>9. Orderly'
  <2>1. ASSUME NEW g \in Followers
        PROVE  /\ work'[g].at \in {"swap", "revalidate", "peak"}
               /\ work'[g].at # "swap" => last_delta_hash' # NoBlock
               /\ \A d \in work'[g].deltas : d.block # Genesis /\ Weight[d.block] <= Weight[tip']
    <3>1. CASE g = f
      <4>1. w.at \in {"swap", "peak"} /\ w.deltas \subseteq D
        BY <1>5
      <4> QED BY <1>1, <1>6, <4>1, <3>1 DEF Orderly
    <3>2. CASE g # f
      <4>1. work'[g] = work[g]
        BY <1>6, <3>2
      <4> QED BY <1>1, <4>1 DEF Orderly
    <3> QED BY <3>1, <3>2
  <2> QED BY <1>1, <1>2, <1>3, <1>4, <2>1 DEF Orderly
<1>10. PassDue => PassDue'
  <2>1. \A g \in Followers : work[g].at = "revalidate" /\ lock.by # g
           => work'[g].at = "revalidate" /\ lock'.by # g
    BY <1>1, <1>4, <1>6
  <2> QED BY <1>1, <1>8, <2>1, PassKept
<1>11. \A x \in Unapplied : Stamp[x] # 0 => x \in Unapplied'
  <2>1. \A g \in Followers : g # f => Current'[g] = Current[g]
    BY <1>1, <1>3, <1>4, <1>6 DEF Current
  <2>2. Current[f] = {y.block}
    BY <1>1, <1>4 DEF Current, y
  <2>3. Stamp[y.block] # 0 => Current'[f] = {y.block}
    <3>1. Stamp[y.block] # 0 => w.at = "peak" /\ w.deltas = D
      BY <1>5
    <3>2. Current'[f] = IF w.at = "swap" \/ (lock'.by = f /\ pool'.retry # NoRetry) THEN {}
                        ELSE {FirstOf(w.deltas).block}
      BY <1>6 DEF Current
    <3> QED BY <1>1, <1>3, <1>4, <3>1, <3>2 DEF y
  <2>4. ASSUME NEW x \in Unapplied, Stamp[x] # 0 PROVE x \in Unapplied'
    <3>1. PICK g \in Followers : x \in Current[g] \/ \E d \in Opened[g] : d.block = x
      BY DEF Unapplied
    <3>2. x \in Blocks
      BY DEF Unapplied
    <3>3. x \in Current'[g] \/ \E d \in Opened'[g] : d.block = x
      BY <1>8, <2>1, <2>2, <2>3, <2>4, <3>1
    <3> QED BY <3>2, <3>3 DEF Unapplied
  <2> QED BY <2>4
<1>12. Covered \subseteq Covered' /\ \A i : HeldOn(i, tip, Unapplied) => HeldOn(i, tip', Unapplied')
  BY <1>1, <1>11, HeldKept, Zenon
<1>13. HeldInv'
  <2>1. CASE lock.tip \in Covered
    <3>1. \A i \in r.items : HeldOn(i, tip, Unapplied)
      BY <1>1, <1>2, <2>1, CoveredHeld
    <3> QED BY <1>1, <1>12, <3>1 DEF HeldInv
  <2> QED BY <1>1, <1>10, <2>1 DEF ReadInv, HeldInv
<1> QED BY <1>1, <1>2, <1>4, <1>9, <1>13 DEF ReadInv

\* The pool hears of a block: it is applied, and what it spends is gone or moved on.
LEMMA NewPeakStep ==
  ASSUME SpendableInv, NEW f \in Followers, NewPeak(f)
  PROVE  Orderly' /\ ForwardOnly(pool') /\ ReadInv' /\ HeldInv'
<1> DEFINE d == Delta(f)
           y == d.block
           peak == [height |-> Height[y], time |-> Stamp[y]]
           u == lock.tip
           r == new_peak(pool, peak, Removes[y], u)
<1>1. /\ IntakeInv /\ Orderly /\ ReadInv /\ HeldInv /\ tip \in Blocks /\ PoolInv(pool) /\ ForwardOnly(pool)
      /\ tip' = tip /\ last_delta_hash' = last_delta_hash /\ pool' = r /\ lock' = lock /\ work' = work
      /\ lock.by = f /\ work[f].at = "peak" /\ work[f].deltas # {}
  BY DEF NewPeak, SpendableInv, IntakeInv, WorkInv
<1>2. d = FirstOf(work[f].deltas) /\ d \in work[f].deltas /\ y \in Blocks /\ Weight[y] <= Weight[u]
  <2>1. d \in work[f].deltas /\ d \in Deltas
    BY <1>1, DeltaIs
  <2>2. d = FirstOf(work[f].deltas)
    BY DEF Delta, FirstOf
  <2> HIDE DEF d
  <2> QED BY <1>1, <2>1, <2>2 DEF Deltas, Orderly
<1> HIDE DEF d
<1>3. peak.height \in Nat \cup {-1} /\ peak # NoPeak
  <2>1. Height[y] \in Nat
    BY <1>2, TreeAssumption
  <2>2. peak.height = Height[y] /\ NoPeak.height = -1
    BY DEF NoPeak
  <2> QED BY <2>1, <2>2
<1> HIDE DEF y, peak, u
<1>4. PICK s : /\ PoolInv(s) /\ s.items \subseteq pool.items
               /\ r.items = ApplySpent(s, Removes[y], u).items
               /\ r.peak = peak /\ r.retry.stage = "parked"
  <2>1. PoolInv(pool) /\ peak.height \in Nat \cup {-1}
    BY <1>1, <1>3
  <2> DEFINE spent == Removes[y]
  <2> HIDE DEF spent
  <2>2. \E s : /\ PoolInv(s) /\ s.items \subseteq pool.items
               /\ new_peak(pool, peak, spent, u).items = ApplySpent(s, spent, u).items
               /\ new_peak(pool, peak, spent, u).peak = peak
               /\ new_peak(pool, peak, spent, u).retry.stage = "parked"
    BY <2>1, PeakIs
  <2> QED BY <2>2 DEF spent
<1> HIDE DEF r
<1>5. pool'.peak # NoPeak /\ pool'.retry # NoRetry
  BY <1>1, <1>3, <1>4 DEF NoRetry
<1>6. Orderly'
  BY <1>1, <1>5 DEF Orderly
<1>7. Opened' = Opened
  BY <1>1, WorkSame
<1>8. PassDue => PassDue'
  BY <1>1, <1>7, PassKept
<1>9. ~Revalidating
  BY <1>1 DEF Revalidating
<1>10. \A x \in Unapplied : x # y => x \in Unapplied'
  <2>1. \A g \in Followers : g # f => Current'[g] = Current[g]
    BY <1>1 DEF Current
  <2>2. Current[f] \subseteq {y}
    BY <1>1, <1>2 DEF Current, y
  <2> QED BY <1>7, <2>1, <2>2 DEF Unapplied
<1>11. u \in Covered => u \in Covered'
  <2>1. \A x \in Path[tip] \ Path[u] : u \in Path[tip] => x # y
    BY <1>1, <1>2, NotBeyond
  <2> QED BY <1>1, <1>10, <2>1 DEF Covered
<1>12. ReadInv'
  BY <1>1, <1>8, <1>11 DEF ReadInv, u
<1>13. ForwardOnly(s)
  BY <1>1, <1>4 DEF ForwardOnly
<1>14. ForwardOnly(pool')
  <2>1. ForwardOnly(ApplySpent(s, Removes[y], u))
    BY <1>4, <1>13, SpentForward
  <2> QED BY <1>1, <1>4, <2>1 DEF ForwardOnly
<1>15. CASE ~PassDue
  <2> DEFINE U == Unapplied
             V == Unapplied'
  <2>1. u \in Covered'
    BY <1>1, <1>11, <1>15 DEF ReadInv, u
  <2>2. u \in Path[tip] /\ \A x \in Path[tip] \ Path[u] : Stamp[x] # 0 => x \in V
    BY <1>1, <2>1 DEF Covered
  <2>3. Path[u] \subseteq Path[tip] /\ Path[tip] \subseteq Blocks
    BY <1>1, <2>2, PathFacts
  <2>4. \A i \in s.items : HeldOn(i, tip, U)
    BY <1>1, <1>4, <1>9, <1>15 DEF HeldInv
  <2>5. \A x \in U : x # y => x \in V
    BY <1>10
  <2> HIDE DEF U, V
  <2>6. \A i \in ApplySpent(s, Removes[y], u).items : HeldOn(i, tip, V)
    BY <1>4, <1>13, <2>2, <2>3, <2>4, <2>5, SpentHeld, Zenon
  <2>7. \A i \in pool'.items : HeldOn(i, tip', V)
    BY <1>1, <1>4, <2>6
  <2> QED BY <1>6, <1>12, <1>14, <2>7 DEF HeldInv, V
<1>16. CASE PassDue
  BY <1>6, <1>8, <1>12, <1>14, <1>16 DEF HeldInv
<1> QED BY <1>15, <1>16

\* A retried bundle enters as one submitted does, and the rest of the call
\* touches no resident.
LEMMA RetryStep ==
  ASSUME SpendableInv, NEW f \in Followers, NEW n \in Names, Retry(f, n)
  PROVE  Orderly' /\ ForwardOnly(pool') /\ ReadInv' /\ HeldInv'
<1> DEFINE r == RetryOne(pool, n, lock.tip)
<1>1. /\ IntakeInv /\ Orderly /\ ReadInv /\ HeldInv /\ tip \in Blocks /\ PoolInv(pool) /\ ForwardOnly(pool)
      /\ tip' = tip /\ last_delta_hash' = last_delta_hash /\ pool' = r /\ lock' = lock /\ work' = work
      /\ lock.by = f /\ n \in pool.retry.names
  BY DEF Retry, SpendableInv, IntakeInv
<1>2. /\ r.peak = pool.peak /\ ForwardOnly(r)
      /\ \A i \in r.items : i \in pool.items \/ (HeldOn(i, lock.tip, {}) /\ pool.peak # NoPeak)
  BY <1>1, RetryHeld
<1> HIDE DEF r
<1>3. pool.retry # NoRetry /\ work[f].at = "peak"
  BY <1>1 DEF Orderly, NoRetry
<1>4. Orderly'
  BY <1>1, <1>2, <1>3 DEF Orderly
<1>5. Opened' = Opened
  BY <1>1, WorkSame
<1>6. PassDue => PassDue'
  BY <1>1, <1>5, PassKept
<1>7. ~Revalidating
  BY <1>1, <1>3 DEF Revalidating
<1>8. \A x \in Unapplied : x \in Unapplied'
  BY <1>1, <1>3, <1>5, UnappliedKept
<1>9. Covered \subseteq Covered' /\ \A i : HeldOn(i, tip, Unapplied) => HeldOn(i, tip', Unapplied')
  BY <1>1, <1>8, HeldKept, Zenon
<1>10. ReadInv'
  BY <1>1, <1>2, <1>6, <1>9 DEF ReadInv
<1>11. HeldInv'
  <2>1. CASE ~PassDue
    <3>1. lock.tip \in Covered /\ \A i \in pool.items : HeldOn(i, tip, Unapplied)
      BY <1>1, <1>7, <2>1 DEF ReadInv, HeldInv
    <3>2. \A i \in r.items : HeldOn(i, tip, Unapplied)
      BY <1>1, <1>2, <3>1, CoveredHeld
    <3> QED BY <1>1, <1>9, <3>2 DEF HeldInv
  <2> QED BY <1>6, <2>1 DEF HeldInv
<1> QED BY <1>1, <1>2, <1>4, <1>10, <1>11

\* The second cache is taken up: the residents stay.
LEMMA DrainStep ==
  ASSUME SpendableInv, NEW f \in Followers, DrainConflict(f)
  PROVE  Orderly' /\ ForwardOnly(pool') /\ ReadInv' /\ HeldInv'
<1>1. /\ IntakeInv /\ Orderly /\ ReadInv /\ HeldInv /\ tip \in Blocks /\ PoolInv(pool) /\ ForwardOnly(pool)
      /\ tip' = tip /\ last_delta_hash' = last_delta_hash /\ pool' = drain_conflict(pool)
      /\ lock' = lock /\ work' = work /\ lock.by = f /\ pool.retry = [stage |-> "parked", names |-> {}]
  BY DEF DrainConflict, SpendableInv, IntakeInv
<1>2. pool'.items = pool.items /\ pool'.peak = pool.peak /\ pool.retry # NoRetry
  BY <1>1 DEF drain_conflict, PoolInv, IsPool, PoolFields, NoRetry
<1>3. Orderly' /\ ForwardOnly(pool')
  BY <1>1, <1>2 DEF Orderly, ForwardOnly
<1>4. Opened' = Opened
  BY <1>1, WorkSame
<1>5. PassDue => PassDue'
  BY <1>1, <1>4, PassKept
<1>6. Revalidating => Revalidating'
  BY <1>1 DEF Revalidating
<1>7. \A x \in Unapplied : x \in Unapplied'
  BY <1>1, <1>2, <1>4, UnappliedKept
<1>8. Covered \subseteq Covered' /\ \A i : HeldOn(i, tip, Unapplied) => HeldOn(i, tip', Unapplied')
  BY <1>1, <1>7, HeldKept, Zenon
<1> QED BY <1>1, <1>2, <1>3, <1>5, <1>6, <1>8 DEF ReadInv, HeldInv

\* The call ends: its delta is done with.
LEMMA DoneStep ==
  ASSUME SpendableInv, NEW f \in Followers, PeakDone(f)
  PROVE  Orderly' /\ ForwardOnly(pool') /\ ReadInv' /\ HeldInv'
<1> DEFINE D == work[f].deltas
           y == FirstOf(D)
           w == [at |-> "swap", deltas |-> D \ {y}]
<1>1. /\ IntakeInv /\ Orderly /\ ReadInv /\ HeldInv /\ tip \in Blocks /\ PoolInv(pool) /\ ForwardOnly(pool)
      /\ tip' = tip /\ last_delta_hash' = last_delta_hash /\ pool' = [pool EXCEPT !.retry = NoRetry]
      /\ lock' = Free /\ lock.by = f /\ pool.retry = [stage |-> "conflict", names |-> {}]
  BY DEF PeakDone, SpendableInv, IntakeInv
<1>2. /\ pool'.items = pool.items /\ pool'.peak = pool.peak /\ pool'.retry = NoRetry
      /\ pool.retry # NoRetry /\ work[f].at = "peak"
  BY <1>1 DEF PoolInv, IsPool, PoolFields, NoRetry, Orderly
<1>3. work' = [work EXCEPT ![f] = w]
  <2>1. After(f, "peak") = w
    BY <1>1, AfterView
  <2> HIDE DEF w
  <2> QED BY <2>1 DEF PeakDone
<1>4. w.at = "swap" /\ w.deltas = D \ {y}
  OBVIOUS
<1> HIDE DEF w, y
<1>5. /\ \A g \in Followers : work'[g] = IF g = f THEN w ELSE work[g]
      /\ \A g \in Followers : g # f => Opened'[g] = Opened[g]
      /\ Opened'[f] = IF w.at = "swap" THEN w.deltas ELSE w.deltas \ {FirstOf(w.deltas)}
  BY <1>1, <1>3, WorkView, Zenon
<1>6. Opened' = Opened
  <2>1. Opened = [g \in Followers |-> Opened[g]] /\ Opened' = [g \in Followers |-> Opened'[g]]
    BY DEF Opened
  <2>2. Opened[f] = D \ {y}
    BY <1>2 DEF Opened, y
  <2>3. \A g \in Followers : Opened'[g] = Opened[g]
    BY <1>4, <1>5, <2>2
  <2> QED BY <2>1, <2>3
<1>7. lock'.by \notin Followers /\ lock'.by \notin Submitters
  BY <1>1, FreeBy
<1>8. Orderly'
  <2>1. ASSUME NEW g \in Followers
        PROVE  /\ work'[g].at \in {"swap", "revalidate", "peak"}
               /\ work'[g].at # "swap" => last_delta_hash' # NoBlock
               /\ \A d \in work'[g].deltas : d.block # Genesis /\ Weight[d.block] <= Weight[tip']
    <3>1. CASE g = f
      BY <1>1, <1>4, <1>5, <3>1 DEF Orderly
    <3>2. CASE g # f
      <4>1. work'[g] = work[g]
        BY <1>5, <3>2
      <4> QED BY <1>1, <4>1 DEF Orderly
    <3> QED BY <3>1, <3>2
  <2> QED BY <1>1, <1>2, <1>7, <2>1 DEF Orderly
<1>9. PassDue => PassDue'
  <2>1. \A g \in Followers : work[g].at = "revalidate" /\ lock.by # g
           => work'[g].at = "revalidate" /\ lock'.by # g
    BY <1>1, <1>5, <1>7
  <2> QED BY <1>1, <1>6, <2>1, PassKept
<1>10. ~Revalidating
  BY <1>1, <1>2 DEF Revalidating
<1>11. \A x \in Unapplied : x \in Unapplied'
  <2>1. Current[f] = {}
    BY <1>1, <1>2 DEF Current
  <2>2. \A g \in Followers : g # f => Current'[g] = Current[g]
    BY <1>1, <1>5, <1>7 DEF Current
  <2> QED BY <1>6, <2>1, <2>2 DEF Unapplied
<1>12. Covered \subseteq Covered' /\ \A i : HeldOn(i, tip, Unapplied) => HeldOn(i, tip', Unapplied')
  BY <1>1, <1>11, HeldKept, Zenon
<1>13. ForwardOnly(pool')
  BY <1>1, <1>2 DEF ForwardOnly
<1> QED BY <1>1, <1>2, <1>7, <1>8, <1>9, <1>10, <1>12, <1>13 DEF ReadInv, HeldInv

\* Admission puts in what is good on the chain it read.
LEMMA AdmitStep ==
  ASSUME SpendableInv, NEW s \in Submitters, Admit(s)
  PROVE  Orderly' /\ ForwardOnly(pool') /\ ReadInv' /\ HeldInv'
<1> DEFINE n == task[s]
           r == admit(pool, n, lock.tip).pool
<1>1. /\ IntakeInv /\ Orderly /\ ReadInv /\ HeldInv /\ tip \in Blocks /\ PoolInv(pool) /\ ForwardOnly(pool)
      /\ tip' = tip /\ last_delta_hash' = last_delta_hash /\ lock' = Free /\ work' = work
      /\ lock.by = s /\ n \in Names /\ lock.tip \in Blocks
  BY DEF Admit, SpendableInv, IntakeInv, LockInv
<1>2. pool' = r \/ pool' = add_seen(r, n)
  BY DEF Admit
<1> HIDE DEF n
<1>3. /\ r.peak = pool.peak /\ r.retry = pool.retry /\ ForwardOnly(r)
      /\ \A i \in r.items : i \in pool.items \/ (HeldOn(i, lock.tip, {}) /\ pool.peak # NoPeak)
  BY <1>1, AdmitHeld DEF PoolInv
<1>4. PoolInv(r)
  BY <1>1, AdmitPool
<1> HIDE DEF r
<1>5. pool'.items = r.items /\ pool'.peak = pool.peak /\ pool'.retry = pool.retry
  <2>1. add_seen(r, n).items = r.items /\ add_seen(r, n).peak = r.peak /\ add_seen(r, n).retry = r.retry
    BY <1>4 DEF add_seen, PoolInv, IsPool, PoolFields
  <2> QED BY <1>2, <1>3, <2>1
<1>6. lock'.by \notin Followers /\ lock'.by \notin Submitters /\ lock.by \notin Followers
  BY <1>1, FreeBy, TaskAssumption
<1>7. pool.retry = NoRetry
  BY <1>1, <1>6 DEF Orderly
<1>8. Orderly'
  BY <1>1, <1>3, <1>5, <1>6, <1>7 DEF Orderly
<1>9. Opened' = Opened
  BY <1>1, WorkSame
<1>10. PassDue => PassDue'
  BY <1>1, <1>6, <1>9, PassKept
<1>11. ~Revalidating
  BY <1>6 DEF Revalidating
<1>12. \A x \in Unapplied : x \in Unapplied'
  BY <1>1, <1>5, <1>7, <1>9, UnappliedKept
<1>13. Covered \subseteq Covered' /\ \A i : HeldOn(i, tip, Unapplied) => HeldOn(i, tip', Unapplied')
  BY <1>1, <1>12, HeldKept, Zenon
<1>14. HeldInv'
  <2>1. CASE ~PassDue
    <3>1. \A i \in pool.items : HeldOn(i, tip, Unapplied)
      BY <1>1, <1>11, <2>1 DEF HeldInv
    <3>2. pool.peak # NoPeak => lock.tip \in Covered
      BY <1>1, <2>1 DEF ReadInv
    <3>3. \A i \in r.items : HeldOn(i, tip, Unapplied)
      BY <1>1, <1>3, <3>1, <3>2, CoveredHeld
    <3> QED BY <1>5, <1>13, <3>3 DEF HeldInv
  <2> QED BY <1>10, <2>1 DEF HeldInv
<1>15. ForwardOnly(pool')
  BY <1>3, <1>5 DEF ForwardOnly
<1> QED BY <1>6, <1>8, <1>14, <1>15 DEF ReadInv

\* A step that leaves the tip, the followers and the lock, and the pool's
\* residents, peak and retries.
LEMMA StillStep ==
  ASSUME SpendableInv, tip' = tip, last_delta_hash' = last_delta_hash, work' = work, lock' = lock,
         pool'.items = pool.items, pool'.peak = pool.peak, pool'.retry = pool.retry
  PROVE  Orderly' /\ ForwardOnly(pool') /\ ReadInv' /\ HeldInv'
<1>1. IntakeInv /\ Orderly /\ ReadInv /\ HeldInv /\ tip \in Blocks /\ ForwardOnly(pool)
  BY DEF SpendableInv, IntakeInv
<1>2. Orderly' /\ ForwardOnly(pool')
  BY <1>1 DEF Orderly, ForwardOnly
<1>3. Opened' = Opened
  BY WorkSame
<1>4. PassDue => PassDue'
  BY <1>3, PassKept
<1>5. Revalidating => Revalidating'
  BY DEF Revalidating
<1>6. \A x \in Unapplied : x \in Unapplied'
  BY <1>3, UnappliedKept
<1>7. Covered \subseteq Covered' /\ \A i : HeldOn(i, tip, Unapplied) => HeldOn(i, tip', Unapplied')
  BY <1>1, <1>6, HeldKept, Zenon
<1> QED BY <1>1, <1>2, <1>4, <1>5, <1>7 DEF ReadInv, HeldInv

\* A bundle is taken up or found invalid: only its being seen is noted.
LEMMA NotedStep ==
  ASSUME SpendableInv, NEW s \in Submitters, (\E n \in Names : Submit(s, n)) \/ Reject(s)
  PROVE  Orderly' /\ ForwardOnly(pool') /\ ReadInv' /\ HeldInv'
<1>1. PoolInv(pool)
  BY DEF SpendableInv, IntakeInv
<1>2. UNCHANGED <<tip, last_delta_hash, work, lock>>
  BY DEF Submit, Reject
<1>3. \E n : pool' = pool \/ pool' = remove_seen(pool, {n}) \/ pool' = add_seen(pool, n)
  BY DEF Submit, Reject
<1>4. \A n : /\ remove_seen(pool, {n}).items = pool.items /\ remove_seen(pool, {n}).peak = pool.peak
             /\ remove_seen(pool, {n}).retry = pool.retry
             /\ add_seen(pool, n).items = pool.items /\ add_seen(pool, n).peak = pool.peak
             /\ add_seen(pool, n).retry = pool.retry
  BY <1>1 DEF remove_seen, add_seen, PoolInv, IsPool, PoolFields
<1>5. pool'.items = pool.items /\ pool'.peak = pool.peak /\ pool'.retry = pool.retry
  BY <1>3, <1>4
<1> QED BY <1>2, <1>5, StillStep

\* The lock is taken and the store read: nothing is behind what was read.
LEMMA AcquireStep ==
  ASSUME SpendableInv, NEW a \in Followers \cup Submitters, Acquire(a)
  PROVE  Orderly' /\ ForwardOnly(pool') /\ ReadInv' /\ HeldInv'
<1>1. /\ IntakeInv /\ Orderly /\ ReadInv /\ HeldInv /\ tip \in Blocks /\ ForwardOnly(pool)
      /\ tip' = tip /\ last_delta_hash' = last_delta_hash /\ pool' = pool /\ work' = work
      /\ lock = Free /\ lock' = [by |-> a, tip |-> tip]
      /\ a \in Followers => work[a].at \in {"revalidate", "peak"}
  BY TaskAssumption DEF Acquire, SpendableInv, IntakeInv
<1>2. lock'.by = a /\ lock'.tip = tip /\ lock.by \notin Followers
  BY <1>1, FreeBy
<1>3. pool.retry = NoRetry
  BY <1>1, <1>2 DEF Orderly
<1>4. Orderly'
  BY <1>1, <1>2, <1>3 DEF Orderly
<1>5. Opened' = Opened
  BY <1>1, WorkSame
<1>6. \A x \in Unapplied : x \in Unapplied'
  BY <1>1, <1>3, <1>5, UnappliedKept
<1>7. Covered \subseteq Covered' /\ \A i : HeldOn(i, tip, Unapplied) => HeldOn(i, tip', Unapplied')
  BY <1>1, <1>6, HeldKept, Zenon
<1>8. lock'.tip \in Covered'
  BY <1>1, <1>2, PathFacts DEF Covered
<1>9. PassDue => PassDue' \/ Revalidating'
  <2>1. Broken => Broken'
    BY <1>1, <1>5 DEF Broken
  <2>2. Marked => Marked'
    BY <1>5 DEF Marked
  <2>3. Waiting => Waiting' \/ Revalidating'
    BY <1>1 DEF Waiting, Revalidating
  <2> QED BY <2>1, <2>2, <2>3 DEF PassDue
<1>10. ~Revalidating
  BY <1>2 DEF Revalidating
<1>11. HeldInv'
  BY <1>1, <1>7, <1>9, <1>10 DEF HeldInv
<1>12. ReadInv'
  BY <1>8 DEF ReadInv
<1> QED BY <1>1, <1>4, <1>11, <1>12

\* The invariant is inductive while a lost report is lost whole.
LEMMA SpendableInductive ==
  ASSUME LossKinds \subseteq {"window"}
  PROVE  SpendableInv /\ [Next]_vars => SpendableInv'
<1> SUFFICES ASSUME SpendableInv, [Next]_vars PROVE SpendableInv'
  OBVIOUS
<1>1. IntakeInv'
  BY IntakeInductive DEF SpendableInv
<1> SUFFICES Orderly' /\ ForwardOnly(pool') /\ ReadInv' /\ HeldInv'
  BY <1>1 DEF SpendableInv
<1>2. CASE UNCHANGED vars
  BY <1>2, StillStep DEF vars
<1>3. CASE \E f \in Followers, b \in Blocks : Confirm(f, b)
  <2>1. PICK f \in Followers, b \in Blocks : Confirm(f, b)
    BY <1>3
  <2>2. ForwardOnly(pool')
    BY <2>1 DEF Confirm, SpendableInv
  <2> QED BY <2>1, <2>2, ConfirmHeld
<1>4. CASE \E f \in Followers : Swap(f) \/ Revalidate(f) \/ NewPeak(f) \/ DrainConflict(f) \/ PeakDone(f)
  <2>1. PICK f \in Followers : Swap(f) \/ Revalidate(f) \/ NewPeak(f) \/ DrainConflict(f) \/ PeakDone(f)
    BY <1>4
  <2>2. CASE Swap(f)
    <3>1. ForwardOnly(pool')
      BY <2>2 DEF Swap, SpendableInv
    <3> QED BY <2>2, <3>1, SwapHeld
  <2>3. CASE Revalidate(f)
    BY <2>3, RevalidateStep
  <2>4. CASE NewPeak(f)
    BY <2>4, NewPeakStep
  <2>5. CASE DrainConflict(f)
    BY <2>5, DrainStep
  <2>6. CASE PeakDone(f)
    BY <2>6, DoneStep
  <2> QED BY <2>1, <2>2, <2>3, <2>4, <2>5, <2>6
<1>5. CASE \E f \in Followers, n \in Names : Retry(f, n)
  BY <1>5, RetryStep
<1>6. CASE \E s \in Submitters, n \in Names : Submit(s, n)
  BY <1>6, NotedStep
<1>7. CASE \E s \in Submitters : Reject(s) \/ Admit(s)
  BY <1>7, NotedStep, AdmitStep
<1>8. CASE \E a \in Followers \cup Submitters : Acquire(a)
  BY <1>8, AcquireStep
<1> QED BY <1>2, <1>3, <1>4, <1>5, <1>6, <1>7, <1>8 DEF Next

\* Once everything is reported, being held is being spendable.
LEMMA HeldSpendable == SpendableInv => ResidentsSpendable
<1> SUFFICES ASSUME SpendableInv, InStep PROVE ResidentsSpendable
  BY DEF ResidentsSpendable
<1>1. /\ tip \in Blocks /\ lock = Free /\ last_delta_hash = tip /\ HeldInv /\ ForwardOnly(pool)
      /\ \A g \in Followers : work[g] = [at |-> "swap", deltas |-> {}]
  BY DEF SpendableInv, IntakeInv, InStep, NoWork
<1>2. \A g \in Followers : work[g].at = "swap" /\ Opened[g] = {} /\ Current[g] = {}
  BY <1>1 DEF Opened, Current
<1>3. Unapplied = {} /\ ~PassDue /\ ~Revalidating
  BY <1>1, <1>2 DEF Unapplied, PassDue, Broken, Marked, Waiting, Revalidating
<1>4. \A i \in pool.items : HeldOn(i, tip, {})
  BY <1>1, <1>3 DEF HeldInv
<1> SUFFICES ASSUME NEW i \in pool.items, NEW c \in Bundle[i.name].spends
    PROVE  IF c \in DOMAIN i.lineage
           THEN c \in Bundle[i.name].creates \/ i.lineage[c] = get_unspent_lineage_info(Puzzle[c], tip)
           ELSE IF OnChain(c, tip) THEN ~SpentOn(c, tip) ELSE c \in Bundle[i.name].creates
  BY DEF ResidentsSpendable
<1>5. HeldCoin(i, c, tip, {})
  BY <1>4 DEF HeldOn
<1>6. \A v : Untouched(v, tip, {}) => ~SpentOn(v, tip)
  BY DEF Untouched, SpentOn, RemovedBy
<1>7. CASE c \notin DOMAIN i.lineage
  BY <1>5, <1>6, <1>7 DEF HeldCoin
<1>8. CASE c \in DOMAIN i.lineage /\ c \notin Bundle[i.name].creates
  <2> DEFINE v == i.lineage[c]
             p == Puzzle[c]
  <2>1. VersionOn(v, p, tip) /\ ~SpentOn(v, tip)
    BY <1>5, <1>6, <1>8 DEF HeldCoin
  <2>2. i.name \in Names /\ c \in Bundle[i.name].ff
    BY <1>1, <1>8 DEF ForwardOnly, SpendableInv, IntakeInv, PoolInv, Residency, IsItem
  <2> HIDE DEF v, p
  <2>3. v \in Versions(p, tip)
    BY <2>1 DEF VersionOn, Versions
  <2>4. \A x, z \in Versions(p, tip) : x = z
    BY <1>1, <2>2, SingletonAssumption DEF p
  <2>5. Versions(p, tip) = {v} /\ v \in Coins
    BY <2>1, <2>3, <2>4 DEF VersionOn
  <2>6. v = get_unspent_lineage_info(p, tip)
    BY <2>5 DEF get_unspent_lineage_info
  <2> QED BY <1>8, <2>6 DEF v, p
<1> QED BY <1>7, <1>8

\* Once the tip has been reported, every resident can be spent on its chain,
\* for every tree of blocks, set of bundles and tasks: reports out of order,
\* reports lost whole, reorgs, and admissions between a block's commit and its
\* report.
THEOREM ResidentsStaySpendable ==
  ASSUME LossKinds \subseteq {"window"}
  PROVE  Spec => []ResidentsSpendable
BY SpendableInit, SpendableInductive, HeldSpendable, PTL DEF Spec

-----------------------------------------------------------------------------
(* Time locks among the tasks.                                             *)

\* The lock is absolute, or on a coin that the chain of t has.
Settled(l, t) == l.coin = Absolute \/ OnChain(l.coin, t)

\* What a settled lock on the chain of t counts from, whatever the peak.
From(l, t) == Base(l, t, NoPeak)

\* The locks the item was admitted under, and the peak has not passed.
InTime(i, peak) ==
  /\ i.on \in Blocks /\ i.height_added \in Nat \cup {-1}
  /\ i.locks.beforeHeight \in Nat /\ i.locks.beforeSeconds \in Nat
  /\ \A l \in ToSet(Bundle[i.name].locks) : Settled(l, i.on) =>
       LET b == From(l, i.on) + l.at
       IN /\ l.kind = "height" => b <= i.height_added
          /\ l.kind = "before_height" => peak.height < b /\ i.locks.beforeHeight <= b
          /\ l.kind = "before_seconds" => peak.time < b /\ i.locks.beforeSeconds <= b
          /\ l.kind \in {"birth_height", "birth_seconds"} => From(l, i.on) = l.at

AllInTime(m) == m.peak.time \in Nat /\ \A i \in m.items : InTime(i, m.peak)

\* The two are one item but for its lineage.
SameLocks(i, j) ==
  i.name = j.name /\ i.locks = j.locks /\ i.height_added = j.height_added /\ i.on = j.on

\* A lock has its type.
LEMMA LockType ==
  ASSUME NEW n \in Names, NEW l \in ToSet(Bundle[n].locks)
  PROVE  l.kind \in LockKinds /\ l.at \in Nat
<1>1. Bundle[n].locks \in Seq([kind : LockKinds, coin : Coins \cup {Absolute}, at : Nat])
  BY PoolAssumption
<1>2. l \in [kind : LockKinds, coin : Coins \cup {Absolute}, at : Nat]
  BY <1>1, ToSetFinite
<1> QED BY <1>2

\* What a lock counts from is a height or a time.
LEMMA BaseIsNat ==
  ASSUME NEW l, NEW t \in Blocks, NEW peak, peak.height \in Nat \cup {-1}, peak.time \in Nat
  PROVE  Base(l, t, peak) \in Nat
<1>1. CASE OnChain(l.coin, t)
  <2>1. \E x \in Path[t] : l.coin \in Adds[x]
    BY <1>1 DEF OnChain, AddedBy
  <2>2. Born(l.coin, t) \in Path[t]
    BY <2>1, Zenon DEF Born
  <2>3. Height[Born(l.coin, t)] \in Nat /\ Stamp[Born(l.coin, t)] \in Nat
    BY <2>2, TreeAssumption, PoolAssumption
  <2> QED BY <1>1, <2>3 DEF Base, RecordHeight, RecordTime
<1>2. CASE ~OnChain(l.coin, t)
  BY <1>2 DEF Base, RecordHeight, RecordTime
<1> QED BY <1>1, <1>2

\* A settled lock counts from the same on every chain that goes on, under every
\* peak.
LEMMA SettledBase ==
  ASSUME NEW l, NEW u \in Blocks, NEW t \in Path[u], Settled(l, t), NEW peak
  PROVE  Base(l, u, peak) = From(l, t) /\ From(l, t) \in Nat
<1>1. t \in Blocks /\ Path[t] \subseteq Path[u]
  BY PathFacts
<1>2. From(l, t) \in Nat
  <2>1. NoPeak.height \in Nat \cup {-1} /\ NoPeak.time \in Nat
    BY DEF NoPeak
  <2> QED BY <1>1, <2>1, BaseIsNat DEF From
<1>3. CASE l.coin = Absolute
  BY <1>2, <1>3 DEF From, Base
<1>4. CASE l.coin # Absolute
  <2>1. OnChain(l.coin, t)
    BY <1>4 DEF Settled
  <2>2. \E x \in Path[t] : l.coin \in Adds[x]
    BY <2>1 DEF OnChain, AddedBy
  <2>3. \E x \in Path[u] : l.coin \in Adds[x]
    BY <1>1, <2>2
  <2>4. Born(l.coin, t) \in Path[t] /\ l.coin \in Adds[Born(l.coin, t)]
    BY <2>2, Zenon DEF Born
  <2>5. Born(l.coin, u) \in Path[u] /\ l.coin \in Adds[Born(l.coin, u)]
    BY <2>3, Zenon DEF Born
  <2>6. Born(l.coin, t) = Born(l.coin, u)
    BY <1>1, <2>4, <2>5, CoinAssumption
  <2>7. OnChain(l.coin, u)
    BY <1>1, <2>1 DEF OnChain, AddedBy
  <2> QED BY <1>2, <2>1, <2>6, <2>7 DEF From, Base, RecordHeight, RecordTime
<1> QED BY <1>3, <1>4

\* An expiry bound is no later than any lock it stands for.
LEMMA ExpiryIs ==
  ASSUME NEW n \in Names, NEW t \in Blocks, NEW peak, peak.height \in Nat \cup {-1}, peak.time \in Nat
  PROVE  LET e == effective_timelocks(n, t, peak)
         IN /\ e.beforeHeight \in Nat /\ e.beforeSeconds \in Nat
            /\ \A l \in ToSet(Bundle[n].locks) :
                 /\ l.kind = "before_height" => e.beforeHeight <= Base(l, t, peak) + l.at
                 /\ l.kind = "before_seconds" => e.beforeSeconds <= Base(l, t, peak) + l.at
<1> DEFINE L == ToSet(Bundle[n].locks)
           B(kind) == {Never} \cup {Base(l, t, peak) + l.at : l \in {x \in L : x.kind = kind}}
<1>1. \A l \in L : Base(l, t, peak) + l.at \in Nat
  <2>1. \A l \in L : l.at \in Nat
    BY LockType
  <2>2. \A l \in L : Base(l, t, peak) \in Nat
    BY BaseIsNat
  <2> QED BY <2>1, <2>2
<1>2. ASSUME NEW kind PROVE Min(B(kind)) \in Nat /\ \A b \in B(kind) : Min(B(kind)) <= b
  <2> DEFINE T == B(kind)
  <2>1. T \subseteq Nat /\ T # {}
    BY <1>1 DEF Never
  <2> HIDE DEF T
  <2>2. \E h \in T : \A k \in T : h <= k
    BY <2>1, LeastOf
  <2>3. Min(T) \in T /\ \A k \in T : Min(T) <= k
    BY <2>2, Zenon DEF Min
  <2>4. Min(T) \in Nat /\ \A k \in T : Min(T) <= k
    BY <2>1, <2>3
  <2> QED BY <2>4 DEF T
<1>3. /\ effective_timelocks(n, t, peak).beforeHeight = Min(B("before_height"))
      /\ effective_timelocks(n, t, peak).beforeSeconds = Min(B("before_seconds"))
  BY DEF effective_timelocks
<1>4. \A l \in L : Base(l, t, peak) + l.at \in B(l.kind)
  OBVIOUS
<1> HIDE DEF B, L
<1> QED BY <1>2, <1>3, <1>4 DEF L

\* A verdict of "Met" says that no lock fails.
LEMMA MetIs ==
  ASSUME NEW n \in Names, NEW t, NEW peak, check_time_locks(n, t, peak) = "Met"
  PROVE  \A l \in ToSet(Bundle[n].locks) : ~Fails(l, t, peak)
<1> DEFINE locks == Bundle[n].locks
           I == {k \in 1 .. Len(locks) : Fails(locks[k], t, peak)}
<1>1. locks \in Seq([kind : LockKinds, coin : Coins \cup {Absolute}, at : Nat])
  BY PoolAssumption
<1>2. I \subseteq Nat \ {0}
  BY <1>1
<1>3. I = {}
  <2> SUFFICES ASSUME I # {} PROVE FALSE
    OBVIOUS
  <2>1. check_time_locks(n, t, peak) =
          LET i == IF I # {} THEN Min(I) ELSE 0
          IN IF i = 0 THEN "Met"
             ELSE CASE locks[i].kind = "height" -> "Pending"
                    [] locks[i].kind \in {"before_height", "before_seconds"} -> "Expired"
                    [] OTHER -> "TimelockNotMet"
    BY DEF check_time_locks, SelectInSeq
  <2>2. Min(I) \in I
    <3> HIDE DEF I
    <3> QED BY <1>2, FirstIs
  <2>3. Min(I) # 0
    BY <1>2, <2>2
  <2> HIDE DEF I, locks
  <2> QED BY <2>1, <2>3
<1>4. \A l \in ToSet(locks) : \E k \in 1 .. Len(locks) : locks[k] = l
  BY <1>1 DEF ToSet
<1> QED BY <1>3, <1>4

\* What is admitted is in time.
LEMMA NewInTime ==
  ASSUME NEW m, NEW n \in Names, NEW t \in Blocks, m.peak.height \in Nat \cup {-1}, m.peak.time \in Nat,
         check_time_locks(n, t, m.peak) = "Met"
  PROVE  InTime(NewItem(m, n, t), m.peak)
<1> DEFINE item == NewItem(m, n, t)
           peak == m.peak
<1>1. item.name = n /\ item.on = t /\ item.height_added = peak.height
  BY DEF NewItem
<1>2. item.locks = effective_timelocks(n, t, peak)
  BY DEF NewItem
<1> HIDE DEF item, peak
<1>3. /\ item.locks.beforeHeight \in Nat /\ item.locks.beforeSeconds \in Nat
      /\ \A l \in ToSet(Bundle[n].locks) :
           /\ l.kind = "before_height" => item.locks.beforeHeight <= Base(l, t, peak) + l.at
           /\ l.kind = "before_seconds" => item.locks.beforeSeconds <= Base(l, t, peak) + l.at
  BY <1>2, ExpiryIs DEF peak
<1>4. ASSUME NEW l \in ToSet(Bundle[n].locks), Settled(l, t)
      PROVE  LET b == From(l, t) + l.at
             IN /\ l.kind = "height" => b <= peak.height
                /\ l.kind = "before_height" => peak.height < b /\ item.locks.beforeHeight <= b
                /\ l.kind = "before_seconds" => peak.time < b /\ item.locks.beforeSeconds <= b
                /\ l.kind \in {"birth_height", "birth_seconds"} => From(l, t) = l.at
  <2>1. ~Fails(l, t, peak)
    BY MetIs DEF peak
  <2>2. Base(l, t, peak) = From(l, t) /\ From(l, t) \in Nat
    BY <1>4, SettledBase, PathFacts
  <2>3. l.at \in Nat /\ peak.height \in Nat \cup {-1} /\ peak.time \in Nat
    BY LockType DEF peak
  <2>4. l.kind = "height" => ~(peak.height < Base(l, t, peak) + l.at)
    BY <2>1 DEF Fails
  <2>5. l.kind = "before_height" => ~(peak.height >= Base(l, t, peak) + l.at)
    BY <2>1 DEF Fails
  <2>6. l.kind = "before_seconds" => ~(peak.time >= Base(l, t, peak) + l.at)
    BY <2>1 DEF Fails
  <2>7. l.kind \in {"birth_height", "birth_seconds"} => Base(l, t, peak) = l.at
    BY <2>1 DEF Fails
  <2> QED BY <1>3, <2>2, <2>3, <2>4, <2>5, <2>6, <2>7
<1>5. InTime(item, peak)
  <2>1. item.height_added \in Nat \cup {-1}
    BY <1>1 DEF peak
  <2> QED BY <1>1, <1>3, <1>4, <2>1 DEF InTime
<1> QED BY <1>5 DEF item, peak

\* In time is in time whatever the lineage.
LEMMA SameInTime ==
  ASSUME NEW i, NEW j, SameLocks(i, j), NEW peak, InTime(j, peak)
  PROVE  InTime(i, peak)
BY DEF SameLocks, InTime

\* An item that the sweep leaves is in time under the new peak.
LEMMA SweptInTime ==
  ASSUME NEW i, IsItem(i), NEW old, InTime(i, old), NEW peak, peak.height \in Nat \cup {-1}, peak.time \in Nat,
         ~(i.locks.beforeHeight <= peak.height), ~(i.locks.beforeSeconds <= peak.time)
  PROVE  InTime(i, peak)
<1>1. /\ i.on \in Blocks /\ i.locks.beforeHeight \in Nat /\ i.locks.beforeSeconds \in Nat /\ i.name \in Names
  BY DEF InTime, IsItem
<1>2. ASSUME NEW l \in ToSet(Bundle[i.name].locks), Settled(l, i.on)
      PROVE  LET b == From(l, i.on) + l.at
             IN /\ l.kind = "before_height" => peak.height < b
                /\ l.kind = "before_seconds" => peak.time < b
  <2>1. From(l, i.on) \in Nat /\ l.at \in Nat
    BY <1>1, <1>2, SettledBase, LockType, PathFacts
  <2>2. /\ l.kind = "before_height" => i.locks.beforeHeight <= From(l, i.on) + l.at
        /\ l.kind = "before_seconds" => i.locks.beforeSeconds <= From(l, i.on) + l.at
    BY <1>2 DEF InTime
  <2> QED BY <1>1, <2>1, <2>2
<1> QED BY <1>2 DEF InTime

\* Admission keeps the residents in time.
LEMMA AdmitInTime ==
  ASSUME NEW m, IsPool(m), NEW n \in Names, NEW t \in Blocks, m.peak.height \in Nat \cup {-1}, AllInTime(m)
  PROVE  \A i \in admit(m, n, t).pool.items : InTime(i, m.peak)
<1> DEFINE item == NewItem(m, n, t)
<1>1. \A i \in admit(m, n, t).pool.items :
        i \in m.items \/ (i = item /\ check_time_locks(n, t, m.peak) = "Met")
  BY AdmitItems
<1>2. check_time_locks(n, t, m.peak) = "Met" => InTime(item, m.peak)
  BY NewInTime DEF AllInTime
<1> HIDE DEF item
<1> QED BY <1>1, <1>2 DEF AllInTime

\* A retry keeps the residents in time.
LEMMA RetryInTime ==
  ASSUME NEW m, PoolInv(m), NEW n \in m.retry.names, NEW t \in Blocks, AllInTime(m)
  PROVE  RetryOne(m, n, t).peak = m.peak /\ \A i \in RetryOne(m, n, t).items : InTime(i, m.peak)
<1> DEFINE next == [m EXCEPT !.retry.names = @ \ {n}]
           rest == [next EXCEPT !.pending = Restrict(@, DOMAIN @ \ {n})]
           Same(x) == x.items = m.items /\ x.peak = m.peak
<1>1. IsPool(m) /\ n \in Names /\ m.peak.height \in Nat \cup {-1}
  BY DEF PoolInv, Parking
<1>2. IsPool(next) /\ Same(next)
  BY <1>1 DEF IsPool, PoolFields
<1>3. IsPool(rest) /\ Same(rest)
  <2> HIDE DEF next
  <2> QED BY <1>2 DEF IsPool, PoolFields
<1>4. \/ RetryOne(m, n, t) = admit(next, n, t).pool
      \/ RetryOne(m, n, t) = admit(rest, n, t).pool
      \/ RetryOne(m, n, t) = next
  BY DEF RetryOne
<1> HIDE DEF next, rest
<1>5. AllInTime(next) /\ AllInTime(rest)
  BY <1>2, <1>3 DEF AllInTime
<1> DEFINE Good(r) == r.peak = m.peak /\ \A i \in r.items : InTime(i, m.peak)
<1>6. Good(admit(next, n, t).pool)
  <2>1. admit(next, n, t).pool.peak = m.peak
    BY <1>2, AdmitKeeps
  <2>2. \A i \in admit(next, n, t).pool.items : InTime(i, m.peak)
    BY <1>1, <1>2, <1>5, AdmitInTime
  <2> QED BY <2>1, <2>2
<1>7. Good(admit(rest, n, t).pool)
  <2>1. admit(rest, n, t).pool.peak = m.peak
    BY <1>3, AdmitKeeps
  <2>2. \A i \in admit(rest, n, t).pool.items : InTime(i, m.peak)
    BY <1>1, <1>3, <1>5, AdmitInTime
  <2> QED BY <2>1, <2>2
<1>8. Good(next)
  BY <1>2 DEF AllInTime
<1> HIDE DEF Good
<1>9. Good(RetryOne(m, n, t))
  BY <1>4, <1>6, <1>7, <1>8
<1> QED BY <1>9 DEF Good

\* Moving lineages on leaves the locks alone.
LEMMA RebaseLocks ==
  ASSUME NEW m, IsPool(m), \A i \in m.items : IsItem(i), NEW names, NEW lineage
  PROVE  LET r == Rebase(remove(m, names), lineage)
         IN IsPool(r) /\ \A i \in r.items : \E j \in m.items : SameLocks(i, j)
<1> DEFINE left == remove(m, names)
           r == Rebase(left, lineage)
<1>1. IsPool(left) /\ left.items \subseteq m.items
  BY RemoveItems
<1> HIDE DEF left
<1>2. IsPool(r) /\ r.items = {[i EXCEPT !.lineage = lineage[i]] : i \in left.items}
  BY <1>1 DEF IsPool, PoolFields, Rebase
<1>3. ASSUME NEW j \in left.items PROVE SameLocks([j EXCEPT !.lineage = lineage[j]], j)
  <2>1. IsItem(j)
    BY <1>1, <1>3
  <2> QED BY <2>1 DEF IsItem, ItemFields, SameLocks
<1>4. \A i \in r.items : \E j \in m.items : SameLocks(i, j)
  <2> HIDE DEF r
  <2> QED BY <1>1, <1>2, <1>3
<1> QED BY <1>2, <1>4 DEF left

\* Nor does a reorg landing touch them.
LEMMA RevalidateLocks ==
  ASSUME NEW m, PoolInv(m), NEW t
  PROVE  \A i \in revalidate_for_reorg(m, t).items : \E j \in m.items : SameLocks(i, j)
<1>1. IsPool(m) /\ \A i \in m.items : IsItem(i)
  BY DEF PoolInv, Residency
<1>2. PICK names, lineage : revalidate_for_reorg(m, t) = [Rebase(remove(m, names), lineage) EXCEPT !.seen = <<>>]
  BY DEF revalidate_for_reorg
<1> DEFINE r == Rebase(remove(m, names), lineage)
<1>3. IsPool(r) /\ \A i \in r.items : \E j \in m.items : SameLocks(i, j)
  BY <1>1, RebaseLocks
<1> HIDE DEF r
<1>4. [r EXCEPT !.seen = <<>>].items = r.items
  BY <1>3 DEF IsPool, PoolFields
<1> QED BY <1>2, <1>3, <1>4 DEF r

\* Nor do the spends of a block.
LEMMA SpentLocks ==
  ASSUME NEW m, PoolInv(m), NEW spent, NEW t
  PROVE  \A i \in ApplySpent(m, spent, t).items : \E j \in m.items : SameLocks(i, j)
<1>1. IsPool(m) /\ \A i \in m.items : IsItem(i)
  BY DEF PoolInv, Residency
<1>2. PICK names, lineage : ApplySpent(m, spent, t) = remove_seen(Rebase(remove(m, names), lineage), names)
  BY DEF ApplySpent
<1> DEFINE r == Rebase(remove(m, names), lineage)
<1>3. IsPool(r) /\ \A i \in r.items : \E j \in m.items : SameLocks(i, j)
  BY <1>1, RebaseLocks
<1> HIDE DEF r
<1>4. remove_seen(r, names).items = r.items
  BY <1>3 DEF IsPool, PoolFields, remove_seen
<1> QED BY <1>2, <1>3, <1>4 DEF r

\* A new peak sweeps what it expires.
LEMMA PeakInTime ==
  ASSUME NEW m, PoolInv(m), AllInTime(m), NEW peak, peak.height \in Nat \cup {-1}, peak.time \in Nat,
         NEW spent, NEW u
  PROVE  LET r == new_peak(m, peak, spent, u)
         IN r.peak = peak /\ \A i \in r.items : InTime(i, peak)
<1> DEFINE at == [m EXCEPT !.peak = peak]
           gone == Expired(at)
           s == remove(at, gone)
           left == ApplySpent(s, spent, u)
           r == new_peak(m, peak, spent, u)
<1>1. PoolInv(at) /\ at.items = m.items /\ at.peak = peak
  <2>1. IsPool(m)
    BY DEF PoolInv
  <2>2. /\ IsPool(at) /\ at.items = m.items /\ at.older = m.older /\ at.index = m.index
        /\ at.cost = m.cost /\ at.fee = m.fee
        /\ at.peak = peak /\ at.pending = m.pending /\ at.conflict = m.conflict
        /\ at.conflictCost = m.conflictCost /\ at.retry = m.retry
    BY <2>1 DEF IsPool, PoolFields
  <2> HIDE DEF at
  <2> QED BY <2>2 DEF PoolInv, Residency, Caches, RivalFree, Residents, Parking
<1>2. r = [left EXCEPT !.retry = [stage |-> "parked", names |-> Due(left)]]
  BY DEF new_peak
<1> HIDE DEF at
<1>3. ASSUME NEW i \in s.items PROVE InTime(i, peak)
  <2>1. IsPool(at) /\ \A x \in m.items : IsItem(x)
    BY <1>1 DEF PoolInv, Residency
  <2>2. i \in m.items /\ i.name \notin gone
    <3> HIDE DEF gone
    <3> QED BY <1>1, <2>1, RemoveItems
  <2>3. ~(i.locks.beforeHeight <= peak.height) /\ ~(i.locks.beforeSeconds <= peak.time)
    BY <1>1, <2>2 DEF Expired
  <2> QED BY <2>1, <2>2, <2>3, SweptInTime DEF AllInTime
<1>4. PoolInv(s) /\ SameParked(s, at)
  <2> HIDE DEF gone
  <2> QED BY <1>1, RemovePool
<1> HIDE DEF s
<1>5. PoolInv(left) /\ SameParked(left, s)
  BY <1>4, SpentPool
<1>6. IsPool(left) /\ left.peak = peak
  BY <1>1, <1>4, <1>5 DEF PoolInv, SameParked
<1>7. \A i \in left.items : InTime(i, peak)
  BY <1>3, <1>4, SpentLocks, SameInTime
<1> HIDE DEF left, r
<1>8. r.items = left.items /\ r.peak = peak
  BY <1>2, <1>6 DEF IsPool, PoolFields
<1> QED BY <1>7, <1>8 DEF r

TimelyInv == IntakeInv /\ AllInTime(pool)

\* The invariant is inductive, whatever reports are lost.
LEMMA TimelyInductive == TimelyInv /\ [Next]_vars => TimelyInv'
<1> SUFFICES ASSUME TimelyInv, [Next]_vars PROVE TimelyInv'
  OBVIOUS
<1>1. IntakeInv /\ AllInTime(pool) /\ PoolInv(pool) /\ lock.tip \in Blocks
  BY DEF TimelyInv, IntakeInv, LockInv
<1>2. IntakeInv'
  BY <1>1, IntakeInductive
<1> SUFFICES AllInTime(pool')
  BY <1>2 DEF TimelyInv
<1>3. ASSUME pool'.peak = pool.peak, \A i \in pool'.items : InTime(i, pool.peak) PROVE AllInTime(pool')
  BY <1>1, <1>3 DEF AllInTime
<1>4. ASSUME pool'.peak = pool.peak, pool'.items = pool.items PROVE AllInTime(pool')
  BY <1>1, <1>4 DEF AllInTime
<1>5. CASE UNCHANGED pool
  BY <1>1, <1>5
<1>6. ASSUME NEW f \in Followers, Revalidate(f) PROVE AllInTime(pool')
  <2>1. pool' = revalidate_for_reorg(pool, lock.tip)
    BY <1>6 DEF Revalidate
  <2>2. pool'.peak = pool.peak
    BY <1>1, <2>1, RevalidatePool DEF SameParked
  <2>3. \A i \in pool'.items : InTime(i, pool.peak)
    BY <1>1, <2>1, RevalidateLocks, SameInTime DEF AllInTime
  <2> QED BY <1>3, <2>2, <2>3
<1>7. ASSUME NEW f \in Followers, NewPeak(f) PROVE AllInTime(pool')
  <2> DEFINE y == Delta(f).block
             peak == [height |-> Height[y], time |-> Stamp[y]]
  <2>1. pool' = new_peak(pool, peak, Removes[y], lock.tip)
    BY <1>7 DEF NewPeak
  <2>2. Delta(f) \in Deltas
    BY <1>1, <1>7, DeltaIs DEF NewPeak, IntakeInv, WorkInv
  <2>3. peak.height \in Nat \cup {-1} /\ peak.time \in Nat
    BY <2>2, TreeAssumption, PoolAssumption DEF Deltas
  <2> HIDE DEF y, peak
  <2>4. pool'.peak = peak /\ \A i \in pool'.items : InTime(i, peak)
    BY <1>1, <2>1, <2>3, PeakInTime
  <2> QED BY <2>3, <2>4 DEF AllInTime
<1>8. ASSUME NEW f \in Followers, DrainConflict(f) PROVE AllInTime(pool')
  <2>1. pool'.items = pool.items /\ pool'.peak = pool.peak
    BY <1>1, <1>8 DEF DrainConflict, drain_conflict, PoolInv, IsPool, PoolFields
  <2> QED BY <1>4, <2>1
<1>9. ASSUME NEW f \in Followers, PeakDone(f) PROVE AllInTime(pool')
  <2>1. pool'.items = pool.items /\ pool'.peak = pool.peak
    BY <1>1, <1>9 DEF PeakDone, PoolInv, IsPool, PoolFields
  <2> QED BY <1>4, <2>1
<1>10. ASSUME NEW f \in Followers, NEW n \in Names, Retry(f, n) PROVE AllInTime(pool')
  <2>1. n \in pool.retry.names /\ pool' = RetryOne(pool, n, lock.tip)
    BY <1>10 DEF Retry
  <2>2. \A i \in pool'.items : InTime(i, pool.peak)
    BY <1>1, <2>1, RetryInTime
  <2>3. pool'.peak = pool.peak
    BY <1>1, <2>1, RetryInTime
  <2> QED BY <1>3, <2>2, <2>3
<1>11. ASSUME NEW s \in Submitters, (\E n \in Names : Submit(s, n)) \/ Reject(s) PROVE AllInTime(pool')
  <2>1. \E n : pool' = pool \/ pool' = remove_seen(pool, {n}) \/ pool' = add_seen(pool, n)
    BY <1>11 DEF Submit, Reject
  <2>2. \A n : /\ remove_seen(pool, {n}).items = pool.items /\ remove_seen(pool, {n}).peak = pool.peak
               /\ add_seen(pool, n).items = pool.items /\ add_seen(pool, n).peak = pool.peak
    BY <1>1 DEF remove_seen, add_seen, PoolInv, IsPool, PoolFields
  <2>3. pool'.items = pool.items /\ pool'.peak = pool.peak
    BY <2>1, <2>2
  <2> QED BY <1>4, <2>3
<1>12. ASSUME NEW s \in Submitters, Admit(s) PROVE AllInTime(pool')
  <2> DEFINE n == task[s]
             r == admit(pool, n, lock.tip).pool
  <2>1. n \in Names /\ (pool' = r \/ pool' = add_seen(r, n))
    BY <1>1, <1>12 DEF Admit, IntakeInv, LockInv
  <2> HIDE DEF n
  <2>2. IsPool(pool) /\ pool.peak.height \in Nat \cup {-1}
    BY <1>1 DEF PoolInv, Parking
  <2>3. \A i \in r.items : InTime(i, pool.peak)
    BY <1>1, <2>1, <2>2, AdmitInTime
  <2>4. PoolInv(r)
    BY <1>1, <2>1, AdmitPool
  <2>5. r.peak = pool.peak
    BY <2>2, AdmitKeeps
  <2> HIDE DEF r
  <2>6. add_seen(r, n).items = r.items /\ add_seen(r, n).peak = r.peak
    BY <2>4 DEF add_seen, PoolInv, IsPool, PoolFields
  <2>7. pool'.peak = pool.peak /\ \A i \in pool'.items : InTime(i, pool.peak)
    BY <2>1, <2>3, <2>5, <2>6
  <2> QED BY <1>3, <2>7
<1>13. CASE \E f \in Followers, b \in Blocks : Confirm(f, b)
  BY <1>5, <1>13 DEF Confirm
<1>14. CASE \E f \in Followers : Swap(f)
  BY <1>5, <1>14 DEF Swap
<1>15. CASE \E a \in Followers \cup Submitters : Acquire(a)
  BY <1>5, <1>15 DEF Acquire
<1>16. CASE UNCHANGED vars
  BY <1>5, <1>16 DEF vars
<1> QED BY <1>6, <1>7, <1>8, <1>9, <1>10, <1>11, <1>12, <1>13, <1>14, <1>15, <1>16 DEF Next

\* Whatever the reports and the reorgs, a resident meets its locks under the
\* mempool's peak on the chain it was admitted on.
THEOREM LocksAreMet == Spec => []LocksHold
<1>1. Init => TimelyInv
  <2> SUFFICES ASSUME Init PROVE AllInTime(pool)
    BY IntakeInit DEF TimelyInv
  <2> QED BY DEF Init, EmptyPool, NoPeak, AllInTime
<1>2. TimelyInv => LocksHold
  <2> SUFFICES ASSUME TimelyInv, NEW i \in pool.items, i.on \in Path[tip], i.height_added <= pool.peak.height,
                      NEW l \in ToSet(Bundle[i.name].locks), Settled(l, i.on), l.kind # "seconds"
               PROVE  ~Fails(l, tip, pool.peak)
    BY DEF LocksHold, Settled
  <2>1. /\ tip \in Blocks /\ i.name \in Names /\ InTime(i, pool.peak)
        /\ pool.peak.height \in Nat \cup {-1} /\ pool.peak.time \in Nat
    BY DEF TimelyInv, IntakeInv, PoolInv, Residency, IsItem, AllInTime, Parking
  <2>2. Base(l, tip, pool.peak) = From(l, i.on) /\ From(l, i.on) \in Nat
    BY <2>1, SettledBase
  <2>3. l.at \in Nat /\ l.kind \in LockKinds
    BY <2>1, LockType
  <2>4. LET b == From(l, i.on) + l.at
        IN /\ l.kind = "height" => b <= i.height_added
           /\ l.kind = "before_height" => pool.peak.height < b
           /\ l.kind = "before_seconds" => pool.peak.time < b
           /\ l.kind \in {"birth_height", "birth_seconds"} => From(l, i.on) = l.at
    BY <2>1 DEF InTime
  <2>5. i.height_added \in Nat \cup {-1}
    BY <2>1 DEF InTime
  <2>6. CASE l.kind = "height"
    BY <2>1, <2>2, <2>3, <2>4, <2>5, <2>6 DEF Fails
  <2>7. CASE l.kind = "before_height"
    BY <2>1, <2>2, <2>3, <2>4, <2>7 DEF Fails
  <2>8. CASE l.kind = "before_seconds"
    BY <2>1, <2>2, <2>3, <2>4, <2>8 DEF Fails
  <2>9. CASE l.kind \in {"birth_height", "birth_seconds"}
    BY <2>1, <2>2, <2>3, <2>4, <2>9 DEF Fails
  <2> QED BY <2>3, <2>6, <2>7, <2>8, <2>9 DEF LockKinds, HeightKinds
<1> QED BY <1>1, <1>2, TimelyInductive, PTL DEF Spec
=============================================================================
