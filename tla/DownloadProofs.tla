---------------------------- MODULE DownloadProofs ----------------------------
(***************************************************************************)
(* The bulk download: the window never hands a height out twice or grows   *)
(* past its capacity, a worker that leaves as drained leaves nothing       *)
(* behind, and the feed of a first attempt is the whole range in order.    *)
(***************************************************************************)
EXTENDS BodyDownload, SetFacts

-----------------------------------------------------------------------------
(* The inductive invariant, in named parts.                                *)

Busy == {"read", "claim", "fetch", "written"}
Holding == {"fetch", "written", "error"}
Record == [at : Busy \cup Ended, pending : SUBSET Heights, failures : 0 .. MaxFailures]

Types ==
  /\ written \subseteq Heights /\ known \subseteq Heights /\ bodies \subseteq Heights
  /\ reserved \in [Workers -> SUBSET Heights]
  /\ worker \in [Workers -> Record]
  /\ \A w \in Workers : worker[w].at \in Busy => worker[w].failures < MaxFailures
  /\ phase \in {"download", "confirm", "failed", "landed"}
  /\ attempts \in 1 .. MaxAttempts /\ faults \in 0 .. MaxFaults

\* A run of at most a batch.
IsRun(S) == \E a, b \in Heights : a <= b /\ b - a + 1 <= Batch /\ S = a .. b

\* The window: who holds what, and how much of it there is.
WindowInv ==
  /\ \A w \in Workers : reserved[w] # {} => worker[w].at \in Holding /\ IsRun(reserved[w])
  /\ \A v, w \in Workers : v # w => reserved[v] \cap reserved[w] = {}
  /\ known \cap reserved_set = {}
  /\ Cardinality(known \cup reserved_set) <= Capacity

\* A worker that read nothing to fetch read a complete store.
DrainInv ==
  \A w \in Workers :
    \/ worker[w].at = "claim" /\ worker[w].pending = {}
    \/ worker[w].at = "drained"
    => Heights \subseteq written

\* In the first attempt every written height has reached the feed or is about
\* to; then the feed is the range that is not confirmed yet.
FeedInv ==
  attempts = 1 =>
    /\ phase = "download" =>
         /\ confirmed = <<>>
         /\ \A h \in written : h \in bodies \/ \E w \in Workers : worker[w].at = "written" /\ h \in reserved[w]
    /\ phase \in {"confirm", "landed"} =>
         \E n \in 0 .. MaxHeight :
           /\ confirmed = [h \in 1 .. n |-> h] /\ bodies = n + 1 .. MaxHeight
           /\ phase = "landed" => n = MaxHeight

\* Workers run only while the attempt downloads.
Parked == phase # "download" => \A w \in Workers : worker[w].at \in Ended

DInv == Types /\ WindowInv /\ DrainInv /\ FeedInv /\ Parked

-----------------------------------------------------------------------------
(* The window's operators.                                                 *)

\* Sets of heights are finite sets of naturals.
LEMMA HeightSets ==
  ASSUME NEW S, S \subseteq Heights
  PROVE  S \subseteq Nat /\ IsFiniteSet(S) /\ Cardinality(S) \in Nat
<1>1. IsFiniteSet(Heights)
  BY FS_Interval, DownloadAssumption DEF Heights
<1>2. IsFiniteSet(S)
  BY <1>1, FS_Subset
<1> QED BY <1>2, FS_CardinalityType DEF Heights

\* The least element of a non-empty set of heights.
LEMMA MinIs ==
  ASSUME NEW S, S \subseteq Heights, S # {}
  PROVE  Min(S) \in S /\ Min(S) \in Nat /\ \A x \in S : Min(S) <= x
<1>1. S \subseteq Nat
  BY HeightSets
<1>2. \E m \in S : \A x \in S : m <= x
  BY <1>1, LeastOf
<1>3. Min(S) \in S /\ \A x \in S : Min(S) <= x
  BY <1>2, Zenon DEF Min
<1> QED BY <1>1, <1>3

\* The ends of a run.
LEMMA RunEnds ==
  ASSUME NEW a \in Nat, NEW b \in Nat, a <= b
  PROVE  Min(a .. b) = a /\ Max(a .. b) = b
<1> DEFINE S == a .. b
<1>1. a \in S /\ \A y \in S : a <= y
  OBVIOUS
<1>2. b \in S /\ \A y \in S : b >= y
  OBVIOUS
<1>3. S \subseteq Nat
  OBVIOUS
<1> HIDE DEF S
<1>4. Min(S) \in S /\ \A y \in S : Min(S) <= y
  BY <1>1, Zenon DEF Min
<1>5. Max(S) \in S /\ \A y \in S : Max(S) >= y
  BY <1>2, Zenon DEF Max
<1>6. Min(S) = a
  <2>1. Min(S) <= a /\ a <= Min(S) /\ Min(S) \in Nat
    BY <1>1, <1>3, <1>4
  <2> QED BY <2>1
<1>7. Max(S) = b
  <2>1. Max(S) >= b /\ b >= Max(S) /\ Max(S) \in Nat
    BY <1>2, <1>3, <1>5
  <2> QED BY <2>1
<1> QED BY <1>6, <1>7 DEF S

\* reserve() takes a run of at most a batch out of the pending heights.
LEMMA RunOfPending ==
  ASSUME NEW pending, pending \subseteq Heights, pending # {}
  PROVE  Run(pending) \subseteq pending /\ Run(pending) # {} /\ IsRun(Run(pending))
<1> DEFINE start == Min(pending)
           R == Run(pending)
<1>1. start \in pending /\ start \in Nat /\ pending \subseteq Nat
  BY MinIs, HeightSets
<1> HIDE DEF start
<1>2. R = {h \in start .. start + Batch - 1 : start .. h \subseteq pending}
  BY DEF Run, start
<1>3. Batch \in Nat /\ Batch >= 1
  BY DownloadAssumption
<1> HIDE DEF R
<1>4. start \in R
  BY <1>1, <1>2, <1>3
<1>5. R \subseteq start .. start + Batch - 1
  BY <1>2
<1>6. \A h \in R : \A g \in start .. h : g \in R
  BY <1>1, <1>2, <1>3
<1>7. Cardinality(R) \in 0 .. Batch /\ R = start .. start + Cardinality(R) - 1
  BY <1>1, <1>3, <1>5, <1>6, PrefixIsInterval
<1>8. R \subseteq pending
  BY <1>1, <1>2
<1> DEFINE last == start + Cardinality(R) - 1
<1>9. start <= last
  BY <1>1, <1>3, <1>4, <1>7
<1>10. last \in R
  BY <1>1, <1>3, <1>7, <1>9
<1>11. IsRun(R)
  <2>1. start \in Heights /\ last \in Heights
    BY <1>4, <1>8, <1>10
  <2>2. last - start + 1 <= Batch
    BY <1>1, <1>3, <1>7
  <2>3. R = start .. last
    BY <1>7
  <2> HIDE DEF last
  <2> QED BY <1>9, <2>1, <2>2, <2>3 DEF IsRun
<1> QED BY <1>4, <1>8, <1>11 DEF R

\* refill() adds heights nobody holds, and no more than fit.
LEMMA RefillFits ==
  ASSUME Types, WindowInv, NEW H, H \subseteq Heights
  PROVE  /\ known \subseteq refill(H) /\ refill(H) \subseteq Heights
         /\ refill(H) \cap reserved_set = {}
         /\ Cardinality(refill(H) \cup reserved_set) <= Capacity
         /\ refill(H) = {} /\ reserved_set = {} => H = {}
<1> USE DownloadAssumption
<1> DEFINE live == Cardinality(known \cup reserved_set)
           new == (H \ reserved_set) \ known
           N == {h \in new : live + Cardinality({x \in new : x < h}) < Capacity}
<1>1. refill(H) = known \cup N
  BY DEF refill
<1>2. known \subseteq Heights /\ reserved_set \subseteq Heights /\ new \subseteq Heights
  BY DEF Types, reserved_set
<1>3. live \in Nat /\ live <= Capacity
  BY <1>2, HeightSets DEF WindowInv
<1>4. N \subseteq new /\ N \subseteq Heights
  BY <1>2
<1>5. N \cap (known \cup reserved_set) = {}
  BY <1>4
<1>6. \A h \in N : live + Cardinality({x \in new : x < h}) < Capacity
  OBVIOUS
<1>7. IsFiniteSet(N) /\ Cardinality(N) \in Nat /\ N \subseteq Nat
  BY <1>4, HeightSets
<1>8. Cardinality(N) <= Capacity - live
  <2>1. CASE N = {}
    <3>1. Cardinality(N) = 0
      BY <2>1, FS_EmptySet
    <3> HIDE DEF live, N
    <3> QED BY <1>3, <3>1
  <2>2. CASE N # {}
    <3>1. PICK m \in N : \A k \in N : k <= m
      <4> HIDE DEF N
      <4> QED BY <1>7, <2>2, FiniteHasTop
    <3> DEFINE L == {x \in new : x < m}
    <3>2. live + Cardinality(L) < Capacity
      BY <1>6
    <3>3. N \ {m} \subseteq L
      <4> HIDE DEF N, new
      <4> QED BY <1>4, <1>7, <3>1
    <3>4. IsFiniteSet(L) /\ Cardinality(L) \in Nat
      <4>1. L \subseteq Heights
        BY <1>2
      <4> HIDE DEF L
      <4> QED BY <4>1, HeightSets
    <3> HIDE DEF L, N
    <3>5. Cardinality(N \ {m}) = Cardinality(N) - 1
      BY <1>7, <3>1, FS_RemoveElement
    <3>6. Cardinality(N \ {m}) <= Cardinality(L)
      BY <3>3, <3>4, FS_Subset
    <3> HIDE DEF live
    <3> QED BY <1>3, <1>7, <3>2, <3>4, <3>5, <3>6
  <2> QED BY <2>1, <2>2
<1> HIDE DEF N
<1>9. Cardinality((known \cup reserved_set) \cup N) = live + Cardinality(N)
  <2>1. IsFiniteSet(known \cup reserved_set)
    BY <1>2, HeightSets
  <2>2. (known \cup reserved_set) \cap N = {} /\ Cardinality({}) = 0
    BY <1>5, FS_EmptySet
  <2>3. Cardinality((known \cup reserved_set) \cup N) = live + Cardinality(N) - 0
    BY <1>7, <2>1, <2>2, FS_Union
  <2> HIDE DEF live
  <2> QED BY <1>3, <1>7, <2>3
<1>10. refill(H) \cup reserved_set = (known \cup reserved_set) \cup N
  BY <1>1
<1>11. Cardinality(refill(H) \cup reserved_set) <= Capacity
  <2>1. Cardinality(refill(H) \cup reserved_set) = live + Cardinality(N)
    BY <1>9, <1>10
  <2> HIDE DEF live
  <2> QED BY <1>3, <1>7, <1>8, <2>1
<1>12. refill(H) \cap reserved_set = {}
  BY <1>1, <1>5 DEF WindowInv
<1>13. ASSUME refill(H) = {}, reserved_set = {} PROVE H = {}
  <2> SUFFICES ASSUME H # {} PROVE FALSE
    OBVIOUS
  <2>1. known = {} /\ N = {} /\ new = H
    BY <1>1, <1>13
  <2>2. live = 0
    <3>1. known \cup reserved_set = {}
      BY <1>13, <2>1
    <3> QED BY <3>1, FS_EmptySet
  <2>3. PICK m \in H : \A k \in H : m <= k
    BY HeightSets, LeastOf
  <2>4. {x \in new : x < m} = {}
    <3>1. H \subseteq Nat
      BY HeightSets
    <3>2. \A x \in H : ~(x < m)
      BY <2>3, <3>1
    <3> HIDE DEF new
    <3> QED BY <2>1, <3>2
  <2>5. live + Cardinality({x \in new : x < m}) < Capacity
    BY <2>2, <2>4, FS_EmptySet
  <2>6. m \in N
    BY <2>1, <2>3, <2>5 DEF N
  <2> QED BY <2>1, <2>6
<1> QED BY <1>1, <1>2, <1>4, <1>11, <1>12, <1>13

-----------------------------------------------------------------------------
(* The workers' steps.                                                     *)

\* get_unassociated is empty only when nothing is missing.
LEMMA UnassociatedEmpty ==
  ASSUME get_unassociated(Capacity) = {}
  PROVE  Heights \subseteq written
<1> DEFINE missing == Heights \ written
<1> SUFFICES ASSUME missing # {} PROVE FALSE
  OBVIOUS
<1>1. missing \subseteq Heights /\ missing \subseteq Nat
  BY HeightSets
<1> HIDE DEF missing
<1>2. PICK m \in missing : \A k \in missing : m <= k
  BY <1>1, LeastOf
<1>3. \A x \in missing : ~(x < m)
  BY <1>1, <1>2
<1>4. {x \in missing : x < m} = {}
  BY <1>3
<1>5. Cardinality({x \in missing : x < m}) < Capacity
  BY <1>4, FS_EmptySet, DownloadAssumption
<1>6. m \in get_unassociated(Capacity)
  BY <1>2, <1>5 DEF get_unassociated, missing
<1> QED BY <1>6

\* A step that leaves the window and the store alone, and puts worker w in a
\* state that fits what it holds.
LEMMA QuietWorker ==
  ASSUME DInv, NEW w \in Workers, NEW r \in Record,
         worker' = [worker EXCEPT ![w] = r],
         UNCHANGED <<written, known, reserved, bodies, phase, attempts, confirmed>>,
         faults' \in 0 .. MaxFaults,
         r.at \in Busy => r.failures < MaxFailures,
         phase = "download", reserved[w] # {} => r.at \in Holding,
         worker[w].at # "written" /\ r.at # "written",
         (r.at = "claim" /\ r.pending = {}) \/ r.at = "drained" => Heights \subseteq written
  PROVE  DInv'
<1>1. worker'[w] = r /\ \A v \in Workers : v # w => worker'[v] = worker[v]
  BY DEF DInv, Types
<1>2. Types'
  BY <1>1 DEF DInv, Types, Record
<1>3. WindowInv'
  BY <1>1 DEF DInv, WindowInv, reserved_set
<1>4. DrainInv'
  BY <1>1 DEF DInv, DrainInv
<1>5. FeedInv'
  <2>1. \A v \in Workers : worker'[v].at = "written" <=> worker[v].at = "written"
    BY <1>1
  <2> QED BY <2>1 DEF DInv, FeedInv
<1> QED BY <1>2, <1>3, <1>4, <1>5 DEF DInv, Parked

\* Read leaves an empty list only if the store is complete.
LEMMA ReadOK ==
  ASSUME DInv, NEW w \in Workers, Read(w) PROVE DInv'
<1> DEFINE r == [worker[w] EXCEPT !.at = "claim", !.pending = get_unassociated(Capacity)]
<1>1. get_unassociated(Capacity) \in SUBSET Heights
  BY DEF get_unassociated
<1>2. /\ phase = "download" /\ worker[w].at = "read" /\ worker' = [worker EXCEPT ![w] = r]
      /\ UNCHANGED <<written, known, reserved, bodies, phase, attempts, faults, confirmed>>
  BY DEF Read, DInv, Types
<1>3. worker[w] \in Record
  BY DEF DInv, Types
<1>4. /\ r \in Record
      /\ r.at = "claim" /\ r.pending = get_unassociated(Capacity)
      /\ r.failures = worker[w].failures
  BY <1>1, <1>3 DEF Busy, Record
<1> HIDE DEF r
<1>5. worker[w].failures < MaxFailures /\ reserved[w] = {} /\ faults \in 0 .. MaxFaults
  BY <1>2 DEF DInv, Types, WindowInv, Busy, Holding
<1>6. r.pending = {} => Heights \subseteq written
  BY <1>4, UnassociatedEmpty
<1> QED BY <1>2, <1>4, <1>5, <1>6, QuietWorker

\* A store error parks the worker with what it holds.
LEMMA FaultOK ==
  ASSUME DInv, NEW w \in Workers, Fault(w) PROVE DInv'
<1> DEFINE r == [worker[w] EXCEPT !.at = "error", !.pending = {}]
<1>1. /\ phase = "download" /\ worker[w].at \in {"read", "fetch"} /\ worker' = [worker EXCEPT ![w] = r]
      /\ UNCHANGED <<written, known, reserved, bodies, phase, attempts, confirmed>>
  BY DEF Fault, At, DInv, Types
<1>2. faults' \in 0 .. MaxFaults
  BY DownloadAssumption DEF Fault, DInv, Types
<1>3. worker[w] \in Record
  BY DEF DInv, Types
<1>4. /\ r \in Record
      /\ r.at = "error"
  BY <1>3 DEF Ended, Record
<1> HIDE DEF r
<1> QED BY <1>1, <1>2, <1>4, QuietWorker DEF Busy, Holding

\* Claim without a run: drained, or busy and back to the store.
LEMMA ClaimNothingOK ==
  ASSUME DInv, NEW w \in Workers, Claim(w), refill(worker[w].pending) = {} PROVE DInv'
<1> DEFINE r == [worker[w] EXCEPT !.at = IF reserved_set = {} THEN "drained" ELSE "read",
                                  !.pending = {}]
<1>1. /\ phase = "download" /\ worker[w].at = "claim" /\ worker' = [worker EXCEPT ![w] = r]
      /\ UNCHANGED <<written, known, reserved, bodies, phase, attempts, faults, confirmed>>
  BY DEF Claim, At, DInv, Types, Parked, Ended
<1>2. worker[w] \in Record
  BY DEF DInv, Types
<1>3. /\ r \in Record
      /\ r.at = (IF reserved_set = {} THEN "drained" ELSE "read")
      /\ r.failures = worker[w].failures
  BY <1>2 DEF Ended, Busy, Record
<1> HIDE DEF r
<1>4. worker[w].failures < MaxFailures /\ reserved[w] = {} /\ faults \in 0 .. MaxFaults
  BY <1>1 DEF DInv, Types, WindowInv, Busy, Holding
<1>5. r.at = "drained" => Heights \subseteq written
  <2> SUFFICES ASSUME reserved_set = {} PROVE Heights \subseteq written
    BY <1>3
  <2>1. worker[w].pending = {}
    BY <1>2, RefillFits DEF DInv, Record
  <2> QED BY <1>1, <2>1 DEF DInv, DrainInv
<1> QED BY <1>1, <1>3, <1>4, <1>5, QuietWorker

\* Replacing what one worker holds, seen through the union of all.
LEMMA ReservedBut ==
  ASSUME Types, WindowInv, NEW w \in Workers, NEW R \in SUBSET Heights,
         reserved' = [reserved EXCEPT ![w] = R]
  PROVE  /\ reserved' \in [Workers -> SUBSET Heights]
         /\ reserved'[w] = R /\ \A v \in Workers : v # w => reserved'[v] = reserved[v]
         /\ reserved_set' = (reserved_set \ reserved[w]) \cup R
         /\ reserved[w] \subseteq reserved_set /\ reserved_set \subseteq Heights
<1>1. /\ reserved' \in [Workers -> SUBSET Heights]
      /\ reserved'[w] = R /\ \A v \in Workers : v # w => reserved'[v] = reserved[v]
  BY DEF Types
<1>2. reserved[w] \subseteq reserved_set /\ reserved_set \subseteq Heights
  BY DEF Types, reserved_set
<1>3. ASSUME NEW h \in reserved_set' PROVE h \in (reserved_set \ reserved[w]) \cup R
  <2>1. PICK v \in Workers : h \in reserved'[v]
    BY DEF reserved_set
  <2>2. CASE v = w
    BY <1>1, <2>1, <2>2
  <2>3. CASE v # w
    BY <1>1, <2>1, <2>3 DEF reserved_set, WindowInv
  <2> QED BY <2>2, <2>3
<1>4. ASSUME NEW h \in (reserved_set \ reserved[w]) \cup R PROVE h \in reserved_set'
  <2>1. CASE h \in R
    BY <1>1, <2>1 DEF reserved_set
  <2>2. CASE h \notin R
    <3>1. PICK v \in Workers : h \in reserved[v]
      BY <2>2 DEF reserved_set
    <3>2. v # w
      BY <2>2, <3>1
    <3> QED BY <1>1, <3>1, <3>2 DEF reserved_set
  <2> QED BY <2>1, <2>2
<1> QED BY <1>1, <1>2, <1>3, <1>4

\* Claim with a run: heights move from the pending to the claimed ones.
LEMMA ClaimRunOK ==
  ASSUME DInv, NEW w \in Workers, Claim(w), refill(worker[w].pending) # {} PROVE DInv'
<1> DEFINE pending == refill(worker[w].pending)
           R == Run(pending)
           r == [worker[w] EXCEPT !.at = "fetch", !.pending = {}]
<1>1. /\ phase = "download" /\ worker[w].at = "claim" /\ worker' = [worker EXCEPT ![w] = r]
      /\ reserved' = [reserved EXCEPT ![w] = R] /\ known' = pending \ R
      /\ UNCHANGED <<written, bodies, phase, attempts, faults, confirmed>>
  BY DEF Claim, At, DInv, Types, Parked, Ended
<1>2. worker[w] \in Record
  BY DEF DInv, Types
<1>3. r \in Record /\ r.at = "fetch" /\ r.failures = worker[w].failures
  BY <1>2 DEF Busy, Record
<1> HIDE DEF r
<1>4. worker[w].failures < MaxFailures /\ reserved[w] = {}
  BY <1>1 DEF DInv, Types, WindowInv, Busy, Holding
<1>5. worker'[w] = r /\ \A v \in Workers : v # w => worker'[v] = worker[v]
  BY <1>1 DEF DInv, Types
<1>6. /\ known \subseteq pending /\ pending \subseteq Heights
      /\ pending \cap reserved_set = {} /\ Cardinality(pending \cup reserved_set) <= Capacity
  BY <1>2, RefillFits DEF DInv, Record
<1> HIDE DEF pending
<1>7. R \subseteq pending /\ R # {} /\ IsRun(R)
  BY <1>6, RunOfPending DEF pending
<1> HIDE DEF R
<1>8. /\ reserved' \in [Workers -> SUBSET Heights]
      /\ reserved'[w] = R /\ \A v \in Workers : v # w => reserved'[v] = reserved[v]
      /\ reserved_set' = (reserved_set \ reserved[w]) \cup R
  BY <1>1, <1>6, <1>7, ReservedBut DEF DInv
<1>9. Types'
  BY <1>1, <1>3, <1>4, <1>5, <1>6, <1>8 DEF DInv, Types
<1>10. WindowInv'
  <2>1. \A v \in Workers : reserved'[v] # {} => worker'[v].at \in Holding /\ IsRun(reserved'[v])
    BY <1>3, <1>5, <1>7, <1>8 DEF DInv, WindowInv, Holding
  <2>2. \A v \in Workers : reserved[v] \subseteq reserved_set
    BY DEF reserved_set
  <2>3. \A v \in Workers : v # w => reserved[v] \cap R = {}
    BY <1>6, <1>7, <2>2
  <2>4. \A v, u \in Workers : v # u => reserved'[v] \cap reserved'[u] = {}
    BY <1>8, <2>3 DEF DInv, WindowInv
  <2>5. known' \cap reserved_set' = {}
    BY <1>1, <1>6, <1>8
  <2>6. known' \cup reserved_set' = pending \cup reserved_set
    BY <1>1, <1>4, <1>7, <1>8
  <2> QED BY <1>6, <2>1, <2>4, <2>5, <2>6 DEF WindowInv, IsRun
<1>11. DrainInv'
  BY <1>1, <1>3, <1>5 DEF DInv, DrainInv
<1>12. FeedInv'
  <2>1. \A v \in Workers : worker[v].at = "written" => v # w
    BY <1>1
  <2>2. \A v \in Workers : worker[v].at = "written"
          => worker'[v].at = "written" /\ reserved'[v] = reserved[v]
    BY <1>5, <1>8, <2>1
  <2> QED BY <1>1, <2>2 DEF DInv, FeedInv
<1> QED BY <1>1, <1>9, <1>10, <1>11, <1>12 DEF DInv, Parked

\* Write: what the worker holds is in the store and about to reach the feed.
LEMMA WriteOK ==
  ASSUME DInv, NEW w \in Workers, Write(w) PROVE DInv'
<1> DEFINE r == [worker[w] EXCEPT !.at = "written", !.pending = {}]
<1>1. /\ phase = "download" /\ worker[w].at = "fetch" /\ worker' = [worker EXCEPT ![w] = r]
      /\ written' = written \cup reserved[w]
      /\ UNCHANGED <<known, reserved, bodies, phase, attempts, faults, confirmed>>
  BY DEF Write, At, DInv, Types, Parked, Ended
<1>2. worker[w] \in Record
  BY DEF DInv, Types
<1>3. r \in Record /\ r.at = "written" /\ r.failures = worker[w].failures
  BY <1>2 DEF Busy, Record
<1> HIDE DEF r
<1>4. worker[w].failures < MaxFailures
  BY <1>1 DEF DInv, Types, Busy
<1>5. worker'[w] = r /\ \A v \in Workers : v # w => worker'[v] = worker[v]
  BY <1>1 DEF DInv, Types
<1>6. reserved_set' = reserved_set
  BY <1>1 DEF reserved_set
<1>7. Types'
  BY <1>1, <1>3, <1>4, <1>5 DEF DInv, Types
<1>8. WindowInv'
  BY <1>1, <1>3, <1>5, <1>6 DEF DInv, WindowInv, Holding
<1>9. DrainInv'
  BY <1>1, <1>3, <1>5 DEF DInv, DrainInv
<1>10. FeedInv'
  <2>1. \A v \in Workers : worker[v].at = "written" => worker'[v].at = "written"
    BY <1>1, <1>5
  <2> QED BY <1>1, <1>3, <1>5, <2>1 DEF DInv, FeedInv
<1> QED BY <1>1, <1>7, <1>8, <1>9, <1>10 DEF DInv, Parked

\* A worker lets go of its reservation; the pending heights may take it back.
LEMMA ReleaseWindow ==
  ASSUME DInv, NEW w \in Workers, reserved' = [reserved EXCEPT ![w] = {}],
         known' = known \/ known' = known \cup reserved[w],
         \A v \in Workers : v # w => worker'[v] = worker[v]
  PROVE  WindowInv' /\ known' \subseteq Heights /\ reserved' \in [Workers -> SUBSET Heights]
<1>1. /\ reserved' \in [Workers -> SUBSET Heights]
      /\ reserved'[w] = {} /\ \A v \in Workers : v # w => reserved'[v] = reserved[v]
      /\ reserved_set' = (reserved_set \ reserved[w]) \cup {}
      /\ reserved[w] \subseteq reserved_set /\ reserved_set \subseteq Heights
  BY ReservedBut DEF DInv
<1>2. known' \subseteq Heights
  BY <1>1 DEF DInv, Types
<1>3. \A v \in Workers : reserved'[v] # {} => worker'[v].at \in Holding /\ IsRun(reserved'[v])
  BY <1>1 DEF DInv, WindowInv
<1>4. \A v, u \in Workers : v # u => reserved'[v] \cap reserved'[u] = {}
  BY <1>1 DEF DInv, WindowInv
<1>5. known' \cap reserved_set' = {}
  BY <1>1 DEF DInv, WindowInv
<1>6. Cardinality(known' \cup reserved_set') <= Capacity
  <2>1. known' \cup reserved_set' \subseteq known \cup reserved_set
    BY <1>1
  <2>2. known \cup reserved_set \subseteq Heights /\ known' \cup reserved_set' \subseteq Heights
    BY <1>1, <1>2 DEF DInv, Types
  <2>3. Cardinality(known' \cup reserved_set') <= Cardinality(known \cup reserved_set)
    <3>1. IsFiniteSet(known \cup reserved_set)
      BY <2>2, HeightSets
    <3> QED BY <2>1, <3>1, FS_Subset
  <2>4. Cardinality(known' \cup reserved_set') \in Nat /\ Cardinality(known \cup reserved_set) \in Nat
    BY <2>2, HeightSets
  <2>5. Cardinality(known \cup reserved_set) <= Capacity
    BY DEF DInv, WindowInv
  <2> QED BY <2>3, <2>4, <2>5, DownloadAssumption
<1> QED BY <1>1, <1>2, <1>3, <1>4, <1>5, <1>6 DEF WindowInv, IsRun

\* Complete: what the worker wrote reaches the feed.
LEMMA CompleteOK ==
  ASSUME DInv, NEW w \in Workers, Complete(w) PROVE DInv'
<1> DEFINE r == [worker[w] EXCEPT !.at = "read", !.failures = 0]
<1>1. /\ phase = "download" /\ worker[w].at = "written" /\ worker' = [worker EXCEPT ![w] = r]
      /\ bodies' = bodies \cup reserved[w] /\ reserved' = [reserved EXCEPT ![w] = {}]
      /\ UNCHANGED <<written, known, phase, attempts, faults, confirmed>>
  BY DEF Complete, DInv, Types, Parked, Ended
<1>2. worker[w] \in Record /\ reserved[w] \subseteq Heights
  BY DEF DInv, Types
<1>3. r \in Record /\ r.at = "read" /\ r.failures = 0
  <2>1. 0 \in 0 .. MaxFailures
    BY DownloadAssumption
  <2> QED BY <1>2, <2>1 DEF Busy, Record
<1> HIDE DEF r
<1>4. worker'[w] = r /\ \A v \in Workers : v # w => worker'[v] = worker[v]
  BY <1>1 DEF DInv, Types
<1>5. WindowInv' /\ known' \subseteq Heights /\ reserved' \in [Workers -> SUBSET Heights]
  BY <1>1, <1>4, ReleaseWindow
<1>6. \A v \in Workers : v # w => reserved'[v] = reserved[v]
  BY <1>1 DEF DInv, Types
<1>7. Types'
  BY <1>1, <1>2, <1>3, <1>4, <1>5, DownloadAssumption DEF DInv, Types
<1>8. DrainInv'
  BY <1>1, <1>3, <1>4 DEF DInv, DrainInv
<1>9. FeedInv'
  BY <1>1, <1>4, <1>6 DEF DInv, FeedInv
<1> QED BY <1>1, <1>5, <1>7, <1>8, <1>9 DEF DInv, Parked

\* Miss: the heights go back, and the peer is tried again or given up.
LEMMA MissOK ==
  ASSUME DInv, NEW w \in Workers, Miss(w) PROVE DInv'
<1> DEFINE failures == worker[w].failures + 1
<1>1. PICK closed \in BOOLEAN :
        worker' = [worker EXCEPT ![w].failures = failures,
                     ![w].at = IF closed \/ failures >= MaxFailures THEN "gave up" ELSE "read"]
  BY DEF Miss
<1> DEFINE at == IF closed \/ failures >= MaxFailures THEN "gave up" ELSE "read"
           r == [worker[w] EXCEPT !.failures = failures, !.at = at]
<1>2. /\ phase = "download" /\ worker[w].at = "fetch" /\ worker' = [worker EXCEPT ![w] = r]
      /\ known' = known \cup reserved[w] /\ reserved' = [reserved EXCEPT ![w] = {}]
      /\ UNCHANGED <<written, bodies, phase, attempts, faults, confirmed>>
  BY <1>1 DEF Miss, DInv, Types, Parked, Ended
<1>3. worker[w] \in Record /\ worker[w].failures < MaxFailures
  BY <1>2 DEF DInv, Types, Busy
<1>4. failures \in 0 .. MaxFailures
  BY <1>3, DownloadAssumption DEF Record
<1>5. at \in {"read", "gave up"} /\ (at = "read" => failures < MaxFailures)
  BY <1>3, <1>4, DownloadAssumption
<1> HIDE DEF failures, at
<1>6. r \in Record /\ r.at = at /\ r.failures = failures
  BY <1>3, <1>4, <1>5 DEF Busy, Ended, Record
<1> HIDE DEF r
<1>7. worker'[w] = r /\ \A v \in Workers : v # w => worker'[v] = worker[v]
  BY <1>2 DEF DInv, Types
<1>8. WindowInv' /\ known' \subseteq Heights /\ reserved' \in [Workers -> SUBSET Heights]
  BY <1>2, <1>7, ReleaseWindow
<1>9. \A v \in Workers : v # w => reserved'[v] = reserved[v]
  BY <1>2 DEF DInv, Types
<1>10. Types'
  BY <1>2, <1>5, <1>6, <1>7, <1>8 DEF DInv, Types, Busy
<1>11. DrainInv'
  BY <1>2, <1>5, <1>6, <1>7 DEF DInv, DrainInv
<1>12. FeedInv'
  <2>1. \A v \in Workers : worker[v].at = "written"
          => worker'[v].at = "written" /\ reserved'[v] = reserved[v]
    BY <1>2, <1>7, <1>9
  <2> QED BY <1>2, <2>1 DEF DInv, FeedInv
<1> QED BY <1>2, <1>8, <1>10, <1>11, <1>12 DEF DInv, Parked

-----------------------------------------------------------------------------
(* The attempt's steps.                                                    *)

\* Join: without an error and with the range written, the feed is the range.
LEMMA JoinOK ==
  ASSUME DInv, Join PROVE DInv'
<1>1. /\ phase = "download" /\ \A w \in Workers : worker[w].at \in Ended
      /\ phase' \in {"confirm", "failed"} /\ (phase' = "confirm" => Heights \subseteq written)
      /\ UNCHANGED <<written, known, reserved, worker, bodies, attempts, faults, confirmed>>
  BY DEF Join
<1>2. Types'
  BY <1>1 DEF DInv, Types
<1>3. WindowInv' /\ DrainInv' /\ Parked'
  BY <1>1 DEF DInv, WindowInv, DrainInv, Parked, reserved_set
<1>4. FeedInv'
  <2> SUFFICES ASSUME attempts = 1, phase' = "confirm"
               PROVE  /\ confirmed' = [h \in 1 .. 0 |-> h] /\ bodies' = 0 + 1 .. MaxHeight
                      /\ 0 \in 0 .. MaxHeight
    BY <1>1 DEF FeedInv
  <2>1. \A h \in written : h \in bodies
    BY <1>1 DEF DInv, FeedInv, Ended
  <2>2. bodies = Heights
    BY <1>1, <2>1 DEF DInv, Types
  <2>3. confirmed = <<>> /\ <<>> = [h \in 1 .. 0 |-> h]
    BY <1>1 DEF DInv, FeedInv
  <2>4. 0 \in 0 .. MaxHeight
    BY DownloadAssumption
  <2> QED BY <1>1, <2>2, <2>3, <2>4 DEF Heights
<1> QED BY <1>2, <1>3, <1>4 DEF DInv

\* Confirm: the least height of the feed is the next one of the range.
LEMMA ConfirmOK ==
  ASSUME DInv, Confirm PROVE DInv'
<1>1. /\ phase = "confirm" /\ UNCHANGED <<written, known, reserved, worker, attempts>>
  BY DEF Confirm
<1>2. Types'
  <2>1. bodies' \subseteq Heights /\ phase' \in {"download", "confirm", "failed", "landed"}
    BY DEF Confirm, DInv, Types
  <2>2. faults' \in 0 .. MaxFaults
    BY DownloadAssumption DEF Confirm, DInv, Types
  <2> QED BY <1>1, <2>1, <2>2 DEF DInv, Types
<1>3. WindowInv' /\ DrainInv' /\ Parked'
  BY <1>1 DEF DInv, WindowInv, DrainInv, Parked, reserved_set
<1>4. FeedInv'
  <2> SUFFICES ASSUME attempts = 1, phase' \in {"confirm", "landed"}
               PROVE  \E n \in 0 .. MaxHeight :
                        /\ confirmed' = [h \in 1 .. n |-> h] /\ bodies' = n + 1 .. MaxHeight
                        /\ phase' = "landed" => n = MaxHeight
    BY <1>1 DEF FeedInv, Confirm
  <2>1. PICK n \in 0 .. MaxHeight :
          confirmed = [h \in 1 .. n |-> h] /\ bodies = n + 1 .. MaxHeight
    BY <1>1 DEF DInv, FeedInv
  <2>2. n \in Nat /\ MaxHeight \in Nat /\ n <= MaxHeight
    BY <2>1, DownloadAssumption
  <2>3. CASE bodies = {}
    <3>1. n = MaxHeight
      BY <2>1, <2>2, <2>3
    <3>2. confirmed' = confirmed /\ bodies' = bodies
      BY <2>3 DEF Confirm
    <3> QED BY <2>1, <3>1, <3>2
  <2>4. CASE bodies # {}
    <3>1. n < MaxHeight
      BY <2>1, <2>2, <2>4
    <3>2. Min(bodies) = n + 1
      BY <2>1, <2>2, <3>1, RunEnds
    <3>3. /\ confirmed' = Append(confirmed, n + 1) /\ bodies' = bodies \ {n + 1}
          /\ phase' = IF Cardinality(bodies) = 1 THEN "landed" ELSE "confirm"
      BY <2>4, <3>2 DEF Confirm
    <3>4. Append(confirmed, n + 1) = [h \in 1 .. n + 1 |-> h]
      <4>1. confirmed \in Seq(Nat) /\ Len(confirmed) = n
        BY <2>1, <2>2
      <4> QED BY <2>1, <2>2, <4>1
    <3>5. bodies' = (n + 1) + 1 .. MaxHeight
      BY <2>1, <2>2, <3>1, <3>3
    <3>6. Cardinality(bodies) = MaxHeight - (n + 1) + 1
      BY <2>1, <2>2, <3>1, FS_Interval
    <3>7. phase' = "landed" => n + 1 = MaxHeight
      BY <2>2, <3>3, <3>6
    <3>8. n + 1 \in 0 .. MaxHeight
      BY <2>2, <3>1
    <3> QED BY <3>3, <3>4, <3>5, <3>7, <3>8
  <2> QED BY <2>3, <2>4
<1> QED BY <1>2, <1>3, <1>4 DEF DInv

\* An empty window.
LEMMA EmptyWindow ==
  ASSUME known = {}, reserved = [w \in Workers |-> {}]
  PROVE  WindowInv
<1>1. reserved_set = {}
  BY DEF reserved_set
<1>2. Cardinality(known \cup reserved_set) = 0
  BY <1>1, FS_EmptySet
<1> QED BY <1>1, <1>2, DownloadAssumption DEF WindowInv

\* The first state, and the first state of a later attempt.
LEMMA InitOK == Init => DInv
<1> SUFFICES ASSUME Init PROVE DInv
  OBVIOUS
<1>1. 0 \in 0 .. MaxFailures /\ 0 < MaxFailures /\ 1 \in 1 .. MaxAttempts /\ 0 \in 0 .. MaxFaults
  BY DownloadAssumption
<1>2. Fresh \in Record /\ Fresh.at = "read" /\ Fresh.failures = 0
  BY <1>1 DEF Fresh, Record, Busy
<1>3. \A w \in Workers : worker[w] = Fresh
  BY DEF Init
<1>4. Types
  BY <1>1, <1>2, <1>3 DEF Init, Types
<1>5. WindowInv
  BY EmptyWindow DEF Init
<1>6. DrainInv /\ FeedInv /\ Parked
  BY <1>2, <1>3 DEF Init, DrainInv, FeedInv, Parked
<1> QED BY <1>4, <1>5, <1>6 DEF DInv

\* Retry: a new window on the same store.
LEMMA RetryOK ==
  ASSUME DInv, Retry PROVE DInv'
<1>1. attempts \in Nat /\ attempts >= 1 /\ attempts' \in 1 .. MaxAttempts /\ attempts' # 1
  BY DownloadAssumption DEF Retry, DInv, Types
<1>2. 0 \in 0 .. MaxFailures /\ 0 < MaxFailures
  BY DownloadAssumption
<1>3. Fresh \in Record /\ Fresh.at = "read" /\ Fresh.failures = 0
  BY <1>2 DEF Fresh, Record, Busy
<1>4. \A w \in Workers : worker'[w] = Fresh
  BY DEF Retry
<1>5. reserved' \in [Workers -> SUBSET Heights] /\ worker' \in [Workers -> Record]
  BY <1>3 DEF Retry
<1>6. Types'
  BY <1>1, <1>2, <1>3, <1>4, <1>5 DEF Retry, Types, DInv
<1>7. WindowInv'
  <2>1. reserved_set' = {} /\ known' = {} /\ \A w \in Workers : reserved'[w] = {}
    BY DEF reserved_set, Retry
  <2>2. Cardinality(known' \cup reserved_set') = 0
    BY <2>1, FS_EmptySet
  <2> QED BY <2>1, <2>2, DownloadAssumption DEF WindowInv
<1>8. DrainInv' /\ Parked'
  BY <1>3, <1>4 DEF DrainInv, Parked, Retry
<1>9. FeedInv'
  BY <1>1 DEF FeedInv
<1> QED BY <1>6, <1>7, <1>8, <1>9 DEF DInv

\* Every step keeps the invariant.
LEMMA StepOK == DInv /\ [Next]_vars => DInv'
<1> SUFFICES ASSUME DInv, [Next]_vars PROVE DInv'
  OBVIOUS
<1>1. ASSUME NEW w \in Workers, Step(w) \/ Fault(w) PROVE DInv'
  BY <1>1, ReadOK, ClaimNothingOK, ClaimRunOK, WriteOK, CompleteOK, MissOK, FaultOK DEF Step
<1>2. CASE UNCHANGED vars
  BY <1>2 DEF vars, DInv, Types, WindowInv, DrainInv, FeedInv, Parked, reserved_set
<1>3. CASE Stop
  BY <1>2, <1>3 DEF Stop
<1> QED BY <1>1, <1>2, <1>3, JoinOK, ConfirmOK, RetryOK DEF Next

\* The invariant holds in every reachable state.
LEMMA Download == Spec => []DInv
BY InitOK, StepOK, PTL DEF Spec

-----------------------------------------------------------------------------
(* The results.                                                            *)

\* Every variable keeps its type, whatever the workers do: download_worker's
\* consecutive misses stay within MAX_PEER_FETCH_FAILURES.
THEOREM DownloadTypes == Spec => []DownloadTypeOK
<1>1. DInv => DownloadTypeOK
  BY DEF DInv, Types, Record, Busy, DownloadTypeOK
<1> QED BY <1>1, Download, PTL

\* No height is in two hands and the window stays within its capacity, for any
\* number of workers, any batch and any capacity (refill, reserve, complete and
\* reclaim in window.rs).
THEOREM WindowIsExact == Spec => []WindowExact
<1>1. ASSUME DInv PROVE WindowExact
  <2>1. known \subseteq Heights /\ reserved_set \subseteq Heights
    BY <1>1 DEF DInv, Types, reserved_set
  <2>2. Cardinality(known) + Cardinality(reserved_set) <= Capacity
    <3>1. IsFiniteSet(known) /\ IsFiniteSet(reserved_set) /\ Cardinality(known) \in Nat
          /\ Cardinality(reserved_set) \in Nat
      BY <2>1, HeightSets
    <3>2. Cardinality(known \cap reserved_set) = 0
      BY <1>1, FS_EmptySet DEF DInv, WindowInv
    <3>3. Cardinality(known \cup reserved_set)
            = Cardinality(known) + Cardinality(reserved_set) - Cardinality(known \cap reserved_set)
      BY <3>1, FS_Union
    <3>4. Cardinality(known \cup reserved_set) <= Capacity
      BY <1>1 DEF DInv, WindowInv
    <3> QED BY <3>1, <3>2, <3>3, <3>4
  <2>3. ASSUME NEW w \in Workers, reserved[w] # {}
        PROVE  /\ reserved[w] = Min(reserved[w]) .. Max(reserved[w])
               /\ Cardinality(reserved[w]) <= Batch
    <3>1. PICK a, b \in Heights : a <= b /\ b - a + 1 <= Batch /\ reserved[w] = a .. b
      BY <1>1, <2>3 DEF DInv, WindowInv, IsRun
    <3>2. a \in Nat /\ b \in Nat /\ a <= b
      BY <3>1 DEF Heights
    <3>3. Min(a .. b) = a /\ Max(a .. b) = b
      BY <3>2, RunEnds
    <3>4. Cardinality(a .. b) = b - a + 1
      BY <3>2, FS_Interval
    <3> QED BY <3>1, <3>3, <3>4
  <2> QED BY <1>1, <2>2, <2>3 DEF DInv, WindowInv, WindowExact
<1> QED BY <1>1, Download, PTL

\* A worker leaves as drained only when nothing is missing from the store
\* (download_worker's exit when refill leaves nothing pending or reserved).
THEOREM NobodyLeavesEarly == Spec => []DrainedIsWritten
<1>1. DInv => DrainedIsWritten
  BY DEF DInv, DrainInv, DrainedIsWritten
<1> QED BY <1>1, Download, PTL

\* What a first attempt confirms is the whole range in height order, however the
\* runs were split, missed, given back and fetched again (download_all,
\* sync_range).
THEOREM FirstFeedIsWhole == Spec => []FeedIsWhole
<1>1. DInv => FeedIsWhole
  BY DEF DInv, FeedInv, FeedIsWhole, Heights
<1> QED BY <1>1, Download, PTL
=============================================================================
