------------------------------ MODULE TableProofs ------------------------------
(***************************************************************************)
(* The chained hash table of the mapped store, for every set of keys, every *)
(* bucket function and every number of crashes: as long as no crash leaves *)
(* a head without the count that covers it (Torn = FALSE), every chain     *)
(* ends and holds only allocated records of its own bucket, and a lookup   *)
(* changes only by a call that writes its key, or by a power loss to what  *)
(* was mapped or synced.                                                   *)
(***************************************************************************)
EXTENDS ChainedTable, SetFacts, SequenceTheorems

Entry == [key : Keys, payload : Nat]
Tables == [count : Nat, heads : [Buckets -> Nat],
           records : [1 .. MaxRecords -> [key : Keys \cup {NoKey}, next : Nat, payload : Nat]]]
Ops == [at : {"idle", "find", "write", "count", "link", "sync"}, entries : Seq(Entry), todo : Seq(Entry),
        inserts : Seq(Entry), written : Nat, staged : SUBSET (Buckets \X Nat)]

TableTypes == mapped \in Tables /\ synced \in Tables /\ mode \in {"batch", "single"} /\ op \in Ops

BucketOf(t, i) == Bucket[t.records[i].key]

\* The first n records link downwards and within their bucket.
WellLinked(t, n) ==
  \A i \in 1 .. n :
    /\ t.records[i].key \in Keys /\ t.records[i].next < i
    /\ t.records[i].next # 0 => BucketOf(t, t.records[i].next) = BucketOf(t, i)

HeadsLinked(t, n) ==
  \A b \in Buckets : t.heads[b] <= n /\ (t.heads[b] # 0 => BucketOf(t, t.heads[b]) = b)

SingleAt(p) == mode = "single" /\ op.at = p

\* The records that are written and not yet counted.
Ahead ==
  IF op.at = "write" THEN op.written
  ELSE IF op.at = "count" \/ SingleAt("link") THEN Len(op.inserts) ELSE 0

\* How far a head may point: a single insert links before it counts.
Linkable == mapped.count + IF SingleAt("count") THEN 1 ELSE 0

ChainInv ==
  /\ mapped.count + Ahead <= MaxRecords
  /\ WellLinked(mapped, mapped.count + Ahead)
  /\ HeadsLinked(mapped, Linkable)

\* What the call under way has prepared.
StagedWell ==
  \A s \in op.staged : s[2] \in 1 .. mapped.count + Ahead /\ BucketOf(mapped, s[2]) = s[1]

OpInv ==
  /\ mode = "single" => Len(op.todo) + Len(op.inserts) <= 1
  /\ op.at = "find" => op.written = 0
  /\ op.at \in {"write", "count", "link"} => op.inserts # <<>>
  /\ op.at = "write" =>
       /\ op.written <= Len(op.inserts)
       /\ \A i \in 1 .. op.written : mapped.records[mapped.count + i].key = op.inserts[i].key
  /\ op.at = "link" \/ (op.at = "count" /\ mode = "batch") => StagedWell
  /\ SingleAt("link") => \E b \in Buckets : op.staged = {<<b, mapped.count + 1>>}

\* What is on disk: the records that are counted, or about to be, are there
\* but for payloads, and the heads lead to them.
SameLinks(t, u, n) ==
  \A i \in 1 .. n : t.records[i].key = u.records[i].key /\ t.records[i].next = u.records[i].next

Stored == IF op.at = "count" \/ SingleAt("link") THEN Len(op.inserts) ELSE 0

DiskInv ==
  /\ synced.count <= mapped.count
  /\ HeadsLinked(synced, synced.count)
  /\ SameLinks(synced, mapped, mapped.count + Stored)
  /\ SingleAt("count") => \E b \in Buckets : mapped.heads[b] = mapped.count + 1

TableInv == TableTypes /\ ChainInv /\ OpInv /\ DiskInv

-----------------------------------------------------------------------------
(* Walks.                                                                  *)

\* g is the recursive function that Walk builds.
Follows(g, t, b) ==
  g = [n \in 0 .. MaxRecords |-> IF n = 0 THEN t.heads[b]
                                 ELSE IF g[n - 1] = 0 THEN 0 ELSE t.records[g[n - 1]].next]

\* The bound on records is a number.
LEMMA RoomIsNat == MaxRecords \in Nat
<1>1. Cardinality(Keys) \in Nat /\ MaxCrashes + 1 \in Nat
  BY TableAssumption, FS_CardinalityType
<1>2. \A a, b \in Nat : a * b \in Nat
  OBVIOUS
<1> QED BY <1>1, <1>2 DEF MaxRecords

\* The recursion of Walk has a solution.
LEMMA WalkIsDefined ==
  ASSUME NEW t, NEW b
  PROVE  Follows(Walk(t, b), t, b)
<1> DEFINE Body(g, n) == IF n = 0 THEN t.heads[b]
                         ELSE IF g[n - 1] = 0 THEN 0 ELSE t.records[g[n - 1]].next
           G == {m \in Nat : \E g : g = [n \in 0 .. m |-> Body(g, n)]}
<1>1. 0 \in G
  <2> DEFINE g == [n \in 0 .. 0 |-> t.heads[b]]
  <2>1. \A n \in 0 .. 0 : Body(g, n) = t.heads[b]
    OBVIOUS
  <2>2. g = [n \in 0 .. 0 |-> Body(g, n)]
    BY <2>1, Zenon
  <2> QED BY <2>2
<1>2. ASSUME NEW m \in G PROVE m + 1 \in G
  <2>1. m \in Nat /\ m + 1 \in Nat
    OBVIOUS
  <2>2. PICK g : g = [n \in 0 .. m |-> Body(g, n)]
    BY Zenon
  <2> DEFINE h == [n \in 0 .. m + 1 |-> Body(g, n)]
  <2>3. \A n \in 0 .. m : n \in 0 .. m + 1
    BY <2>1
  <2>4. \A n \in 0 .. m : h[n] = g[n]
    <3> TAKE n \in 0 .. m
    <3>1. g[n] = Body(g, n)
      BY <2>2, Zenon
    <3>2. h[n] = Body(g, n)
      BY <2>3, Zenon
    <3> QED BY <3>1, <3>2
  <2>5. \A n \in 0 .. m + 1 : Body(g, n) = Body(h, n)
    <3> TAKE n \in 0 .. m + 1
    <3>1. n # 0 => n - 1 \in 0 .. m
      BY <2>1
    <3>2. n # 0 => h[n - 1] = g[n - 1]
      BY <2>4, <3>1
    <3> HIDE DEF h
    <3> QED BY <3>2
  <2>6. h = [n \in 0 .. m + 1 |-> Body(h, n)]
    BY <2>5, Zenon
  <2> HIDE DEF h
  <2> QED BY <2>1, <2>6, Zenon
<1>3. G = Nat
  <2>1. G \subseteq Nat
    OBVIOUS
  <2> HIDE DEF G
  <2> QED BY <1>1, <1>2, <2>1, AllNaturals
<1>4. \E g : Follows(g, t, b)
  <2>1. MaxRecords \in G
    BY <1>3, RoomIsNat
  <2> QED BY <2>1, Zenon DEF Follows
<1>5. Walk(t, b) = CHOOSE g : Follows(g, t, b)
  BY DEF Walk, Follows
<1> QED BY <1>4, <1>5, Zenon

\* A walk through well linked records goes down, stays in its bucket and ends.
LEMMA WalkIsSound ==
  ASSUME NEW t \in Tables, NEW N \in 0 .. MaxRecords, NEW b \in Buckets,
         WellLinked(t, N), HeadsLinked(t, N)
  PROVE  /\ Walk(t, b)[MaxRecords] = 0
         /\ \A n \in 0 .. MaxRecords : Walk(t, b)[n] # 0 =>
              /\ Walk(t, b)[n] \in 1 .. N
              /\ t.records[Walk(t, b)[n]].key \in Keys /\ BucketOf(t, Walk(t, b)[n]) = b
<1> DEFINE w == Walk(t, b)
           Good(n) == w[n] # 0 => w[n] \in 1 .. N - n /\ BucketOf(t, w[n]) = b
           G == {n \in Nat : n <= MaxRecords => Good(n)}
<1>1. \A n \in 0 .. MaxRecords : w[n] = IF n = 0 THEN t.heads[b]
                                        ELSE IF w[n - 1] = 0 THEN 0 ELSE t.records[w[n - 1]].next
  <2>1. Follows(w, t, b)
    BY WalkIsDefined
  <2> HIDE DEF w
  <2> QED BY <2>1, Zenon DEF Follows
<1>2. MaxRecords \in Nat /\ N \in Nat /\ N <= MaxRecords
  BY RoomIsNat
<1>3. /\ t.heads[b] \in Nat
      /\ \A i \in 1 .. MaxRecords : t.records[i].next \in Nat
  BY DEF Tables
<1> HIDE DEF w
<1>4. 0 \in G
  <2>1. w[0] = t.heads[b]
    BY <1>1, <1>2
  <2>2. t.heads[b] <= N /\ (t.heads[b] # 0 => BucketOf(t, t.heads[b]) = b)
    BY DEF HeadsLinked
  <2> QED BY <1>2, <1>3, <2>1, <2>2
<1>5. ASSUME NEW n \in G PROVE n + 1 \in G
  <2> SUFFICES ASSUME n + 1 <= MaxRecords, w[n + 1] # 0
               PROVE  w[n + 1] \in 1 .. N - (n + 1) /\ BucketOf(t, w[n + 1]) = b
    OBVIOUS
  <2>1. n \in Nat /\ n <= MaxRecords /\ n + 1 \in 0 .. MaxRecords /\ (n + 1) - 1 = n /\ n + 1 # 0
    BY <1>2
  <2>2. Good(n)
    BY <2>1
  <2>3. w[n] # 0 /\ w[n + 1] = t.records[w[n]].next
    BY <1>1, <2>1
  <2>4. w[n] \in 1 .. N - n /\ BucketOf(t, w[n]) = b
    BY <2>2, <2>3
  <2>5. w[n] \in 1 .. N /\ w[n] \in 1 .. MaxRecords
    BY <1>2, <2>1, <2>4
  <2>6. /\ t.records[w[n]].next < w[n] /\ t.records[w[n]].next \in Nat
        /\ t.records[w[n]].next # 0 => BucketOf(t, t.records[w[n]].next) = BucketOf(t, w[n])
    BY <1>3, <2>5 DEF WellLinked
  <2> QED BY <1>2, <2>1, <2>3, <2>4, <2>6
<1>6. G = Nat
  <2>1. G \subseteq Nat
    OBVIOUS
  <2> HIDE DEF G
  <2> QED BY <1>4, <1>5, <2>1, AllNaturals
<1>7. \A n \in 0 .. MaxRecords : Good(n)
  BY <1>2, <1>6
<1>8. w[MaxRecords] = 0
  BY <1>2, <1>7
<1>9. ASSUME NEW n \in 0 .. MaxRecords, w[n] # 0
      PROVE  w[n] \in 1 .. N /\ t.records[w[n]].key \in Keys /\ BucketOf(t, w[n]) = b
  <2>1. w[n] \in 1 .. N - n /\ BucketOf(t, w[n]) = b
    BY <1>7, <1>9
  <2>2. w[n] \in 1 .. N
    BY <1>2, <2>1
  <2> QED BY <2>1, <2>2 DEF WellLinked
<1> QED BY <1>8, <1>9 DEF w

\* The invariant gives the property.
LEMMA InvSound == ASSUME TableInv PROVE ChainsSound
<1> DEFINE N == Linkable
<1>1. N \in 0 .. MaxRecords /\ WellLinked(mapped, N)
  <2>1. mapped.count \in Nat /\ Ahead \in Nat /\ MaxRecords \in Nat
    BY RoomIsNat DEF TableInv, TableTypes, Tables, Ops, Ahead
  <2>2. N \in Nat /\ N <= mapped.count + Ahead
    <3>1. SingleAt("count") => Ahead >= 1
      BY <2>1 DEF TableInv, TableTypes, OpInv, Ops, Ahead, SingleAt
    <3> QED BY <2>1, <3>1 DEF Linkable
  <2> QED BY <2>1, <2>2 DEF TableInv, ChainInv, WellLinked
<1>2. HeadsLinked(mapped, N) /\ mapped \in Tables
  BY DEF TableInv, TableTypes, ChainInv
<1>3. N = mapped.count + IF mode = "single" /\ op.at = "count" THEN 1 ELSE 0
  BY DEF Linkable, SingleAt
<1> HIDE DEF N
<1> SUFFICES ASSUME NEW b \in Buckets
             PROVE  /\ Walk(mapped, b)[MaxRecords] = 0
                    /\ \A n \in 0 .. MaxRecords : Walk(mapped, b)[n] # 0 =>
                         /\ Walk(mapped, b)[n] <= N
                         /\ mapped.records[Walk(mapped, b)[n]].key \in {k \in Keys : Bucket[k] = b}
  BY <1>3, Zenon DEF ChainsSound
<1> QED BY <1>1, <1>2, WalkIsSound DEF BucketOf

-----------------------------------------------------------------------------
(* Types.                                                                  *)

\* A finite set as a sequence.
LEMMA SetToSeqType ==
  ASSUME NEW S, IsFiniteSet(S)
  PROVE  SetToSeq(S) \in Seq(S)
<1>1. Cardinality(S) \in Nat /\ ExistsBijection(1 .. Cardinality(S), S)
  BY FS_CountingElements, FS_CardinalityType
<1>2. \E f \in [1 .. Cardinality(S) -> S] : IsInjective(f)
  BY <1>1 DEF ExistsBijection, Bijection, Injection
<1>3. SetToSeq(S) \in [1 .. Cardinality(S) -> S]
  BY <1>2, Zenon DEF SetToSeq
<1> QED BY <1>1, <1>3

\* What is published is a sequence of entries.
LEMMA EntriesType == ASSUME NEW es \in Entries PROVE es \in Seq(Entry)
<1> DEFINE Batch(S, f) == LET keys == SetToSeq(S) IN [i \in DOMAIN keys |-> [key |-> keys[i], payload |-> f[keys[i]]]]
<1>0. PICK S \in (SUBSET Keys) \ {{}} : es \in {Batch(S, f) : f \in [S -> Payloads]}
  BY Zenon DEF Entries
<1>1. PICK f \in [S -> Payloads] : es = Batch(S, f)
  BY <1>0, Zenon
<1>2. SetToSeq(S) \in Seq(S)
  <2>1. IsFiniteSet(S)
    BY TableAssumption, FS_Subset
  <2> QED BY <2>1, SetToSeqType
<1> DEFINE ks == SetToSeq(S)
<1>3. es = [i \in 1 .. Len(ks) |-> [key |-> ks[i], payload |-> f[ks[i]]]]
  BY <1>1, <1>2
<1>4. \A i \in 1 .. Len(ks) : [key |-> ks[i], payload |-> f[ks[i]]] \in Entry
  <2>1. \A k \in S : f[k] \in Nat
    BY DEF Payloads
  <2> QED BY <1>2, <2>1 DEF Entry
<1>5. Len(ks) \in Nat
  BY <1>2
<1> HIDE DEF ks
<1> QED BY <1>3, <1>4, <1>5

\* A sweep's call is a sequence of entries.
LEMMA SweepType ==
  ASSUME TableInv, NEW fork, NEW above,
         above = {r.key : r \in {x \in for_each(mapped) : x.payload > fork}}
  PROVE  SetToSeq({[key |-> k, payload |-> 0] : k \in above}) \in Seq(Entry)
<1> DEFINE E == {[key |-> k, payload |-> 0] : k \in above}
<1>1. above \subseteq Keys
  <2>1. mapped.count \in Nat /\ Ahead \in Nat
    BY DEF TableInv, TableTypes, Tables, Ops, Ahead
  <2>2. \A i \in 1 .. mapped.count : mapped.records[i].key \in Keys
    BY <2>1 DEF TableInv, ChainInv, WellLinked
  <2> QED BY <2>2 DEF for_each
<1>2. E \subseteq Entry
  BY <1>1 DEF Entry
<1>3. IsFiniteSet(E)
  <2>1. IsFiniteSet(above)
    BY <1>1, TableAssumption, FS_Subset
  <2> DEFINE f == [k \in above |-> [key |-> k, payload |-> 0]]
  <2>2. f \in Surjection(above, E)
    BY DEF Surjection
  <2> HIDE DEF f, E
  <2> QED BY <2>1, <2>2, FS_Surjection
<1> HIDE DEF E
<1>4. SetToSeq(E) \in Seq(E)
  BY <1>3, SetToSeqType
<1>5. SetToSeq(E) \in Seq(Entry)
  BY <1>2, <1>4
<1> QED BY <1>5 DEF E

\* A fresh call, and none.
LEMMA CallType ==
  ASSUME NEW es \in Seq(Entry)
  PROVE  /\ Call(es) \in Ops /\ Call(es).at = "find" /\ Call(es).todo = es /\ Call(es).inserts = <<>> /\ Call(es).written = 0
         /\ Idle \in Ops /\ Idle.at = "idle" /\ Idle.todo = <<>> /\ Idle.inserts = <<>>
<1>1. <<>> \in Seq(Entry)
  OBVIOUS
<1> QED BY <1>1 DEF Call, Idle, Ops

-----------------------------------------------------------------------------
(* The steps.                                                              *)

\* The parts of the state.
LEMMA Parts ==
  ASSUME TableInv
  PROVE  /\ mapped.count \in Nat /\ synced.count \in Nat /\ Ahead \in Nat /\ Stored \in Nat /\ MaxRecords \in Nat
         /\ mapped.heads \in [Buckets -> Nat] /\ synced.heads \in [Buckets -> Nat]
         /\ mapped.records \in [1 .. MaxRecords -> [key : Keys \cup {NoKey}, next : Nat, payload : Nat]]
         /\ synced.records \in [1 .. MaxRecords -> [key : Keys \cup {NoKey}, next : Nat, payload : Nat]]
         /\ op.at \in {"idle", "find", "write", "count", "link", "sync"}
         /\ op.entries \in Seq(Entry) /\ op.todo \in Seq(Entry) /\ op.inserts \in Seq(Entry)
         /\ op.written \in Nat /\ op.staged \in SUBSET (Buckets \X Nat)
         /\ mode \in {"batch", "single"}
<1>1. mapped \in Tables /\ synced \in Tables /\ mode \in {"batch", "single"} /\ op \in Ops
  BY DEF TableInv, TableTypes
<1>2. /\ mapped.count \in Nat /\ mapped.heads \in [Buckets -> Nat]
      /\ mapped.records \in [1 .. MaxRecords -> [key : Keys \cup {NoKey}, next : Nat, payload : Nat]]
  BY <1>1 DEF Tables
<1>3. /\ synced.count \in Nat /\ synced.heads \in [Buckets -> Nat]
      /\ synced.records \in [1 .. MaxRecords -> [key : Keys \cup {NoKey}, next : Nat, payload : Nat]]
  BY <1>1 DEF Tables
<1>4. /\ op.at \in {"idle", "find", "write", "count", "link", "sync"}
      /\ op.entries \in Seq(Entry) /\ op.todo \in Seq(Entry) /\ op.inserts \in Seq(Entry)
      /\ op.written \in Nat /\ op.staged \in SUBSET (Buckets \X Nat)
  BY <1>1 DEF Ops
<1>5. Ahead \in Nat /\ Stored \in Nat
  BY <1>4 DEF Ahead, Stored
<1> QED BY <1>1, <1>2, <1>3, <1>4, <1>5, RoomIsNat

\* A single insert is one.
LEMMA OneInsert ==
  ASSUME TableInv, mode = "single", op.inserts # <<>>
  PROVE  Len(op.inserts) = 1
<1> DEFINE a == Len(op.todo)
           c == Len(op.inserts)
<1>1. a \in Nat /\ c \in Nat /\ c # 0
  BY Parts
<1>2. a + c <= 1
  BY Zenon DEF TableInv, OpInv
<1>3. c = 1
  <2> HIDE DEF a, c
  <2> QED BY <1>1, <1>2
<1> QED BY <1>3

\* A call that has linked and counted nothing yet can be begun and given up.
LEMMA Restarts ==
  ASSUME TableInv, op' \in Ops, op'.at \in {"idle", "find", "sync"}, ~SingleAt("count"),
         op'.at = "find" => op'.written = 0,
         mode = "single" => Len(op'.todo) + Len(op'.inserts) <= 1,
         mapped' = mapped, mode' = mode, synced' = synced
  PROVE  TableInv'
<1>1. TableTypes'
  BY DEF TableInv, TableTypes
<1>2. Ahead' = 0 /\ ~SingleAt("count")' /\ ~SingleAt("link")' /\ Linkable' = mapped.count /\ Linkable = mapped.count
  BY Parts DEF Ahead, SingleAt, Linkable
<1>3. ChainInv'
  BY <1>2, Parts DEF TableInv, ChainInv, WellLinked, HeadsLinked, BucketOf
<1>4. OpInv'
  BY <1>2 DEF OpInv
<1>5. DiskInv'
  <2>1. Stored' = 0
    BY <1>2 DEF Stored
  <2>2. SameLinks(synced, mapped, mapped.count)
    <3>1. SameLinks(synced, mapped, mapped.count + Stored)
      BY DEF TableInv, DiskInv
    <3>2. \A i \in 1 .. mapped.count : i \in 1 .. mapped.count + Stored
      BY Parts
    <3> QED BY <3>1, <3>2 DEF SameLinks
  <2>3. SameLinks(synced', mapped', mapped'.count + Stored')
    BY <2>1, <2>2, Parts DEF SameLinks
  <2>4. HeadsLinked(synced', synced'.count)
    BY DEF TableInv, DiskInv, HeadsLinked, BucketOf
  <2> QED BY <1>2, <2>3, <2>4 DEF TableInv, DiskInv
<1> QED BY <1>1, <1>3, <1>4, <1>5 DEF TableInv

\* Starting a call writes nothing.
LEMMA PublishOK == ASSUME TableInv, NEW es \in Entries, Publish(es) PROVE TableInv'
<1>1. es \in Seq(Entry)
  BY EntriesType
<1>2. op' \in Ops /\ op'.at = "find" /\ op'.todo = es /\ op'.inserts = <<>> /\ op'.written = 0
  BY <1>1, CallType DEF Publish
<1>3. ~SingleAt("count")
  BY <1>1, CallType DEF Publish, SingleAt
<1>4. mode = "single" => Len(op'.todo) + Len(op'.inserts) <= 1
  <2> SUFFICES ASSUME mode = "single" PROVE Len(op'.todo) + Len(op'.inserts) <= 1
    OBVIOUS
  <2>1. Len(es) = 1 /\ Len(<<>>) = 0
    BY DEF Publish
  <2>2. Len(op'.todo) = 1 /\ Len(op'.inserts) = 0
    BY <1>2, <2>1, Zenon
  <2> QED BY <2>2
<1> QED BY <1>2, <1>3, <1>4, Restarts DEF Publish

\* A rollback's sweep starts a call that vacates entries.
LEMMA SweepOK == ASSUME TableInv, NEW fork, Sweep(fork) PROVE TableInv'
<1> DEFINE above == {r.key : r \in {x \in for_each(mapped) : x.payload > fork}}
           es == SetToSeq({[key |-> k, payload |-> 0] : k \in above})
<1>1. es \in Seq(Entry)
  BY SweepType
<1>0. op' = Call(es) /\ op = Idle /\ mode = "batch" /\ mapped' = mapped /\ mode' = mode /\ synced' = synced
  BY Zenon DEF Sweep
<1> HIDE DEF es
<1>2. op' \in Ops /\ op'.at = "find" /\ op'.written = 0
  BY <1>0, <1>1, CallType
<1> QED BY <1>0, <1>2, Restarts DEF SingleAt

\* A killed process loses the call; the pages survive.
LEMMA KillOK == ASSUME TableInv, ~Torn, Kill PROVE TableInv'
<1>1. <<>> \in Seq(Entry)
  OBVIOUS
<1>2. op' \in Ops /\ op'.at = "idle" /\ op'.todo = <<>> /\ op'.inserts = <<>>
  BY <1>1, CallType DEF Kill
<1>3. ~SingleAt("count")
  <2> SUFFICES ASSUME SingleAt("count") PROVE FALSE
    OBVIOUS
  <2>1. PICK b \in Buckets : mapped.heads[b] = mapped.count + 1
    BY DEF TableInv, DiskInv
  <2>2. mapped.heads[b] <= mapped.count
    BY DEF Kill, Covered
  <2> QED BY <2>1, <2>2, Parts
<1> QED BY <1>2, <1>3, Restarts DEF Kill

\* Two tables with the same keys and links below n, and a head they share.
LEMMA SameChains ==
  ASSUME NEW t \in Tables, NEW u \in Tables, NEW n \in 0 .. MaxRecords, SameLinks(u, t, n)
  PROVE  /\ WellLinked(t, n) => WellLinked(u, n)
         /\ \A b \in Buckets : t.heads[b] = u.heads[b] /\ t.heads[b] <= n /\ (t.heads[b] # 0 => BucketOf(t, t.heads[b]) = b)
                => u.heads[b] <= n /\ (u.heads[b] # 0 => BucketOf(u, u.heads[b]) = b)
<1>0. MaxRecords \in Nat
  BY RoomIsNat
<1>1. \A i \in 1 .. n : /\ u.records[i].key = t.records[i].key /\ u.records[i].next = t.records[i].next
                         /\ BucketOf(u, i) = BucketOf(t, i) /\ t.records[i].next \in Nat
  <2>1. \A i \in 1 .. MaxRecords : t.records[i].next \in Nat
    BY DEF Tables
  <2>2. \A i \in 1 .. n : i \in 1 .. MaxRecords
    BY <1>0
  <2> QED BY <2>1, <2>2 DEF SameLinks, BucketOf
<1>2. \A b \in Buckets : t.heads[b] \in Nat
  BY DEF Tables
<1>3. ASSUME WellLinked(t, n), NEW i \in 1 .. n
      PROVE  /\ u.records[i].key \in Keys /\ u.records[i].next < i
             /\ u.records[i].next # 0 => BucketOf(u, u.records[i].next) = BucketOf(u, i)
  <2>1. /\ t.records[i].key \in Keys /\ t.records[i].next < i
        /\ t.records[i].next # 0 => BucketOf(t, t.records[i].next) = BucketOf(t, i)
    BY <1>3 DEF WellLinked
  <2>2. t.records[i].next # 0 => t.records[i].next \in 1 .. n
    BY <1>0, <1>1, <2>1
  <2> QED BY <1>1, <2>1, <2>2
<1>4. ASSUME NEW b \in Buckets, t.heads[b] = u.heads[b], t.heads[b] <= n, t.heads[b] # 0 => BucketOf(t, t.heads[b]) = b
      PROVE  u.heads[b] <= n /\ (u.heads[b] # 0 => BucketOf(u, u.heads[b]) = b)
  <2>1. t.heads[b] # 0 => t.heads[b] \in 1 .. n
    BY <1>0, <1>2, <1>4
  <2> QED BY <1>1, <1>4, <2>1
<1> QED BY <1>3, <1>4 DEF WellLinked

\* With all heads the same.
LEMMA SameHeads ==
  ASSUME NEW t \in Tables, NEW u \in Tables, NEW n \in 0 .. MaxRecords,
         SameLinks(u, t, n), u.heads = t.heads
  PROVE  /\ WellLinked(t, n) => WellLinked(u, n)
         /\ HeadsLinked(t, n) => HeadsLinked(u, n)
<1>1. ASSUME HeadsLinked(t, n), NEW b \in Buckets
      PROVE  u.heads[b] <= n /\ (u.heads[b] # 0 => BucketOf(u, u.heads[b]) = b)
  <2>1. t.heads[b] = u.heads[b] /\ t.heads[b] <= n /\ (t.heads[b] # 0 => BucketOf(t, t.heads[b]) = b)
    BY <1>1 DEF HeadsLinked
  <2> QED BY <2>1, SameChains
<1> QED BY <1>1, SameChains DEF HeadsLinked

\* Payloads are no matter of the chains.
LEMMA SetPayloadOK ==
  ASSUME TableInv, NEW i \in 1 .. MaxRecords, NEW p \in Nat, mapped' = set_payload(mapped, i, p)
  PROVE  /\ mapped' \in Tables /\ mapped'.count = mapped.count /\ mapped'.heads = mapped.heads
         /\ \A j \in 1 .. MaxRecords : /\ mapped'.records[j].key = mapped.records[j].key
                                       /\ mapped'.records[j].next = mapped.records[j].next
<1>1. mapped' = [mapped EXCEPT !.records[i].payload = p]
  BY DEF set_payload
<1>2. mapped \in Tables
  BY DEF TableInv, TableTypes
<1> DEFINE r == [mapped.records[i] EXCEPT !.payload = p]
<1>3. /\ r \in [key : Keys \cup {NoKey}, next : Nat, payload : Nat]
      /\ r.key = mapped.records[i].key /\ r.next = mapped.records[i].next
  <2>1. mapped.records[i] \in [key : Keys \cup {NoKey}, next : Nat, payload : Nat]
    BY Parts
  <2> QED BY <2>1
<1>4. mapped'.records = [mapped.records EXCEPT ![i] = r]
  BY <1>1, <1>2 DEF Tables
<1>5. mapped'.count = mapped.count /\ mapped'.heads = mapped.heads
  BY <1>1, <1>2 DEF Tables
<1> HIDE DEF r
<1>6. mapped'.records \in [1 .. MaxRecords -> [key : Keys \cup {NoKey}, next : Nat, payload : Nat]]
  <2>1. mapped.records \in [1 .. MaxRecords -> [key : Keys \cup {NoKey}, next : Nat, payload : Nat]]
    BY Parts
  <2> QED BY <1>3, <1>4, <2>1
<1>7. mapped' = [count |-> mapped'.count, heads |-> mapped'.heads, records |-> mapped'.records]
  BY <1>1, <1>2 DEF Tables
<1>8. mapped' \in Tables
  BY <1>5, <1>6, <1>7, Parts DEF Tables
<1> QED BY <1>3, <1>4, <1>5, <1>8, Parts

\* An update rewrites a payload and no link.
LEMMA FindOrUpdateOK == ASSUME TableInv, FindOrUpdate PROVE TableInv'
<1> DEFINE e == Head(op.todo)
           i == find(mapped, e.key)
<1>1. e \in Entry /\ Tail(op.todo) \in Seq(Entry) /\ Len(Tail(op.todo)) = Len(op.todo) - 1 /\ op.at = "find"
  BY Parts DEF FindOrUpdate
<1>2. /\ op' \in Ops /\ op'.at = "find" /\ op'.written = 0
      /\ mode = "single" => Len(op'.todo) + Len(op'.inserts) <= 1
  <2>1. mode = "single" => Len(op.todo) + Len(op.inserts) <= 1
    BY DEF TableInv, OpInv
  <2>2. op \in Ops /\ op.written = 0
    BY <1>1 DEF TableInv, TableTypes, OpInv
  <2>3. CASE i # 0
    <3>1. op' = [op EXCEPT !.todo = Tail(@)]
      BY <2>3 DEF FindOrUpdate
    <3>2. op' \in Ops /\ op'.at = op.at /\ op'.todo = Tail(op.todo) /\ op'.inserts = op.inserts
          /\ op'.written = op.written
      BY <1>1, <2>2, <3>1 DEF Ops
    <3>3. Len(op.todo) \in Nat /\ Len(op.inserts) \in Nat
      BY Parts
    <3>4. Len(op'.todo) = Len(op.todo) - 1 /\ Len(op'.inserts) = Len(op.inserts)
      BY <1>1, <3>2, Zenon
    <3>5. op.at = "find"
      BY <1>1
    <3>6. ASSUME mode = "single" PROVE Len(op'.todo) + Len(op'.inserts) <= 1
      <4>1. Len(op.todo) + Len(op.inserts) <= 1
        BY <2>1, <3>6, Zenon
      <4> DEFINE a == Len(op.todo)
                 c == Len(op.inserts)
      <4>2. a \in Nat /\ c \in Nat /\ a + c <= 1 /\ Len(op'.todo) = a - 1 /\ Len(op'.inserts) = c
        BY <3>3, <3>4, <4>1, Zenon
      <4> HIDE DEF a, c
      <4> QED BY <4>2
    <3>7. op'.at = "find"
      BY <3>2, <3>5, Zenon
    <3> QED BY <2>2, <3>2, <3>6, <3>7, Zenon
  <2>4. CASE i = 0
    <3> DEFINE ins == IF e.payload = 0 THEN op.inserts ELSE Append(op.inserts, e)
    <3>1. op' = [op EXCEPT !.todo = Tail(@), !.inserts = ins]
      BY <2>4 DEF FindOrUpdate
    <3>2. ins \in Seq(Entry) /\ Len(ins) <= Len(op.inserts) + 1
      BY <1>1, Parts
    <3> HIDE DEF ins, e
    <3>3. op' \in Ops /\ op'.at = op.at /\ op'.todo = Tail(op.todo) /\ op'.inserts = ins
          /\ op'.written = op.written
      BY <1>1, <2>2, <3>1, <3>2 DEF Ops
    <3>4. Len(op.todo) \in Nat /\ Len(op.inserts) \in Nat /\ Len(ins) \in Nat
      BY <3>2, Parts
    <3>5. Len(op'.todo) = Len(op.todo) - 1 /\ Len(op'.inserts) = Len(ins) /\ op.at = "find"
      BY <1>1, <3>3, Zenon
    <3>6. Len(ins) <= Len(op.inserts) + 1
      BY <3>2
    <3>7. ASSUME mode = "single" PROVE Len(op'.todo) + Len(op'.inserts) <= 1
      <4>1. Len(op.todo) + Len(op.inserts) <= 1
        BY <2>1, <3>7, Zenon
      <4> DEFINE a == Len(op.todo)
                 c == Len(op.inserts)
                 d == Len(ins)
      <4>2. a \in Nat /\ c \in Nat /\ d \in Nat /\ a + c <= 1 /\ d <= c + 1
            /\ Len(op'.todo) = a - 1 /\ Len(op'.inserts) = d
        BY <3>4, <3>5, <3>6, <4>1, Zenon
      <4> HIDE DEF a, c, d
      <4> QED BY <4>2
    <3>8. op'.at = "find"
      BY <3>3, <3>5, Zenon
    <3> QED BY <2>2, <3>3, <3>7, <3>8, Zenon
  <2> QED BY <2>3, <2>4
<1>3. mapped' \in Tables /\ mapped'.count = mapped.count /\ mapped'.heads = mapped.heads
      /\ SameLinks(mapped', mapped, MaxRecords)
  <2>1. CASE i # 0
    <3>1. mapped' = set_payload(mapped, i, e.payload)
      BY <2>1 DEF FindOrUpdate
    <3>2. i \in 1 .. MaxRecords
      <4>1. e.key \in Keys /\ Bucket[e.key] \in Buckets
        BY <1>1 DEF Entry, Buckets
      <4> DEFINE k == e.key
                 w == Walk(mapped, Bucket[k])
                 hits == {n \in 0 .. MaxRecords : w[n] # 0 /\ mapped.records[w[n]].key = k}
      <4>2. i = IF hits = {} THEN 0 ELSE w[CHOOSE n \in hits : \A x \in hits : n <= x]
        BY DEF find
      <4> HIDE DEF w, k
      <4>3. hits # {} /\ hits \subseteq Nat
        BY <2>1, <4>2
      <4>4. \E n \in hits : \A x \in hits : n <= x
        BY <4>3, LeastOf
      <4>5. \E n \in hits : i = w[n]
        BY <4>2, <4>3, <4>4, Zenon
      <4>6. PICK n \in 0 .. MaxRecords : i = w[n] /\ w[n] # 0
        BY <4>5
      <4>7. w[n] \in 1 .. mapped.count
        <5>1. Linkable = mapped.count /\ mapped.count \in 0 .. MaxRecords /\ WellLinked(mapped, mapped.count)
          <6>1. Ahead = 0 /\ Linkable = mapped.count
            BY <1>1, Parts DEF Ahead, Linkable, SingleAt
          <6> QED BY <6>1, Parts DEF TableInv, ChainInv
        <5>2. HeadsLinked(mapped, mapped.count) /\ mapped \in Tables
          BY <5>1 DEF TableInv, ChainInv, TableTypes
        <5> QED BY <4>1, <4>6, <5>1, <5>2, WalkIsSound DEF w, k
      <4>8. mapped.count <= MaxRecords
        BY Parts DEF TableInv, ChainInv
      <4> HIDE DEF i
      <4> QED BY <4>6, <4>7, <4>8, Parts
    <3>3. e.payload \in Nat
      BY <1>1 DEF Entry
    <3> HIDE DEF i, e
    <3> QED BY <3>1, <3>2, <3>3, SetPayloadOK DEF SameLinks
  <2>2. CASE i = 0
    <3>1. mapped' = mapped
      BY <2>2 DEF FindOrUpdate
    <3> QED BY <3>1 DEF SameLinks, TableInv, TableTypes
  <2> QED BY <2>1, <2>2
<1>4. mode' = mode /\ synced' = synced
  BY DEF FindOrUpdate
<1> HIDE DEF i, e
<1>5. /\ Ahead = 0 /\ Linkable = mapped.count /\ Ahead' = 0 /\ Linkable' = mapped.count
      /\ ~SingleAt("count")' /\ ~SingleAt("link")'
  BY <1>1, <1>2, <1>3, Parts DEF Ahead, Linkable, SingleAt
<1>6. TableTypes'
  BY <1>2, <1>3, <1>4 DEF TableInv, TableTypes
<1>7. /\ mapped.count <= MaxRecords /\ WellLinked(mapped, mapped.count) /\ HeadsLinked(mapped, mapped.count)
  BY <1>5, Parts DEF TableInv, ChainInv
<1>8. ChainInv'
  <2>1. WellLinked(mapped', mapped.count) /\ HeadsLinked(mapped', mapped.count)
    <3>1. mapped \in Tables /\ mapped.count \in 0 .. MaxRecords
      BY <1>7, Parts DEF TableInv, TableTypes
    <3>2. SameLinks(mapped', mapped, mapped.count)
      BY <1>3, <3>1, Parts DEF SameLinks
    <3> QED BY <1>3, <1>7, <3>1, <3>2, SameHeads
  <2> QED BY <1>3, <1>5, <1>7, <2>1, Parts DEF ChainInv
<1>9. OpInv'
  BY <1>2, <1>4 DEF OpInv, SingleAt
<1>10. DiskInv'
  <2>0. Stored = 0 /\ Stored' = 0
    BY <1>1, <1>2, <1>5 DEF Stored, SingleAt
  <2>1. SameLinks(synced, mapped, mapped.count) /\ \A j \in 1 .. mapped.count : j \in 1 .. MaxRecords
    BY <1>7, <2>0, Parts DEF TableInv, DiskInv
  <2>2. SameLinks(synced', mapped', mapped.count)
    BY <1>3, <1>4, <2>1 DEF SameLinks
  <2>3. HeadsLinked(synced', synced'.count)
    BY <1>4 DEF TableInv, DiskInv, HeadsLinked, BucketOf
  <2>4. SameLinks(synced', mapped', mapped'.count + Stored')
    BY <1>3, <2>0, <2>2, Parts
  <2> QED BY <1>3, <1>4, <1>5, <2>3, <2>4 DEF TableInv, DiskInv
<1> QED BY <1>6, <1>8, <1>9, <1>10 DEF TableInv

\* Once all entries are looked up the call writes its inserts, or syncs.
LEMMA FoundOK == ASSUME TableInv, Found PROVE TableInv'
<1>1. op \in Ops /\ op.at = "find" /\ op.written = 0 /\ mode' = mode /\ mapped' = mapped /\ synced' = synced
  BY DEF TableInv, TableTypes, OpInv, Found
<1>2. mode = "single" => Len(op.todo) + Len(op.inserts) <= 1
  BY DEF TableInv, OpInv
<1>3. CASE op.inserts = <<>>
  <2>1. op' = [op EXCEPT !.at = "sync"]
    BY <1>3 DEF Found
  <2>2. op' \in Ops /\ op'.at = "sync" /\ op'.todo = op.todo /\ op'.inserts = op.inserts
    BY <1>1, <2>1 DEF Ops
  <2>3. mode = "single" => Len(op'.todo) + Len(op'.inserts) <= 1
    BY <1>2, <2>2, Zenon
  <2>4. ~SingleAt("count")
    BY <1>1 DEF SingleAt
  <2> QED BY <1>1, <2>2, <2>3, <2>4, Restarts
<1>4. CASE op.inserts # <<>>
  <2>1. op' = [op EXCEPT !.at = "write"]
    BY <1>4 DEF Found
  <2>2. op' \in Ops /\ op'.at = "write" /\ op'.todo = op.todo /\ op'.inserts = op.inserts /\ op'.written = 0
    BY <1>1, <2>1 DEF Ops
  <2>3. Ahead = 0 /\ Ahead' = 0 /\ Linkable = mapped.count /\ Linkable' = mapped.count
    BY <1>1, <2>2, Parts DEF Ahead, Linkable, SingleAt
  <2>4. TableTypes'
    BY <1>1, <2>2 DEF TableInv, TableTypes
  <2>5. ChainInv'
    BY <1>1, <2>3 DEF TableInv, ChainInv, WellLinked, HeadsLinked, BucketOf
  <2>6. OpInv'
    <3>1. (mode = "single" => Len(op.todo) + Len(op.inserts) <= 1)'
      BY <1>1, <1>2, <2>2, Zenon
    <3>2. 0 <= Len(op.inserts) /\ 1 .. 0 = {}
      BY Parts
    <3>3. (op.at = "write" =>
             /\ op.written <= Len(op.inserts)
             /\ \A i \in 1 .. op.written : mapped.records[mapped.count + i].key = op.inserts[i].key)'
      BY <2>2, <3>2
    <3> QED BY <1>4, <2>2, <3>1, <3>3 DEF OpInv, SingleAt
  <2>7. DiskInv'
    <3>1. Stored = 0 /\ Stored' = 0
      BY <1>1, <2>2 DEF Stored, SingleAt
    <3>2. SameLinks(synced', mapped', mapped'.count + Stored') /\ HeadsLinked(synced', synced'.count)
      BY <1>1, <3>1 DEF TableInv, DiskInv, SameLinks, HeadsLinked, BucketOf
    <3> QED BY <1>1, <2>2, <3>2 DEF TableInv, DiskInv, SingleAt
  <2> QED BY <2>4, <2>5, <2>6, <2>7 DEF TableInv
<1> QED BY <1>3, <1>4

\* The head staged for a bucket is a written record of it, or the published one.
LEMMA StagedHeadIs ==
  ASSUME TableInv, op.at = "write", NEW b \in Buckets
  PROVE  /\ StagedHead(b) \in 0 .. mapped.count + op.written
         /\ StagedHead(b) # 0 => BucketOf(mapped, StagedHead(b)) = b
         /\ (\E i \in 1 .. op.written : Bucket[op.inserts[i].key] = b) => StagedHead(b) >= mapped.count + 1
<1> DEFINE mine == {i \in 1 .. op.written : Bucket[op.inserts[i].key] = b}
<1>1. StagedHead(b) = IF mine = {} THEN mapped.heads[b]
                      ELSE mapped.count + (CHOOSE i \in mine : \A x \in mine : x <= i)
  BY DEF StagedHead
<1>2. mapped.count \in Nat /\ op.written \in Nat /\ mapped.heads[b] \in Nat
  BY Parts
<1>3. CASE mine = {}
  <2>1. mapped.heads[b] <= mapped.count /\ (mapped.heads[b] # 0 => BucketOf(mapped, mapped.heads[b]) = b)
    <3>1. Linkable = mapped.count
      BY <1>2 DEF Linkable, SingleAt
    <3> QED BY <3>1 DEF TableInv, ChainInv, HeadsLinked
  <2>2. StagedHead(b) = mapped.heads[b]
    BY <1>1, <1>3
  <2> QED BY <1>2, <1>3, <2>1, <2>2
<1>4. CASE mine # {}
  <2>1. \E i \in mine : \A x \in mine : x <= i
    <3>1. mine \subseteq Nat /\ \A x \in mine : x <= op.written
      BY <1>2
    <3> HIDE DEF mine
    <3> QED BY <1>2, <1>4, <3>1, BoundedHasTop
  <2>2. \E i \in mine : StagedHead(b) = mapped.count + i
    <3> HIDE DEF mine
    <3> QED BY <1>1, <1>4, <2>1, Zenon
  <2>3. PICK i \in mine : StagedHead(b) = mapped.count + i
    BY <2>2
  <2>4. i \in 1 .. op.written /\ Bucket[op.inserts[i].key] = b
    OBVIOUS
  <2>5. mapped.records[mapped.count + i].key = op.inserts[i].key
    BY <2>4 DEF TableInv, OpInv
  <2> QED BY <1>2, <2>3, <2>4, <2>5 DEF BucketOf
<1> QED BY <1>3, <1>4

\* A record is written past the count, linked to a record below it.
LEMMA WriteRecordOK == ASSUME TableInv, WriteRecord PROVE TableInv'
<1> DEFINE i == op.written + 1
           j == mapped.count + i
           e == op.inserts[i]
           h == StagedHead(Bucket[e.key])
           rec == [key |-> e.key, next |-> h, payload |-> e.payload]
<1>1. /\ op.at = "write" /\ op.written < Len(op.inserts) /\ mapped.count + op.written < MaxRecords
      /\ mapped' = [mapped EXCEPT !.records[j] = rec] /\ op' = [op EXCEPT !.written = i]
      /\ synced' = synced /\ mode' = mode
  BY DEF WriteRecord
<1>2. op \in Ops /\ mapped \in Tables
  BY DEF TableInv, TableTypes
<1>3. i \in 1 .. Len(op.inserts) /\ i \in Nat /\ j \in 1 .. MaxRecords /\ j \in Nat
  <2>1. op.written \in Nat /\ mapped.count \in Nat /\ MaxRecords \in Nat /\ op.inserts \in Seq(Entry)
    BY Parts
  <2>2. op.written < Len(op.inserts) /\ mapped.count + op.written < MaxRecords
    BY <1>1
  <2> QED BY <2>1, <2>2
<1>4. e \in Entry /\ e.key \in Keys /\ Bucket[e.key] \in Buckets
  <2>1. e \in Entry
    BY <1>3, Parts
  <2> HIDE DEF e
  <2> QED BY <2>1 DEF Entry, Buckets
<1>5. h \in 0 .. mapped.count + op.written /\ (h # 0 => BucketOf(mapped, h) = Bucket[e.key])
  <2> HIDE DEF e
  <2> QED BY <1>1, <1>4, StagedHeadIs
<1>6. rec \in [key : Keys \cup {NoKey}, next : Nat, payload : Nat] /\ rec.key = e.key /\ rec.next = h
  <2> HIDE DEF e, h
  <2> QED BY <1>4, <1>5 DEF Entry
<1> HIDE DEF e, h, rec, i, j
<1>7. /\ mapped' \in Tables /\ mapped'.count = mapped.count /\ mapped'.heads = mapped.heads
      /\ mapped'.records = [mapped.records EXCEPT ![j] = rec]
  BY <1>1, <1>2, <1>3, <1>6 DEF Tables
<1>8. /\ op' \in Ops /\ op'.at = "write" /\ op'.todo = op.todo /\ op'.inserts = op.inserts
      /\ op'.written = i /\ op'.staged = op.staged
  BY <1>1, <1>2, <1>3 DEF Ops
<1>9. /\ j = mapped.count + i /\ i = op.written + 1 /\ mapped.count \in Nat /\ op.written \in Nat /\ MaxRecords \in Nat
      /\ synced.count \in Nat
  BY Parts DEF i, j
<1>10. /\ Ahead = op.written /\ Ahead' = i /\ Linkable = mapped.count /\ Linkable' = mapped.count
  BY <1>1, <1>7, <1>8, <1>9 DEF Ahead, Linkable, SingleAt
<1>11. \A n \in 1 .. j - 1 : mapped'.records[n] = mapped.records[n]
  <2>1. \A n \in 1 .. j - 1 : n \in 1 .. MaxRecords /\ n # j
    BY <1>3, <1>9
  <2>2. DOMAIN mapped.records = 1 .. MaxRecords
    BY Parts
  <2> QED BY <1>7, <2>1, <2>2
<1>12. mapped'.records[j] = rec
  BY <1>3, <1>7, Parts
<1>13. TableTypes'
  BY <1>1, <1>7, <1>8 DEF TableInv, TableTypes
<1>14. \A n \in 1 .. j - 1 : /\ mapped.records[n].key \in Keys /\ mapped.records[n].next < n
                             /\ mapped.records[n].next \in Nat
                             /\ mapped.records[n].next # 0 => BucketOf(mapped, mapped.records[n].next) = BucketOf(mapped, n)
  <2>1. WellLinked(mapped, j - 1)
    BY <1>9, <1>10 DEF TableInv, ChainInv
  <2>2. \A n \in 1 .. j - 1 : n \in 1 .. MaxRecords
    BY <1>3, <1>9
  <2> QED BY <2>1, <2>2, Parts DEF WellLinked
<1>15. \A n \in 1 .. j - 1 : BucketOf(mapped', n) = BucketOf(mapped, n)
  BY <1>11 DEF BucketOf
<1>16. WellLinked(mapped', j)
  <2>1. ASSUME NEW n \in 1 .. j - 1
        PROVE  /\ mapped'.records[n].key \in Keys /\ mapped'.records[n].next < n
               /\ mapped'.records[n].next # 0 => BucketOf(mapped', mapped'.records[n].next) = BucketOf(mapped', n)
    <3> DEFINE x == mapped.records[n].next
    <3>0. /\ mapped.records[n].key \in Keys
          /\ mapped.records[n].next < n /\ mapped.records[n].next \in Nat
          /\ mapped.records[n].next # 0 => BucketOf(mapped, mapped.records[n].next) = BucketOf(mapped, n)
      <4> HIDE DEF x
      <4> QED BY <1>14
    <3>1. x # 0 => x \in 1 .. j - 1
      <4>1. x < n /\ x \in Nat
        BY <3>0
      <4> HIDE DEF x
      <4> QED BY <1>3, <4>1
    <3>2. mapped'.records[n] = mapped.records[n] /\ BucketOf(mapped', n) = BucketOf(mapped, n)
      BY <1>11, <1>15
    <3>3. x # 0 => BucketOf(mapped', x) = BucketOf(mapped, x)
      <4> HIDE DEF x
      <4> QED BY <1>15, <3>1
    <3> QED BY <3>0, <3>2, <3>3
  <2>2. /\ mapped'.records[j].key \in Keys /\ mapped'.records[j].next < j
        /\ mapped'.records[j].next # 0 => BucketOf(mapped', mapped'.records[j].next) = BucketOf(mapped', j)
    <3>1. h < j /\ (h # 0 => h \in 1 .. j - 1)
      BY <1>5, <1>9
    <3>2. BucketOf(mapped', j) = Bucket[e.key]
      BY <1>6, <1>12 DEF BucketOf
    <3> QED BY <1>4, <1>5, <1>6, <1>12, <1>15, <3>1, <3>2
  <2> QED BY <1>3, <2>1, <2>2 DEF WellLinked
<1>17. HeadsLinked(mapped', mapped.count)
  <2>1. HeadsLinked(mapped, mapped.count)
    BY <1>10 DEF TableInv, ChainInv
  <2>2. \A b \in Buckets : mapped.heads[b] \in Nat
    BY Parts
  <2>3. \A b \in Buckets : mapped.heads[b] # 0 => mapped.heads[b] \in 1 .. j - 1
    BY <1>9, <2>1, <2>2 DEF HeadsLinked
  <2> QED BY <1>7, <1>15, <2>1, <2>3 DEF HeadsLinked
<1>18. ChainInv'
  BY <1>3, <1>7, <1>9, <1>10, <1>16, <1>17 DEF ChainInv
<1>19. OpInv'
  <2>1. (mode = "single" => Len(op.todo) + Len(op.inserts) <= 1)'
    BY <1>1, <1>8, Zenon DEF TableInv, OpInv
  <2>2. op.inserts # <<>> /\ \A n \in 1 .. op.written : mapped.records[mapped.count + n].key = op.inserts[n].key
    BY <1>1 DEF TableInv, OpInv
  <2>3. ASSUME NEW n \in 1 .. i PROVE mapped'.records[mapped.count + n].key = op.inserts[n].key
    <3>1. CASE n = i
      <4>1. op.inserts[n] = e
        BY <3>1 DEF e
      <4>2. mapped.count + n = j
        BY <1>9, <3>1
      <4> QED BY <1>6, <1>12, <4>1, <4>2
    <3>2. CASE n # i
      <4>1. n \in 1 .. op.written /\ mapped.count + n \in 1 .. j - 1
        BY <1>9, <3>2
      <4> QED BY <1>11, <2>2, <4>1
    <3> QED BY <3>1, <3>2
  <2>4. i <= Len(op.inserts)
    BY <1>3
  <2>5. (op.at = "write" =>
             /\ op.written <= Len(op.inserts)
             /\ \A n \in 1 .. op.written : mapped.records[mapped.count + n].key = op.inserts[n].key)'
    BY <1>7, <1>8, <2>3, <2>4
  <2> QED BY <1>8, <2>1, <2>2, <2>5 DEF OpInv, SingleAt
<1>20. DiskInv'
  <2>0. ~SingleAt("link")' /\ ~SingleAt("count")'
    BY <1>8 DEF SingleAt
  <2>1. Stored = 0 /\ Stored' = 0
    BY <1>1, <1>8 DEF Stored, SingleAt
  <2>2. SameLinks(synced, mapped, mapped.count) /\ \A n \in 1 .. mapped.count : n \in 1 .. j - 1
    BY <1>9, <2>1, Parts DEF TableInv, DiskInv
  <2>3. SameLinks(synced', mapped', mapped.count)
    BY <1>1, <1>11, <2>2 DEF SameLinks
  <2>4. SameLinks(synced', mapped', mapped'.count + Stored')
    BY <1>7, <2>1, <2>3, Parts
  <2>5. HeadsLinked(synced', synced'.count)
    BY <1>1 DEF TableInv, DiskInv, HeadsLinked, BucketOf
  <2> QED BY <1>1, <1>7, <2>0, <2>4, <2>5 DEF TableInv, DiskInv
<1> QED BY <1>13, <1>18, <1>19, <1>20 DEF TableInv

\* The records reach the disk before their heads are staged.
LEMMA SyncRecordsOK == ASSUME TableInv, SyncRecords PROVE TableInv'
<1> DEFINE S == {<<Bucket[e.key], StagedHead(Bucket[e.key])>> : e \in ToSet(op.inserts)}
           p == IF mode = "batch" THEN "count" ELSE "link"
<1>1. /\ op.at = "write" /\ op.written = Len(op.inserts) /\ synced' = mapped /\ mapped' = mapped /\ mode' = mode
      /\ op' = [op EXCEPT !.at = p, !.staged = S]
  BY DEF SyncRecords
<1>2. op \in Ops /\ mapped \in Tables /\ mode \in {"batch", "single"}
  BY DEF TableInv, TableTypes
<1>3. mapped.count \in Nat /\ op.inserts \in Seq(Entry) /\ op.written \in Nat
  BY Parts
<1>4. \A e \in ToSet(op.inserts) : \E i \in 1 .. op.written : e = op.inserts[i] /\ e \in Entry
  BY <1>1, <1>3 DEF ToSet
<1>5. \A s \in S : s \in Buckets \X Nat /\ s[2] \in mapped.count + 1 .. mapped.count + op.written
                   /\ BucketOf(mapped, s[2]) = s[1]
  <2> SUFFICES ASSUME NEW s \in S
               PROVE  s \in Buckets \X Nat /\ s[2] \in mapped.count + 1 .. mapped.count + op.written
                      /\ BucketOf(mapped, s[2]) = s[1]
    OBVIOUS
  <2>0. PICK e \in ToSet(op.inserts) : s = <<Bucket[e.key], StagedHead(Bucket[e.key])>>
    OBVIOUS
  <2> DEFINE b == Bucket[e.key]
  <2>1. PICK i \in 1 .. op.written : e = op.inserts[i] /\ e \in Entry
    BY <1>4
  <2>2. b \in Buckets
    BY <2>1 DEF Entry, Buckets
  <2>3. /\ StagedHead(b) \in 0 .. mapped.count + op.written
        /\ StagedHead(b) # 0 => BucketOf(mapped, StagedHead(b)) = b
        /\ StagedHead(b) >= mapped.count + 1
    <3>1. \E x \in 1 .. op.written : Bucket[op.inserts[x].key] = b
      BY <2>1
    <3> QED BY <1>1, <2>2, <3>1, StagedHeadIs
  <2>4. StagedHead(b) \in mapped.count + 1 .. mapped.count + op.written /\ StagedHead(b) \in Nat
        /\ StagedHead(b) # 0
    <3> DEFINE z == StagedHead(b)
    <3>1. z \in 0 .. mapped.count + op.written /\ z >= mapped.count + 1
      BY <2>3
    <3> HIDE DEF z
    <3>2. z \in mapped.count + 1 .. mapped.count + op.written /\ z \in Nat /\ z # 0
      BY <1>3, <3>1
    <3> QED BY <3>2 DEF z
  <2>5. s = <<b, StagedHead(b)>>
    BY <2>0
  <2> HIDE DEF b, S
  <2> QED BY <2>2, <2>3, <2>4, <2>5
<1>6. S \in SUBSET (Buckets \X Nat) /\ p \in {"count", "link"}
  BY <1>5
<1>7. p = "count" \/ mode = "single"
  BY <1>2
<1>8. mode = "single" => p = "link"
  OBVIOUS
<1>9. mode = "single" => \E b \in Buckets : S = {<<b, mapped.count + 1>>}
  <2> SUFFICES ASSUME mode = "single" PROVE \E b \in Buckets : S = {<<b, mapped.count + 1>>}
    OBVIOUS
  <2>1. op.written = 1
    <3>1. op.inserts # <<>>
      BY <1>1 DEF TableInv, OpInv
    <3> QED BY <1>1, <3>1, OneInsert
  <2>2. op.inserts[1] \in Entry /\ ToSet(op.inserts) = {op.inserts[1]}
    <3>1. DOMAIN op.inserts = {1}
      <4>1. DOMAIN op.inserts = 1 .. Len(op.inserts)
        BY <1>3
      <4>2. Len(op.inserts) = 1 /\ 1 .. 1 = {1}
        BY <1>1, <2>1
      <4> QED BY <4>1, <4>2, Zenon
    <3> QED BY <1>3, <3>1 DEF ToSet
  <2> DEFINE b == Bucket[op.inserts[1].key]
  <2>3. S = {<<b, StagedHead(b)>>}
    BY <2>2
  <2>4. b \in Buckets
    BY <2>2 DEF Entry, Buckets
  <2>5. StagedHead(b) \in mapped.count + 1 .. mapped.count + op.written
    <3>1. <<b, StagedHead(b)>> \in S
      BY <2>3
    <3> HIDE DEF S, b
    <3>2. <<b, StagedHead(b)>>[2] \in mapped.count + 1 .. mapped.count + op.written
      BY <1>5, <3>1
    <3> QED BY <3>2
  <2>6. StagedHead(b) = mapped.count + 1
    BY <1>3, <2>1, <2>5
  <2> HIDE DEF S, b
  <2> QED BY <2>3, <2>4, <2>6
<1> HIDE DEF S, p
<1>10. /\ op' \in Ops /\ op'.at = p /\ op'.todo = op.todo /\ op'.inserts = op.inserts /\ op'.staged = S
  BY <1>1, <1>2, <1>6 DEF Ops
<1>11. /\ Ahead = op.written /\ Ahead' = op.written /\ Linkable = mapped.count /\ Linkable' = mapped.count
  <2>1. ~SingleAt("count")' /\ ~SingleAt("count")
    BY <1>1, <1>8, <1>10 DEF SingleAt
  <2>2. Ahead' = Len(op.inserts)
    BY <1>1, <1>6, <1>7, <1>10 DEF Ahead, SingleAt
  <2>3. Ahead = op.written
    BY <1>1 DEF Ahead
  <2> QED BY <1>1, <1>3, <2>1, <2>2, <2>3 DEF Linkable
<1>12. TableTypes'
  BY <1>1, <1>2, <1>10 DEF TableTypes
<1>13. ChainInv'
  BY <1>1, <1>11 DEF TableInv, ChainInv, WellLinked, HeadsLinked, BucketOf
<1>14. OpInv'
  <2>1. (mode = "single" => Len(op.todo) + Len(op.inserts) <= 1)'
    BY <1>1, <1>10, Zenon DEF TableInv, OpInv
  <2>2. op.inserts # <<>>
    BY <1>1 DEF TableInv, OpInv
  <2>3. \A s \in S : s[2] \in 1 .. mapped.count + op.written /\ BucketOf(mapped, s[2]) = s[1]
    BY <1>3, <1>5
  <2>4. StagedWell'
    BY <1>1, <1>10, <1>11, <2>3 DEF StagedWell, BucketOf
  <2>5. (SingleAt("link") => \E b \in Buckets : op.staged = {<<b, mapped.count + 1>>})'
    BY <1>1, <1>9, <1>10 DEF SingleAt
  <2> QED BY <1>6, <1>10, <2>1, <2>2, <2>4, <2>5 DEF OpInv
<1>15. DiskInv'
  <2>1. HeadsLinked(synced', synced'.count)
    BY <1>1, <1>11 DEF TableInv, ChainInv, HeadsLinked, BucketOf
  <2>2. ~SingleAt("count")'
    BY <1>1, <1>8, <1>10 DEF SingleAt
  <2> QED BY <1>1, <1>3, <2>1, <2>2 DEF DiskInv, SameLinks
<1> QED BY <1>12, <1>13, <1>14, <1>15 DEF TableInv

\* The count covers records that are written and well linked.
LEMMA PublishCountOK == ASSUME TableInv, PublishCount PROVE TableInv'
<1> DEFINE c == mapped.count + Len(op.inserts)
           p == IF mode = "batch" THEN "link" ELSE "sync"
<1>1. /\ op.at = "count" /\ synced' = synced /\ mode' = mode
      /\ mapped' = [mapped EXCEPT !.count = c] /\ op' = [op EXCEPT !.at = p]
  BY DEF PublishCount
<1>2. op \in Ops /\ mapped \in Tables /\ mode \in {"batch", "single"}
  BY DEF TableInv, TableTypes
<1>3. mapped.count \in Nat /\ op.inserts \in Seq(Entry) /\ op.todo \in Seq(Entry) /\ synced.count \in Nat
  BY Parts
<1>4. c \in Nat /\ mapped.count <= c
  BY <1>3
<1>5. op.inserts # <<>> /\ (mode = "single" => c = mapped.count + 1)
  <2>1. op.inserts # <<>> /\ (mode = "single" => Len(op.todo) + Len(op.inserts) <= 1)
    BY <1>1 DEF TableInv, OpInv
  <2>2. mode = "single" => Len(op.inserts) = 1
    BY <2>1, OneInsert, Zenon
  <2> QED BY <2>1, <2>2
<1>6. Ahead = Len(op.inserts) /\ Linkable = IF mode = "single" THEN mapped.count + 1 ELSE mapped.count
  BY <1>1, <1>3 DEF Ahead, Linkable, SingleAt
<1>7. mapped.count + Ahead = c
  BY <1>6
<1>8. Linkable \in Nat /\ Linkable <= c
  <2> HIDE DEF c
  <2> QED BY <1>3, <1>4, <1>5, <1>6
<1>9. p \in {"link", "sync"} /\ (p = "link" => mode = "batch") /\ (mode = "single" => p = "sync")
  BY <1>2
<1> HIDE DEF c, p
<1>10. /\ mapped' \in Tables /\ mapped'.count = c /\ mapped'.heads = mapped.heads /\ mapped'.records = mapped.records
  BY <1>1, <1>2, <1>4 DEF Tables
<1>11. /\ op' \in Ops /\ op'.at = p /\ op'.todo = op.todo /\ op'.inserts = op.inserts /\ op'.staged = op.staged
  BY <1>1, <1>2, <1>9 DEF Ops
<1>12. Ahead' = 0 /\ ~SingleAt("count")' /\ ~SingleAt("link")'
  BY <1>1, <1>9, <1>11 DEF Ahead, SingleAt
<1>13. Linkable' = c
  BY <1>4, <1>10, <1>12 DEF Linkable
<1>14. TableTypes'
  BY <1>1, <1>10, <1>11 DEF TableInv, TableTypes
<1>15. ChainInv'
  <2>1. WellLinked(mapped, c) /\ c <= MaxRecords
    BY <1>7 DEF TableInv, ChainInv
  <2>2. HeadsLinked(mapped, c)
    <3>1. HeadsLinked(mapped, Linkable) /\ \A b \in Buckets : mapped.heads[b] \in Nat
      BY Parts DEF TableInv, ChainInv
    <3> QED BY <1>4, <1>8, <3>1 DEF HeadsLinked
  <2>3. WellLinked(mapped', c) /\ HeadsLinked(mapped', c)
    BY <1>10, <2>1, <2>2 DEF WellLinked, HeadsLinked, BucketOf
  <2> QED BY <1>4, <1>10, <1>12, <1>13, <2>1, <2>3 DEF ChainInv
<1>16. OpInv'
  <2>1. (mode = "single" => Len(op.todo) + Len(op.inserts) <= 1)'
    BY <1>1, <1>11, Zenon DEF TableInv, OpInv
  <2>2. (op.at = "link" => StagedWell)'
    <3> SUFFICES ASSUME p = "link" PROVE StagedWell'
      BY <1>11
    <3>1. StagedWell
      BY <1>1, <1>9 DEF TableInv, OpInv
    <3> QED BY <1>4, <1>7, <1>10, <1>11, <1>12, <3>1 DEF StagedWell, BucketOf
  <2> QED BY <1>5, <1>9, <1>11, <1>12, <2>1, <2>2 DEF OpInv
<1>17. DiskInv'
  <2>1. Stored = Len(op.inserts) /\ Stored' = 0
    BY <1>1, <1>9, <1>11, <1>12 DEF Stored, SingleAt
  <2>2. mapped.count + Stored = c /\ mapped'.count + Stored' = c
    BY <1>4, <1>6, <1>7, <1>10, <2>1
  <2>3. synced.count <= mapped.count /\ SameLinks(synced, mapped, c)
    BY <2>2 DEF TableInv, DiskInv
  <2>4. synced.count <= c
    BY <1>3, <1>4, <2>3
  <2>5. SameLinks(synced', mapped', mapped'.count + Stored')
    BY <1>1, <1>10, <2>2, <2>3 DEF SameLinks
  <2>6. HeadsLinked(synced', synced'.count)
    BY <1>1 DEF TableInv, DiskInv, HeadsLinked, BucketOf
  <2> QED BY <1>1, <1>10, <1>12, <2>4, <2>5, <2>6 DEF DiskInv
<1> QED BY <1>14, <1>15, <1>16, <1>17 DEF TableInv

\* A head is published only for a record that is written in its bucket.
LEMMA LinkOK == ASSUME TableInv, Link PROVE TableInv'
<1>1. PICK s \in op.staged :
        /\ mapped' = [mapped EXCEPT !.heads[s[1]] = s[2]]
        /\ op' = [op EXCEPT !.staged = op.staged \ {s},
                            !.at = IF op.staged \ {s} # {} THEN "link" ELSE IF mode = "batch" THEN "sync" ELSE "count"]
  BY DEF Link
<1>2. op.at = "link" /\ synced' = synced /\ mode' = mode
  BY DEF Link
<1>3. op \in Ops /\ mapped \in Tables /\ mode \in {"batch", "single"}
  BY DEF TableInv, TableTypes
<1>4. mapped.count \in Nat /\ Ahead \in Nat /\ op.inserts \in Seq(Entry) /\ \A x \in Buckets : mapped.heads[x] \in Nat
  BY Parts
<1> DEFINE p == IF op.staged \ {s} # {} THEN "link" ELSE IF mode = "batch" THEN "sync" ELSE "count"
           b == s[1]
           h == s[2]
<1>5. b \in Buckets /\ h \in Nat /\ h \in 1 .. mapped.count + Ahead /\ BucketOf(mapped, h) = b
  <2>1. StagedWell /\ s \in Buckets \X Nat
    BY <1>2, <1>3 DEF TableInv, OpInv, Ops
  <2> QED BY <2>1 DEF StagedWell
<1>6. op.inserts # <<>> /\ (mode = "single" => Len(op.inserts) = 1)
  <2>1. op.inserts # <<>>
    BY <1>2 DEF TableInv, OpInv
  <2> QED BY <2>1, OneInsert, Zenon
<1>7. mode = "single" => h = mapped.count + 1 /\ p = "count" /\ Ahead = 1
  <2> SUFFICES ASSUME mode = "single"
               PROVE  h = mapped.count + 1 /\ p = "count" /\ Ahead = 1
    OBVIOUS
  <2>0. SingleAt("link")
    BY <1>2 DEF SingleAt
  <2>1. PICK x \in Buckets : op.staged = {<<x, mapped.count + 1>>}
    BY <2>0 DEF TableInv, OpInv
  <2>2. s = <<x, mapped.count + 1>> /\ op.staged \ {s} = {}
    BY <2>1
  <2>3. Ahead = Len(op.inserts)
    BY <1>2, <2>0 DEF Ahead
  <2> QED BY <1>6, <2>2, <2>3
<1>8. mode = "batch" => p \in {"link", "sync"} /\ Ahead = 0
  BY <1>2 DEF Ahead, SingleAt
<1>9. op' = [op EXCEPT !.staged = op.staged \ {s}, !.at = p]
  BY <1>1
<1>10. mapped' = [mapped EXCEPT !.heads[b] = h]
  BY <1>1
<1> HIDE DEF p, b, h
<1>11. /\ op' \in Ops /\ op'.at = p /\ op'.todo = op.todo /\ op'.inserts = op.inserts /\ op'.staged = op.staged \ {s}
  <2>1. p \in {"link", "sync", "count"}
    BY <1>3, <1>7, <1>8
  <2> QED BY <1>3, <1>9, <2>1 DEF Ops
<1>12. /\ mapped' \in Tables /\ mapped'.count = mapped.count /\ mapped'.records = mapped.records
       /\ mapped'.heads = [mapped.heads EXCEPT ![b] = h]
  BY <1>3, <1>5, <1>10 DEF Tables
<1>13. Ahead' = Ahead
  <2>1. CASE mode = "single"
    BY <1>2, <1>6, <1>7, <1>11, <2>1 DEF Ahead, SingleAt
  <2>2. CASE mode = "batch"
    BY <1>2, <1>8, <1>11, <2>2 DEF Ahead, SingleAt
  <2> QED BY <1>3, <2>1, <2>2
<1>14. Linkable = mapped.count /\ Linkable' = mapped.count + Ahead
  <2>1. CASE mode = "single"
    BY <1>2, <1>4, <1>7, <1>11, <1>12, <2>1 DEF Linkable, SingleAt
  <2>2. CASE mode = "batch"
    BY <1>2, <1>4, <1>8, <1>11, <1>12, <2>2 DEF Linkable, SingleAt
  <2> QED BY <1>3, <2>1, <2>2
<1>15. TableTypes'
  BY <1>2, <1>11, <1>12 DEF TableInv, TableTypes
<1>16. ChainInv'
  <2>1. mapped.count + Ahead <= MaxRecords /\ WellLinked(mapped, mapped.count + Ahead) /\ HeadsLinked(mapped, mapped.count)
    BY <1>14 DEF TableInv, ChainInv
  <2>2. WellLinked(mapped', mapped.count + Ahead)
    BY <1>12, <2>1 DEF WellLinked, BucketOf
  <2>3. ASSUME NEW x \in Buckets
        PROVE  mapped'.heads[x] <= mapped.count + Ahead /\ (mapped'.heads[x] # 0 => BucketOf(mapped', mapped'.heads[x]) = x)
    <3>1. BucketOf(mapped', mapped'.heads[x]) = BucketOf(mapped, mapped'.heads[x])
      BY <1>12 DEF BucketOf
    <3>2. CASE x = b
      <4>1. mapped'.heads[x] = h
        BY <1>5, <1>12, <3>2, Parts
      <4>2. h <= mapped.count + Ahead
        BY <1>4, <1>5
      <4> QED BY <1>5, <3>1, <3>2, <4>1, <4>2
    <3>3. CASE x # b
      <4>1. mapped'.heads[x] = mapped.heads[x]
        BY <1>12, <3>3, Parts
      <4>2. mapped.heads[x] <= mapped.count /\ (mapped.heads[x] # 0 => BucketOf(mapped, mapped.heads[x]) = x)
        BY <2>1 DEF HeadsLinked
      <4>3. mapped.heads[x] <= mapped.count + Ahead
        BY <1>4, <4>2
      <4> QED BY <3>1, <4>1, <4>2, <4>3
    <3> QED BY <3>2, <3>3
  <2>4. HeadsLinked(mapped', mapped.count + Ahead)
    BY <2>3 DEF HeadsLinked
  <2> QED BY <1>12, <1>13, <1>14, <2>1, <2>2, <2>4 DEF ChainInv
<1>17. OpInv'
  <2>1. (mode = "single" => Len(op.todo) + Len(op.inserts) <= 1)'
    BY <1>2, <1>11, Zenon DEF TableInv, OpInv
  <2>2. StagedWell'
    <3>1. StagedWell
      BY <1>2 DEF TableInv, OpInv
    <3> QED BY <1>11, <1>12, <1>13, <3>1 DEF StagedWell, BucketOf
  <2>3. op'.at \in {"link", "sync", "count"} /\ ~SingleAt("link")'
    <3>1. CASE mode = "single"
      BY <1>2, <1>7, <1>11, <3>1 DEF SingleAt
    <3>2. CASE mode = "batch"
      BY <1>2, <1>8, <1>11, <3>2 DEF SingleAt
    <3> QED BY <1>3, <3>1, <3>2
  <2> QED BY <1>6, <1>11, <2>1, <2>2, <2>3 DEF OpInv
<1>18. DiskInv'
  <2>1. Stored' = Stored
    <3>1. CASE mode = "single"
      BY <1>2, <1>7, <1>11, <3>1 DEF Stored, SingleAt
    <3>2. CASE mode = "batch"
      BY <1>2, <1>8, <1>11, <3>2 DEF Stored, SingleAt
    <3> QED BY <1>3, <3>1, <3>2
  <2>2. SameLinks(synced', mapped', mapped'.count + Stored')
    BY <1>2, <1>12, <2>1 DEF TableInv, DiskInv, SameLinks
  <2>3. HeadsLinked(synced', synced'.count)
    BY <1>2 DEF TableInv, DiskInv, HeadsLinked, BucketOf
  <2>4. mode = "single" => mapped'.heads[b] = mapped.count + 1
    BY <1>5, <1>7, <1>12, Parts
  <2> QED BY <1>2, <1>5, <1>12, <2>2, <2>3, <2>4 DEF TableInv, DiskInv, SingleAt
<1> QED BY <1>15, <1>16, <1>17, <1>18 DEF TableInv

\* A sync makes the disk equal to the mapped file.
LEMMA SyncTableOK == ASSUME TableInv, SyncTable PROVE TableInv'
<1>1. op.at = "sync" /\ synced' = mapped /\ mapped' = mapped /\ mode' = mode
  BY DEF SyncTable
<1>2. op' \in Ops /\ op'.at = "idle" /\ op'.todo = <<>> /\ op'.inserts = <<>>
  <2>1. <<>> \in Seq(Entry)
    OBVIOUS
  <2> QED BY <2>1, CallType DEF SyncTable
<1>3. Ahead = 0 /\ Ahead' = 0 /\ Linkable = mapped.count /\ Linkable' = mapped.count
  BY <1>1, <1>2, Parts DEF Ahead, Linkable, SingleAt
<1>4. TableTypes'
  BY <1>1, <1>2 DEF TableInv, TableTypes
<1>5. ChainInv'
  BY <1>1, <1>3 DEF TableInv, ChainInv, WellLinked, HeadsLinked, BucketOf
<1>6. OpInv'
  <2>1. Len(op'.todo) = 0 /\ Len(op'.inserts) = 0
    BY <1>2
  <2> QED BY <1>2, <2>1 DEF OpInv, SingleAt
<1>7. DiskInv'
  <2>1. HeadsLinked(synced', synced'.count)
    BY <1>1, <1>3 DEF TableInv, ChainInv, HeadsLinked, BucketOf
  <2> QED BY <1>1, <1>2, <2>1, Parts DEF DiskInv, SameLinks, SingleAt
<1> QED BY <1>4, <1>5, <1>6, <1>7 DEF TableInv

\* The records that chains lead to.
LEMMA Reach ==
  ASSUME TableInv
  PROVE  /\ mapped \in Tables /\ Linkable \in Nat /\ Linkable <= mapped.count + Ahead
         /\ Linkable \in 0 .. MaxRecords /\ WellLinked(mapped, Linkable) /\ HeadsLinked(mapped, Linkable)
         /\ mapped.count + Ahead \in 0 .. MaxRecords /\ WellLinked(mapped, mapped.count + Ahead)
         /\ HeadsLinked(mapped, mapped.count + Ahead)
<1>1. mapped.count \in Nat /\ Ahead \in Nat /\ MaxRecords \in Nat /\ \A b \in Buckets : mapped.heads[b] \in Nat
  BY Parts
<1>2. Linkable \in Nat /\ Linkable <= mapped.count + Ahead
  <2>1. SingleAt("count") => Ahead >= 1
    BY <1>1, Parts DEF TableInv, OpInv, Ahead, SingleAt
  <2> QED BY <1>1, <2>1 DEF Linkable
<1>3. mapped.count + Ahead <= MaxRecords /\ WellLinked(mapped, mapped.count + Ahead) /\ HeadsLinked(mapped, Linkable)
  BY DEF TableInv, ChainInv
<1>4. WellLinked(mapped, Linkable)
  BY <1>1, <1>2, <1>3 DEF WellLinked
<1>5. HeadsLinked(mapped, mapped.count + Ahead)
  BY <1>1, <1>2, <1>3 DEF HeadsLinked
<1> QED BY <1>1, <1>2, <1>3, <1>4, <1>5 DEF TableInv, TableTypes

\* The disk holds every record that a chain leads to.
LEMMA DiskReach ==
  ASSUME TableInv
  PROVE  /\ synced \in Tables /\ mapped.count <= Linkable /\ synced.count <= Linkable
         /\ SameLinks(synced, mapped, Linkable)
         /\ WellLinked(synced, Linkable) /\ HeadsLinked(synced, Linkable)
<1>1. mapped.count \in Nat /\ synced.count \in Nat /\ Stored \in Nat /\ \A b \in Buckets : synced.heads[b] \in Nat
  BY Parts
<1>2. mapped \in Tables /\ synced \in Tables
  BY DEF TableInv, TableTypes
<1>3. Linkable \in 0 .. MaxRecords /\ Linkable \in Nat /\ WellLinked(mapped, Linkable)
  BY Reach
<1>4. mapped.count <= Linkable /\ Linkable <= mapped.count + Stored
  <2>1. SingleAt("count") => Stored >= 1
    BY <1>1, Parts DEF TableInv, OpInv, Stored, SingleAt
  <2> QED BY <1>1, <2>1 DEF Linkable
<1>5. /\ synced.count <= mapped.count /\ HeadsLinked(synced, synced.count)
      /\ SameLinks(synced, mapped, mapped.count + Stored)
  BY DEF TableInv, DiskInv
<1>6. SameLinks(synced, mapped, Linkable)
  BY <1>1, <1>3, <1>4, <1>5 DEF SameLinks
<1>7. synced.count <= Linkable
  BY <1>1, <1>3, <1>4, <1>5
<1>8. HeadsLinked(synced, Linkable)
  BY <1>1, <1>3, <1>5, <1>7 DEF HeadsLinked
<1>9. WellLinked(synced, Linkable)
  BY <1>2, <1>3, <1>6, SameChains
<1> QED BY <1>2, <1>4, <1>6, <1>7, <1>8, <1>9

\* A power loss mixes what was mapped and what was synced, place by place.
LEMMA LossIs ==
  ASSUME TableInv, PowerLoss
  PROVE  /\ mapped' \in Tables /\ mapped'.count \in {mapped.count, synced.count}
         /\ \A b \in Buckets : mapped'.heads[b] = mapped.heads[b] \/ mapped'.heads[b] = synced.heads[b]
         /\ \A i \in 1 .. MaxRecords : mapped'.records[i] = mapped.records[i] \/ mapped'.records[i] = synced.records[i]
<1>1. PICK c \in {mapped.count, synced.count},
           kept \in SUBSET {b \in Buckets : mapped.heads[b] # synced.heads[b]},
           lost \in SUBSET {i \in 1 .. MaxRecords : mapped.records[i] # synced.records[i]} :
        mapped' = [count |-> c,
                   heads |-> [b \in Buckets |-> IF b \in kept THEN mapped.heads[b] ELSE synced.heads[b]],
                   records |-> [i \in 1 .. MaxRecords |->
                                  IF i \in lost THEN synced.records[i] ELSE mapped.records[i]]]
  BY DEF PowerLoss
<1>2. /\ mapped'.count = c
      /\ mapped'.heads = [b \in Buckets |-> IF b \in kept THEN mapped.heads[b] ELSE synced.heads[b]]
      /\ mapped'.records = [i \in 1 .. MaxRecords |-> IF i \in lost THEN synced.records[i] ELSE mapped.records[i]]
  BY <1>1
<1>3. /\ mapped'.heads \in [Buckets -> Nat]
      /\ mapped'.records \in [1 .. MaxRecords -> [key : Keys \cup {NoKey}, next : Nat, payload : Nat]]
  <2> DEFINE R == [key : Keys \cup {NoKey}, next : Nat, payload : Nat]
  <2>1. /\ mapped.heads \in [Buckets -> Nat] /\ synced.heads \in [Buckets -> Nat]
        /\ mapped.records \in [1 .. MaxRecords -> R] /\ synced.records \in [1 .. MaxRecords -> R]
    BY Parts
  <2> HIDE DEF R
  <2>2. mapped'.heads \in [Buckets -> Nat]
    BY <1>2, <2>1
  <2>3. mapped'.records \in [1 .. MaxRecords -> R]
    <3>1. \A i \in 1 .. MaxRecords : mapped.records[i] \in R /\ synced.records[i] \in R
      BY <2>1
    <3> QED BY <1>2, <3>1
  <2> QED BY <2>2, <2>3 DEF R
<1>4. mapped' = [count |-> mapped'.count, heads |-> mapped'.heads, records |-> mapped'.records]
  BY <1>1
<1>5. mapped' \in Tables
  BY <1>2, <1>3, <1>4, Parts DEF Tables
<1> QED BY <1>2, <1>5

\* Any mix of old and new pages in which the count covers the heads is well
\* linked.
LEMMA PowerLossOK == ASSUME TableInv, ~Torn, PowerLoss PROVE TableInv'
<1> DEFINE c == mapped'.count
<1>1. synced' = mapped' /\ op' = Idle /\ mode' = mode /\ \A b \in Buckets : mapped'.heads[b] <= c
  BY DEF PowerLoss, Covered
<1>2. mapped' \in Tables /\ mapped \in Tables /\ synced \in Tables /\ \A b \in Buckets : mapped'.heads[b] \in Nat
  BY LossIs DEF TableInv, TableTypes, Tables
<1>3. c \in 0 .. MaxRecords /\ c \in Nat /\ c <= Linkable /\ Linkable \in 0 .. MaxRecords
  <2>1. Linkable \in 0 .. MaxRecords /\ mapped.count <= Linkable /\ synced.count <= Linkable
    BY Reach, DiskReach
  <2>2. c \in {mapped.count, synced.count}
    BY LossIs
  <2> HIDE DEF c
  <2> QED BY <2>1, <2>2, Parts
<1>4. \A i \in 1 .. Linkable : i \in 1 .. MaxRecords
  BY <1>3, RoomIsNat
<1>5. SameLinks(mapped', mapped, Linkable) /\ SameLinks(mapped', synced, Linkable)
  <2>1. SameLinks(synced, mapped, Linkable)
    BY DiskReach
  <2>2. \A i \in 1 .. MaxRecords : mapped'.records[i] = mapped.records[i] \/ mapped'.records[i] = synced.records[i]
    BY LossIs
  <2> QED BY <1>4, <2>1, <2>2 DEF SameLinks
<1>6. WellLinked(mapped', c)
  <2>1. WellLinked(mapped', Linkable)
    BY <1>2, <1>3, <1>5, Reach, SameChains
  <2> HIDE DEF c
  <2> QED BY <1>3, <2>1, RoomIsNat DEF WellLinked
<1>7. ASSUME NEW b \in Buckets PROVE mapped'.heads[b] # 0 => BucketOf(mapped', mapped'.heads[b]) = b
  <2>1. CASE mapped'.heads[b] = mapped.heads[b]
    <3>1. mapped.heads[b] <= Linkable /\ (mapped.heads[b] # 0 => BucketOf(mapped, mapped.heads[b]) = b)
      BY Reach DEF HeadsLinked
    <3> QED BY <1>2, <1>3, <1>5, <2>1, <3>1, SameChains
  <2>2. CASE mapped'.heads[b] = synced.heads[b]
    <3>1. synced.heads[b] <= Linkable /\ (synced.heads[b] # 0 => BucketOf(synced, synced.heads[b]) = b)
      BY DiskReach DEF HeadsLinked
    <3> QED BY <1>2, <1>3, <1>5, <2>2, <3>1, SameChains
  <2> QED BY <2>1, <2>2, LossIs
<1>8. HeadsLinked(mapped', c)
  BY <1>1, <1>7 DEF HeadsLinked
<1>9. op' \in Ops /\ op'.at = "idle" /\ op'.todo = <<>> /\ op'.inserts = <<>>
  <2>1. <<>> \in Seq(Entry)
    OBVIOUS
  <2> QED BY <1>1, <2>1, CallType
<1>10. Ahead' = 0 /\ Linkable' = c /\ Stored' = 0 /\ ~SingleAt("count")'
  <2>1. Ahead' = 0 /\ Stored' = 0 /\ ~SingleAt("count")'
    BY <1>9 DEF Ahead, Stored, SingleAt
  <2> QED BY <1>3, <2>1 DEF Linkable
<1>11. TableTypes'
  BY <1>1, <1>2, <1>9 DEF TableInv, TableTypes
<1>12. ChainInv'
  BY <1>3, <1>6, <1>8, <1>10, RoomIsNat DEF ChainInv
<1>13. OpInv'
  <2>1. Len(op'.todo) = 0 /\ Len(op'.inserts) = 0
    BY <1>9
  <2> QED BY <1>9, <2>1 DEF OpInv, SingleAt
<1>14. DiskInv'
  <2>1. HeadsLinked(synced', synced'.count)
    BY <1>1, <1>8 DEF HeadsLinked, BucketOf
  <2>2. synced'.count <= mapped'.count
    BY <1>1, <1>3
  <2> QED BY <1>1, <1>10, <2>1, <2>2 DEF DiskInv, SameLinks
<1> QED BY <1>11, <1>12, <1>13, <1>14 DEF TableInv

\* A new file.
LEMMA TableStarts == ASSUME Init PROVE TableInv
<1>1. <<>> \in Seq(Entry) /\ MaxRecords \in Nat
  BY RoomIsNat
<1>2. op \in Ops /\ op.at = "idle" /\ op.todo = <<>> /\ op.inserts = <<>>
  BY <1>1, CallType DEF Init
<1>3. Fresh \in Tables /\ Fresh.count = 0 /\ \A b \in Buckets : Fresh.heads[b] = 0
  BY <1>1 DEF Fresh, Blank, Tables
<1>4. mapped = Fresh /\ synced = Fresh
  BY DEF Init
<1>5. TableTypes
  BY <1>2, <1>3, <1>4, TableAssumption DEF Init, TableTypes
<1>6. Ahead = 0 /\ Linkable = 0
  BY <1>2, <1>3, <1>4 DEF Ahead, Linkable, SingleAt
<1>7. ChainInv
  BY <1>1, <1>3, <1>4, <1>6 DEF ChainInv, WellLinked, HeadsLinked
<1>8. OpInv
  <2>1. Len(op.todo) = 0 /\ Len(op.inserts) = 0
    BY <1>2
  <2> QED BY <1>2, <2>1 DEF OpInv, SingleAt
<1>9. DiskInv
  BY <1>2, <1>3, <1>4 DEF DiskInv, HeadsLinked, SameLinks, SingleAt
<1> QED BY <1>5, <1>7, <1>8, <1>9 DEF TableInv

\* As long as no crash leaves a head without its count, no sequence of
\* inserts, updates, sweeps, kills and power losses at any point of a call
\* ties a chain of tables.rs into a loop, leads it out of the allocated
\* records, or into another bucket: every reader's walk ends.
THEOREM ChainsAreSound ==
  ASSUME ~Torn
  PROVE  Spec => []ChainsSound
<1>1. Init => TableInv
  BY TableStarts
<1>2. TableInv /\ [Next]_vars => TableInv'
  <2> SUFFICES ASSUME TableInv, [Next]_vars PROVE TableInv'
    OBVIOUS
  <2>1. ASSUME NEW es \in Entries, Publish(es) PROVE TableInv'
    BY <2>1, PublishOK
  <2>2. ASSUME NEW fork \in 0 .. MaxPayload, Sweep(fork) PROVE TableInv'
    BY <2>2, SweepOK
  <2>3. CASE UNCHANGED vars
    BY <2>3 DEF vars, TableInv, TableTypes, ChainInv, OpInv, DiskInv, StagedWell, WellLinked, HeadsLinked,
                SameLinks, BucketOf, SingleAt, Ahead, Linkable, Stored
  <2>4. CASE Kill
    BY <2>4, KillOK
  <2>5. CASE PowerLoss
    BY <2>5, PowerLossOK
  <2> QED BY <2>1, <2>2, <2>3, <2>4, <2>5, FindOrUpdateOK, FoundOK, WriteRecordOK, SyncRecordsOK,
             PublishCountOK, LinkOK, SyncTableOK DEF Next
<1>3. TableInv => ChainsSound
  BY InvSound
<1> QED BY <1>1, <1>2, <1>3, PTL DEF Spec


-----------------------------------------------------------------------------
(* Lookups: what a walk from each record finds.                            *)

\* g tells for each of the first n records what a walk from it finds.
Finder(g, t, k, n) ==
  \A i \in 0 .. n : g[i] = IF i = 0 THEN 0 ELSE IF t.records[i].key = k THEN i ELSE g[t.records[i].next]

Finders(t, k, n) == {g \in [0 .. n -> 0 .. n] : Finder(g, t, k, n) /\ \A i \in 0 .. n : g[i] # 0 => t.records[g[i]].key = k}

\* Links go down, so walks find something or end.
LEMMA FinderExists ==
  ASSUME NEW t \in Tables, NEW N \in 0 .. MaxRecords, WellLinked(t, N), NEW k
  PROVE  \E g : g \in Finders(t, k, N)
<1> DEFINE G == {m \in Nat : m <= N => \E g : g \in Finders(t, k, m)}
<1>1. N \in Nat /\ MaxRecords \in Nat
  BY RoomIsNat
<1>2. \A i \in 1 .. N : t.records[i].next \in Nat /\ t.records[i].next < i
  BY <1>1 DEF WellLinked, Tables
<1>3. 0 \in G
  <2> DEFINE g == [i \in 0 .. 0 |-> 0]
  <2>1. g \in Finders(t, k, 0)
    BY DEF Finders, Finder
  <2> QED BY <2>1
<1>4. ASSUME NEW m \in G PROVE m + 1 \in G
  <2> SUFFICES ASSUME m + 1 <= N PROVE \E h : h \in Finders(t, k, m + 1)
    BY <1>1
  <2>1. m \in Nat /\ m <= N /\ m + 1 \in 1 .. N
    BY <1>1
  <2>2. PICK g : g \in Finders(t, k, m)
    BY <2>1
  <2>3. /\ g \in [0 .. m -> 0 .. m]
        /\ \A i \in 0 .. m : g[i] = IF i = 0 THEN 0 ELSE IF t.records[i].key = k THEN i ELSE g[t.records[i].next]
        /\ \A i \in 0 .. m : g[i] # 0 => t.records[g[i]].key = k
    BY <2>2, Zenon DEF Finders, Finder
  <2> DEFINE x == IF t.records[m + 1].key = k THEN m + 1 ELSE g[t.records[m + 1].next]
             h == [i \in 0 .. m + 1 |-> IF i = m + 1 THEN x ELSE g[i]]
  <2>4. t.records[m + 1].next \in 0 .. m
    BY <1>2, <2>1
  <2>5. x \in 0 .. m + 1 /\ (x # 0 => t.records[x].key = k)
    <3>1. CASE t.records[m + 1].key = k
      BY <2>1, <3>1
    <3>2. CASE t.records[m + 1].key # k
      <4>1. x = g[t.records[m + 1].next]
        BY <3>2
      <4>2. x \in 0 .. m
        BY <2>3, <2>4, <4>1
      <4>3. x # 0 => t.records[x].key = k
        <5> HIDE DEF x
        <5> QED BY <2>3, <2>4, <4>1
      <4> HIDE DEF x
      <4> QED BY <2>1, <4>2, <4>3
    <3> QED BY <3>1, <3>2
  <2>6. \A i \in 0 .. m : h[i] = g[i] /\ g[i] \in 0 .. m + 1
    BY <2>1, <2>3
  <2>7. h[m + 1] = x
    BY <2>1
  <2>8. h \in [0 .. m + 1 -> 0 .. m + 1]
    <3> HIDE DEF x
    <3> QED BY <2>1, <2>3, <2>5
  <2> HIDE DEF h
  <2>9. ASSUME NEW i \in 0 .. m + 1
        PROVE  /\ h[i] = IF i = 0 THEN 0 ELSE IF t.records[i].key = k THEN i ELSE h[t.records[i].next]
               /\ h[i] # 0 => t.records[h[i]].key = k
    <3>1. CASE i = m + 1
      BY <2>1, <2>4, <2>5, <2>6, <2>7, <3>1
    <3>2. CASE i # m + 1
      <4>1. i \in 0 .. m
        BY <2>1, <3>2
      <4>2. i # 0 => t.records[i].next \in 0 .. m
        BY <1>2, <2>1, <4>1
      <4> QED BY <2>3, <2>6, <4>1, <4>2
    <3> QED BY <3>1, <3>2
  <2> QED BY <2>8, <2>9, Zenon DEF Finders, Finder
<1>5. G = Nat
  <2>1. G \subseteq Nat
    OBVIOUS
  <2> HIDE DEF G
  <2> QED BY <1>3, <1>4, <2>1, AllNaturals
<1> QED BY <1>1, <1>5

\* find is the walk from the bucket's head.
LEMMA FindIs ==
  ASSUME NEW t \in Tables, NEW N \in 0 .. MaxRecords, WellLinked(t, N), HeadsLinked(t, N),
         NEW k \in Keys, NEW g, Finder(g, t, k, N)
  PROVE  find(t, k) = g[t.heads[Bucket[k]]]
<1> DEFINE b == Bucket[k]
           w == Walk(t, b)
           hits == {n \in 0 .. MaxRecords : w[n] # 0 /\ t.records[w[n]].key = k}
           G == {n \in Nat : n <= MaxRecords /\ (\A m \in hits : n <= m) => g[w[n]] = g[w[0]]}
<1>1. \A n \in 0 .. MaxRecords : w[n] = IF n = 0 THEN t.heads[b]
                                        ELSE IF w[n - 1] = 0 THEN 0 ELSE t.records[w[n - 1]].next
  <2>1. Follows(w, t, b)
    BY WalkIsDefined
  <2> HIDE DEF w
  <2> QED BY <2>1, Zenon DEF Follows
<1>2. w[MaxRecords] = 0 /\ \A n \in 0 .. MaxRecords : w[n] # 0 => w[n] \in 1 .. N
  <2>1. b \in Buckets
    BY DEF Buckets
  <2> QED BY <2>1, WalkIsSound
<1>3. MaxRecords \in Nat /\ N \in Nat
  BY RoomIsNat
<1>4. find(t, k) = IF hits = {} THEN 0 ELSE w[CHOOSE n \in hits : \A x \in hits : n <= x]
  BY DEF find
<1>5. g[0] = 0 /\ \A i \in 1 .. N : g[i] = IF t.records[i].key = k THEN i ELSE g[t.records[i].next]
  BY <1>3 DEF Finder
<1>0. w[0] = t.heads[b]
  BY <1>1, <1>3
<1> HIDE DEF w
<1>6. 0 \in G
  OBVIOUS
<1>7. ASSUME NEW n \in G PROVE n + 1 \in G
  <2> SUFFICES ASSUME n + 1 <= MaxRecords, \A m \in hits : n + 1 <= m PROVE g[w[n + 1]] = g[w[0]]
    OBVIOUS
  <2>1. n \in 0 .. MaxRecords /\ n + 1 \in 0 .. MaxRecords /\ n + 1 # 0 /\ (n + 1) - 1 = n
    BY <1>3
  <2>2. g[w[n]] = g[w[0]]
    BY <2>1
  <2>3. n \notin hits
    BY <2>1
  <2>4. w[n + 1] = IF w[n] = 0 THEN 0 ELSE t.records[w[n]].next
    BY <1>1, <2>1
  <2>5. w[n] # 0 => g[w[n]] = g[t.records[w[n]].next]
    BY <1>2, <1>5, <2>1, <2>3
  <2> QED BY <2>2, <2>4, <2>5
<1>8. G = Nat
  <2>1. G \subseteq Nat
    OBVIOUS
  <2> HIDE DEF G
  <2> QED BY <1>6, <1>7, <2>1, AllNaturals
<1>9. CASE hits = {}
  <2>1. g[w[MaxRecords]] = g[w[0]]
    BY <1>3, <1>8, <1>9
  <2> QED BY <1>0, <1>2, <1>4, <1>5, <1>9, <2>1
<1>10. CASE hits # {}
  <2>0. hits \subseteq Nat
    BY <1>3
  <2>1. \E n \in hits : \A x \in hits : n <= x
    BY <1>10, <2>0, LeastOf
  <2> DEFINE n == CHOOSE x \in hits : \A y \in hits : x <= y
  <2>2. n \in hits /\ \A x \in hits : n <= x
    <3> HIDE DEF hits
    <3> QED BY <2>1, Zenon
  <2>3. find(t, k) = w[n]
    BY <1>4, <1>10
  <2> HIDE DEF n
  <2>4. n \in 0 .. MaxRecords /\ w[n] # 0 /\ t.records[w[n]].key = k
    BY <2>2
  <2>5. g[w[n]] = g[w[0]]
    BY <1>3, <1>8, <2>2, <2>4
  <2>6. g[w[n]] = w[n]
    BY <1>2, <1>5, <2>4
  <2> QED BY <1>0, <2>3, <2>5, <2>6
<1> QED BY <1>9, <1>10

\* What find returns is a record of the key.
LEMMA FindFinds ==
  ASSUME NEW t \in Tables, NEW N \in 0 .. MaxRecords, WellLinked(t, N), HeadsLinked(t, N), NEW k \in Keys
  PROVE  find(t, k) \in 0 .. N /\ (find(t, k) # 0 => t.records[find(t, k)].key = k)
<1>1. PICK g : g \in Finders(t, k, N)
  BY FinderExists
<1>2. /\ g \in [0 .. N -> 0 .. N] /\ Finder(g, t, k, N)
      /\ \A i \in 0 .. N : g[i] # 0 => t.records[g[i]].key = k
  BY <1>1 DEF Finders
<1>3. find(t, k) = g[t.heads[Bucket[k]]]
  BY <1>2, FindIs
<1>4. t.heads[Bucket[k]] \in 0 .. N
  <2>1. Bucket[k] \in Buckets /\ N \in Nat
    BY RoomIsNat DEF Buckets
  <2> QED BY <2>1 DEF HeadsLinked, Tables
<1> QED BY <1>2, <1>3, <1>4

\* Two tables whose chains agree find the same record in a bucket whose head
\* they share.
LEMMA FindSame ==
  ASSUME NEW t \in Tables, NEW u \in Tables, NEW N \in 0 .. MaxRecords,
         WellLinked(t, N), HeadsLinked(t, N), HeadsLinked(u, N), SameLinks(u, t, N),
         NEW k \in Keys, u.heads[Bucket[k]] = t.heads[Bucket[k]]
  PROVE  find(u, k) = find(t, k)
<1>1. PICK g : g \in Finders(t, k, N)
  BY FinderExists
<1>2. Finder(g, t, k, N)
  BY <1>1 DEF Finders
<1>3. Finder(g, u, k, N)
  <2>1. \A i \in 0 .. N : i # 0 => i \in 1 .. N
    BY RoomIsNat
  <2> QED BY <1>2, <2>1 DEF Finder, SameLinks
<1>4. WellLinked(u, N)
  BY SameChains
<1> QED BY <1>2, <1>3, <1>4, FindIs

-----------------------------------------------------------------------------
(* A batch: its records thread a chain per bucket on top of the published  *)
(* one, and a head links the whole chain at once.                          *)

Lane(ins, i) == Bucket[ins[i].key]

\* Record base + i carries the i-th insert and links to the one of its bucket
\* before it.
Threaded(t, ins, base, i) ==
  /\ t.records[base + i].key = ins[i].key /\ t.records[base + i].payload = ins[i].payload
  /\ \A x \in 1 .. i - 1 : Lane(ins, x) = Lane(ins, i) =>
       \E y \in x .. i - 1 : Lane(ins, y) = Lane(ins, i) /\ t.records[base + i].next = base + y

\* The first insert of a bucket links to the published head.
Bottomed(t, ins, base, i) ==
  (\A x \in 1 .. i - 1 : Lane(ins, x) # Lane(ins, i)) => t.records[base + i].next = t.heads[Lane(ins, i)]

Lasts(ins, i) == \A y \in 1 .. Len(ins) : Lane(ins, y) = Lane(ins, i) => y <= i

Distinct(s) == \A i, j \in 1 .. Len(s) : s[i].key = s[j].key => i = j

\* Over the same records one finder serves every set of heads.
LEMMA SameRecords ==
  ASSUME NEW t \in Tables, NEW u \in Tables, NEW N \in 0 .. MaxRecords, WellLinked(t, N),
         HeadsLinked(t, N), HeadsLinked(u, N), u.records = t.records, NEW k \in Keys
  PROVE  \E g : Finder(g, t, k, N) /\ find(t, k) = g[t.heads[Bucket[k]]] /\ find(u, k) = g[u.heads[Bucket[k]]]
<1>1. PICK g : g \in Finders(t, k, N)
  BY FinderExists
<1>2. Finder(g, t, k, N)
  BY <1>1 DEF Finders
<1>3. Finder(g, u, k, N) /\ WellLinked(u, N)
  BY <1>2 DEF Finder, WellLinked, BucketOf
<1>4. find(t, k) = g[t.heads[Bucket[k]]]
  BY <1>2, FindIs
<1>5. find(u, k) = g[u.heads[Bucket[k]]]
  BY <1>3, FindIs
<1> QED BY <1>2, <1>4, <1>5

\* Linking a bucket's chain brings in its inserts and hides nothing.
LEMMA LinkLookup ==
  ASSUME NEW t \in Tables, NEW u \in Tables, NEW N \in 0 .. MaxRecords,
         WellLinked(t, N), HeadsLinked(t, N), HeadsLinked(u, N), u.records = t.records,
         NEW ins \in Seq(Entry), Distinct(ins), NEW base \in Nat, base + Len(ins) <= N,
         NEW z \in 1 .. Len(ins), Lasts(ins, z),
         \A i \in 1 .. Len(ins) : Threaded(t, ins, base, i),
         \A i \in 1 .. Len(ins) : Lane(ins, i) = Lane(ins, z) => Bottomed(t, ins, base, i),
         u.heads[Lane(ins, z)] = base + z,
         \A x \in Buckets : x # Lane(ins, z) => u.heads[x] = t.heads[x], NEW k \in Keys
  PROVE  /\ (\A i \in 1 .. Len(ins) : ins[i].key # k) \/ Bucket[k] # Lane(ins, z) => Lookup(u, k) = Lookup(t, k)
         /\ \A i \in 1 .. Len(ins) : ins[i].key = k /\ Bucket[k] = Lane(ins, z) => Lookup(u, k) = ins[i].payload
<1> DEFINE b == Lane(ins, z)
           L == Len(ins)
<1>1. PICK g : Finder(g, t, k, N) /\ find(t, k) = g[t.heads[Bucket[k]]] /\ find(u, k) = g[u.heads[Bucket[k]]]
  BY SameRecords
<1>3. find(t, k) = g[t.heads[Bucket[k]]] /\ find(u, k) = g[u.heads[Bucket[k]]]
  BY <1>1
<1>4. Bucket[k] \in Buckets /\ b \in Buckets
  <2>1. ins[z] \in Entry
    OBVIOUS
  <2> QED BY <2>1 DEF Buckets, Lane, Entry
<1>5. u.heads[b] = base + z /\ \A x \in Buckets : x # b => u.heads[x] = t.heads[x]
  OBVIOUS
<1>6. L \in Nat /\ N \in Nat /\ MaxRecords \in Nat /\ base \in Nat /\ base + L <= N
  BY RoomIsNat
<1>7. \A i \in 1 .. L : g[base + i] = IF t.records[base + i].key = k THEN base + i ELSE g[t.records[base + i].next]
  <2> HIDE DEF L
  <2>1. \A i \in 1 .. L : base + i \in 0 .. N /\ base + i # 0
    BY <1>6
  <2> QED BY <1>1, <2>1 DEF Finder
<1>8. \A i \in 1 .. L : t.records[base + i].key = ins[i].key /\ t.records[base + i].payload = ins[i].payload
  BY DEF Threaded
<1> HIDE DEF L, b
<1>9. ASSUME Bucket[k] # b PROVE Lookup(u, k) = Lookup(t, k)
  BY <1>3, <1>4, <1>5, <1>9 DEF Lookup, Held
<1>10. ASSUME \A i \in 1 .. L : ins[i].key # k, Bucket[k] = b PROVE Lookup(u, k) = Lookup(t, k)
  <2> DEFINE Bad == {i \in 1 .. L : Lane(ins, i) = b /\ g[base + i] # g[t.heads[b]]}
  <2>1. Bad = {}
    <3> SUFFICES ASSUME Bad # {} PROVE FALSE
      OBVIOUS
    <3>1. Bad \subseteq Nat
      BY <1>6
    <3>2. PICK i \in Bad : \A j \in Bad : i <= j
      <4> HIDE DEF Bad
      <4> QED BY <3>1, LeastOf
    <3>3. i \in 1 .. L /\ Lane(ins, i) = b /\ g[base + i] # g[t.heads[b]]
      OBVIOUS
    <3>4. g[base + i] = g[t.records[base + i].next]
      BY <1>7, <1>8, <1>10, <3>3
    <3>5. CASE \A x \in 1 .. i - 1 : Lane(ins, x) # Lane(ins, i)
      <4>1. Bottomed(t, ins, base, i)
        BY <3>3 DEF L, b
      <4>2. t.records[base + i].next = t.heads[b]
        BY <3>3, <3>5, <4>1 DEF Bottomed
      <4> QED BY <3>3, <3>4, <4>2
    <3>6. CASE \E x \in 1 .. i - 1 : Lane(ins, x) = Lane(ins, i)
      <4>1. PICK x \in 1 .. i - 1 : Lane(ins, x) = Lane(ins, i)
        BY <3>6
      <4>2. Threaded(t, ins, base, i)
        BY <3>3 DEF L
      <4>3. PICK y \in x .. i - 1 : Lane(ins, y) = Lane(ins, i) /\ t.records[base + i].next = base + y
        BY <4>1, <4>2 DEF Threaded
      <4>4. y \in 1 .. L /\ y < i
        BY <1>6, <3>3
      <4>5. y \notin Bad
        BY <3>1, <3>2, <3>3, <4>4
      <4>6. g[base + y] = g[t.heads[b]]
        BY <3>3, <4>3, <4>4, <4>5
      <4> QED BY <3>3, <3>4, <4>3, <4>6
    <3> QED BY <3>5, <3>6
  <2>2. z \in 1 .. L /\ Lane(ins, z) = b
    BY DEF L, b
  <2>3. g[base + z] = g[t.heads[b]]
    BY <2>1, <2>2
  <2>4. find(u, k) = find(t, k)
    BY <1>3, <1>5, <1>10, <2>3
  <2> QED BY <2>4 DEF Lookup, Held
<1>11. ASSUME NEW n \in 1 .. L, ins[n].key = k, Bucket[k] = b PROVE Lookup(u, k) = ins[n].payload
  <2>0. Lane(ins, n) = b
    BY <1>11 DEF Lane
  <2> DEFINE Bad == {i \in 1 .. L : n <= i /\ Lane(ins, i) = b /\ g[base + i] # base + n}
  <2>1. Bad = {}
    <3> SUFFICES ASSUME Bad # {} PROVE FALSE
      OBVIOUS
    <3>1. Bad \subseteq Nat
      BY <1>6
    <3>2. PICK i \in Bad : \A j \in Bad : i <= j
      <4> HIDE DEF Bad
      <4> QED BY <3>1, LeastOf
    <3>3. i \in 1 .. L /\ Lane(ins, i) = b /\ g[base + i] # base + n /\ n <= i
      OBVIOUS
    <3>4. i # n
      BY <1>7, <1>8, <1>11, <3>3
    <3>5. ins[i].key # k
      BY <1>11, <3>3, <3>4 DEF Distinct, L
    <3>6. g[base + i] = g[t.records[base + i].next]
      BY <1>7, <1>8, <3>3, <3>5
    <3>7. n \in 1 .. i - 1
      <4> HIDE DEF Bad
      <4>1. i \in Nat /\ n \in Nat /\ 1 <= n /\ n <= i
        BY <1>6, <3>3
      <4> QED BY <3>4, <4>1
    <3>8. Threaded(t, ins, base, i)
      BY <3>3 DEF L
    <3>9. PICK y \in n .. i - 1 : Lane(ins, y) = Lane(ins, i) /\ t.records[base + i].next = base + y
      BY <2>0, <3>3, <3>7, <3>8 DEF Threaded
    <3>10. y \in 1 .. L /\ y < i /\ n <= y
      <4> HIDE DEF Bad
      <4>1. i \in Nat /\ n \in Nat /\ 1 <= n /\ i <= L
        BY <1>6, <3>3
      <4> QED BY <1>6, <4>1
    <3>11. y \notin Bad
      <4> HIDE DEF Bad
      <4>1. i \in Nat /\ y \in Nat
        BY <1>6, <3>3, <3>10
      <4>2. y \in Bad => i <= y
        BY <3>2
      <4> QED BY <3>10, <4>1, <4>2
    <3>12. g[base + y] = base + n
      BY <3>3, <3>9, <3>10, <3>11
    <3> QED BY <3>3, <3>6, <3>9, <3>12
  <2>2. z \in 1 .. L /\ Lane(ins, z) = b /\ n <= z
    BY <2>0 DEF L, b, Lasts
  <2>3. g[base + z] = base + n
    BY <2>1, <2>2
  <2>4. find(u, k) = base + n /\ base + n # 0
    BY <1>3, <1>5, <1>6, <1>11, <2>3
  <2>5. u.records[base + n].payload = ins[n].payload
    BY <1>8
  <2> QED BY <2>4, <2>5 DEF Lookup, Held
<1> QED BY <1>9, <1>10, <1>11 DEF L, b

-----------------------------------------------------------------------------
(* What the call under way knows of its entries.                           *)

\* Where the records of the call begin, how many of them are written, and
\* the buckets whose head does not lead to them yet.
Base == IF mode = "batch" /\ op.at = "link" THEN mapped.count - Len(op.inserts) ELSE mapped.count
Filled == IF op.at = "write" THEN op.written ELSE IF op.at \in {"count", "link"} THEN Len(op.inserts) ELSE 0
Unlinked(b) ==
  \/ op.at = "write" \/ (op.at = "count" /\ mode = "batch")
  \/ op.at = "link" /\ \E s \in op.staged : s[1] = b

ThreadInv ==
  /\ Base \in Nat
  /\ \A i \in 1 .. Filled : /\ Threaded(mapped, op.inserts, Base, i)
                            /\ Unlinked(Lane(op.inserts, i)) => Bottomed(mapped, op.inserts, Base, i)

\* A staged head is the last record of its bucket, and each bucket has one.
Tops(staged, ins, base) ==
  \A s \in staged : \E i \in 1 .. Len(ins) : Lasts(ins, i) /\ s = <<Lane(ins, i), base + i>>
StageInv ==
  /\ op.at = "link" \/ (op.at = "count" /\ mode = "batch") => Tops(op.staged, op.inserts, Base)
  /\ op.at = "count" /\ mode = "batch" =>
       \A i \in 1 .. Len(op.inserts) : \E s \in op.staged : s[1] = Lane(op.inserts, i)

\* A call holds a key once: to do, to insert, or done.
CallInv ==
  /\ Distinct(op.entries) /\ Distinct(op.todo) /\ Distinct(op.inserts)
  /\ ToSet(op.todo) \subseteq ToSet(op.entries) /\ ToSet(op.inserts) \subseteq ToSet(op.entries)
  /\ \A i \in 1 .. Len(op.todo), j \in 1 .. Len(op.inserts) : op.todo[i].key # op.inserts[j].key
  /\ op.at # "find" => op.todo = <<>>

\* An entry is found with its payload, or the call still has to bring it in.
Landed(t, e) == Lookup(t, e.key) = e.payload \/ (e.payload = 0 /\ Lookup(t, e.key) = Absent)
Pending(e) == \E i \in 1 .. Len(op.inserts) : op.inserts[i] = e /\ (op.at = "find" \/ Unlinked(Lane(op.inserts, i)))
Settled == \A e \in ToSet(op.entries) : e \in ToSet(op.todo) \/ Landed(mapped, e) \/ Pending(e)

LookupInv == ThreadInv /\ StageInv /\ CallInv /\ Settled

\* A lookup may move by a call that has its key, or by a crash to what
\* was mapped or synced.
MovesOf(k) ==
  \/ Lookup(mapped', k) = Lookup(mapped, k)
  \/ \E e \in ToSet(op.entries) : e.key = k
  \/ crashes' # crashes /\ \E t, u \in {mapped, synced} : Lookup(mapped', k) = Held(u, find(t, k))

\* What is written past the chains is invisible.
LEMMA LookupFrame ==
  ASSUME TableInv, mapped' \in Tables, mapped'.heads = mapped.heads,
         \A i \in 1 .. Linkable : mapped'.records[i] = mapped.records[i], NEW k \in Keys
  PROVE  Lookup(mapped', k) = Lookup(mapped, k)
<1>1. /\ mapped \in Tables /\ Linkable \in 0 .. MaxRecords /\ WellLinked(mapped, Linkable) /\ HeadsLinked(mapped, Linkable)
  BY Reach
<1>2. SameLinks(mapped', mapped, Linkable)
  BY DEF SameLinks
<1>3. find(mapped', k) = find(mapped, k)
  <2>1. HeadsLinked(mapped', Linkable)
    BY <1>1, <1>2, SameHeads
  <2> QED BY <1>1, <1>2, <2>1, FindSame
<1>4. find(mapped, k) \in 0 .. Linkable
  BY <1>1, FindFinds
<1>5. find(mapped, k) # 0 => find(mapped, k) \in 1 .. Linkable
  BY <1>1, <1>4, RoomIsNat
<1> QED BY <1>3, <1>5 DEF Lookup, Held

\* A fresh call, and none.
LEMMA CallStarts ==
  ASSUME NEW es \in Seq(Entry), Distinct(es), op' = Call(es), mapped' \in Tables
  PROVE  LookupInv'
<1>1. /\ op'.at = "find" /\ op'.entries = es /\ op'.todo = es /\ op'.inserts = <<>>
  BY DEF Call, Idle
<1>2. Base' \in Nat /\ Filled' = 0
  BY <1>1 DEF Base, Filled, Tables
<1>3. ThreadInv'
  BY <1>2 DEF ThreadInv
<1>4. StageInv'
  BY <1>1 DEF StageInv
<1>5. Len(<<>>) = 0 /\ ToSet(<<>>) = {}
  BY DEF ToSet
<1>6. CallInv'
  BY <1>1, <1>5 DEF CallInv, Distinct
<1>7. Settled'
  BY <1>1 DEF Settled
<1> QED BY <1>3, <1>4, <1>6, <1>7 DEF LookupInv

\* With no call under way nothing is owed to a lookup.
LEMMA CallEnds ==
  ASSUME op' = Idle, mapped' \in Tables
  PROVE  LookupInv'
<1>1. /\ op'.at = "idle" /\ op'.entries = <<>> /\ op'.todo = <<>> /\ op'.inserts = <<>>
  BY DEF Idle
<1>2. Base' \in Nat /\ Filled' = 0
  BY <1>1 DEF Base, Filled, Tables
<1>3. ThreadInv'
  BY <1>2 DEF ThreadInv
<1>4. StageInv'
  BY <1>1 DEF StageInv
<1>5. Len(<<>>) = 0 /\ ToSet(<<>>) = {}
  BY DEF ToSet
<1>6. CallInv'
  BY <1>1, <1>5 DEF CallInv, Distinct
<1>7. Settled'
  BY <1>1, <1>5 DEF Settled
<1> QED BY <1>3, <1>4, <1>6, <1>7 DEF LookupInv

\* A set as a sequence holds its elements once.
LEMMA SetToSeqOnce ==
  ASSUME NEW S, IsFiniteSet(S)
  PROVE  SetToSeq(S) \in Seq(S) /\ \A i, j \in 1 .. Len(SetToSeq(S)) : SetToSeq(S)[i] = SetToSeq(S)[j] => i = j
<1>1. Cardinality(S) \in Nat /\ ExistsBijection(1 .. Cardinality(S), S)
  BY FS_CountingElements, FS_CardinalityType
<1>2. \E f \in [1 .. Cardinality(S) -> S] : IsInjective(f)
  BY <1>1 DEF ExistsBijection, Bijection, Injection
<1>3. SetToSeq(S) \in [1 .. Cardinality(S) -> S] /\ IsInjective(SetToSeq(S))
  BY <1>2, Zenon DEF SetToSeq
<1> DEFINE s == SetToSeq(S)
<1>4. s \in Seq(S) /\ DOMAIN s = 1 .. Len(s)
  BY <1>1, <1>3
<1> QED BY <1>3, <1>4 DEF IsInjective

\* A batch of inserts names a key once.
LEMMA EntriesOnce == ASSUME NEW es \in Entries PROVE Distinct(es)
<1> DEFINE Batch(S, f) == LET keys == SetToSeq(S) IN [i \in DOMAIN keys |-> [key |-> keys[i], payload |-> f[keys[i]]]]
<1>0. PICK S \in (SUBSET Keys) \ {{}} : es \in {Batch(S, f) : f \in [S -> Payloads]}
  BY Zenon DEF Entries
<1>1. PICK f \in [S -> Payloads] : es = Batch(S, f)
  BY <1>0, Zenon
<1> DEFINE ks == SetToSeq(S)
<1>2. ks \in Seq(S) /\ \A i, j \in 1 .. Len(ks) : ks[i] = ks[j] => i = j
  <2>1. IsFiniteSet(S)
    BY TableAssumption, FS_Subset
  <2> QED BY <2>1, SetToSeqOnce
<1>3. es = [i \in 1 .. Len(ks) |-> [key |-> ks[i], payload |-> f[ks[i]]]]
  BY <1>1, <1>2
<1>4. Len(ks) \in Nat
  BY <1>2
<1> HIDE DEF ks
<1>5. Len(es) = Len(ks) /\ \A i \in 1 .. Len(ks) : es[i].key = ks[i]
  BY <1>3, <1>4
<1> QED BY <1>2, <1>5 DEF Distinct

\* A sweep names a key once.
LEMMA SweepOnce ==
  ASSUME TableInv, NEW fork, NEW above,
         above = {r.key : r \in {x \in for_each(mapped) : x.payload > fork}}
  PROVE  Distinct(SetToSeq({[key |-> k, payload |-> 0] : k \in above}))
<1> DEFINE E == {[key |-> k, payload |-> 0] : k \in above}
<1>1. above \subseteq Keys
  <2>1. mapped.count \in Nat /\ Ahead \in Nat
    BY Parts
  <2>2. \A i \in 1 .. mapped.count : mapped.records[i].key \in Keys
    BY <2>1 DEF TableInv, ChainInv, WellLinked
  <2> QED BY <2>2 DEF for_each
<1>2. \A x, y \in E : x.key = y.key => x = y
  OBVIOUS
<1>3. IsFiniteSet(E)
  <2>1. IsFiniteSet(above)
    BY <1>1, TableAssumption, FS_Subset
  <2> DEFINE f == [k \in above |-> [key |-> k, payload |-> 0]]
  <2>2. f \in Surjection(above, E)
    BY DEF Surjection
  <2> HIDE DEF f, E
  <2> QED BY <2>1, <2>2, FS_Surjection
<1> HIDE DEF E
<1>4. SetToSeq(E) \in Seq(E) /\ \A i, j \in 1 .. Len(SetToSeq(E)) : SetToSeq(E)[i] = SetToSeq(E)[j] => i = j
  BY <1>3, SetToSeqOnce
<1>5. Distinct(SetToSeq(E))
  <2> DEFINE s == SetToSeq(E)
  <2>1. s \in Seq(E)
    BY <1>4
  <2>2. \A i \in 1 .. Len(s) : s[i] \in E
    <3> HIDE DEF s
    <3> QED BY <2>1
  <2> QED BY <1>2, <1>4, <2>2 DEF Distinct
<1> QED BY <1>5 DEF E

-----------------------------------------------------------------------------
(* The steps and what they move.                                           *)

\* An update in place is seen by the lookups of its key alone.
LEMMA UpdateLookup ==
  ASSUME TableInv, NEW k \in Keys, find(mapped, k) # 0, NEW p \in Nat,
         mapped' = set_payload(mapped, find(mapped, k), p)
  PROVE  /\ mapped' \in Tables /\ Lookup(mapped', k) = p
         /\ \A x \in Keys : x # k => Lookup(mapped', x) = Lookup(mapped, x)
<1> DEFINE i == find(mapped, k)
<1>1. /\ mapped \in Tables /\ Linkable \in 0 .. MaxRecords /\ WellLinked(mapped, Linkable) /\ HeadsLinked(mapped, Linkable)
  BY Reach
<1>2. i \in 0 .. Linkable /\ mapped.records[i].key = k
  BY <1>1, FindFinds
<1>3. i \in 1 .. MaxRecords /\ mapped' = set_payload(mapped, i, p)
  BY <1>1, <1>2, RoomIsNat
<1> HIDE DEF i
<1>4. /\ mapped' \in Tables /\ mapped'.heads = mapped.heads
      /\ \A j \in 1 .. MaxRecords : /\ mapped'.records[j].key = mapped.records[j].key
                                    /\ mapped'.records[j].next = mapped.records[j].next
  BY <1>3, SetPayloadOK
<1>5. /\ mapped'.records[i].payload = p
      /\ \A j \in 1 .. MaxRecords : j # i => mapped'.records[j].payload = mapped.records[j].payload
  <2> DEFINE r == [mapped.records[i] EXCEPT !.payload = p]
  <2>1. r.payload = p
    <3>1. mapped.records[i] \in [key : Keys \cup {NoKey}, next : Nat, payload : Nat]
      BY <1>3, Parts
    <3> QED BY <3>1
  <2>2. mapped'.records = [mapped.records EXCEPT ![i] = r]
    BY <1>1, <1>3 DEF set_payload, Tables
  <2> HIDE DEF r
  <2> QED BY <1>3, <2>1, <2>2, Parts
<1>6. SameLinks(mapped', mapped, Linkable)
  <2>1. \A j \in 1 .. Linkable : j \in 1 .. MaxRecords
    BY <1>1, RoomIsNat
  <2> QED BY <1>4, <2>1 DEF SameLinks
<1>7. \A x \in Keys : find(mapped', x) = find(mapped, x)
  <2>1. HeadsLinked(mapped', Linkable)
    BY <1>1, <1>4, <1>6, SameHeads
  <2> QED BY <1>1, <1>4, <1>6, <2>1, FindSame
<1>8. Lookup(mapped', k) = p
  BY <1>3, <1>5, <1>7, RoomIsNat DEF Lookup, Held, i
<1>9. ASSUME NEW x \in Keys, x # k PROVE Lookup(mapped', x) = Lookup(mapped, x)
  <2> DEFINE j == find(mapped, x)
  <2>1. j \in 0 .. Linkable /\ (j # 0 => mapped.records[j].key = x)
    BY <1>1, FindFinds
  <2>2. find(mapped', x) = j
    BY <1>7
  <2>3. j # 0 => j \in 1 .. MaxRecords /\ j # i
    <3> HIDE DEF j
    <3> QED BY <1>1, <1>2, <1>9, <2>1, RoomIsNat
  <2>4. j # 0 => mapped'.records[j].payload = mapped.records[j].payload
    <3> HIDE DEF j
    <3> QED BY <1>5, <2>3
  <2> QED BY <2>2, <2>4 DEF Lookup, Held
<1> QED BY <1>4, <1>8, <1>9

\* The call's first entry to do is taken up, and inserted later or not.
LEMMA TakeFirst ==
  ASSUME TableInv, CallInv, op.todo # <<>>, op'.at = "find", op'.entries = op.entries, op'.todo = Tail(op.todo),
         op'.inserts = op.inserts \/ op'.inserts = Append(op.inserts, Head(op.todo))
  PROVE  /\ CallInv' /\ Head(op.todo) \in Entry /\ Head(op.todo) \in ToSet(op.entries)
         /\ \A f \in ToSet(op.todo) : f = Head(op.todo) \/ f \in ToSet(op'.todo)
         /\ \A i \in 1 .. Len(op.inserts) : i \in 1 .. Len(op'.inserts) /\ op'.inserts[i] = op.inserts[i]
<1> DEFINE td == op.todo
           ins == op.inserts
           e == Head(td)
<1>1. td \in Seq(Entry) /\ ins \in Seq(Entry) /\ op.entries \in Seq(Entry) /\ td # <<>>
  BY Parts
<1>2. /\ Distinct(td) /\ Distinct(ins) /\ \A i \in 1 .. Len(td), j \in 1 .. Len(ins) : td[i].key # ins[j].key
      /\ ToSet(td) \subseteq ToSet(op.entries) /\ ToSet(ins) \subseteq ToSet(op.entries) /\ Distinct(op.entries)
  BY DEF CallInv
<1>3. op'.todo = Tail(td) /\ (op'.inserts = ins \/ op'.inserts = Append(ins, e))
  OBVIOUS
<1> HIDE DEF td, ins
<1>4. /\ e = td[1] /\ 1 \in 1 .. Len(td) /\ e \in Entry /\ e \in ToSet(td) /\ Len(td) \in Nat /\ Len(ins) \in Nat
  BY <1>1 DEF ToSet
<1>5. /\ Len(Tail(td)) = Len(td) - 1 /\ \A i \in 1 .. Len(td) - 1 : Tail(td)[i] = td[i + 1]
  BY <1>1
<1>6. \A f \in ToSet(td) : f = e \/ f \in ToSet(Tail(td))
  <2> TAKE f \in ToSet(td)
  <2>1. PICK i \in 1 .. Len(td) : f = td[i]
    BY <1>1 DEF ToSet
  <2>2. CASE i = 1
    BY <1>4, <2>1, <2>2
  <2>3. CASE i # 1
    <3>1. i - 1 \in 1 .. Len(td) - 1 /\ (i - 1) + 1 = i
      BY <1>4, <2>3
    <3>2. Tail(td)[i - 1] = f
      BY <1>5, <2>1, <3>1
    <3>3. i - 1 \in DOMAIN Tail(td)
      BY <1>1, <1>5, <3>1
    <3> QED BY <3>2, <3>3 DEF ToSet
  <2> QED BY <2>2, <2>3
<1>7. ToSet(Tail(td)) \subseteq ToSet(td)
  <2> SUFFICES ASSUME NEW f \in ToSet(Tail(td)) PROVE f \in ToSet(td)
    OBVIOUS
  <2>1. PICK i \in 1 .. Len(td) - 1 : f = Tail(td)[i]
    BY <1>1, <1>5 DEF ToSet
  <2>2. f = td[i + 1] /\ i + 1 \in 1 .. Len(td)
    BY <1>4, <1>5, <2>1
  <2> QED BY <1>1, <2>2 DEF ToSet
<1>8. Distinct(Tail(td)) /\ \A i \in 1 .. Len(Tail(td)) : Tail(td)[i].key # e.key
  <2>1. \A i \in 1 .. Len(td) - 1 : i + 1 \in 1 .. Len(td) /\ i + 1 # 1
    BY <1>4
  <2>2. \A i \in 1 .. Len(Tail(td)) : i \in 1 .. Len(td) - 1
    BY <1>5
  <2>3. \A i \in 1 .. Len(Tail(td)) : Tail(td)[i].key # e.key
    BY <1>2, <1>4, <1>5, <2>1, <2>2 DEF Distinct
  <2>4. ASSUME NEW i \in 1 .. Len(Tail(td)), NEW j \in 1 .. Len(Tail(td)), Tail(td)[i].key = Tail(td)[j].key PROVE i = j
    <3>1. i + 1 = j + 1
      BY <1>2, <1>5, <2>1, <2>2, <2>4 DEF Distinct
    <3> QED BY <3>1
  <2> QED BY <2>3, <2>4 DEF Distinct
<1>9. \A i \in 1 .. Len(Tail(td)), j \in 1 .. Len(ins) : Tail(td)[i].key # ins[j].key
  <2>1. \A i \in 1 .. Len(Tail(td)) : i + 1 \in 1 .. Len(td) /\ i \in 1 .. Len(td) - 1
    BY <1>4, <1>5
  <2> QED BY <1>2, <1>5, <2>1
<1> HIDE DEF e
<1>10. CASE op'.inserts = ins
  <2>1. CallInv'
    BY <1>2, <1>3, <1>7, <1>8, <1>9, <1>10 DEF CallInv
  <2> QED BY <1>2, <1>3, <1>4, <1>6, <1>10, <2>1 DEF e, td, ins
<1>11. CASE op'.inserts = Append(ins, e)
  <2> DEFINE new == Append(ins, e)
  <2>1. /\ new \in Seq(Entry) /\ Len(new) = Len(ins) + 1 /\ new[Len(ins) + 1] = e
        /\ \A i \in 1 .. Len(ins) : new[i] = ins[i]
    BY <1>1, <1>4
  <2> HIDE DEF new
  <2>2. \A i \in 1 .. Len(new) : i \in 1 .. Len(ins) \/ i = Len(ins) + 1
    BY <1>4, <2>1
  <2>3. \A j \in 1 .. Len(ins) : e.key # ins[j].key
    BY <1>2, <1>4
  <2>4. Distinct(new)
    BY <1>2, <2>1, <2>2, <2>3 DEF Distinct
  <2>5. \A i \in 1 .. Len(Tail(td)), j \in 1 .. Len(new) : Tail(td)[i].key # new[j].key
    BY <1>8, <1>9, <2>1, <2>2
  <2>6. ToSet(new) \subseteq ToSet(op.entries)
    <3> SUFFICES ASSUME NEW f \in ToSet(new) PROVE f \in ToSet(op.entries)
      OBVIOUS
    <3>1. PICK i \in 1 .. Len(new) : f = new[i]
      BY <2>1 DEF ToSet
    <3>2. CASE i \in 1 .. Len(ins)
      <4>1. f \in ToSet(ins)
        BY <1>1, <2>1, <3>1, <3>2 DEF ToSet
      <4> QED BY <1>2, <4>1
    <3>3. CASE i = Len(ins) + 1
      BY <1>2, <1>4, <2>1, <3>1, <3>3
    <3> QED BY <2>2, <3>2, <3>3
  <2>7. op'.inserts = new
    BY <1>11 DEF new
  <2>8. CallInv'
    BY <1>2, <1>3, <1>7, <1>8, <2>4, <2>5, <2>6, <2>7 DEF CallInv
  <2>9. \A i \in 1 .. Len(ins) : i \in 1 .. Len(new)
    BY <1>4, <2>1
  <2> QED BY <1>2, <1>3, <1>4, <1>6, <2>1, <2>7, <2>8, <2>9 DEF e, td, ins
<1> QED BY <1>3, <1>10, <1>11

\* An update moves only the lookups of its entry's key.
LEMMA FindMoves ==
  ASSUME TableInv, LookupInv, FindOrUpdate
  PROVE  LookupInv' /\ \A k \in Keys : MovesOf(k)
<1> DEFINE e == Head(op.todo)
           i == find(mapped, e.key)
<1>1. op \in Ops /\ op.at = "find" /\ op.todo # <<>> /\ CallInv /\ Settled /\ Tail(op.todo) \in Seq(Entry) /\ mode' = mode
  BY Parts DEF FindOrUpdate, LookupInv, TableInv, TableTypes
<1>2. \/ /\ i # 0 /\ mapped' = set_payload(mapped, i, e.payload) /\ op' = [op EXCEPT !.todo = Tail(@)]
      \/ /\ i = 0 /\ e.payload = 0 /\ mapped' = mapped /\ op' = [op EXCEPT !.todo = Tail(@), !.inserts = @]
      \/ /\ i = 0 /\ e.payload # 0 /\ mapped' = mapped /\ op' = [op EXCEPT !.todo = Tail(@), !.inserts = Append(@, e)]
  BY DEF FindOrUpdate
<1>3. /\ op'.at = "find" /\ op'.entries = op.entries /\ op'.todo = Tail(op.todo)
      /\ op'.inserts = op.inserts \/ op'.inserts = Append(op.inserts, e)
      /\ i = 0 /\ e.payload # 0 => op'.inserts = Append(op.inserts, e)
  <2> HIDE DEF e, i
  <2> QED BY <1>1, <1>2 DEF Ops
<1>4. /\ CallInv' /\ e \in Entry /\ e \in ToSet(op.entries)
      /\ \A f \in ToSet(op.todo) : f = e \/ f \in ToSet(op'.todo)
      /\ \A n \in 1 .. Len(op.inserts) : n \in 1 .. Len(op'.inserts) /\ op'.inserts[n] = op.inserts[n]
  BY <1>1, <1>3, TakeFirst
<1> HIDE DEF e
<1>5. e.key \in Keys /\ e.payload \in Nat
  BY <1>4 DEF Entry
<1>6. /\ mapped' \in Tables
      /\ \A x \in Keys : x # e.key => Lookup(mapped', x) = Lookup(mapped, x)
      /\ ~(i = 0 /\ e.payload # 0) => Landed(mapped', e)
  <2>1. CASE i # 0
    <3>1. mapped' = set_payload(mapped, find(mapped, e.key), e.payload)
      BY <1>2, <2>1
    <3>2. /\ mapped' \in Tables /\ Lookup(mapped', e.key) = e.payload
          /\ \A x \in Keys : x # e.key => Lookup(mapped', x) = Lookup(mapped, x)
      BY <1>5, <2>1, <3>1, UpdateLookup
    <3>3. Landed(mapped', e)
      BY <3>2 DEF Landed
    <3> QED BY <3>2, <3>3, Zenon
  <2>2. CASE i = 0
    <3>1. mapped' = mapped /\ mapped \in Tables
      BY <1>2, <2>2 DEF TableInv, TableTypes
    <3>2. Lookup(mapped, e.key) = Absent
      BY <2>2 DEF Lookup, Held
    <3>3. e.payload = 0 => Landed(mapped', e)
      BY <3>1, <3>2 DEF Landed
    <3>4. \A x \in Keys : Lookup(mapped', x) = Lookup(mapped, x)
      BY <3>1
    <3> QED BY <2>2, <3>1, <3>3, <3>4
  <2> QED BY <2>1, <2>2
<1>7. ThreadInv' /\ StageInv'
  <2>1. Base' \in Nat /\ Filled' = 0
    BY <1>3, <1>6 DEF Base, Filled, Tables
  <2> QED BY <1>3, <2>1 DEF ThreadInv, StageInv
<1>8. ASSUME NEW f \in ToSet(op.entries)
      PROVE  f \in ToSet(op'.todo) \/ Landed(mapped', f) \/ Pending(f)'
  <2>0. f \in Entry /\ f.key \in Keys /\ (f.key = e.key => f = e)
    <3>1. op.entries \in Seq(Entry) /\ Distinct(op.entries)
      BY <1>1, Parts DEF CallInv
    <3>2. PICK m \in 1 .. Len(op.entries) : f = op.entries[m]
      BY <3>1 DEF ToSet
    <3>3. PICK n \in 1 .. Len(op.entries) : e = op.entries[n]
      BY <1>4, <3>1 DEF ToSet
    <3>4. f \in Entry /\ (f.key = e.key => m = n)
      BY <3>1, <3>2, <3>3 DEF Distinct
    <3> QED BY <3>2, <3>3, <3>4 DEF Entry
  <2>1. CASE f = e
    <3>1. CASE ~(i = 0 /\ e.payload # 0)
      BY <1>6, <2>1, <3>1
    <3>2. CASE i = 0 /\ e.payload # 0
      <4>1. op'.inserts = Append(op.inserts, e) /\ op.inserts \in Seq(Entry)
        BY <1>3, <3>2, Parts
      <4>2. Len(op.inserts) + 1 \in 1 .. Len(op'.inserts) /\ op'.inserts[Len(op.inserts) + 1] = e
        BY <1>4, <4>1
      <4>3. Pending(f)'
        BY <1>3, <2>1, <4>2 DEF Pending
      <4> QED BY <4>3
    <3> QED BY <3>1, <3>2
  <2>2. CASE f # e
    <3>1. CASE f \in ToSet(op.todo)
      BY <1>4, <2>2, <3>1
    <3>2. CASE Landed(mapped, f)
      <4>1. Lookup(mapped', f.key) = Lookup(mapped, f.key)
        BY <1>6, <2>0, <2>2
      <4> QED BY <3>2, <4>1 DEF Landed
    <3>3. CASE Pending(f)
      <4>1. PICK n \in 1 .. Len(op.inserts) : op.inserts[n] = f
        BY <3>3 DEF Pending
      <4>2. n \in 1 .. Len(op'.inserts) /\ op'.inserts[n] = f
        BY <1>4, <4>1
      <4> QED BY <1>3, <4>2 DEF Pending
    <3> QED BY <1>1, <3>1, <3>2, <3>3 DEF Settled
  <2> QED BY <2>1, <2>2
<1>9. Settled'
  BY <1>3, <1>8 DEF Settled
<1>10. \A k \in Keys : MovesOf(k)
  BY <1>4, <1>6 DEF MovesOf
<1> QED BY <1>4, <1>7, <1>9, <1>10 DEF LookupInv

\* Ending the search moves no lookup.
LEMMA FoundMoves ==
  ASSUME TableInv, LookupInv, Found
  PROVE  LookupInv' /\ \A k \in Keys : MovesOf(k)
<1>1. op \in Ops /\ op.at = "find" /\ op.todo = <<>> /\ op.written = 0 /\ mapped' = mapped /\ mode' = mode
  BY DEF Found, TableInv, TableTypes, OpInv
<1> DEFINE p == IF op.inserts = <<>> THEN "sync" ELSE "write"
<1>2. op' = [op EXCEPT !.at = p]
  BY DEF Found
<1>3. p \in {"sync", "write"} /\ (p = "sync" => op.inserts = <<>>)
  OBVIOUS
<1> HIDE DEF p
<1>4. /\ op'.at = p /\ op'.entries = op.entries /\ op'.todo = op.todo /\ op'.inserts = op.inserts /\ op'.written = 0
  BY <1>1, <1>2 DEF Ops
<1>5. Base' \in Nat /\ Filled' = 0
  BY <1>1, <1>3, <1>4, Parts DEF Base, Filled
<1>6. ThreadInv' /\ StageInv'
  BY <1>3, <1>4, <1>5 DEF ThreadInv, StageInv
<1>7. CallInv'
  BY <1>1, <1>4 DEF LookupInv, CallInv
<1>8. ASSUME NEW e, Pending(e) PROVE Pending(e)'
  <2>1. PICK i \in 1 .. Len(op.inserts) : op.inserts[i] = e
    BY <1>8 DEF Pending
  <2>2. op.inserts # <<>>
    BY <2>1
  <2>3. op'.at = "write"
    BY <1>3, <1>4, <2>2
  <2> QED BY <1>4, <2>1, <2>3 DEF Pending, Unlinked
<1>9. Settled'
  <2>1. \A e \in ToSet(op.entries) : e \in ToSet(op.todo) \/ Landed(mapped, e) \/ Pending(e)
    BY DEF LookupInv, Settled
  <2> QED BY <1>1, <1>4, <1>8, <2>1 DEF Settled
<1>10. \A k \in Keys : MovesOf(k)
  BY <1>1 DEF MovesOf
<1> QED BY <1>6, <1>7, <1>9, <1>10 DEF LookupInv

\* A step in which no lookup moves and what was pending stays so.
LEMMA QuietSettles ==
  ASSUME TableInv, LookupInv, \A k \in Keys : Lookup(mapped', k) = Lookup(mapped, k),
         op'.entries = op.entries, op'.todo = op.todo, \A e : Pending(e) => Pending(e)'
  PROVE  Settled' /\ \A k \in Keys : MovesOf(k)
<1>1. ASSUME NEW e \in ToSet(op.entries) PROVE e.key \in Keys
  <2>1. op.entries \in Seq(Entry)
    BY Parts
  <2>2. PICK i \in 1 .. Len(op.entries) : e = op.entries[i]
    BY <2>1 DEF ToSet
  <2>3. e \in Entry
    BY <2>1, <2>2
  <2> QED BY <2>3 DEF Entry
<1>2. \A e \in ToSet(op.entries) : Landed(mapped, e) => Landed(mapped', e)
  BY <1>1 DEF Landed
<1>3. \A e \in ToSet(op.entries) : e \in ToSet(op.todo) \/ Landed(mapped, e) \/ Pending(e)
  BY DEF LookupInv, Settled
<1>4. Settled'
  BY <1>2, <1>3 DEF Settled
<1> QED BY <1>4 DEF MovesOf

\* The head that a batch stages: the last record of the bucket, if it has one.
LEMMA StagedTop ==
  ASSUME TableInv, op.at = "write", NEW b
  PROVE  /\ (\A x \in 1 .. op.written : Lane(op.inserts, x) # b) => StagedHead(b) = mapped.heads[b]
         /\ (\E x \in 1 .. op.written : Lane(op.inserts, x) = b) =>
              \E y \in 1 .. op.written : /\ Lane(op.inserts, y) = b /\ StagedHead(b) = mapped.count + y
                                         /\ \A x \in 1 .. op.written : Lane(op.inserts, x) = b => x <= y
<1> DEFINE mine == {i \in 1 .. op.written : Bucket[op.inserts[i].key] = b}
<1>1. StagedHead(b) = IF mine = {} THEN mapped.heads[b]
                      ELSE mapped.count + (CHOOSE i \in mine : \A x \in mine : x <= i)
  BY DEF StagedHead
<1>2. mapped.count \in Nat /\ op.written \in Nat
  BY Parts
<1>3. ASSUME \A x \in 1 .. op.written : Lane(op.inserts, x) # b PROVE StagedHead(b) = mapped.heads[b]
  <2>1. mine = {}
    BY <1>3 DEF Lane
  <2> QED BY <1>1, <2>1
<1>4. ASSUME \E x \in 1 .. op.written : Lane(op.inserts, x) = b
      PROVE  \E y \in 1 .. op.written : /\ Lane(op.inserts, y) = b /\ StagedHead(b) = mapped.count + y
                                        /\ \A x \in 1 .. op.written : Lane(op.inserts, x) = b => x <= y
  <2>0. mine # {}
    BY <1>4 DEF Lane
  <2>1. mine \subseteq Nat /\ \A x \in mine : x <= op.written
    BY <1>2
  <2>2. \E i \in mine : \A x \in mine : x <= i
    <3> HIDE DEF mine
    <3> QED BY <1>2, <2>0, <2>1, BoundedHasTop
  <2>3. PICK y \in mine : StagedHead(b) = mapped.count + y /\ \A x \in mine : x <= y
    <3> HIDE DEF mine
    <3> QED BY <1>1, <2>0, <2>2, Zenon
  <2> QED BY <2>3 DEF Lane
<1> QED BY <1>3, <1>4

\* A record that no head reaches moves no lookup, and continues its bucket's thread.
LEMMA WriteMoves ==
  ASSUME TableInv, LookupInv, WriteRecord
  PROVE  LookupInv' /\ \A k \in Keys : MovesOf(k)
<1> DEFINE i == op.written + 1
           j == mapped.count + i
           e == op.inserts[i]
           h == StagedHead(Bucket[e.key])
           rec == [key |-> e.key, next |-> h, payload |-> e.payload]
<1>1. /\ op.at = "write" /\ op.written < Len(op.inserts) /\ mapped.count + op.written < MaxRecords
      /\ mapped' = [mapped EXCEPT !.records[j] = rec] /\ op' = [op EXCEPT !.written = i] /\ mode' = mode
  BY DEF WriteRecord
<1>2. op \in Ops /\ mapped \in Tables /\ mapped' \in Tables
  BY WriteRecordOK DEF TableInv, TableTypes
<1>3. /\ rec.key = e.key /\ rec.next = h /\ rec.payload = e.payload
  OBVIOUS
<1>4. /\ i \in Nat /\ j \in 1 .. MaxRecords /\ j \in Nat /\ j = mapped.count + i /\ i = op.written + 1
      /\ mapped.count \in Nat /\ op.written \in Nat /\ MaxRecords \in Nat
  <2>1. op.written \in Nat /\ mapped.count \in Nat /\ MaxRecords \in Nat
    BY Parts
  <2>2. mapped.count + op.written < MaxRecords
    BY <1>1
  <2> QED BY <2>1, <2>2
<1>5. e = op.inserts[i] /\ h = StagedHead(Lane(op.inserts, i))
  BY DEF Lane
<1> HIDE DEF e, h, rec, i, j
<1>6. /\ mapped'.count = mapped.count /\ mapped'.heads = mapped.heads
      /\ mapped'.records = [mapped.records EXCEPT ![j] = rec]
  BY <1>1, <1>2 DEF Tables
<1>7. /\ op'.at = "write" /\ op'.entries = op.entries /\ op'.todo = op.todo /\ op'.inserts = op.inserts
      /\ op'.written = i /\ op'.staged = op.staged
  BY <1>1, <1>2 DEF Ops
<1>8. \A n \in 1 .. j - 1 : mapped'.records[n] = mapped.records[n]
  <2>1. \A n \in 1 .. j - 1 : n \in 1 .. MaxRecords /\ n # j
    BY <1>4
  <2>2. DOMAIN mapped.records = 1 .. MaxRecords
    BY Parts
  <2> QED BY <1>6, <2>1, <2>2
<1>9. mapped'.records[j] = rec
  BY <1>4, <1>6, Parts
<1>10. Linkable = mapped.count /\ Base = mapped.count /\ Base' = mapped.count /\ Filled = op.written /\ Filled' = i
  BY <1>1, <1>4, <1>6, <1>7 DEF Linkable, SingleAt, Base, Filled
<1>11. \A k \in Keys : Lookup(mapped', k) = Lookup(mapped, k)
  <2>1. \A n \in 1 .. Linkable : n \in 1 .. j - 1
    BY <1>4, <1>10
  <2> QED BY <1>2, <1>6, <1>8, <2>1, LookupFrame
<1>12. ASSUME NEW n \in 1 .. i
       PROVE  Threaded(mapped', op.inserts, mapped.count, n) /\ Bottomed(mapped', op.inserts, mapped.count, n)
  <2>1. CASE n # i
    <3>1. n \in 1 .. op.written /\ mapped.count + n \in 1 .. j - 1
      BY <1>4, <2>1
    <3>2. Threaded(mapped, op.inserts, mapped.count, n) /\ Bottomed(mapped, op.inserts, mapped.count, n)
      BY <1>1, <1>10, <3>1 DEF LookupInv, ThreadInv, Unlinked
    <3>3. mapped'.records[mapped.count + n] = mapped.records[mapped.count + n]
      BY <1>8, <3>1
    <3> QED BY <1>6, <3>2, <3>3 DEF Threaded, Bottomed
  <2>2. CASE n = i
    <3> DEFINE b == Lane(op.inserts, i)
    <3>1. /\ (\A x \in 1 .. op.written : Lane(op.inserts, x) # b) => StagedHead(b) = mapped.heads[b]
          /\ (\E x \in 1 .. op.written : Lane(op.inserts, x) = b) =>
               \E y \in 1 .. op.written : /\ Lane(op.inserts, y) = b /\ StagedHead(b) = mapped.count + y
                                          /\ \A x \in 1 .. op.written : Lane(op.inserts, x) = b => x <= y
      BY <1>1, StagedTop
    <3>2. /\ mapped'.records[mapped.count + i].key = op.inserts[i].key
          /\ mapped'.records[mapped.count + i].payload = op.inserts[i].payload
          /\ mapped'.records[mapped.count + i].next = StagedHead(b)
      BY <1>3, <1>4, <1>5, <1>9
    <3>3. 1 .. i - 1 = 1 .. op.written
      BY <1>4
    <3>4. Bottomed(mapped', op.inserts, mapped.count, i)
      BY <1>6, <3>1, <3>2, <3>3 DEF Bottomed
    <3>5. ASSUME NEW x \in 1 .. i - 1, Lane(op.inserts, x) = b
          PROVE  \E y \in x .. i - 1 : Lane(op.inserts, y) = b /\ mapped'.records[mapped.count + i].next = mapped.count + y
      <4>1. x \in 1 .. op.written
        BY <3>3
      <4>2. PICK y \in 1 .. op.written : /\ Lane(op.inserts, y) = b /\ StagedHead(b) = mapped.count + y
                                         /\ \A m \in 1 .. op.written : Lane(op.inserts, m) = b => m <= y
        BY <3>1, <3>5, <4>1
      <4>3. x <= y
        BY <3>5, <4>1, <4>2
      <4>4. y \in x .. i - 1
        BY <1>4, <4>1, <4>3
      <4> QED BY <3>2, <4>2, <4>4
    <3>6. Threaded(mapped', op.inserts, mapped.count, i)
      BY <3>2, <3>5 DEF Threaded
    <3> QED BY <2>2, <3>4, <3>6
  <2> QED BY <2>1, <2>2
<1>13. ThreadInv'
  BY <1>4, <1>7, <1>10, <1>12 DEF ThreadInv
<1>14. StageInv'
  BY <1>7 DEF StageInv
<1>15. CallInv'
  BY <1>1, <1>7 DEF LookupInv, CallInv
<1>16. \A f : Pending(f) => Pending(f)'
  BY <1>7 DEF Pending, Unlinked
<1>17. Settled' /\ \A k \in Keys : MovesOf(k)
  BY <1>7, <1>11, <1>16, QuietSettles
<1> QED BY <1>13, <1>14, <1>15, <1>17 DEF LookupInv

\* Syncing the records moves no lookup, and stages the last record of each bucket.
LEMMA SyncRecordsMoves ==
  ASSUME TableInv, LookupInv, SyncRecords
  PROVE  LookupInv' /\ \A k \in Keys : MovesOf(k)
<1> DEFINE S == {<<Bucket[e.key], StagedHead(Bucket[e.key])>> : e \in ToSet(op.inserts)}
           p == IF mode = "batch" THEN "count" ELSE "link"
<1>1. /\ op.at = "write" /\ op.written = Len(op.inserts) /\ mapped' = mapped /\ mode' = mode
      /\ op' = [op EXCEPT !.at = p, !.staged = S]
  BY DEF SyncRecords
<1>2. op \in Ops /\ mapped \in Tables /\ mode \in {"batch", "single"} /\ op.inserts \in Seq(Entry) /\ mapped.count \in Nat
  BY Parts DEF TableInv, TableTypes
<1>3. mode = "batch" => p = "count"
  OBVIOUS
<1>4. mode # "batch" => p = "link"
  OBVIOUS
<1>5. ASSUME NEW i \in 1 .. Len(op.inserts)
      PROVE  <<Lane(op.inserts, i), StagedHead(Lane(op.inserts, i))>> \in S
  <2>1. op.inserts[i] \in ToSet(op.inserts)
    BY <1>2 DEF ToSet
  <2> QED BY <2>1 DEF Lane
<1>6. ASSUME NEW s \in S
      PROVE  \E i \in 1 .. Len(op.inserts) : Lasts(op.inserts, i) /\ s = <<Lane(op.inserts, i), mapped.count + i>>
  <2>1. PICK f \in ToSet(op.inserts) : s = <<Bucket[f.key], StagedHead(Bucket[f.key])>>
    OBVIOUS
  <2>2. PICK x \in 1 .. Len(op.inserts) : f = op.inserts[x]
    BY <1>2 DEF ToSet
  <2> DEFINE b == Lane(op.inserts, x)
  <2>3. s = <<b, StagedHead(b)>>
    BY <2>1, <2>2 DEF Lane
  <2>4. PICK y \in 1 .. op.written : /\ Lane(op.inserts, y) = b /\ StagedHead(b) = mapped.count + y
                                     /\ \A m \in 1 .. op.written : Lane(op.inserts, m) = b => m <= y
    BY <1>1, <2>2, StagedTop
  <2> QED BY <1>1, <2>3, <2>4 DEF Lasts
<1> HIDE DEF S, p
<1>7. /\ op'.at = p /\ op'.entries = op.entries /\ op'.todo = op.todo /\ op'.inserts = op.inserts /\ op'.staged = S
  BY <1>1, <1>2 DEF Ops
<1>8. Base = mapped.count /\ Base' = mapped.count /\ Filled = Len(op.inserts) /\ Filled' = Len(op.inserts)
  BY <1>1, <1>2, <1>3, <1>4, <1>7 DEF Base, Filled
<1>9. ThreadInv'
  <2>1. \A i \in 1 .. Len(op.inserts) : /\ Threaded(mapped, op.inserts, mapped.count, i)
                                        /\ Bottomed(mapped, op.inserts, mapped.count, i)
    BY <1>1, <1>8 DEF LookupInv, ThreadInv, Unlinked
  <2> QED BY <1>1, <1>2, <1>7, <1>8, <2>1 DEF ThreadInv
<1>10. StageInv'
  <2>1. Tops(S, op.inserts, mapped.count)
    BY <1>6 DEF Tops
  <2>2. \A i \in 1 .. Len(op.inserts) : \E s \in S : s[1] = Lane(op.inserts, i)
    BY <1>5
  <2> QED BY <1>7, <1>8, <2>1, <2>2 DEF StageInv
<1>11. CallInv'
  BY <1>1, <1>7 DEF LookupInv, CallInv
<1>12. ASSUME NEW f, Pending(f) PROVE Pending(f)'
  <2>1. PICK i \in 1 .. Len(op.inserts) : op.inserts[i] = f
    BY <1>12 DEF Pending
  <2>2. \E s \in S : s[1] = Lane(op.inserts, i)
    BY <1>5
  <2>3. Unlinked(Lane(op.inserts, i))'
    BY <1>1, <1>3, <1>4, <1>7, <2>2 DEF Unlinked
  <2> QED BY <1>7, <2>1, <2>3 DEF Pending
<1>13. Settled' /\ \A k \in Keys : MovesOf(k)
  BY <1>1, <1>7, <1>12, QuietSettles
<1> QED BY <1>9, <1>10, <1>11, <1>13 DEF LookupInv

\* Publishing the count moves no lookup.
LEMMA PublishCountMoves ==
  ASSUME TableInv, LookupInv, PublishCount
  PROVE  LookupInv' /\ \A k \in Keys : MovesOf(k)
<1> DEFINE p == IF mode = "batch" THEN "link" ELSE "sync"
           n == Len(op.inserts)
<1>1. /\ op.at = "count" /\ mapped' = [mapped EXCEPT !.count = mapped.count + n] /\ mode' = mode
      /\ op' = [op EXCEPT !.at = p]
  BY DEF PublishCount
<1>2. op \in Ops /\ mapped \in Tables /\ mapped' \in Tables /\ mapped.count \in Nat /\ n \in Nat
  BY PublishCountOK, Parts DEF TableInv, TableTypes
<1>3. (mode = "batch" => p = "link") /\ (mode # "batch" => p = "sync")
  OBVIOUS
<1> HIDE DEF p, n
<1>4. mapped'.count = mapped.count + n /\ mapped'.heads = mapped.heads /\ mapped'.records = mapped.records
  BY <1>1, <1>2 DEF Tables
<1>5. /\ op'.at = p /\ op'.entries = op.entries /\ op'.todo = op.todo /\ op'.inserts = op.inserts /\ op'.staged = op.staged
  BY <1>1, <1>2 DEF Ops
<1>6. \A k \in Keys : Lookup(mapped', k) = Lookup(mapped, k)
  BY <1>2, <1>4, LookupFrame
<1>7. CallInv'
  BY <1>1, <1>5 DEF LookupInv, CallInv
<1>8. Base = mapped.count /\ Filled = n
  BY <1>1 DEF Base, Filled, n
<1>9. CASE mode = "batch"
  <2>1. Base' = mapped.count /\ Filled' = n
    <3>1. Len(op'.inserts) = n
      BY <1>5 DEF n
    <3>2. Base' = (mapped.count + n) - n
      BY <1>1, <1>3, <1>4, <1>5, <1>9, <3>1 DEF Base
    <3> QED BY <1>2, <1>3, <1>5, <1>9, <3>1, <3>2 DEF Filled
  <2>2. \A i \in 1 .. n : /\ Threaded(mapped, op.inserts, mapped.count, i)
                          /\ Bottomed(mapped, op.inserts, mapped.count, i)
    BY <1>1, <1>8, <1>9 DEF LookupInv, ThreadInv, Unlinked
  <2>3. ThreadInv'
    BY <1>2, <1>4, <1>5, <2>1, <2>2 DEF ThreadInv, Threaded, Bottomed
  <2>4. Tops(op.staged, op.inserts, mapped.count) /\ \A i \in 1 .. n : \E s \in op.staged : s[1] = Lane(op.inserts, i)
    BY <1>1, <1>8, <1>9 DEF LookupInv, StageInv, n
  <2>5. StageInv'
    BY <1>3, <1>5, <1>9, <2>1, <2>4 DEF StageInv
  <2>6. ASSUME NEW f, Pending(f) PROVE Pending(f)'
    <3>1. PICK i \in 1 .. n : op.inserts[i] = f
      BY <2>6 DEF Pending, n
    <3>2. Unlinked(Lane(op.inserts, i))'
      BY <1>3, <1>5, <1>9, <2>4 DEF Unlinked
    <3> QED BY <1>5, <3>1, <3>2 DEF Pending, n
  <2>7. Settled' /\ \A k \in Keys : MovesOf(k)
    BY <1>5, <1>6, <2>6, QuietSettles
  <2> QED BY <1>7, <2>3, <2>5, <2>7 DEF LookupInv
<1>10. CASE mode # "batch"
  <2>1. Base' \in Nat /\ Filled' = 0
    BY <1>1, <1>2, <1>3, <1>4, <1>5, <1>10 DEF Base, Filled
  <2>2. ThreadInv' /\ StageInv'
    BY <1>3, <1>5, <1>10, <2>1 DEF ThreadInv, StageInv
  <2>3. \A f : ~Pending(f)
    BY <1>1, <1>10 DEF Pending, Unlinked
  <2>4. Settled' /\ \A k \in Keys : MovesOf(k)
    BY <1>5, <1>6, <2>3, QuietSettles
  <2> QED BY <1>7, <2>2, <2>4 DEF LookupInv
<1> QED BY <1>9, <1>10

\* What the lookups need of a table before and after one head is published.
Linking(t, u, ins, base, N, z) ==
  /\ t \in Tables /\ u \in Tables /\ N \in 0 .. MaxRecords
  /\ WellLinked(t, N) /\ HeadsLinked(t, N) /\ HeadsLinked(u, N) /\ u.records = t.records
  /\ ins \in Seq(Entry) /\ Distinct(ins) /\ base \in Nat /\ base + Len(ins) <= N
  /\ z \in 1 .. Len(ins) /\ Lasts(ins, z)
  /\ \A i \in 1 .. Len(ins) : Threaded(t, ins, base, i)
  /\ \A i \in 1 .. Len(ins) : Lane(ins, i) = Lane(ins, z) => Bottomed(t, ins, base, i)
  /\ u.heads[Lane(ins, z)] = base + z
  /\ \A x \in Buckets : x # Lane(ins, z) => u.heads[x] = t.heads[x]

\* Publishing a head brings in its bucket's inserts and hides nothing else.
LEMMA LinkingLookup ==
  ASSUME NEW t, NEW u, NEW ins, NEW base, NEW N, NEW z, Linking(t, u, ins, base, N, z), NEW k \in Keys
  PROVE  /\ (\A i \in 1 .. Len(ins) : ins[i].key # k) \/ Bucket[k] # Lane(ins, z) => Lookup(u, k) = Lookup(t, k)
         /\ \A i \in 1 .. Len(ins) : ins[i].key = k /\ Bucket[k] = Lane(ins, z) => Lookup(u, k) = ins[i].payload
  BY LinkLookup DEF Linking

\* Publishing a head moves only the lookups of the call's keys, and lands its bucket's entries.
LEMMA LinkMoves ==
  ASSUME TableInv, LookupInv, Link
  PROVE  LookupInv' /\ \A k \in Keys : MovesOf(k)
<1> DEFINE ins == op.inserts
           N == mapped.count + Ahead
           base == Base
<1>1. PICK s \in op.staged :
        /\ mapped' = [mapped EXCEPT !.heads[s[1]] = s[2]]
        /\ op' = [op EXCEPT !.staged = op.staged \ {s},
                            !.at = IF op.staged \ {s} # {} THEN "link" ELSE IF mode = "batch" THEN "sync" ELSE "count"]
  BY DEF Link
<1>2. /\ op.at = "link" /\ mode' = mode /\ op \in Ops /\ mapped \in Tables /\ mapped' \in Tables
      /\ mapped.count \in Nat /\ ins \in Seq(Entry) /\ mode \in {"batch", "single"} /\ op.entries \in Seq(Entry)
  BY LinkOK, Parts DEF Link, TableInv, TableTypes
<1> DEFINE left == op.staged \ {s}
           p == IF left # {} THEN "link" ELSE IF mode = "batch" THEN "sync" ELSE "count"
<1>3. (left # {} => p = "link") /\ (left = {} => p = IF mode = "batch" THEN "sync" ELSE "count")
  OBVIOUS
<1>4. op' = [op EXCEPT !.staged = left, !.at = p]
  BY <1>1
<1> HIDE DEF p
<1>5. /\ op'.at = p /\ op'.entries = op.entries /\ op'.todo = op.todo /\ op'.inserts = ins /\ op'.staged = left
  BY <1>2, <1>4 DEF Ops
<1>6. PICK z \in 1 .. Len(ins) : Lasts(ins, z) /\ s = <<Lane(ins, z), base + z>>
  <2>1. Tops(op.staged, ins, base)
    BY <1>2 DEF LookupInv, StageInv
  <2> QED BY <2>1 DEF Tops
<1>7. base \in Nat /\ Filled = Len(ins) /\ \A i \in 1 .. Len(ins) : Threaded(mapped, ins, base, i)
  BY <1>2 DEF LookupInv, ThreadInv, Filled
<1>8. \A i \in 1 .. Len(ins) : Lane(ins, i) = Lane(ins, z) => Bottomed(mapped, ins, base, i)
  BY <1>2, <1>6, <1>7 DEF LookupInv, ThreadInv, Unlinked
<1>9. N \in 0 .. MaxRecords /\ WellLinked(mapped, N) /\ HeadsLinked(mapped, N) /\ base + Len(ins) <= N /\ N \in Nat
  <2>1. N \in 0 .. MaxRecords /\ WellLinked(mapped, N) /\ HeadsLinked(mapped, N) /\ N \in Nat
    BY Reach, Parts
  <2>2. base + Len(ins) = N
    <3>1. CASE mode = "batch"
      <4>1. base = mapped.count - Len(ins) /\ Ahead = 0
        BY <1>2, <3>1 DEF Base, Ahead, SingleAt
      <4> QED BY <1>2, <4>1
    <3>2. CASE mode = "single"
      <4>1. base = mapped.count /\ Ahead = Len(ins)
        BY <1>2, <3>2 DEF Base, Ahead, SingleAt
      <4> QED BY <1>2, <4>1
    <3> QED BY <1>2, <3>1, <3>2
  <2> QED BY <2>1, <2>2
<1>10. Distinct(ins) /\ Distinct(op.entries) /\ ToSet(ins) \subseteq ToSet(op.entries) /\ op.todo = <<>>
  BY <1>2 DEF LookupInv, CallInv
<1> DEFINE b == Lane(ins, z)
<1>11. b \in Buckets /\ ins[z].key \in Keys
  <2>1. ins[z] \in Entry
    BY <1>2, <1>6
  <2> QED BY <2>1 DEF Lane, Buckets, Entry
<1>12. /\ mapped'.count = mapped.count /\ mapped'.records = mapped.records
       /\ mapped'.heads[b] = base + z /\ \A x \in Buckets : x # b => mapped'.heads[x] = mapped.heads[x]
  <2>1. s[1] = b /\ s[2] = base + z
    BY <1>6
  <2>2. mapped'.heads = [mapped.heads EXCEPT ![b] = base + z] /\ mapped'.count = mapped.count /\ mapped'.records = mapped.records
    <3> HIDE DEF b, base
    <3> QED BY <1>1, <1>2, <2>1 DEF Tables
  <2>3. mapped.heads \in [Buckets -> Nat]
    BY Parts
  <2> HIDE DEF b, base
  <2> QED BY <1>11, <2>2, <2>3
<1>13. HeadsLinked(mapped', N)
  <2>1. BucketOf(mapped, base + z) = b
    BY <1>6, <1>7 DEF Threaded, BucketOf, Lane
  <2>2. base + z <= N
    BY <1>2, <1>6, <1>7, <1>9
  <2> HIDE DEF b, base, N
  <2> QED BY <1>9, <1>12, <2>1, <2>2 DEF HeadsLinked, BucketOf
<1>14. ASSUME NEW k \in Keys
       PROVE  /\ (\A i \in 1 .. Len(ins) : ins[i].key # k) \/ Bucket[k] # b => Lookup(mapped', k) = Lookup(mapped, k)
              /\ \A i \in 1 .. Len(ins) : ins[i].key = k /\ Bucket[k] = b => Lookup(mapped', k) = ins[i].payload
  <2>1. Lasts(ins, z) /\ z \in 1 .. Len(ins)
    BY <1>6
  <2>2. mapped'.heads[Lane(ins, z)] = base + z /\ \A x \in Buckets : x # Lane(ins, z) => mapped'.heads[x] = mapped.heads[x]
    BY <1>12
  <2>3. mapped \in Tables /\ mapped' \in Tables /\ ins \in Seq(Entry)
    BY <1>2
  <2> HIDE DEF base, N, ins
  <2>4. Linking(mapped, mapped', ins, base, N, z)
    BY <1>7, <1>8, <1>9, <1>10, <1>12, <1>13, <2>1, <2>2, <2>3 DEF Linking
  <2> HIDE DEF b
  <2>5. b = Lane(ins, z)
    BY DEF b
  <2> QED BY <2>4, <2>5, LinkingLookup
<1>15. ASSUME NEW x \in left PROVE x[1] # b
  <2>1. PICK y \in 1 .. Len(ins) : Lasts(ins, y) /\ x = <<Lane(ins, y), base + y>>
    BY <1>2 DEF LookupInv, StageInv, Tops
  <2>2. Lane(ins, y) = b => y <= z /\ z <= y
    BY <1>6, <2>1 DEF Lasts
  <2>3. Lane(ins, y) = b => y = z
    BY <1>6, <2>1, <2>2
  <2> QED BY <1>6, <2>1, <2>3
<1>16. \A f \in ToSet(ins) : f \in ToSet(op.entries)
  BY <1>10
<1> HIDE DEF left, base, N
<1>17. ThreadInv'
  <2>1. CASE p \in {"link", "count"}
    <3>1. p = "count" => mode # "batch"
      BY <1>3
    <3>2. Base' = base /\ Filled' = Len(ins)
      BY <1>2, <1>5, <1>12, <2>1, <3>1 DEF Base, Filled, base
    <3>3. \A i \in 1 .. Len(ins) : Threaded(mapped', ins, base, i)
      BY <1>7, <1>12 DEF Threaded
    <3>4. ASSUME NEW i \in 1 .. Len(ins), Unlinked(Lane(ins, i))' PROVE Bottomed(mapped', ins, base, i)
      <4>1. PICK x \in left : x[1] = Lane(ins, i)
        BY <1>2, <1>5, <2>1, <3>1, <3>4 DEF Unlinked
      <4>2. Lane(ins, i) # b /\ x \in op.staged
        BY <1>15, <4>1 DEF left
      <4>3. Bottomed(mapped, ins, base, i)
        BY <1>2, <1>7, <4>1, <4>2 DEF LookupInv, ThreadInv, Unlinked, base
      <4>4. Lane(ins, i) \in Buckets
        <5>1. ins[i] \in Entry
          BY <1>2
        <5> QED BY <5>1 DEF Lane, Buckets, Entry
      <4>5. mapped'.heads[Lane(ins, i)] = mapped.heads[Lane(ins, i)]
        BY <1>12, <4>2, <4>4
      <4> QED BY <1>12, <4>3, <4>5 DEF Bottomed
    <3> QED BY <1>5, <1>7, <3>2, <3>3, <3>4 DEF ThreadInv
  <2>2. CASE p = "sync"
    <3>1. Base' \in Nat /\ Filled' = 0
      BY <1>2, <1>5, <1>12, <2>2 DEF Base, Filled
    <3> QED BY <3>1 DEF ThreadInv
  <2> QED BY <1>3, <2>1, <2>2
<1>18. StageInv'
  <2>1. p = "count" => mode # "batch"
    BY <1>3
  <2>2. p = "link" => Base' = base
    BY <1>2, <1>5, <1>12 DEF Base, base
  <2>3. Tops(left, ins, base)
    BY <1>2 DEF LookupInv, StageInv, Tops, left, base
  <2> QED BY <1>2, <1>5, <2>1, <2>2, <2>3 DEF StageInv
<1>19. CallInv'
  <2>1. p # "find"
    BY <1>3
  <2> QED BY <1>5, <1>10 DEF LookupInv, CallInv
<1>20. ASSUME NEW f \in ToSet(op.entries) PROVE Landed(mapped', f) \/ Pending(f)'
  <2>1. PICK m \in 1 .. Len(op.entries) : f = op.entries[m]
    BY <1>2 DEF ToSet
  <2>2. f \in Entry /\ f.key \in Keys
    <3>1. f \in Entry
      BY <1>2, <2>1
    <3> QED BY <3>1 DEF Entry
  <2>3. ASSUME NEW i \in 1 .. Len(ins), ins[i].key = f.key PROVE ins[i] = f
    <3>0. ins[i] \in ToSet(ins)
      BY <1>2 DEF ToSet
    <3>1. ins[i] \in ToSet(op.entries)
      BY <1>16, <3>0
    <3>2. PICK y \in 1 .. Len(op.entries) : ins[i] = op.entries[y]
      <4>1. DOMAIN op.entries = 1 .. Len(op.entries)
        BY <1>2
      <4> QED BY <3>1, <4>1 DEF ToSet
    <3>3. y = m
      BY <1>10, <2>1, <2>3, <3>2 DEF Distinct
    <3> QED BY <2>1, <3>2, <3>3
  <2>4. ASSUME NEW i \in 1 .. Len(ins), ins[i] = f, Lane(ins, i) = b PROVE Landed(mapped', f)
    <3>1. Bucket[f.key] = b
      BY <2>4 DEF Lane
    <3>2. Lookup(mapped', f.key) = f.payload
      BY <1>14, <2>2, <2>4, <3>1
    <3> QED BY <3>2 DEF Landed
  <2>5. CASE Landed(mapped, f)
    <3>1. CASE (\A i \in 1 .. Len(ins) : ins[i].key # f.key) \/ Bucket[f.key] # b
      <4>1. Lookup(mapped', f.key) = Lookup(mapped, f.key)
        BY <1>14, <2>2, <3>1
      <4> QED BY <2>5, <4>1 DEF Landed
    <3>2. CASE Bucket[f.key] = b /\ \E i \in 1 .. Len(ins) : ins[i].key = f.key
      <4>1. PICK i \in 1 .. Len(ins) : ins[i].key = f.key
        BY <3>2
      <4>2. ins[i] = f /\ Lane(ins, i) = b
        BY <2>3, <3>2, <4>1 DEF Lane
      <4> QED BY <2>4, <4>2
    <3> QED BY <3>1, <3>2
  <2>6. CASE Pending(f)
    <3>1. PICK i \in 1 .. Len(ins) : ins[i] = f /\ Unlinked(Lane(ins, i))
      BY <1>2, <2>6 DEF Pending
    <3>2. CASE Lane(ins, i) = b
      BY <2>4, <3>1, <3>2
    <3>3. CASE Lane(ins, i) # b
      <4>1. PICK x \in op.staged : x[1] = Lane(ins, i)
        BY <1>2, <3>1 DEF Unlinked
      <4>2. x \in left
        BY <1>6, <3>3, <4>1 DEF left
      <4>3. p = "link"
        BY <1>3, <4>2
      <4>4. Unlinked(Lane(ins, i))'
        BY <1>5, <4>1, <4>2, <4>3 DEF Unlinked
      <4> QED BY <1>5, <3>1, <4>4 DEF Pending
    <3> QED BY <3>2, <3>3
  <2>7. f \notin ToSet(op.todo)
    BY <1>10 DEF ToSet
  <2> QED BY <2>5, <2>6, <2>7 DEF LookupInv, Settled
<1>21. Settled'
  BY <1>5, <1>20 DEF Settled
<1>22. ASSUME NEW k \in Keys PROVE MovesOf(k)
  <2>1. CASE \A i \in 1 .. Len(ins) : ins[i].key # k
    <3>1. Lookup(mapped', k) = Lookup(mapped, k)
      BY <1>14, <2>1
    <3> QED BY <3>1 DEF MovesOf
  <2>2. CASE \E i \in 1 .. Len(ins) : ins[i].key = k
    <3>1. PICK i \in 1 .. Len(ins) : ins[i].key = k
      BY <2>2
    <3>0. ins[i] \in ToSet(ins)
      BY <1>2 DEF ToSet
    <3>2. ins[i] \in ToSet(op.entries)
      BY <1>16, <3>0
    <3> QED BY <3>1, <3>2 DEF MovesOf
  <2> QED BY <2>1, <2>2
<1> QED BY <1>17, <1>18, <1>19, <1>21, <1>22 DEF LookupInv

\* A power loss while no link is unsynced takes payloads back, nothing else.
LEMMA PowerLossMoves ==
  ASSUME TableInv, crashes \in Nat, ~Torn, PowerLoss
  PROVE  LookupInv' /\ \A k \in Keys : MovesOf(k)
<1> DEFINE n == Linkable
<1>0. crashes' # crashes /\ op' = Idle
  BY DEF PowerLoss
<1>1. mapped' \in Tables /\ synced \in Tables /\ mapped \in Tables
  BY LossIs DEF TableInv, TableTypes
<1>2. n \in 0 .. MaxRecords /\ WellLinked(mapped, n) /\ HeadsLinked(mapped, n)
  BY Reach
<1>3. WellLinked(synced, n) /\ HeadsLinked(synced, n) /\ SameLinks(synced, mapped, n)
  BY DiskReach
<1>4. HeadsLinked(mapped', n)
  <2>1. mapped'.count \in Nat /\ mapped'.count <= n
    BY LossIs, DiskReach, Parts
  <2>2. HeadsLinked(mapped', mapped'.count)
    <3>1. TableInv' /\ synced' = mapped'
      BY PowerLossOK DEF PowerLoss
    <3>2. HeadsLinked(synced', synced'.count)
      BY <3>1 DEF TableInv, DiskInv
    <3> QED BY <3>1, <3>2 DEF HeadsLinked, BucketOf
  <2>3. \A b \in Buckets : mapped'.heads[b] \in Nat
    BY <1>1 DEF Tables
  <2> QED BY <1>2, <2>1, <2>2, <2>3, RoomIsNat DEF HeadsLinked
<1>5. \A i \in 1 .. MaxRecords : mapped'.records[i] = mapped.records[i] \/ mapped'.records[i] = synced.records[i]
  BY LossIs
<1>6. SameLinks(mapped', mapped, n) /\ SameLinks(mapped', synced, n)
  <2>1. \A i \in 1 .. n : i \in 1 .. MaxRecords
    BY <1>2, RoomIsNat
  <2> QED BY <1>3, <1>5, <2>1 DEF SameLinks
<1> HIDE DEF n
<1>7. ASSUME NEW k \in Keys PROVE MovesOf(k)
  <2>1. Bucket[k] \in Buckets
    BY DEF Buckets
  <2>2. mapped'.heads[Bucket[k]] = mapped.heads[Bucket[k]] \/ mapped'.heads[Bucket[k]] = synced.heads[Bucket[k]]
    BY <2>1, LossIs
  <2>3. find(mapped', k) = find(mapped, k) \/ find(mapped', k) = find(synced, k)
    <3>1. CASE mapped'.heads[Bucket[k]] = mapped.heads[Bucket[k]]
      BY <1>1, <1>2, <1>4, <1>6, <3>1, FindSame
    <3>2. CASE mapped'.heads[Bucket[k]] = synced.heads[Bucket[k]]
      BY <1>1, <1>2, <1>3, <1>4, <1>6, <3>2, FindSame
    <3> QED BY <2>2, <3>1, <3>2
  <2>4. find(mapped, k) \in 0 .. n /\ find(synced, k) \in 0 .. n
    BY <1>1, <1>2, <1>3, FindFinds
  <2> DEFINE i == find(mapped', k)
  <2>5. i # 0 => i \in 1 .. MaxRecords
    <3>1. i \in 0 .. n
      BY <2>3, <2>4
    <3> HIDE DEF i
    <3> QED BY <1>2, <3>1, RoomIsNat
  <2>6. Lookup(mapped', k) = Held(mapped, i) \/ Lookup(mapped', k) = Held(synced, i)
    <3>1. Lookup(mapped', k) = Held(mapped', i)
      BY DEF Lookup
    <3>2. i # 0 => mapped'.records[i] = mapped.records[i] \/ mapped'.records[i] = synced.records[i]
      <4> HIDE DEF i
      <4> QED BY <1>5, <2>5
    <3>3. Held(mapped', i) = Held(mapped, i) \/ Held(mapped', i) = Held(synced, i)
      <4> HIDE DEF i
      <4> QED BY <3>2 DEF Held
    <3> QED BY <3>1, <3>3
  <2>7. \E t, u \in {mapped, synced} : Lookup(mapped', k) = Held(u, find(t, k))
    <3> HIDE DEF i
    <3>1. i = find(mapped, k) \/ i = find(synced, k)
      BY <2>3 DEF i
    <3> QED BY <2>6, <3>1, Zenon
  <2> QED BY <1>0, <2>7 DEF MovesOf
<1>8. LookupInv'
  BY <1>0, <1>1, CallEnds
<1> QED BY <1>7, <1>8

\* Where nothing is written nothing moves.
LEMMA CallMoves ==
  ASSUME TableInv, mapped' = mapped,
         (\E es \in Entries : Publish(es)) \/ (\E fork \in 0 .. MaxPayload : Sweep(fork)) \/ Kill \/ SyncTable
  PROVE  LookupInv' /\ \A k \in Keys : MovesOf(k)
<1>1. mapped' \in Tables
  BY DEF TableInv, TableTypes
<1>2. ASSUME NEW es \in Entries, Publish(es) PROVE LookupInv'
  <2>1. es \in Seq(Entry) /\ Distinct(es) /\ op' = Call(es)
    BY <1>2, EntriesType, EntriesOnce DEF Publish
  <2> QED BY <1>1, <2>1, CallStarts
<1>3. ASSUME NEW fork \in 0 .. MaxPayload, Sweep(fork) PROVE LookupInv'
  <2> DEFINE above == {r.key : r \in {x \in for_each(mapped) : x.payload > fork}}
             es == SetToSeq({[key |-> k, payload |-> 0] : k \in above})
  <2>1. es \in Seq(Entry)
    BY SweepType
  <2>2. Distinct(es)
    BY SweepOnce
  <2>3. op' = Call(es)
    BY <1>3, Zenon DEF Sweep
  <2> HIDE DEF es
  <2> QED BY <1>1, <2>1, <2>2, <2>3, CallStarts
<1>4. ASSUME Kill \/ SyncTable PROVE LookupInv'
  <2>1. op' = Idle
    BY <1>4 DEF Kill, SyncTable
  <2> QED BY <1>1, <2>1, CallEnds
<1>5. \A k \in Keys : MovesOf(k)
  BY DEF MovesOf
<1>6. LookupInv'
  <2>1. CASE \E es \in Entries : Publish(es)
    BY <1>2, <2>1, Zenon
  <2>2. CASE \E fork \in 0 .. MaxPayload : Sweep(fork)
    BY <1>3, <2>2, Zenon
  <2> QED BY <1>4, <2>1, <2>2, Zenon
<1> QED BY <1>5, <1>6, Zenon

\* When a call syncs, all its entries are found.
LEMMA AllLanded ==
  ASSUME TableInv, LookupInv, SyncTable, NEW e \in ToSet(op.entries)
  PROVE  Landed(mapped, e)
<1>1. op.at = "sync" /\ op.todo = <<>>
  BY DEF SyncTable, LookupInv, CallInv
<1>2. e \notin ToSet(op.todo)
  BY <1>1 DEF ToSet
<1>3. ~Pending(e)
  BY <1>1 DEF Pending, Unlinked
<1> QED BY <1>2, <1>3 DEF LookupInv, Settled

\* Every step keeps both invariants and moves only what it may.
LEMMA NextMoves ==
  ASSUME ~Torn, TableInv, LookupInv, crashes \in Nat, Next
  PROVE  TableInv' /\ LookupInv' /\ \A k \in Keys : MovesOf(k)
<1>1. CASE \E es \in Entries : Publish(es)
  <2>1. TableInv' /\ mapped' = mapped
    BY <1>1, PublishOK DEF Publish
  <2> QED BY <1>1, <2>1, CallMoves
<1>2. CASE \E fork \in 0 .. MaxPayload : Sweep(fork)
  <2>1. TableInv' /\ mapped' = mapped
    BY <1>2, SweepOK DEF Sweep
  <2> QED BY <1>2, <2>1, CallMoves
<1>3. CASE Kill
  <2>1. TableInv' /\ mapped' = mapped
    BY <1>3, KillOK DEF Kill
  <2> QED BY <1>3, <2>1, CallMoves
<1>4. CASE SyncTable
  <2>1. TableInv' /\ mapped' = mapped
    BY <1>4, SyncTableOK DEF SyncTable
  <2> QED BY <1>4, <2>1, CallMoves
<1>5. CASE FindOrUpdate
  BY <1>5, FindOrUpdateOK, FindMoves
<1>6. CASE Found
  BY <1>6, FoundOK, FoundMoves
<1>7. CASE WriteRecord
  BY <1>7, WriteRecordOK, WriteMoves
<1>8. CASE SyncRecords
  BY <1>8, SyncRecordsOK, SyncRecordsMoves
<1>9. CASE PublishCount
  BY <1>9, PublishCountOK, PublishCountMoves
<1>10. CASE Link
  BY <1>10, LinkOK, LinkMoves
<1>11. CASE PowerLoss
  BY <1>11, PowerLossOK, PowerLossMoves
<1> QED BY <1>1, <1>2, <1>3, <1>4, <1>5, <1>6, <1>7, <1>8, <1>9, <1>10, <1>11 DEF Next

\* As long as no crash leaves a head without its count, whatever is inserted,
\* updated, swept, killed and lost, a lookup of tables.rs changes only by a
\* call that writes its key, or by a power loss to what was mapped or synced
\* of a record it found; and a call that syncs has all its entries found.
THEOREM LookupsOnlyMove ==
  ASSUME ~Torn
  PROVE  Spec => LookupsMove
<1> DEFINE Both == TableInv /\ LookupInv /\ crashes \in Nat
           A == /\ \A k \in Keys :
                     \/ Lookup(mapped', k) = Lookup(mapped, k)
                     \/ \E e \in ToSet(op.entries) : e.key = k
                     \/ crashes' # crashes /\ \E t, u \in {mapped, synced} : Lookup(mapped', k) = Held(u, find(t, k))
                /\ SyncTable => \A e \in ToSet(op.entries) :
                     Lookup(mapped, e.key) = e.payload \/ (e.payload = 0 /\ Lookup(mapped, e.key) = Absent)
<1>1. Init => Both
  <2> SUFFICES ASSUME Init PROVE Both
    OBVIOUS
  <2>1. TableInv
    BY TableStarts
  <2>2. op.at = "idle" /\ op.entries = <<>> /\ op.todo = <<>> /\ op.inserts = <<>>
    BY DEF Init, Idle
  <2>3. Base \in Nat /\ Filled = 0
    BY <2>1, <2>2, Parts DEF Base, Filled
  <2>4. ThreadInv /\ StageInv
    BY <2>2, <2>3 DEF ThreadInv, StageInv
  <2>5. Len(<<>>) = 0 /\ ToSet(<<>>) = {}
    BY DEF ToSet
  <2>6. CallInv /\ Settled
    BY <2>2, <2>5 DEF CallInv, Distinct, Settled
  <2>7. crashes \in Nat
    BY DEF Init
  <2> QED BY <2>1, <2>4, <2>6, <2>7 DEF LookupInv
<1>2. Both /\ [Next]_vars => Both'
  <2> SUFFICES ASSUME TableInv, LookupInv, crashes \in Nat, [Next]_vars
               PROVE  TableInv' /\ LookupInv' /\ crashes' \in Nat
    OBVIOUS
  <2>0. crashes' = crashes \/ crashes' = crashes + 1
    <3>1. CASE (\E es \in Entries : Publish(es)) \/ (\E fork \in 0 .. MaxPayload : Sweep(fork)) \/ UNCHANGED vars
      BY <3>1, Zenon DEF vars, Publish, Sweep
    <3>2. CASE FindOrUpdate \/ Found \/ WriteRecord \/ SyncRecords \/ PublishCount \/ Link \/ SyncTable
      BY <3>2, Zenon DEF FindOrUpdate, Found, WriteRecord, SyncRecords, PublishCount, Link, SyncTable
    <3>3. CASE Kill \/ PowerLoss
      BY <3>3, Zenon DEF Kill, PowerLoss
    <3> QED BY <3>1, <3>2, <3>3, Zenon DEF Next
  <2>3. crashes' \in Nat
    BY <2>0
  <2>1. CASE Next
    BY <2>1, <2>3, NextMoves
  <2>2. CASE UNCHANGED vars
    <3>1. TableInv'
      BY <2>2 DEF vars, TableInv, TableTypes, ChainInv, OpInv, DiskInv, StagedWell, WellLinked, HeadsLinked,
                  SameLinks, BucketOf, SingleAt, Ahead, Linkable, Stored
    <3>2. ThreadInv' /\ StageInv' /\ CallInv'
      BY <2>2 DEF vars, LookupInv, ThreadInv, StageInv, CallInv, Base, Filled, Unlinked
    <3>3. Settled'
      BY <2>2 DEF vars, LookupInv, Settled, Landed, Pending, Unlinked
    <3> QED BY <2>3, <3>1, <3>2, <3>3 DEF LookupInv
  <2> QED BY <2>1, <2>2
<1>3. Both /\ [Next]_vars => [A]_vars
  <2> SUFFICES ASSUME TableInv, LookupInv, crashes \in Nat, Next PROVE A
    OBVIOUS
  <2>1. \A k \in Keys : MovesOf(k)
    BY NextMoves
  <2>2. SyncTable => \A e \in ToSet(op.entries) : Landed(mapped, e)
    BY AllLanded
  <2> QED BY <2>1, <2>2, Zenon DEF MovesOf, Landed
<1> QED BY <1>1, <1>2, <1>3, PTL DEF Spec, LookupsMove
=============================================================================
