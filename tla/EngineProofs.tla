---------------------------- MODULE EngineProofs ----------------------------
(***************************************************************************)
(* Proofs about the engine, its single-block path and then its window      *)
(* path, for every tree of blocks, every assignment of coins and every     *)
(* bound.                                                                  *)
(***************************************************************************)
EXTENDS FollowWindow, SetFacts

-----------------------------------------------------------------------------
(* Paths and heights.                                                      *)

\* A path holds its own end and genesis, and the paths of its members.
LEMMA PathFacts ==
  ASSUME NEW b \in Blocks
  PROVE  /\ b \in Path[b] /\ Genesis \in Path[b] /\ Path[b] \subseteq Blocks
         /\ \A x \in Path[b] : Path[x] \subseteq Path[b] /\ Height[x] <= Height[b]
<1>1. b \in Path[b] /\ Path[b] \subseteq Blocks
  BY TreeAssumption
<1> QED BY <1>1, PathAssumption

\* TopHeight of a non-empty part of a path is the height of its highest block.
LEMMA TopOfPath ==
  ASSUME NEW b \in Blocks, NEW S, S \subseteq Path[b], S # {}
  PROVE  \E x \in S : TopHeight(S) = Height[x] /\ \A y \in S : Height[y] <= Height[x]
<1> DEFINE T == {Height[x] : x \in S}
<1>1. S \subseteq Blocks /\ \A x \in S : Height[x] \in Nat /\ Height[x] <= Height[b]
  BY PathFacts, TreeAssumption
<1>2. T \subseteq Nat /\ T # {} /\ \A h \in T : h <= Height[b]
  BY <1>1
<1>3. \E h \in T : \A k \in T : k <= h
  <2> HIDE DEF T
  <2> QED BY <1>2, TreeAssumption, BoundedHasTop
<1>4. PICK x \in S : \A y \in S : Height[y] <= Height[x]
  BY <1>3
<1>5. TopHeight(S) \in T /\ \A y \in S : Height[y] <= TopHeight(S)
  BY <1>4 DEF TopHeight
<1> QED BY <1>5

\* The top height of a single block is its own.
LEMMA TopOfOne ==
  ASSUME NEW S, NEW x \in Blocks, x \in S, \A y \in S : y = x
  PROVE  TopHeight(S) = Height[x]
<1>1. S = {x}
  OBVIOUS
<1>2. x \in Path[x]
  BY PathFacts
<1> QED BY <1>1, <1>2, TopOfPath

\* Two paths share the path of the highest block they share.
LEMMA SharedPrefix ==
  ASSUME NEW p \in Blocks, NEW b \in Blocks
  PROVE  \E x \in Path[b] \cap Path[p] :
           /\ TopHeight(Path[b] \cap Path[p]) = Height[x]
           /\ {y \in Path[p] : Height[y] <= Height[x]} = Path[x]
           /\ {y \in Path[b] : Height[y] <= Height[x]} = Path[x]
<1>1. Path[b] \cap Path[p] # {}
  BY PathFacts
<1>2. PICK x \in Path[b] \cap Path[p] : TopHeight(Path[b] \cap Path[p]) = Height[x]
  BY <1>1, TopOfPath
<1> QED BY <1>2, PathAssumption

-----------------------------------------------------------------------------
(* Coins along a path.                                                     *)

\* Every block of the path is consistent with its own ancestry.
ValidPath(b) == \A x \in Path[b] : SpendsValid(x)

\* Along a path a coin has one creator.
LEMMA OneCreator ==
  ASSUME NEW b \in Blocks, NEW a \in Path[b], NEW c, c \in Adds[a]
  PROVE  \A y \in Path[b] : c \in Adds[y] => y = a
BY CoinAssumption

\* Along a valid path a coin has one spender, and genesis is not it.
LEMMA OneSpender ==
  ASSUME NEW b \in Blocks, ValidPath(b), NEW r \in Path[b], NEW c, c \in Removes[r]
  PROVE  \A y \in Path[b] : c \in Removes[y] => y = r
<1> SUFFICES ASSUME NEW y \in Path[b], c \in Removes[y], y # r PROVE FALSE
  OBVIOUS
<1>1. Height[y] \in Nat /\ Height[r] \in Nat
  BY PathFacts, TreeAssumption
<1>2. CASE Height[y] <= Height[r]
  <2>1. y \in Path[r] \ {r}
    BY <1>2, PathAssumption
  <2> QED BY <2>1 DEF ValidPath, SpendsValid, RemovedBy
<1>3. CASE Height[r] <= Height[y]
  <2>1. r \in Path[y] \ {y}
    BY <1>3, PathAssumption
  <2> QED BY <2>1 DEF ValidPath, SpendsValid, RemovedBy
<1> QED BY <1>1, <1>2, <1>3

\* Only genesis is at height 0, and it spends nothing.
LEMMA SpenderHeight ==
  ASSUME NEW r \in Blocks, NEW c, c \in Removes[r]
  PROVE  Height[r] \in Nat /\ Height[r] > 0
<1>1. r # Genesis
  BY CoinAssumption
<1>2. Parent[r] \in Blocks /\ Height[r] = Height[Parent[r]] + 1
  BY <1>1, TreeAssumption
<1>3. Height[Parent[r]] \in Nat
  BY <1>2, TreeAssumption
<1> QED BY <1>2, <1>3

\* The row that replaying a valid path gives a coin: absent, unspent or spent.
LEMMA RowAbsent ==
  ASSUME NEW b \in Blocks, NEW c \in Coins, \A a \in Path[b] : c \notin Adds[a]
  PROVE  CoinsOf(Path[b])[c] = Absent
BY DEF CoinsOf, AddedBy

\* The row of a coin that a block x of the replayed path creates says so.
LEMMA RowCreated ==
  ASSUME NEW b \in Blocks, NEW c \in Coins, NEW a \in Path[b], c \in Adds[a]
  PROVE  CoinsOf(Path[b])[c] =
           [created |-> Height[a],
            spent |-> IF c \in RemovedBy(Path[b])
                      THEN TopHeight({x \in Path[b] : c \in Removes[x]}) ELSE 0]
<1> DEFINE C == {x \in Path[b] : c \in Adds[x]}
<1>1. a \in Blocks /\ a \in C /\ \A y \in C : y = a
  BY OneCreator, PathFacts
<1>2. TopHeight(C) = Height[a]
  <2> HIDE DEF C
  <2> QED BY <1>1, TopOfOne
<1>3. c \in AddedBy(Path[b])
  BY DEF AddedBy
<1> QED BY <1>2, <1>3 DEF CoinsOf

\* A row's creation height is that of a block of the path.
LEMMA RowCreatedAt ==
  ASSUME NEW b \in Blocks, NEW c \in Coins, NEW a \in Path[b], c \in Adds[a]
  PROVE  CoinsOf(Path[b])[c].created = Height[a]
<1> DEFINE s == IF c \in RemovedBy(Path[b])
                THEN TopHeight({x \in Path[b] : c \in Removes[x]}) ELSE 0
<1>1. CoinsOf(Path[b])[c] = [created |-> Height[a], spent |-> s]
  BY RowCreated
<1> HIDE DEF s
<1> QED BY <1>1

\* The row of a coin no block of the path spends is unspent.
LEMMA RowUnspent ==
  ASSUME NEW b \in Blocks, NEW c \in Coins, NEW a \in Path[b], c \in Adds[a],
         \A r \in Path[b] : c \notin Removes[r]
  PROVE  CoinsOf(Path[b])[c] = [created |-> Height[a], spent |-> 0]
<1>1. c \notin RemovedBy(Path[b])
  BY DEF RemovedBy
<1> QED BY <1>1, RowCreated

\* The row of a coin that a block of the path spends says where.
LEMMA RowSpent ==
  ASSUME NEW b \in Blocks, ValidPath(b), NEW c \in Coins, NEW a \in Path[b], c \in Adds[a],
         NEW r \in Path[b], c \in Removes[r]
  PROVE  CoinsOf(Path[b])[c] = [created |-> Height[a], spent |-> Height[r]]
<1> DEFINE C == {x \in Path[b] : c \in Removes[x]}
<1>1. r \in Blocks /\ r \in C /\ \A y \in C : y = r
  BY OneSpender, PathFacts
<1>2. TopHeight(C) = Height[r]
  <2> HIDE DEF C
  <2> QED BY <1>1, TopOfOne
<1>3. c \in RemovedBy(Path[b])
  BY DEF RemovedBy
<1> QED BY <1>2, <1>3, RowCreated

\* Applying the rest of a valid path to the table of a prefix of it gives the
\* table of the path.
LEMMA ApplyRest ==
  ASSUME NEW b \in Blocks, ValidPath(b), NEW P,
         P = {} \/ \E x \in Path[b] : P = Path[x]
  PROVE  Apply(CoinsOf(P), Path[b] \ P) = CoinsOf(Path[b])
<1> DEFINE S == Path[b] \ P
           table == CoinsOf(P)
           full == CoinsOf(Path[b])
<1>1. P \subseteq Path[b] /\ \A x \in P : Path[x] \subseteq P
  BY PathFacts
<1>2. Path[b] \subseteq Blocks /\ \A x \in Path[b] : Height[x] \in Nat
  BY PathFacts, TreeAssumption
<1>3. P # {} => \E x \in Blocks : ValidPath(x) /\ P = Path[x]
  BY <1>1, <1>2 DEF ValidPath
<1>4. ASSUME NEW c \in Coins PROVE Apply(table, S)[c] = full[c]
  <2> DEFINE created == IF c \in AddedBy(S) THEN TopHeight({x \in S : c \in Adds[x]})
                        ELSE table[c].created
             spent == IF c \in RemovedBy(S) THEN TopHeight({x \in S : c \in Removes[x]})
                      ELSE IF c \in AddedBy(S) THEN 0 ELSE table[c].spent
  <2>1. Apply(table, S)[c]
          = IF created = -1 THEN Absent ELSE [created |-> created, spent |-> spent]
    BY DEF Apply
  <2>2. CASE \A a \in Path[b] : c \notin Adds[a]
    <3>1. c \notin AddedBy(S) /\ c \notin AddedBy(P)
      BY <2>2, <1>1 DEF AddedBy
    <3>2. table[c] = Absent
      BY <3>1 DEF CoinsOf
    <3>3. full[c] = Absent
      BY <2>2, RowAbsent
    <3> QED BY <3>1, <3>2, <3>3, <2>1 DEF Absent
  <2>3. ASSUME NEW a \in Path[b], c \in Adds[a] PROVE Apply(table, S)[c] = full[c]
    <3>1. \A y \in Path[b] : c \in Adds[y] => y = a
      BY <2>3, OneCreator
    <3>2. a \in P <=> c \notin AddedBy(S)
      BY <2>3, <3>1 DEF AddedBy
    <3>3. created = Height[a]
      <4>1. CASE a \in S
        <5> DEFINE C == {x \in S : c \in Adds[x]}
        <5>1. a \in Blocks /\ a \in C /\ \A y \in C : y = a
          BY <4>1, <2>3, <3>1, <1>2
        <5>2. TopHeight(C) = Height[a]
          <6> HIDE DEF C
          <6> QED BY <5>1, TopOfOne
        <5> QED BY <5>2, <4>1, <3>2
      <4>2. CASE a \in P
        <5>1. PICK x \in Blocks : P = Path[x]
          BY <4>2, <1>3
        <5>2. CoinsOf(Path[x])[c].created = Height[a]
          BY <4>2, <5>1, <2>3, RowCreatedAt
        <5> QED BY <5>1, <5>2, <4>2, <3>2
      <4> QED BY <4>1, <4>2
    <3>4. CASE \A r \in Path[b] : c \notin Removes[r]
      <4>1. full[c] = [created |-> Height[a], spent |-> 0]
        BY <2>3, <3>4, RowUnspent
      <4>2. c \notin RemovedBy(S)
        BY <3>4 DEF RemovedBy
      <4>3. ASSUME a \in P PROVE table[c].spent = 0
        <5>1. PICK x \in Blocks : P = Path[x]
          BY <4>3, <1>3
        <5>2. CoinsOf(Path[x])[c] = [created |-> Height[a], spent |-> 0]
          BY <4>3, <5>1, <2>3, <3>4, <1>1, RowUnspent
        <5> QED BY <5>1, <5>2
      <4>4. spent = 0
        BY <4>2, <4>3, <3>2
      <4> HIDE DEF created, spent, table, full, S
      <4> QED BY <2>1, <1>2, <3>3, <4>1, <4>4
    <3>5. ASSUME NEW r \in Path[b], c \in Removes[r] PROVE Apply(table, S)[c] = full[c]
      <4>1. \A y \in Path[b] : c \in Removes[y] => y = r
        BY <3>5, OneSpender
      <4>2. full[c] = [created |-> Height[a], spent |-> Height[r]]
        BY <2>3, <3>5, RowSpent
      <4>3. r \in P <=> c \notin RemovedBy(S)
        BY <3>5, <4>1 DEF RemovedBy
      <4>4. CASE r \in S
        <5> DEFINE C == {x \in S : c \in Removes[x]}
        <5>1. r \in Blocks /\ r \in C /\ \A y \in C : y = r
          BY <4>4, <3>5, <4>1, <1>2
        <5>2. TopHeight(C) = Height[r]
          <6> HIDE DEF C
          <6> QED BY <5>1, TopOfOne
        <5>3. spent = Height[r]
          BY <5>2, <4>4, <4>3
        <5> HIDE DEF created, spent, table, full, S
        <5> QED BY <2>1, <1>2, <3>3, <4>2, <5>3
      <4>5. CASE r \in P
        <5>1. c \in AddedBy(Path[r]) /\ Path[r] \subseteq P
          BY <3>5, <4>5, <1>1 DEF ValidPath, SpendsValid
        <5>2. a \in P
          BY <5>1, <3>1, <1>1 DEF AddedBy
        <5>3. PICK x \in Blocks : ValidPath(x) /\ P = Path[x]
          BY <4>5, <1>3
        <5>4. CoinsOf(Path[x])[c] = [created |-> Height[a], spent |-> Height[r]]
          BY <2>3, <3>5, <4>5, <5>2, <5>3, RowSpent
        <5>5. spent = Height[r]
          BY <5>2, <5>3, <5>4, <4>3, <4>5, <3>2
        <5> HIDE DEF created, spent, table, full, S
        <5> QED BY <2>1, <1>2, <3>3, <4>2, <5>5
      <4> QED BY <4>4, <4>5
    <3> QED BY <3>4, <3>5
  <2> QED BY <2>2, <2>3
<1>5. Apply(table, S) = [c \in Coins |-> Apply(table, S)[c]]
  BY DEF Apply
<1>6. full = [c \in Coins |-> full[c]]
  BY DEF CoinsOf
<1> QED BY <1>4, <1>5, <1>6

\* Rolling a valid path's table back to a block of it gives that block's table.
LEMMA RollbackPrefix ==
  ASSUME NEW p \in Blocks, ValidPath(p), NEW x \in Path[p]
  PROVE  Rollback(CoinsOf(Path[p]), Height[x]) = CoinsOf(Path[x])
<1> DEFINE table == CoinsOf(Path[p])
           prefix == CoinsOf(Path[x])
<1>1. /\ x \in Blocks /\ Path[p] \subseteq Blocks /\ Path[x] \subseteq Path[p]
      /\ \A y \in Path[p] : Height[y] \in Nat
      /\ \A y \in Path[p] : y \in Path[x] <=> Height[y] <= Height[x]
  BY PathFacts, PathAssumption, TreeAssumption
<1>2. ValidPath(x)
  BY <1>1 DEF ValidPath
<1>3. ASSUME NEW c \in Coins
      PROVE  Rollback(table, Height[x])[c] = prefix[c]
  <2>1. Rollback(table, Height[x])[c]
          = IF table[c].created > Height[x] THEN Absent
            ELSE IF table[c].spent > Height[x] THEN [table[c] EXCEPT !.spent = 0]
            ELSE table[c]
    BY DEF Rollback
  <2>2. CASE \A a \in Path[p] : c \notin Adds[a]
    <3>1. table[c] = Absent
      BY <2>2, RowAbsent
    <3>2. prefix[c] = Absent
      BY <2>2, <1>1, RowAbsent
    <3> QED BY <2>1, <3>1, <3>2, <1>1 DEF Absent
  <2>3. CASE \E a \in Path[p] : c \in Adds[a]
    <3>1. PICK a \in Path[p] : c \in Adds[a]
      BY <2>3
    <3>2. \A y \in Path[p] : c \in Adds[y] => y = a
      BY <3>1, OneCreator
    <3>3. table[c].created = Height[a]
      BY <3>1, RowCreatedAt
    <3>4. CASE a \notin Path[x]
      <4>1. \A y \in Path[x] : c \notin Adds[y]
        BY <3>2, <3>4, <1>1
      <4>2. prefix[c] = Absent
        BY <4>1, <1>1, RowAbsent
      <4>3. Height[a] > Height[x]
        BY <3>4, <1>1, PathFacts
      <4> QED BY <2>1, <3>3, <4>2, <4>3
    <3>5. CASE a \in Path[x]
      <4>1. CASE \E r \in Path[p] : c \in Removes[r]
        <5>1. PICK r \in Path[p] : c \in Removes[r]
          BY <4>1
        <5>2. \A y \in Path[p] : c \in Removes[y] => y = r
          BY <5>1, OneSpender
        <5>3. table[c] = [created |-> Height[a], spent |-> Height[r]]
          BY <3>1, <5>1, RowSpent
        <5>4. CASE r \in Path[x]
          <6>1. prefix[c] = [created |-> Height[a], spent |-> Height[r]]
            BY <3>1, <3>5, <5>1, <5>4, <1>1, <1>2, RowSpent
          <6> QED BY <2>1, <5>3, <6>1, <3>5, <5>4, <1>1
        <5>5. CASE r \notin Path[x]
          <6>1. \A y \in Path[x] : c \notin Removes[y]
            BY <5>2, <5>5, <1>1
          <6>2. prefix[c] = [created |-> Height[a], spent |-> 0]
            BY <3>1, <3>5, <6>1, <1>1, RowUnspent
          <6> QED BY <2>1, <5>3, <6>2, <3>5, <5>5, <1>1
        <5> QED BY <5>4, <5>5
      <4>2. CASE \A r \in Path[p] : c \notin Removes[r]
        <5>1. table[c] = [created |-> Height[a], spent |-> 0]
          BY <3>1, <4>2, RowUnspent
        <5>2. prefix[c] = [created |-> Height[a], spent |-> 0]
          BY <3>1, <3>5, <4>2, <1>1, RowUnspent
        <5> QED BY <2>1, <5>1, <5>2, <3>5, <1>1
      <4> QED BY <4>1, <4>2
    <3> QED BY <3>4, <3>5
  <2> QED BY <2>2, <2>3
<1>4. Rollback(table, Height[x]) = [c \in Coins |-> Rollback(table, Height[x])[c]]
  BY DEF Rollback
<1>5. prefix = [c \in Coins |-> prefix[c]]
  BY DEF CoinsOf
<1> QED BY <1>3, <1>4, <1>5

-----------------------------------------------------------------------------
(* The inductive invariant.                                                *)

\* What is kept has its ancestry in the archive, and was valid against it.
ArchiveValid ==
  /\ onChain \subseteq archive /\ cache \subseteq archive /\ pending \subseteq archive
  /\ pending \cap onChain = {}
  /\ peak = NoBlock => archive = {}
  /\ \A b \in archive : Path[b] \subseteq archive /\ SpendsValid(b)

\* A reorg that has begun is to an archived, heavier block off the main chain.
JobIsHeavier ==
  job # NoBlock => /\ peak # NoBlock /\ Weight[job] > Weight[peak]
                   /\ job \in archive /\ job \notin onChain

IInv == TypeOK /\ FlagsMatchPeak /\ CoinsReplayChain /\ ArchiveValid /\ JobIsHeavier

\* set_peak leaves exactly the new peak's ancestry flagged, and the branch of a
\* reorg is what the new chain adds to the block where the two part.
LEMMA ForkFacts ==
  ASSUME peak \in Blocks \cup {NoBlock}, FlagsMatchPeak, NEW b \in Blocks
  PROVE  /\ SetPeak(b) = Path[b]
         /\ peak # NoBlock =>
              \E x \in Path[b] \cap Path[peak] :
                ForkHeight(b) = Height[x] /\ Branch(b) = Path[b] \ Path[x]
<1>1. Path[b] \subseteq Blocks /\ \A y \in Path[b] : Height[y] \in Nat
  BY PathFacts, TreeAssumption
<1>2. CASE peak = NoBlock
  <2>1. onChain = {} /\ ForkHeight(b) = -1
    BY <1>2 DEF FlagsMatchPeak, ChainOf, ForkHeight
  <2> QED BY <1>1, <1>2, <2>1 DEF SetPeak
<1>3. CASE peak # NoBlock
  <2>1. peak \in Blocks /\ onChain = Path[peak]
    BY <1>3 DEF FlagsMatchPeak, ChainOf
  <2>2. PICK x \in Path[b] \cap Path[peak] :
          /\ TopHeight(Path[b] \cap Path[peak]) = Height[x]
          /\ {y \in Path[peak] : Height[y] <= Height[x]} = Path[x]
          /\ {y \in Path[b] : Height[y] <= Height[x]} = Path[x]
    BY <2>1, SharedPrefix
  <2>3. ForkHeight(b) = Height[x]
    BY <2>1, <2>2 DEF ForkHeight
  <2>4. {y \in Path[b] : Height[y] > Height[x]} = Path[b] \ Path[x]
    BY <2>2, <1>1
  <2>5. Path[x] \subseteq Path[b]
    BY <2>2, PathFacts
  <2>6. SetPeak(b) = Path[b]
    BY <2>1, <2>2, <2>3, <2>4, <2>5 DEF SetPeak
  <2> QED BY <2>2, <2>3, <2>4, <2>6 DEF Branch
<1> QED BY <1>2, <1>3

\* prev_record_by lets genesis in first, and then only children of archived blocks.
LEMMA AcceptedParent ==
  ASSUME IInv, NEW b \in Blocks, Accepts(b, pending)
  PROVE  IF peak = NoBlock THEN b = Genesis ELSE b # Genesis /\ Parent[b] \in archive
<1>1. CASE peak = NoBlock
  BY <1>1 DEF Accepts, HasParent, IInv, ArchiveValid
<1>2. CASE peak # NoBlock
  <2>1. Genesis \in onChain
    BY <1>2, PathAssumption, PathFacts DEF IInv, TypeOK, FlagsMatchPeak, ChainOf
  <2>2. b # Genesis
    BY <2>1 DEF Accepts, AlreadyHave
  <2> QED BY <1>2, <2>2 DEF Accepts, HasParent, IInv, ArchiveValid
<1> QED BY <1>1, <1>2

\* Replaying any set of blocks of one path gives a table of the right type.
LEMMA TableType ==
  ASSUME NEW b \in Blocks
  PROVE  CoinsOf(Path[b]) \in CoinTable
<1>1. ASSUME NEW c \in Coins, c \in AddedBy(Path[b])
      PROVE  /\ TopHeight({x \in Path[b] : c \in Adds[x]}) \in Nat
             /\ c \in RemovedBy(Path[b]) => TopHeight({x \in Path[b] : c \in Removes[x]}) \in Nat
  <2> DEFINE A == {x \in Path[b] : c \in Adds[x]}
             R == {x \in Path[b] : c \in Removes[x]}
  <2>1. A \subseteq Path[b] /\ A # {} /\ R \subseteq Path[b] /\ (c \in RemovedBy(Path[b]) => R # {})
    BY <1>1 DEF AddedBy, RemovedBy
  <2>2. \A x \in Path[b] : Height[x] \in Nat
    BY PathFacts, TreeAssumption
  <2>3. TopHeight(A) \in Nat /\ (c \in RemovedBy(Path[b]) => TopHeight(R) \in Nat)
    <3> HIDE DEF A, R
    <3> QED BY <2>1, <2>2, TopOfPath
  <2> QED BY <2>3
<1> QED BY <1>1 DEF CoinsOf, CoinTable

\* With the flags and the coins of the peak's chain, the table is right up to
\* every confirmed block.
LEMMA ChainTable ==
  ASSUME peak \in Blocks \cup {NoBlock}, FlagsMatchPeak, CoinsReplayChain, ChainSpendsValid
  PROVE  /\ coins \in CoinTable
         /\ \A w \in onChain : ValidPath(w) /\ Rollback(coins, Height[w]) = CoinsOf(Path[w])
<1>1. CASE peak = NoBlock
  <2>1. onChain = {} /\ coins = CoinsOf({})
    BY <1>1 DEF FlagsMatchPeak, CoinsReplayChain, ChainOf
  <2> QED BY <2>1 DEF CoinsOf, CoinTable, AddedBy
<1>2. CASE peak # NoBlock
  <2>1. peak \in Blocks /\ onChain = Path[peak] /\ coins = CoinsOf(Path[peak])
    BY <1>2 DEF FlagsMatchPeak, CoinsReplayChain, ChainOf
  <2>2. \A w \in Path[peak] : Path[w] \subseteq Path[peak]
    BY <2>1, PathFacts
  <2>3. ValidPath(peak) /\ \A w \in onChain : ValidPath(w)
    BY <2>1, <2>2 DEF ChainSpendsValid, ValidPath
  <2> QED BY <2>1, <2>3, RollbackPrefix, TableType
<1> QED BY <1>1, <1>2

\* What lookup_removals finds through the fork view and the coin table is what
\* the block's whole ancestry says, whatever part of that ancestry is folded in
\* from memory, as long as the rest of it is in the store and the table is right
\* up to every confirmed ancestor.
LEMMA LookupIsSound ==
  ASSUME NEW b \in Blocks, b # Genesis, NEW over, coins \in CoinTable,
         \A w \in onChain \cap Path[b] :
           ValidPath(w) /\ Rollback(coins, Height[w]) = CoinsOf(Path[w]),
         \A x \in Path[b] \ {b} : SpendsValid(x) /\ (x \in over \/ x \in archive),
         LookupRemovals(b, over)
  PROVE  SpendsValid(b)
<1> DEFINE Above == Path[b] \ {b}
           Ends == {x \in Above : x \notin over /\ (x \in onChain \/ x \notin archive)}
           F == Folded(b, over)
<1>1. Path[b] \subseteq Blocks /\ b \in Path[b] /\ \A y \in Path[b] : Height[y] \in Nat
  BY PathFacts, TreeAssumption
<1>2. Ends \subseteq onChain
  OBVIOUS
\* A coin created by y on the path was not spent by a block the path of which
\* does not hold y.
<1>3. ASSUME NEW c, NEW y \in Path[b], c \in Adds[y], NEW r \in Above, c \in Removes[r]
      PROVE  y \in Path[r]
  <2>1. c \in AddedBy(Path[r]) /\ Path[r] \subseteq Path[b]
    BY <1>3, PathFacts DEF SpendsValid
  <2>2. PICK z \in Path[r] : c \in Adds[z]
    BY <2>1 DEF AddedBy
  <2>3. z = y
    BY <2>1, <2>2, <1>3, OneCreator
  <2> QED BY <2>2, <2>3
\* A coin the block creates itself nobody has spent before.
<1>4. ASSUME NEW c \in Removes[b], c \in Adds[b]
      PROVE  c \in AddedBy(Path[b]) /\ c \notin RemovedBy(Above)
  <2>1. ASSUME NEW r \in Above, c \in Removes[r] PROVE FALSE
    <3>1. b \in Path[r]
      BY <1>1, <1>3, <1>4, <2>1
    <3>2. Height[b] <= Height[r] /\ Height[r] <= Height[b]
      BY <3>1, <1>1, PathFacts
    <3> QED BY <3>2, <1>1, PathAssumption
  <2> QED BY <1>1, <1>4, <2>1 DEF AddedBy, RemovedBy
\* The walk that meets no confirmed block folds the whole ancestry.
<1>5. CASE Ends = {}
  <2>1. WalkEnd(b, over) = -1
    BY <1>5 DEF WalkEnd
  <2>2. F = Above /\ ViewForkHeight(b, over) = -1
    BY <2>1, <1>1 DEF Folded, ViewForkHeight
  <2>3. \A c \in Coins : ~(coins[c] # Absent /\ coins[c].created <= -1)
    BY DEF CoinTable
  <2>4. ASSUME NEW c \in Removes[b], c \notin Adds[b]
        PROVE  c \in AddedBy(Path[b]) /\ c \notin RemovedBy(Above)
    <3>1. c \in Coins
      BY CoinAssumption
    <3>2. /\ c \notin RemovedBy(F)
          /\ IF coins[c] # Absent /\ coins[c].created <= -1
             THEN ~(coins[c].spent # 0 /\ coins[c].spent <= -1)
             ELSE c \in AddedBy(F)
      BY <2>2, <2>4 DEF LookupRemovals
    <3>3. c \in AddedBy(F)
      BY <3>1, <3>2, <2>3
    <3> QED BY <3>2, <3>3, <2>2 DEF AddedBy
  <2> QED BY <2>4, <1>4 DEF SpendsValid
<1>6. CASE Ends # {}
  <2>1. PICK w \in Ends : WalkEnd(b, over) = Height[w] /\ \A y \in Ends : Height[y] <= Height[w]
    <3>1. \E w \in Ends : TopHeight(Ends) = Height[w] /\ \A y \in Ends : Height[y] <= Height[w]
      <4>1. Ends \subseteq Path[b] /\ Ends # {}
        BY <1>6
      <4> HIDE DEF Ends
      <4> QED BY <4>1, TopOfPath
    <3>2. WalkEnd(b, over) = TopHeight(Ends)
      BY <1>6 DEF WalkEnd
    <3> QED BY <3>1, <3>2
  <2>4. w \in Above /\ w \in onChain /\ w \in Blocks /\ Height[w] \in Nat
    BY <1>2, <1>1
  <2>5. /\ Path[w] = {y \in Path[b] : Height[y] <= Height[w]}
        /\ Path[w] \subseteq Above
    <3>1. Path[w] = {y \in Path[b] : Height[y] <= Height[w]}
      BY <2>4, PathAssumption
    <3>2. b \notin Path[w]
      BY <2>4, <3>1, PathAssumption, PathFacts, <1>1
    <3> QED BY <3>1, <3>2
  <2>6. ViewForkHeight(b, over) = Height[w]
    BY <2>1, <2>4 DEF ViewForkHeight
  <2>7. F = Above \ Path[w]
    BY <1>1, <2>1, <2>5 DEF Folded
  <2>8. ValidPath(w) /\ Rollback(coins, Height[w]) = CoinsOf(Path[w])
    BY <2>4
  <2>9. ASSUME NEW c \in Removes[b], c \notin Adds[b]
        PROVE  c \in AddedBy(Path[b]) /\ c \notin RemovedBy(Above)
    <3>0. c \in Coins
      BY CoinAssumption
    <3>1. /\ c \notin RemovedBy(F)
          /\ IF coins[c] # Absent /\ coins[c].created <= Height[w]
             THEN ~(coins[c].spent # 0 /\ coins[c].spent <= Height[w])
             ELSE c \in AddedBy(F)
      BY <2>6, <2>9 DEF LookupRemovals
    <3>2. CASE coins[c] # Absent /\ coins[c].created <= Height[w]
      <4>1. /\ Rollback(coins, Height[w])[c] # Absent
            /\ Rollback(coins, Height[w])[c].spent = 0
        <5>1. coins[c] \in [created : Nat, spent : Nat] /\ Absent.created = -1
          BY <3>0, <3>2 DEF CoinTable, Absent
        <5>2. [coins[c] EXCEPT !.spent = 0].created = coins[c].created /\ [coins[c] EXCEPT !.spent = 0].spent = 0
          BY <5>1
        <5>3. Rollback(coins, Height[w])[c]
                = IF coins[c].spent > Height[w] THEN [coins[c] EXCEPT !.spent = 0] ELSE coins[c]
          BY <3>0, <3>2, <5>1, <2>4 DEF Rollback
        <5>4. CASE coins[c].spent > Height[w]
          BY <5>1, <5>2, <5>3, <5>4
        <5>5. CASE ~(coins[c].spent > Height[w])
          BY <5>1, <5>3, <5>5, <3>1, <3>2, <2>4
        <5> QED BY <5>4, <5>5
      <4>2. PICK a \in Path[w] : c \in Adds[a]
        BY <4>1, <3>0, <2>4, <2>8, RowAbsent
      <4>3. a \in Path[b]
        BY <4>2, <2>5
      <4>4. ASSUME NEW r \in Path[w], c \in Removes[r] PROVE FALSE
        <5>1. CoinsOf(Path[w])[c] = [created |-> Height[a], spent |-> Height[r]]
          BY <4>2, <4>4, <3>0, <2>4, <2>8, RowSpent
        <5>2. r \in Blocks
          BY <2>4, PathFacts
        <5>3. Height[r] > 0
          BY <4>4, <5>2, SpenderHeight
        <5> QED BY <5>1, <5>3, <4>1, <2>8
      <4> QED BY <4>2, <4>3, <4>4, <3>1, <2>7 DEF AddedBy, RemovedBy
    <3>3. CASE ~(coins[c] # Absent /\ coins[c].created <= Height[w])
      <4>1. c \in AddedBy(F)
        BY <3>1, <3>3
      <4>2. PICK a \in F : c \in Adds[a]
        BY <4>1 DEF AddedBy
      <4>3. ASSUME NEW r \in Path[w], c \in Removes[r] PROVE FALSE
        <5>1. a \in Path[r] /\ Path[r] \subseteq Path[w]
          BY <4>2, <4>3, <1>3, <2>4, <2>5, <2>7, PathFacts
        <5> QED BY <5>1, <4>2, <2>7
      <4> QED BY <4>2, <4>3, <3>1, <2>7 DEF AddedBy, RemovedBy
    <3> QED BY <3>2, <3>3
  <2> QED BY <2>9, <1>4 DEF SpendsValid
<1> QED BY <1>5, <1>6

\* A block that prepare_delta accepts spends coins of its own chain that are
\* not spent on it.
LEMMA AcceptedIsValid ==
  ASSUME IInv, NEW b \in Blocks, Accepts(b, pending)
  PROVE  SpendsValid(b) /\ Path[b] \subseteq archive \cup {b}
<1>1. CASE b = Genesis
  BY <1>1, TreeAssumption, CoinAssumption DEF SpendsValid
<1>2. CASE b # Genesis
  <2>1. Parent[b] \in archive /\ Path[b] = Path[Parent[b]] \cup {b}
    BY <1>2, AcceptedParent, TreeAssumption
  <2>2. \A x \in Path[b] \ {b} : x \in archive /\ SpendsValid(x)
    BY <2>1 DEF IInv, ArchiveValid
  <2>3. ChainSpendsValid /\ LookupRemovals(b, pending)
    BY <1>2 DEF ChainSpendsValid, IInv, ArchiveValid, Accepts
  <2>4. /\ coins \in CoinTable
        /\ \A w \in onChain : ValidPath(w) /\ Rollback(coins, Height[w]) = CoinsOf(Path[w])
    BY <2>3, ChainTable DEF IInv, TypeOK
  <2>5. SpendsValid(b)
    BY <1>2, <2>2, <2>3, <2>4, LookupIsSound
  <2> QED BY <2>2, <2>5
<1> QED BY <1>1, <1>2

-----------------------------------------------------------------------------
(* The steps.                                                              *)

\* BlockRecordCache::insert keeps nothing that was not held or inserted.
LEMMA CacheBound ==
  ASSUME NEW held, NEW S
  PROVE  CacheInsert(held, S) \subseteq held \cup S
BY DEF CacheInsert

\* The walk cache after a derivation holds archived blocks.
LEMMA WalkedBound ==
  ASSUME ArchiveValid, NEW b \in Blocks, NEW walked \in Walked(b)
  PROVE  walked \subseteq archive
<1>1. Repaired(b) \subseteq archive
  BY CacheBound DEF Repaired, ArchiveValid
<1> QED BY <1>1 DEF Walked, ArchiveValid

\* The engine starts in the invariant.
LEMMA InitOK == Init => IInv
<1> SUFFICES ASSUME Init PROVE IInv
  OBVIOUS
<1>1. coins \in CoinTable
  BY DEF Init, CoinsOf, CoinTable, AddedBy
<1> QED BY <1>1, EngineConstants
    DEF Init, IInv, TypeOK, FlagsMatchPeak, ChainOf, CoinsReplayChain, ArchiveValid, JobIsHeavier

\* The record, the body and the status of an accepted block.
LEMMA PersistOK ==
  ASSUME IInv, NEW b \in Blocks, Accepts(b, pending), Persist(b)
  PROVE  /\ archive' = archive \cup {b} /\ archive' \subseteq Blocks
         /\ shallow' \subseteq archive'
         /\ \A x \in archive' : Path[x] \subseteq archive' /\ SpendsValid(x)
<1>1. SpendsValid(b) /\ Path[b] \subseteq archive \cup {b}
  BY AcceptedIsValid
<1> QED BY <1>1 DEF IInv, TypeOK, ArchiveValid, Persist

\* The ledger's view of blocks and coins is the engine's.
LEMMA SameTree ==
  /\ LedgerView!NoBlock = NoBlock
  /\ \A S : LedgerView!AddedBy(S) = AddedBy(S) /\ LedgerView!RemovedBy(S) = RemovedBy(S)
  /\ \A S : LedgerView!TopHeight(S) = TopHeight(S)
  /\ \A S : LedgerView!CoinsOf(S) = CoinsOf(S)
  /\ \A b : LedgerView!SpendsValid(b) <=> SpendsValid(b)
<1>1. /\ LedgerView!NoBlock = NoBlock
      /\ \A S : LedgerView!AddedBy(S) = AddedBy(S) /\ LedgerView!RemovedBy(S) = RemovedBy(S)
      /\ \A S : LedgerView!TopHeight(S) = TopHeight(S)
  BY DEF LedgerView!NoBlock, NoBlock, LedgerView!AddedBy, AddedBy, LedgerView!RemovedBy,
         RemovedBy, LedgerView!TopHeight, TopHeight
<1>2. \A S : LedgerView!CoinsOf(S) = CoinsOf(S)
  BY <1>1 DEF LedgerView!CoinsOf, CoinsOf, LedgerView!Absent, Absent
<1>3. \A b : LedgerView!SpendsValid(b) <=> SpendsValid(b)
  BY <1>1 DEF LedgerView!SpendsValid, SpendsValid
<1> QED BY <1>1, <1>2, <1>3

\* apply_on_chain keeps the invariant and adopts b in the ledger.
LEMMA ExtendOK ==
  ASSUME IInv, NEW b \in Blocks, Extend(b)
  PROVE  IInv' /\ LedgerView!Adopt(b)
<1>1. /\ archive' = archive \cup {b} /\ archive' \subseteq Blocks /\ shallow' \subseteq archive'
      /\ \A x \in archive' : Path[x] \subseteq archive' /\ SpendsValid(x)
  BY PersistOK DEF Extend
<1>2. onChain' = Path[b] /\ peak' = b /\ b # NoBlock
  BY ForkFacts, TreeAssumption DEF Extend, IInv, TypeOK
<1>3. ValidPath(b)
  BY <1>1 DEF ValidPath
<1>4. coins' = CoinsOf(Path[b])
  <2>1. CASE peak = NoBlock
    <3>1. coins = CoinsOf({}) /\ b = Genesis
      BY <2>1, AcceptedParent DEF IInv, CoinsReplayChain, FlagsMatchPeak, ChainOf, Extend
    <3>2. {b} = Path[b] \ {}
      BY <3>1, TreeAssumption
    <3> QED BY <3>1, <3>2, <1>3, ApplyRest DEF Extend
  <2>2. CASE peak # NoBlock
    <3>1. peak = Parent[b] /\ peak \in Blocks /\ coins = CoinsOf(Path[peak]) /\ b # Genesis
      BY <2>2, AcceptedParent DEF IInv, TypeOK, CoinsReplayChain, FlagsMatchPeak, ChainOf, Extend
    <3>2. Path[b] = Path[peak] \cup {b} /\ Height[b] = Height[peak] + 1
      BY <3>1, TreeAssumption
    <3>3. b \notin Path[peak] /\ peak \in Path[b]
      BY <3>1, <3>2, PathFacts, TreeAssumption
    <3>4. {b} = Path[b] \ Path[peak]
      BY <3>2, <3>3
    <3> QED BY <3>1, <3>3, <3>4, <1>3, ApplyRest DEF Extend
  <2> QED BY <2>1, <2>2
<1>5. cache' \subseteq archive'
  BY <1>1, WalkedBound, CacheBound DEF Extend, IInv
<1>6. pending' \subseteq archive' /\ pending' \cap onChain' = {}
  <2>1. pending' \subseteq pending \ {b}
    BY DEF Extend, Prune
  <2>2. CASE peak = NoBlock
    <3>1. Path[b] = {b}
      BY <2>2, AcceptedParent, TreeAssumption DEF Extend
    <3> QED BY <2>1, <3>1, <1>1, <1>2 DEF IInv, ArchiveValid
  <2>3. CASE peak # NoBlock
    <3>1. Path[b] = onChain \cup {b}
      BY <2>3, AcceptedParent, TreeAssumption DEF Extend, IInv, TypeOK, FlagsMatchPeak, ChainOf
    <3> QED BY <2>1, <3>1, <1>1, <1>2 DEF IInv, ArchiveValid
  <2> QED BY <2>2, <2>3
<1>7. TypeOK'
  <2>1. coins' \in CoinTable /\ onChain' \subseteq Blocks
    BY <1>2, <1>4, TableType, PathFacts
  <2>2. UNCHANGED <<reports, job, failures, crashes>>
    BY DEF Extend
  <2>3. cache' \subseteq Blocks /\ pending' \subseteq Blocks
    BY <1>1, <1>5, <1>6
  <2> QED BY <1>1, <1>2, <2>1, <2>2, <2>3 DEF IInv, TypeOK
<1>8. IInv'
  BY <1>1, <1>2, <1>4, <1>5, <1>6, <1>7
     DEF Extend, IInv, FlagsMatchPeak, ChainOf, CoinsReplayChain, ArchiveValid, JobIsHeavier
<1>9. LedgerView!Adopt(b)
  BY <1>2, <1>3, <1>4, SameTree DEF LedgerView!Adopt, Extend, ValidPath
<1> QED BY <1>8, <1>9

\* Archiving a lighter block keeps the invariant; readers see nothing.
LEMMA OrphanOK ==
  ASSUME IInv, NEW b \in Blocks, Orphan(b)
  PROVE  IInv' /\ UNCHANGED <<peak, coins>>
<1>1. /\ archive' = archive \cup {b} /\ archive' \subseteq Blocks /\ shallow' \subseteq archive'
      /\ \A x \in archive' : Path[x] \subseteq archive' /\ SpendsValid(x)
  BY PersistOK DEF Orphan
<1>2. cache' \subseteq archive'
  BY <1>1, WalkedBound, CacheBound DEF Orphan, IInv
<1>3. pending' \subseteq archive' /\ pending' \cap onChain' = {}
  <2>1. pending' \subseteq pending \cup {b} /\ b \notin onChain
    BY DEF Orphan, Prune, Accepts, AlreadyHave
  <2> QED BY <2>1, <1>1 DEF IInv, ArchiveValid, Orphan
<1>4. TypeOK'
  <2>1. UNCHANGED <<onChain, peak, coins, reports, job, failures, crashes>>
    BY DEF Orphan
  <2>2. cache' \subseteq Blocks /\ pending' \subseteq Blocks
    BY <1>1, <1>2, <1>3
  <2> QED BY <1>1, <2>1, <2>2 DEF IInv, TypeOK
<1> QED BY <1>1, <1>2, <1>3, <1>4
    DEF Orphan, IInv, FlagsMatchPeak, ChainOf, CoinsReplayChain, ArchiveValid, JobIsHeavier

\* The archive batch of a heavier branch keeps the invariant.
LEMMA BeginReorgOK ==
  ASSUME IInv, NEW b \in Blocks, BeginReorg(b)
  PROVE  IInv' /\ UNCHANGED <<peak, coins>>
<1>1. /\ archive' = archive \cup {b} /\ archive' \subseteq Blocks /\ shallow' \subseteq archive'
      /\ \A x \in archive' : Path[x] \subseteq archive' /\ SpendsValid(x)
  BY PersistOK DEF BeginReorg
<1>2. cache' \subseteq archive'
  BY <1>1, WalkedBound DEF BeginReorg, IInv
<1>3. b \notin onChain
  BY DEF BeginReorg, Accepts, AlreadyHave
<1>4. TypeOK'
  <2>1. UNCHANGED <<onChain, peak, coins, pending, reports, failures, crashes>> /\ job' = b
    BY DEF BeginReorg
  <2>2. cache' \subseteq Blocks
    BY <1>1, <1>2
  <2> QED BY <1>1, <2>1, <2>2 DEF IInv, TypeOK
<1> QED BY <1>1, <1>2, <1>3, <1>4
    DEF BeginReorg, IInv, FlagsMatchPeak, ChainOf, CoinsReplayChain, ArchiveValid, JobIsHeavier

\* The reorg batch keeps the invariant and adopts the branch in the ledger.
LEMMA FinishReorgOK ==
  ASSUME IInv, FinishReorg
  PROVE  IInv' /\ LedgerView!Adopt(job) /\ job \in Blocks
<1> DEFINE b == job
<1>1. /\ b \in Blocks /\ b # NoBlock /\ peak \in Blocks /\ peak # NoBlock
      /\ b \in archive /\ Weight[b] > Weight[peak] /\ onChain = Path[peak]
      /\ coins = CoinsOf(Path[peak])
  BY DEF FinishReorg, IInv, JobIsHeavier, TypeOK, FlagsMatchPeak, ChainOf, CoinsReplayChain
<1>2. PICK x \in Path[b] \cap Path[peak] :
        ForkHeight(b) = Height[x] /\ Branch(b) = Path[b] \ Path[x]
  BY <1>1, ForkFacts DEF IInv, TypeOK
<1>3. onChain' = Path[b] /\ peak' = b
  BY <1>1, ForkFacts DEF IInv, TypeOK, FinishReorg
<1>4. ValidPath(b) /\ ValidPath(peak)
  BY <1>1 DEF IInv, ArchiveValid, ValidPath
<1>5. coins' = CoinsOf(Path[b])
  <2>1. Rollback(coins, Height[x]) = CoinsOf(Path[x])
    BY <1>1, <1>2, <1>4, RollbackPrefix
  <2>2. Apply(CoinsOf(Path[x]), Path[b] \ Path[x]) = CoinsOf(Path[b])
    BY <1>1, <1>2, <1>4, ApplyRest
  <2> QED BY <1>2, <2>1, <2>2 DEF FinishReorg
<1>6. cache' \subseteq archive' /\ archive' = archive /\ Path[b] \subseteq archive
  BY <1>1, CacheBound DEF FinishReorg, IInv, ArchiveValid
<1>7. pending' \subseteq archive' /\ pending' \cap onChain' = {}
  <2>1. pending' \subseteq pending \ (Path[b] \ Path[x])
    BY <1>2 DEF FinishReorg, Prune
  <2>2. Path[x] \subseteq onChain
    BY <1>1, <1>2, PathFacts
  <2> QED BY <2>1, <2>2, <1>3, <1>6 DEF IInv, ArchiveValid
<1>8. TypeOK'
  <2>1. coins' \in CoinTable /\ onChain' \subseteq Blocks
    BY <1>1, <1>3, <1>5, TableType, PathFacts
  <2>2. UNCHANGED <<archive, shallow, failures, crashes>> /\ job' = NoBlock
    BY DEF FinishReorg
  <2>3. cache' \subseteq Blocks /\ pending' \subseteq Blocks
    BY <1>6, <1>7 DEF IInv, TypeOK
  <2>4. /\ reports' \in Seq([fork : Int, rolledBack : SUBSET Coins, reapplied : SUBSET Blocks])
        /\ Len(reports') <= ReportCap
    <3> DEFINE R == [fork : Int, rolledBack : SUBSET Coins, reapplied : SUBSET Blocks]
               report == [fork |-> ForkHeight(b), rolledBack |-> RolledBack(ForkHeight(b), Height[peak]),
                          reapplied |-> Branch(b)]
    <3>1. report \in R
      <4>1. ForkHeight(b) \in Int
        BY <1>1, <1>2, PathFacts, TreeAssumption
      <4>2. Branch(b) \subseteq Blocks /\ RolledBack(ForkHeight(b), Height[peak]) \subseteq Coins
        BY <1>1, <1>2, PathFacts DEF RolledBack
      <4> QED BY <4>1, <4>2
    <3>2. reports \in Seq(R) /\ Len(reports) <= ReportCap /\ reports' = PushReport(report)
      BY DEF IInv, TypeOK, FinishReorg
    <3> HIDE DEF R, report
    <3>3. Append(reports, report) \in Seq(R) /\ Len(Append(reports, report)) = Len(reports) + 1
      BY <3>1, <3>2
    <3>4. /\ Tail(Append(reports, report)) \in Seq(R)
          /\ Len(Tail(Append(reports, report))) = Len(reports)
      BY <3>1, <3>2, <3>3
    <3>5. reports' \in Seq(R) /\ Len(reports') <= ReportCap
      BY <3>2, <3>3, <3>4, EngineConstants DEF PushReport
    <3> QED BY <3>5 DEF R
  <2> QED BY <1>1, <1>3, <2>1, <2>2, <2>3, <2>4 DEF IInv, TypeOK
<1>9. IInv'
  BY <1>1, <1>3, <1>5, <1>6, <1>7, <1>8
     DEF FinishReorg, IInv, FlagsMatchPeak, ChainOf, CoinsReplayChain, ArchiveValid, JobIsHeavier
<1>10. LedgerView!Adopt(b)
  BY <1>1, <1>3, <1>4, <1>5, SameTree DEF LedgerView!Adopt, ValidPath
<1> QED BY <1>1, <1>9, <1>10

\* A failed reorg leaves the durable state as it was.
LEMMA FailReorgOK ==
  ASSUME IInv, FailReorg
  PROVE  IInv' /\ UNCHANGED <<peak, coins>>
<1>1. job \in archive /\ job \notin onChain /\ job \in Blocks
  BY DEF FailReorg, IInv, JobIsHeavier, TypeOK
<1>2. pending' \subseteq pending \cup {job}
  BY DEF FailReorg
<1>3. TypeOK'
  BY <1>1, <1>2, EngineConstants DEF FailReorg, durable, IInv, TypeOK
<1> QED BY <1>1, <1>2, <1>3
    DEF FailReorg, durable, IInv, FlagsMatchPeak, ChainOf, CoinsReplayChain, ArchiveValid,
        JobIsHeavier

\* A failed first batch leaves at most a fuller cache.
LEMMA FailAddOK ==
  ASSUME IInv, NEW b \in Blocks, FailAdd(b)
  PROVE  IInv' /\ UNCHANGED <<peak, coins>>
<1>1. cache' \subseteq archive
  BY WalkedBound DEF FailAdd, IInv
<1>2. TypeOK'
  BY <1>1, EngineConstants DEF FailAdd, durable, IInv, TypeOK
<1> QED BY <1>1, <1>2
    DEF FailAdd, durable, IInv, FlagsMatchPeak, ChainOf, CoinsReplayChain, ArchiveValid,
        JobIsHeavier

\* A restart keeps the durable state and warms the cache from it.
LEMMA CrashOK ==
  ASSUME IInv, Crash
  PROVE  IInv' /\ UNCHANGED <<peak, coins>>
<1>1. cache' \subseteq onChain
  BY DEF Crash, WarmCache
<1>2. TypeOK'
  BY <1>1, EngineConstants DEF Crash, durable, IInv, TypeOK
<1> QED BY <1>1, <1>2
    DEF Crash, durable, IInv, FlagsMatchPeak, ChainOf, CoinsReplayChain, ArchiveValid, JobIsHeavier

\* Every step keeps the invariant and is a step of the ledger or invisible to it.
LEMMA NextOK ==
  IInv /\ [Next]_vars => IInv' /\ [LedgerView!LNext]_<<peak, coins>>
<1> SUFFICES ASSUME IInv, [Next]_vars PROVE IInv' /\ [LedgerView!LNext]_<<peak, coins>>
  OBVIOUS
<1>1. ASSUME NEW b \in Blocks, Extend(b) PROVE IInv' /\ LedgerView!LNext
  BY <1>1, ExtendOK DEF LedgerView!LNext
<1>2. ASSUME NEW b \in Blocks, Orphan(b) PROVE IInv' /\ UNCHANGED <<peak, coins>>
  BY <1>2, OrphanOK
<1>3. ASSUME NEW b \in Blocks, BeginReorg(b) PROVE IInv' /\ UNCHANGED <<peak, coins>>
  BY <1>3, BeginReorgOK
<1>4. CASE FinishReorg
  BY <1>4, FinishReorgOK DEF LedgerView!LNext
<1>5. CASE FailReorg
  BY <1>5, FailReorgOK
<1>6. CASE Crash
  BY <1>6, CrashOK
<1>8. ASSUME NEW b \in Blocks, FailAdd(b) PROVE IInv' /\ UNCHANGED <<peak, coins>>
  BY <1>8, FailAddOK
<1>7. CASE UNCHANGED vars
  BY <1>7 DEF vars, durable, IInv, TypeOK, FlagsMatchPeak, ChainOf, CoinsReplayChain,
              ArchiveValid, JobIsHeavier
<1> QED BY <1>1, <1>2, <1>3, <1>4, <1>5, <1>6, <1>7, <1>8 DEF Next, AddBlock

-----------------------------------------------------------------------------
\* Type correctness of the engine's state.
THEOREM EngineTypes == Spec => []TypeOK
<1>1. IInv => TypeOK
  BY DEF IInv
<1> QED BY <1>1, InitOK, NextOK, PTL DEF Spec

\* set_peak_on and the reorg batch leave the main-chain flags equal to the
\* peak's ancestry, for every tree of forks.
THEOREM FlagsCorrect == Spec => []FlagsMatchPeak
<1>1. IInv => FlagsMatchPeak
  BY DEF IInv
<1> QED BY <1>1, InitOK, NextOK, PTL DEF Spec

\* apply_block and rollback_to keep the coin table equal to the replay of the
\* main chain, whatever forks, failures and crashes occur.
THEOREM CoinsCorrect == Spec => []CoinsReplayChain
<1>1. IInv => CoinsReplayChain
  BY DEF IInv
<1> QED BY <1>1, InitOK, NextOK, PTL DEF Spec

\* A block that was checked once, at arrival, against its fork view is valid on
\* its chain whenever a reorg confirms it.
THEOREM SpendsCorrect == Spec => []ChainSpendsValid
<1>1. IInv => ChainSpendsValid
  BY DEF IInv, ArchiveValid, ChainSpendsValid
<1> QED BY <1>1, InitOK, NextOK, PTL DEF Spec

\* Every archived branch can be replayed from the archive.
THEOREM ArchiveClosed == Spec => []BranchesReplayable
<1>1. IInv => BranchesReplayable
  BY DEF IInv, ArchiveValid, BranchesReplayable
<1> QED BY <1>1, InitOK, NextOK, PTL DEF Spec

\* The engine implements the ledger.
THEOREM EngineImplementsLedger == Spec => ImplementsLedger
<1>1. Init => LedgerView!LInit
  BY SameTree DEF Init, LedgerView!LInit
<1>2. IInv /\ [Next]_vars => [LedgerView!LNext]_(LedgerView!ledgerVars)
  BY NextOK DEF LedgerView!ledgerVars
<1> QED BY <1>1, <1>2, InitOK, NextOK, PTL DEF Spec, ImplementsLedger, LedgerView!LSpec
-----------------------------------------------------------------------------
\* The report a reorg pushes is the last of the queue, full or not.
LEMMA LastReport ==
  ASSUME NEW R, reports \in Seq(R), Len(reports) <= ReportCap, NEW report \in R
  PROVE  PushReport(report)[Len(PushReport(report))] = report
<1> DEFINE all == Append(reports, report)
<1>1. /\ all \in Seq(R) /\ Len(all) = Len(reports) + 1 /\ all[Len(reports) + 1] = report
      /\ Len(reports) \in Nat /\ ReportCap \in Nat \ {0}
  BY EngineConstants
<1>2. CASE Len(all) > ReportCap
  <2>1. PushReport(report) = Tail(all) /\ Len(reports) >= 1
    BY <1>1, <1>2 DEF PushReport
  <2>2. Len(Tail(all)) = Len(reports) /\ Tail(all)[Len(reports)] = all[Len(reports) + 1]
    <3> HIDE DEF all
    <3> QED BY <1>1, <2>1
  <2> QED BY <1>1, <2>1, <2>2
<1>3. CASE ~(Len(all) > ReportCap)
  <2>1. PushReport(report) = all
    BY <1>3 DEF PushReport
  <2> HIDE DEF all
  <2> QED BY <1>1, <2>1
<1> QED BY <1>2, <1>3

\* A row of the main chain was created, and spent if it was, at a height up to
\* the peak's.
LEMMA RowBelowPeak ==
  ASSUME IInv, peak \in Blocks, NEW c \in Coins, NEW f \in Nat
  PROVE  /\ coins[c].created > f => coins[c].created \in f + 1 .. Height[peak]
         /\ coins[c].spent > f => coins[c].spent \in f + 1 .. Height[peak]
<1>1. coins = CoinsOf(Path[peak]) /\ ValidPath(peak) /\ peak # NoBlock
  BY TreeAssumption DEF IInv, CoinsReplayChain, FlagsMatchPeak, ChainOf, ArchiveValid, ValidPath
<1>2. \A x \in Path[peak] : Height[x] \in Nat /\ Height[x] <= Height[peak]
  BY PathFacts, TreeAssumption, PathAssumption
<1>3. CASE \A a \in Path[peak] : c \notin Adds[a]
  <2>1. coins[c] = Absent
    BY <1>1, <1>3, RowAbsent
  <2> QED BY <2>1 DEF Absent
<1>4. CASE \E a \in Path[peak] : c \in Adds[a]
  <2>1. PICK a \in Path[peak] : c \in Adds[a]
    BY <1>4
  <2>2. CASE \E r \in Path[peak] : c \in Removes[r]
    <3>1. PICK r \in Path[peak] : c \in Removes[r]
      BY <2>2
    <3>2. coins[c] = [created |-> Height[a], spent |-> Height[r]]
      BY <1>1, <2>1, <3>1, RowSpent
    <3>3. coins[c].created = Height[a] /\ coins[c].spent = Height[r]
      BY <3>2
    <3> QED BY <1>2, <3>3, TreeAssumption
  <2>3. CASE \A r \in Path[peak] : c \notin Removes[r]
    <3>1. coins[c] = [created |-> Height[a], spent |-> 0]
      BY <1>1, <2>1, <2>3, RowUnspent
    <3>2. coins[c].created = Height[a] /\ coins[c].spent = 0
      BY <3>1
    <3> QED BY <1>2, <3>2, TreeAssumption
  <2> QED BY <2>2, <2>3
<1> QED BY <1>3, <1>4

\* What a reorg changes, its report names.
LEMMA ReorgReports ==
  ASSUME IInv, FinishReorg, NEW c \in Coins, coins'[c] # coins[c]
  PROVE  LET report == reports'[Len(reports')]
         IN  c \in report.rolledBack \cup AddedBy(report.reapplied) \cup RemovedBy(report.reapplied)
<1> DEFINE b == job
           f == ForkHeight(b)
           report == [fork |-> f, rolledBack |-> RolledBack(f, Height[peak]), reapplied |-> Branch(b)]
           R == [fork : Int, rolledBack : SUBSET Coins, reapplied : SUBSET Blocks]
<1>1. /\ b \in Blocks /\ peak \in Blocks /\ peak # NoBlock /\ coins \in CoinTable
      /\ reports \in Seq(R) /\ Len(reports) <= ReportCap
      /\ reports' = PushReport(report) /\ coins' = Apply(Rollback(coins, f), Branch(b))
  BY DEF FinishReorg, IInv, JobIsHeavier, TypeOK
<1>2. f \in Nat /\ Branch(b) \subseteq Blocks
  <2>1. PICK x \in Path[b] \cap Path[peak] : ForkHeight(b) = Height[x] /\ Branch(b) = Path[b] \ Path[x]
    BY <1>1, ForkFacts DEF IInv, TypeOK
  <2> QED BY <1>1, <2>1, PathFacts, TreeAssumption
<1> HIDE DEF b, f
<1>3. report \in R
  BY <1>2 DEF RolledBack
<1>4. reports'[Len(reports')] = report
  <2> HIDE DEF report, R
  <2> QED BY <1>1, <1>3, LastReport
<1>5. ASSUME c \notin AddedBy(Branch(b)), c \notin RemovedBy(Branch(b))
      PROVE  c \in RolledBack(f, Height[peak])
  <2> DEFINE T == Rollback(coins, f)
  <2>1. coins'[c] = IF T[c].created = -1 THEN Absent ELSE [created |-> T[c].created, spent |-> T[c].spent]
    <3> HIDE DEF T
    <3> QED BY <1>1, <1>5 DEF Apply, T
  <2>2. coins[c].created > f \/ coins[c].spent > f
    <3> SUFFICES ASSUME ~(coins[c].created > f), ~(coins[c].spent > f) PROVE FALSE
      OBVIOUS
    <3>1. T[c] = coins[c]
      BY DEF Rollback
    <3> HIDE DEF T
    <3>2. coins[c] = Absent \/ coins[c] \in [created : Nat, spent : Nat]
      BY <1>1 DEF CoinTable
    <3>3. CASE coins[c] = Absent
      BY <2>1, <3>1, <3>3 DEF Absent
    <3>4. CASE coins[c] \in [created : Nat, spent : Nat]
      BY <2>1, <3>1, <3>4
    <3> QED BY <3>2, <3>3, <3>4
  <2> QED BY <1>1, <1>2, <2>2, RowBelowPeak DEF RolledBack
<1>6. c \in RolledBack(f, Height[peak]) \cup AddedBy(Branch(b)) \cup RemovedBy(Branch(b))
  BY <1>5
<1>7. report.rolledBack = RolledBack(f, Height[peak]) /\ report.reapplied = Branch(b)
  OBVIOUS
<1> HIDE DEF report
<1> QED BY <1>4, <1>6, <1>7

\* The wallet server learns of every coin row that a reorg changes from that
\* reorg's report, whatever the report queue held before.
THEOREM ReorgsAreReported == Spec => ReorgsReported
<1> DEFINE A == \A c \in Coins :
                  (coins'[c] # coins[c] /\ reports' # reports) =>
                    LET report == reports'[Len(reports')] IN
                    c \in report.rolledBack \cup AddedBy(report.reapplied) \cup RemovedBy(report.reapplied)
<1>1. IInv /\ [Next]_vars => [A]_vars
  <2> SUFFICES ASSUME IInv, [Next]_vars PROVE A \/ UNCHANGED vars
    OBVIOUS
  <2>1. CASE FinishReorg
    BY <2>1, ReorgReports
  <2>2. ASSUME NEW b \in Blocks, Extend(b) PROVE reports' = reports
    BY <2>2 DEF Extend
  <2>3. ASSUME NEW b \in Blocks, Orphan(b) PROVE coins' = coins
    BY <2>3 DEF Orphan
  <2>4. ASSUME NEW b \in Blocks, BeginReorg(b) PROVE coins' = coins
    BY <2>4 DEF BeginReorg
  <2>5. ASSUME NEW b \in Blocks, FailAdd(b) PROVE coins' = coins
    BY <2>5 DEF FailAdd, durable
  <2>6. CASE FailReorg \/ Crash
    BY <2>6 DEF FailReorg, Crash, durable
  <2>7. coins' = coins \/ reports' = reports => A
    OBVIOUS
  <2> HIDE DEF A
  <2> QED BY <2>1, <2>2, <2>3, <2>4, <2>5, <2>6, <2>7 DEF Next, AddBlock
<1> QED BY <1>1, InitOK, NextOK, PTL DEF Spec, ReorgsReported

-----------------------------------------------------------------------------
(* The window path: what was shown of the single-block path, with blocks   *)
(* that are staged and not yet committed, and many confirmed at once.      *)

-----------------------------------------------------------------------------
(* Blocks of one path.                                                     *)

\* A path never gets lighter upwards.
LEMMA WeightGrows ==
  ASSUME NEW b \in Blocks, NEW x \in Path[b]
  PROVE  Weight[x] <= Weight[b]
<1> DEFINE G == {n \in Nat : \A z \in Blocks : Height[z] = n => \A y \in Path[z] : Weight[y] <= Weight[z]}
<1>1. 0 \in G
  <2> SUFFICES ASSUME NEW z \in Blocks, Height[z] = 0, NEW y \in Path[z] PROVE Weight[y] <= Weight[z]
    OBVIOUS
  <2>1. z = Genesis
    <3> SUFFICES ASSUME z # Genesis PROVE FALSE
      OBVIOUS
    <3>1. Height[z] = Height[Parent[z]] + 1 /\ Parent[z] \in Blocks
      BY TreeAssumption
    <3>2. Height[Parent[z]] \in Nat
      BY <3>1, TreeAssumption
    <3> QED BY <3>1, <3>2
  <2> QED BY <2>1, TreeAssumption
<1>2. ASSUME NEW n \in G PROVE n + 1 \in G
  <2> SUFFICES ASSUME NEW z \in Blocks, Height[z] = n + 1, NEW y \in Path[z] PROVE Weight[y] <= Weight[z]
    OBVIOUS
  <2>1. z # Genesis
    BY TreeAssumption
  <2>2. /\ Parent[z] \in Blocks /\ Height[z] = Height[Parent[z]] + 1
        /\ Weight[z] > Weight[Parent[z]] /\ Path[z] = Path[Parent[z]] \cup {z}
    BY <2>1, TreeAssumption
  <2>3. Height[Parent[z]] = n
    BY <2>2, TreeAssumption
  <2>4. CASE y = z
    BY <2>4, TreeAssumption
  <2>5. CASE y \in Path[Parent[z]]
    <3>1. Weight[y] <= Weight[Parent[z]]
      BY <2>2, <2>3, <2>5
    <3>2. y \in Blocks
      BY <2>2, <2>5, PathFacts
    <3> QED BY <3>1, <3>2, <2>2, TreeAssumption
  <2> QED BY <2>2, <2>4, <2>5
<1>3. G = Nat
  <2>1. G \subseteq Nat
    OBVIOUS
  <2> HIDE DEF G
  <2> QED BY <1>1, <1>2, <2>1, AllNaturals
<1> QED BY <1>3, TreeAssumption

\* Along a path a block is its height.
LEMMA SameHeight ==
  ASSUME NEW e \in Blocks, NEW x \in Path[e], NEW y \in Path[e]
  PROVE  /\ x \in Blocks /\ Height[x] \in Nat
         /\ Height[x] = Height[y] => x = y
         /\ Height[x] <= Height[y] <=> x \in Path[y]
BY PathAssumption, PathFacts, TreeAssumption

\* The lowest block of a part of a path.
LEMMA LowestOf ==
  ASSUME NEW e \in Blocks, NEW S, S \subseteq Path[e], S # {}
  PROVE  Lowest(S) \in S /\ \A y \in S : Height[Lowest(S)] <= Height[y]
<1> DEFINE T == {Height[x] : x \in S}
<1>1. T \subseteq Nat /\ T # {}
  BY SameHeight
<1>2. \E m \in T : \A k \in T : m <= k
  <2> HIDE DEF T
  <2> QED BY <1>1, LeastOf
<1>3. PICK x \in S : \A y \in S : Height[x] <= Height[y]
  BY <1>2
<1> QED BY <1>3 DEF Lowest

\* The highest block of a part of a path.
LEMMA HighestOf ==
  ASSUME NEW e \in Blocks, NEW S, S \subseteq Path[e], S # {}
  PROVE  Highest(S) \in S /\ \A y \in S : Height[y] <= Height[Highest(S)]
<1>1. PICK x \in S : \A y \in S : Height[y] <= Height[x]
  BY TopOfPath
<1> QED BY <1>1 DEF Highest

\* A block that extends the peak, or genesis without one, adds itself alone.
LEMMA ExtendsByOne ==
  ASSUME peak \in Blocks \cup {NoBlock}, FlagsMatchPeak, NEW f \in Blocks, Extends(f),
         peak = NoBlock => f = Genesis
  PROVE  /\ onChain = {y \in Path[f] : Height[y] < Height[f]}
         /\ onChain = {} \/ \E x \in Path[f] : onChain = Path[x]
         /\ peak # NoBlock => Weight[f] > Weight[peak]
<1>1. CASE peak = NoBlock
  <2>1. onChain = {} /\ Path[f] = {f}
    BY <1>1, TreeAssumption DEF FlagsMatchPeak, ChainOf
  <2> QED BY <1>1, <2>1, TreeAssumption
<1>2. CASE peak # NoBlock
  <2>1. peak \in Blocks /\ onChain = Path[peak] /\ Parent[f] = peak /\ Weight[f] > Weight[peak]
    BY <1>2 DEF FlagsMatchPeak, ChainOf, Extends
  <2>2. f # Genesis
    <3>1. Weight[Genesis] <= Weight[peak]
      BY <2>1, WeightGrows, PathFacts
    <3> QED BY <3>1, <2>1, TreeAssumption
  <2>3. Path[f] = Path[peak] \cup {f} /\ Height[f] = Height[peak] + 1
    BY <2>1, <2>2, TreeAssumption
  <2>4. peak \in Path[f] /\ Height[peak] \in Nat
    BY <2>1, <2>3, PathFacts, TreeAssumption
  <2>5. Path[peak] = {y \in Path[f] : Height[y] <= Height[peak]}
    BY <2>4, PathAssumption
  <2>6. \A y \in Path[f] : Height[y] \in Nat
    BY PathFacts, TreeAssumption
  <2>7. \A y \in Path[f] : Height[y] <= Height[peak] <=> Height[y] < Height[f]
    BY <2>3, <2>4, <2>6
  <2> QED BY <2>1, <2>4, <2>5, <2>7
<1> QED BY <1>1, <1>2

\* The run that one transaction confirms is what its highest block adds to the
\* chain: with catch-up batching as with one block at a time.
LEMMA RunIsRest ==
  ASSUME peak \in Blocks \cup {NoBlock}, FlagsMatchPeak, NEW e \in Blocks,
         win.staged \subseteq Path[e], win.staged # {}, Chunk # {},
         peak = NoBlock => \A x \in win.staged : Path[x] \subseteq win.staged
  PROVE  /\ Highest(Chunk) \in win.staged /\ Chunk \subseteq win.staged
         /\ Chunk = Path[Highest(Chunk)] \ onChain
         /\ onChain = {} \/ \E x \in Path[Highest(Chunk)] : onChain = Path[x]
         /\ peak # NoBlock => Weight[Highest(Chunk)] > Weight[peak]
<1> DEFINE f == Lowest(win.staged)
           tip == Highest(Chunk)
<1>1. f \in win.staged /\ f \in Path[e] /\ \A y \in win.staged : Height[f] <= Height[y]
  BY LowestOf
<1>2. PlainRun # {} /\ PlainRun \subseteq win.staged /\ PlainRun \subseteq Path[e]
  BY DEF Chunk, PlainRun
<1>3. Extends(f)
  BY <1>2 DEF PlainRun
<1>4. f \in PlainRun
  <2>1. \A y \in Path[f] : Height[y] >= Height[f] => y = f
    <3> SUFFICES ASSUME NEW y \in Path[f], Height[y] >= Height[f] PROVE y = f
      OBVIOUS
    <3>1. f \in Blocks /\ f \in Path[f] /\ Height[y] <= Height[f]
      BY <1>1, SameHeight, PathFacts
    <3>2. Height[y] \in Nat /\ Height[f] \in Nat
      BY <3>1, SameHeight
    <3>3. Height[y] = Height[f]
      BY <3>1, <3>2
    <3> QED BY <3>1, <3>3, SameHeight
  <2> QED BY <1>1, <1>3, <2>1 DEF PlainRun
<1>5. peak = NoBlock => f = Genesis
  <2> SUFFICES ASSUME peak = NoBlock PROVE f = Genesis
    OBVIOUS
  <2>1. f \in Blocks
    BY <1>1, SameHeight
  <2>2. Genesis \in win.staged
    BY <2>1, <1>1, PathFacts
  <2>3. Height[f] <= 0 /\ Height[f] \in Nat
    BY <1>1, <2>1, <2>2, TreeAssumption
  <2>4. Height[f] = Height[Genesis]
    BY <2>3, TreeAssumption
  <2> QED BY <1>1, <2>2, <2>4, SameHeight
<1>6. f \in Blocks
  BY <1>1, SameHeight
<1>7. /\ onChain = {y \in Path[f] : Height[y] < Height[f]}
      /\ onChain = {} \/ \E x \in Path[f] : onChain = Path[x]
      /\ peak # NoBlock => Weight[f] > Weight[peak]
  <2> HIDE DEF f
  <2> QED BY <1>3, <1>5, <1>6, ExtendsByOne
<1>8. Lowest(PlainRun) = f
  <2>1. Lowest(PlainRun) \in PlainRun /\ Height[Lowest(PlainRun)] <= Height[f]
    BY <1>2, <1>4, LowestOf
  <2>2. Lowest(PlainRun) \in win.staged /\ Lowest(PlainRun) \in Path[e]
    BY <2>1, <1>2
  <2>3. Height[Lowest(PlainRun)] \in Nat /\ Height[f] \in Nat
    BY <2>2, <1>1, SameHeight
  <2>4. Height[Lowest(PlainRun)] = Height[f]
    BY <2>1, <2>2, <2>3, <1>1
  <2> QED BY <2>2, <2>4, <1>1, SameHeight
<1>9. Chunk = PlainRun \/ Chunk = {f}
  BY <1>8 DEF Chunk
<1>10. Chunk \subseteq win.staged /\ Chunk \subseteq PlainRun /\ f \in Chunk
  BY <1>2, <1>4, <1>9
<1>11. tip \in Chunk /\ \A y \in Chunk : Height[y] <= Height[tip]
  <2>1. Chunk \subseteq Path[e]
    BY <1>10
  <2> QED BY <2>1, HighestOf
<1>12. tip \in Blocks /\ tip \in Path[e] /\ tip \in PlainRun
  BY <1>10, <1>11, SameHeight
<1>13. f \in Path[tip] /\ Height[f] <= Height[tip]
  BY <1>1, <1>10, <1>11, <1>12, SameHeight
<1> HIDE DEF f, tip
<1>14. Chunk = {y \in Path[tip] : Height[y] >= Height[f]}
  <2>1. ASSUME NEW y \in Chunk PROVE y \in Path[tip] /\ Height[y] >= Height[f]
    <3>1. y \in win.staged /\ y \in Path[e] /\ Height[y] <= Height[tip]
      BY <1>10, <1>11
    <3>2. Height[f] <= Height[y] /\ Height[y] \in Nat /\ Height[f] \in Nat
      BY <3>1, <1>1, SameHeight
    <3> QED BY <3>1, <3>2, <1>12, SameHeight
  <2>2. ASSUME NEW y \in Path[tip], Height[y] >= Height[f] PROVE y \in Chunk
    <3>1. CASE Chunk = PlainRun
      <4>1. \A z \in Path[tip] : Height[z] >= Height[f] => z \in win.staged
        BY <1>12 DEF PlainRun, f
      <4>2. y \in win.staged /\ Path[y] \subseteq Path[tip]
        BY <2>2, <4>1, <1>12, PathFacts
      <4>3. \A z \in Path[y] : Height[z] >= Height[f] => z \in win.staged
        BY <4>1, <4>2
      <4> QED BY <3>1, <4>2, <4>3, <1>3 DEF PlainRun, f
    <3>2. CASE Chunk = {f}
      <4>1. tip = f
        BY <3>2, <1>11
      <4>2. Height[y] <= Height[f] /\ Height[y] \in Nat /\ Height[f] \in Nat
        BY <4>1, <2>2, <1>6, PathFacts, SameHeight
      <4>3. y = f
        BY <4>1, <4>2, <2>2, <1>6, PathFacts, SameHeight
      <4> QED BY <3>2, <4>3
    <3> QED BY <3>1, <3>2, <1>9
  <2> QED BY <2>1, <2>2
<1>15. onChain = {y \in Path[tip] : Height[y] < Height[f]}
  <2>1. Path[f] = {y \in Path[tip] : Height[y] <= Height[f]}
    BY <1>12, <1>13, PathAssumption
  <2>2. \A y \in Path[tip] : Height[y] \in Nat
    BY <1>12, SameHeight
  <2>3. Height[f] \in Nat
    BY <1>6, TreeAssumption
  <2> QED BY <1>7, <2>1, <2>2, <2>3
<1>16. Chunk = Path[tip] \ onChain
  <2>1. \A y \in Path[tip] : Height[y] \in Nat
    BY <1>12, SameHeight
  <2>2. Height[f] \in Nat
    BY <1>6, TreeAssumption
  <2> QED BY <1>14, <1>15, <2>1, <2>2
<1>17. peak # NoBlock => Weight[tip] > Weight[peak]
  <2>1. Weight[f] <= Weight[tip]
    BY <1>12, <1>13, WeightGrows
  <2> QED BY <2>1, <1>6, <1>7, <1>12, TreeAssumption
<1>18. Path[f] \subseteq Path[tip]
  BY <1>12, <1>13, PathFacts
<1> QED BY <1>7, <1>10, <1>11, <1>16, <1>17, <1>18 DEF tip

-----------------------------------------------------------------------------
(* The inductive invariant.                                                *)

ReportType == [fork : Int, rolledBack : SUBSET Coins, reapplied : SUBSET Blocks]

CallType ==
  [pc : {"off", "stage", "confirm", "rest"}, todo : SUBSET Blocks, staged : SUBSET Blocks,
   batch : SUBSET Blocks, dim : SUBSET Blocks, perBlock : BOOLEAN, err : BOOLEAN,
   done : SUBSET Blocks, before : SUBSET Blocks]

WTypes ==
  /\ peak \in Blocks \cup {NoBlock} /\ job \in Blocks \cup {NoBlock}
  /\ reports \in Seq(ReportType)
  /\ win \in CallType

\* A call's blocks lie on one path; its batch is open until it is confirmed,
\* and while blocks are staged its rows are in the overlay.
Phases ==
  /\ \E e \in Blocks : win.todo \cup win.staged \subseteq Path[e]
  /\ win.batch # {} => win.pc \in {"stage", "confirm"}
  /\ win.pc = "stage" => /\ win.done = {} /\ win.before = onChain
                         /\ win.perBlock => win.batch = {}
                         /\ win.batch \subseteq overlay
  /\ job # NoBlock => win.pc = "rest" /\ peak # NoBlock /\ Weight[job] > Weight[peak]

\* Before there is a peak, what is staged starts at genesis and has no gap.
FromGenesis ==
  peak = NoBlock =>
    /\ pending = {}
    /\ \A x \in win.staged : Path[x] \subseteq win.staged
    /\ \A x \in win.todo : Path[x] \subseteq win.staged \cup win.todo

Layout == WTypes /\ FlagsMatchPeak /\ Phases /\ FromGenesis

\* The blocks with a row, committed or in the carried batch.
Held == archive \cup win.batch

\* A set that holds the ancestry of its blocks, each valid against it.
Replayable(S) == \A b \in S : Path[b] \subseteq S /\ SpendsValid(b)

\* Every record has its rows, every branch can be replayed and is valid.
Kept ==
  /\ CoinsReplayChain
  /\ archive \subseteq Blocks /\ onChain \subseteq archive
  /\ cache \subseteq Held /\ win.staged \subseteq Held
  /\ Replayable(archive) /\ Replayable(Held)
  /\ job # NoBlock => job \in archive

\* What the call has confirmed so far is in its list or in a report.
Accounted ==
  win.pc \in {"confirm", "rest"} /\ Len(reports) < ReportCap => onChain \ win.before \subseteq Reported

-----------------------------------------------------------------------------
(* The shape of a call.                                                    *)

\* A new peak flags exactly its path.
LEMMA NewPeak ==
  ASSUME peak \in Blocks \cup {NoBlock}, FlagsMatchPeak, NEW b \in Blocks,
         onChain' = SetPeak(b), peak' = b
  PROVE  onChain' = Path[b] /\ peak' \in Blocks /\ peak' # NoBlock /\ FlagsMatchPeak'
<1>1. b # NoBlock
  BY TreeAssumption
<1>2. SetPeak(b) = Path[b]
  BY ForkFacts
<1> QED BY <1>1, <1>2 DEF FlagsMatchPeak, ChainOf

\* Off is a call without blocks.
LEMMA OffFits ==
  /\ Off \in CallType
  /\ Off.pc = "off" /\ Off.todo = {} /\ Off.staged = {} /\ Off.batch = {} /\ Off.done = {}
BY DEF Off, CallType

\* What ends a call leaves no blocks in it.
LEMMA EndedFits ==
  ASSUME Layout, win' = Off, peak' = peak, onChain' = onChain, job' = NoBlock,
         reports' \in Seq(ReportType), peak = NoBlock => pending' = {}
  PROVE  Layout'
<1>1. WTypes' /\ FlagsMatchPeak'
  BY OffFits DEF Layout, WTypes, FlagsMatchPeak, ChainOf
<1>2. Phases'
  BY OffFits, TreeAssumption DEF Phases
<1>3. FromGenesis'
  BY OffFits DEF FromGenesis
<1> QED BY <1>1, <1>2, <1>3 DEF Layout

\* begin of a window.
LEMMA BeginFits ==
  ASSUME Layout, NEW b \in Blocks, NEW h \in 0 .. Height[b], Begin(b, h)
  PROVE  Layout'
<1>1. UNCHANGED <<peak, onChain, job, reports, pending>>
  BY DEF Begin, vars, durable
<1>2. PICK near \in BOOLEAN :
        win' = [Off EXCEPT !.pc = "stage", !.todo = Window(b, h), !.perBlock = near, !.before = onChain]
  BY DEF Begin
<1>3. Window(b, h) \subseteq Path[b] /\ Path[b] \subseteq Blocks /\ onChain \subseteq Blocks
  BY PathFacts DEF Window, Layout, WTypes, FlagsMatchPeak, ChainOf
<1>4. /\ win' \in CallType
      /\ win'.pc = "stage" /\ win'.todo = Window(b, h) /\ win'.staged = {} /\ win'.batch = {}
      /\ win'.done = {} /\ win'.before = onChain
  BY <1>2, <1>3 DEF Off, CallType
<1>5. job = NoBlock
  BY DEF Begin, Layout, Phases
<1>6. WTypes' /\ FlagsMatchPeak'
  BY <1>1, <1>4 DEF Layout, WTypes, FlagsMatchPeak, ChainOf
<1>7. Phases'
  BY <1>1, <1>3, <1>4, <1>5 DEF Phases
<1>8. FromGenesis'
  <2> SUFFICES ASSUME peak = NoBlock
               PROVE  pending' = {} /\ \A x \in Window(b, h) : Path[x] \subseteq Window(b, h)
    BY <1>1, <1>4 DEF FromGenesis
  <2>1. Window(b, h) = Path[b]
    BY PathFacts, TreeAssumption DEF Begin, Window
  <2> QED BY <1>1, <2>1, PathFacts DEF Layout, FromGenesis
<1> QED BY <1>6, <1>7, <1>8 DEF Layout

\* The lowest block still to stage, in a call that is staging.
LEMMA NextToStage ==
  ASSUME Layout, win.todo # {}
  PROVE  /\ Lowest(win.todo) \in win.todo /\ Lowest(win.todo) \in Blocks
         /\ peak = NoBlock =>
              /\ ~AlreadyHave(Lowest(win.todo))
              /\ Path[Lowest(win.todo)] \subseteq win.staged \cup {Lowest(win.todo)}
<1> DEFINE b == Lowest(win.todo)
<1>1. PICK e \in Blocks : win.todo \cup win.staged \subseteq Path[e]
  BY DEF Layout, Phases
<1>2. b \in win.todo /\ b \in Path[e] /\ \A y \in win.todo : Height[b] <= Height[y]
  BY <1>1, LowestOf
<1>3. b \in Blocks
  BY <1>1, <1>2, SameHeight
<1> HIDE DEF b
<1>4. ASSUME peak = NoBlock PROVE ~AlreadyHave(b) /\ Path[b] \subseteq win.staged \cup {b}
  <2>1. onChain = {} /\ pending = {} /\ Path[b] \subseteq win.staged \cup win.todo
    BY <1>2, <1>4 DEF Layout, FlagsMatchPeak, ChainOf, FromGenesis
  <2>2. ASSUME NEW y \in Path[b], y \in win.todo PROVE y = b
    <3>1. y \in Path[e] /\ Height[b] <= Height[y] /\ Height[y] <= Height[b]
      BY <1>1, <1>2, <1>3, <2>2, PathFacts
    <3>2. Height[y] \in Nat /\ Height[b] \in Nat
      BY <3>1, <1>1, <1>2, SameHeight
    <3> QED BY <3>1, <3>2, <1>1, <1>2, SameHeight
  <2> QED BY <2>1, <2>2 DEF AlreadyHave
<1> QED BY <1>2, <1>3, <1>4 DEF b

\* The layout of the call survives skipping a block already held.
LEMMA SkipFits ==
  ASSUME Layout, StageSkip
  PROVE  Layout'
<1> DEFINE b == Lowest(win.todo)
<1>1. UNCHANGED <<peak, onChain, job, reports, pending, overlay>>
  BY DEF StageSkip, vars, durable
<1>2. b \in win.todo /\ peak # NoBlock
  BY NextToStage DEF StageSkip
<1>3. /\ win' \in CallType
      /\ win'.pc = win.pc /\ win'.todo = win.todo \ {b} /\ win'.staged = win.staged
      /\ win'.batch = win.batch /\ win'.done = win.done /\ win'.before = win.before
      /\ win'.perBlock = win.perBlock
  BY DEF StageSkip, Layout, WTypes, CallType
<1> HIDE DEF b
<1>4. WTypes' /\ FlagsMatchPeak'
  BY <1>1, <1>3 DEF Layout, WTypes, FlagsMatchPeak, ChainOf
<1>5. Phases'
  BY <1>1, <1>3 DEF Layout, Phases
<1> QED BY <1>1, <1>2, <1>4, <1>5 DEF Layout, FromGenesis

\* The layout of the call survives staging a block.
LEMMA AcceptFits ==
  ASSUME Layout, StageAccept
  PROVE  Layout'
<1> DEFINE b == Lowest(win.todo)
<1>1. UNCHANGED <<peak, onChain, job, reports, pending>> /\ overlay' = overlay \cup {b}
  BY DEF StageAccept
<1>2. /\ b \in win.todo /\ b \in Blocks
      /\ peak = NoBlock => Path[b] \subseteq win.staged \cup {b}
  BY NextToStage DEF StageAccept
<1>3. /\ win' \in CallType
      /\ win'.pc = "stage" /\ win'.todo = win.todo \ {b} /\ win'.staged = win.staged \cup {b}
      /\ win'.batch = IF win.perBlock THEN win.batch ELSE win.batch \cup {b}
      /\ win'.done = win.done /\ win'.before = win.before /\ win'.perBlock = win.perBlock
  <2> DEFINE entered == [win EXCEPT !.todo = @ \ {b}, !.staged = @ \cup {b}]
  <2>1. \/ win.perBlock /\ win' = entered
        \/ /\ ~win.perBlock
           /\ \E S \in SUBSET Blocks : win' = [entered EXCEPT !.batch = @ \cup {b}, !.dim = S]
    <3>1. CASE win.perBlock
      BY <3>1 DEF StageAccept
    <3>2. CASE ~win.perBlock
      <4> DEFINE S == IF Warm(b) THEN entered.dim ELSE entered.dim \cup {b}
      <4>1. win' = [entered EXCEPT !.batch = @ \cup {b}, !.dim = S]
        BY <3>2, Zenon DEF StageAccept
      <4>2. S \in SUBSET Blocks
        <5>1. entered.dim = win.dim /\ win.dim \in SUBSET Blocks
          BY DEF Layout, WTypes, CallType
        <5> HIDE DEF entered, b
        <5> QED BY <5>1, <1>2
      <4> HIDE DEF S, entered, b
      <4> QED BY <3>2, <4>1, <4>2
    <3> QED BY <3>1, <3>2
  <2> HIDE DEF b
  <2>2. /\ entered \in CallType
        /\ entered.pc = win.pc /\ entered.todo = win.todo \ {b} /\ entered.staged = win.staged \cup {b}
        /\ entered.batch = win.batch /\ entered.done = win.done /\ entered.before = win.before
        /\ entered.perBlock = win.perBlock
    BY <1>2 DEF Layout, WTypes, CallType
  <2>3. win.pc = "stage"
    BY DEF StageAccept
  <2> HIDE DEF entered
  <2>4. CASE win.perBlock
    BY <2>1, <2>2, <2>3, <2>4
  <2>5. CASE ~win.perBlock
    <3>1. PICK S \in SUBSET Blocks : win' = [entered EXCEPT !.batch = @ \cup {b}, !.dim = S]
      BY <2>1, <2>5
    <3>2. /\ win' \in CallType
          /\ win'.pc = entered.pc /\ win'.todo = entered.todo /\ win'.staged = entered.staged
          /\ win'.batch = entered.batch \cup {b}
          /\ win'.done = entered.done /\ win'.before = entered.before
          /\ win'.perBlock = entered.perBlock
      BY <3>1, <2>2, <1>2 DEF CallType
    <3> QED BY <3>2, <2>2, <2>3, <2>5
  <2> QED BY <2>4, <2>5
<1> HIDE DEF b
<1>4. WTypes' /\ FlagsMatchPeak'
  BY <1>1, <1>3 DEF Layout, WTypes, FlagsMatchPeak, ChainOf
<1>5. Phases'
  <2>1. win.pc = "stage" /\ job = NoBlock
    BY DEF StageAccept, Layout, Phases
  <2>2. win'.todo \cup win'.staged = win.todo \cup win.staged
    BY <1>2, <1>3
  <2>3. win'.perBlock => win'.batch = {}
    BY <1>3, <2>1 DEF Layout, Phases
  <2>4. win'.batch \subseteq overlay'
    BY <1>1, <1>3, <2>1 DEF Layout, Phases
  <2>5. win'.done = {} /\ win'.before = onChain'
    BY <1>1, <1>3, <2>1 DEF Layout, Phases
  <2> QED BY <1>1, <1>3, <2>1, <2>2, <2>3, <2>4, <2>5 DEF Layout, Phases
<1>6. FromGenesis'
  BY <1>1, <1>2, <1>3 DEF Layout, FromGenesis
<1> QED BY <1>4, <1>5, <1>6 DEF Layout

\* The layout of the call survives a block that fails to stage.
LEMMA RejectFits ==
  ASSUME Layout, StageReject
  PROVE  Layout'
<1>1. UNCHANGED <<peak, onChain, job, reports, pending, overlay>>
  BY DEF StageReject, durable
<1>3. /\ win' \in CallType
      /\ win'.pc = win.pc /\ win'.todo = {} /\ win'.staged = win.staged
      /\ win'.batch = win.batch /\ win'.done = win.done /\ win'.before = win.before
      /\ win'.perBlock = win.perBlock
  BY DEF StageReject, Layout, WTypes, CallType
<1>4. WTypes' /\ FlagsMatchPeak'
  BY <1>1, <1>3 DEF Layout, WTypes, FlagsMatchPeak, ChainOf
<1>5. Phases'
  BY <1>1, <1>3 DEF Layout, Phases
<1>6. FromGenesis'
  BY <1>1, <1>3 DEF Layout, FromGenesis
<1> QED BY <1>4, <1>5, <1>6 DEF Layout

\* The layout of the call survives draining the batch.
LEMMA DrainFits ==
  ASSUME Layout, Drain
  PROVE  Layout'
<1>1. UNCHANGED <<peak, onChain, job, pending, overlay>> /\ reports' = <<>>
  BY DEF Drain, durable
<1>2. PICK passed \in {win.staged} \cup {{x \in win.staged : Height[x] < Height[y]} : y \in win.staged},
           near \in BOOLEAN :
        win' = [win EXCEPT !.pc = "confirm", !.staged = passed, !.perBlock = near,
                           !.err = @ \/ passed # win.staged]
  BY DEF Drain
<1>3. passed \subseteq win.staged /\ win.staged \subseteq Blocks
  BY DEF Layout, WTypes, CallType
<1>4. /\ win' \in CallType
      /\ win'.pc = "confirm" /\ win'.todo = win.todo /\ win'.staged = passed
      /\ win'.batch = win.batch
  <2>1. (win.err \/ passed # win.staged) \in BOOLEAN
    OBVIOUS
  <2> QED BY <1>2, <1>3, <2>1 DEF Layout, WTypes, CallType
<1>5. win.todo = {} /\ win.pc = "stage"
  BY DEF Drain
<1>6. WTypes' /\ FlagsMatchPeak'
  <2>1. <<>> \in Seq(ReportType)
    OBVIOUS
  <2> QED BY <1>1, <1>4, <2>1 DEF Layout, WTypes, FlagsMatchPeak, ChainOf
<1>7. Phases'
  BY <1>1, <1>3, <1>4, <1>5 DEF Layout, Phases
<1>8. FromGenesis'
  <2> SUFFICES ASSUME peak = NoBlock, NEW x \in passed, NEW z \in Path[x] PROVE z \in passed
    BY <1>1, <1>4, <1>5 DEF Layout, FromGenesis
  <2>1. z \in win.staged /\ x \in Blocks
    BY <1>3 DEF Layout, FromGenesis
  <2>2. CASE passed = win.staged
    BY <2>1, <2>2
  <2>3. ASSUME NEW y \in win.staged, passed = {u \in win.staged : Height[u] < Height[y]}
        PROVE  z \in passed
    <3>1. Height[z] <= Height[x] /\ Height[x] < Height[y]
      BY <2>1, <2>3, PathFacts
    <3>2. z \in Blocks /\ y \in Blocks /\ Height[x] \in Nat /\ Height[y] \in Nat /\ Height[z] \in Nat
      BY <1>3, <2>1, <2>3, TreeAssumption
    <3>3. Height[z] < Height[y]
      BY <3>1, <3>2
    <3> QED BY <2>1, <2>3, <3>3
  <2> QED BY <1>2, <2>2, <2>3
<1> QED BY <1>6, <1>7, <1>8 DEF Layout

\* The layout of the call survives confirming an empty batch.
LEMMA NothingFits ==
  ASSUME Layout, ConfirmNothing
  PROVE  Layout'
<1>1. UNCHANGED <<peak, onChain, job, reports, pending, overlay>>
  BY DEF ConfirmNothing, vars, durable
<1>2. /\ win' \in CallType
      /\ win'.pc = "rest" /\ win'.todo = win.todo /\ win'.staged = win.staged /\ win'.batch = {}
  BY DEF ConfirmNothing, Layout, WTypes, CallType
<1>3. WTypes' /\ FlagsMatchPeak'
  BY <1>1, <1>2 DEF Layout, WTypes, FlagsMatchPeak, ChainOf
<1>4. Phases'
  BY <1>1, <1>2 DEF Layout, Phases
<1>5. FromGenesis'
  BY <1>1, <1>2 DEF Layout, FromGenesis
<1> QED BY <1>3, <1>4, <1>5 DEF Layout

\* What the run of a confirm adds.
LEMMA RunFacts ==
  ASSUME Layout, win.staged # {}, Chunk # {}
  PROVE  /\ Highest(Chunk) \in Blocks
         /\ Highest(Chunk) \in win.staged /\ Chunk \subseteq win.staged
         /\ Chunk = Path[Highest(Chunk)] \ onChain
         /\ onChain = {} \/ \E x \in Path[Highest(Chunk)] : onChain = Path[x]
         /\ peak # NoBlock => Weight[Highest(Chunk)] > Weight[peak]
<1>1. PICK e \in Blocks : win.todo \cup win.staged \subseteq Path[e]
  BY DEF Layout, Phases
<1>2. win.staged \subseteq Path[e] /\ (peak = NoBlock => \A x \in win.staged : Path[x] \subseteq win.staged)
  BY <1>1 DEF Layout, FromGenesis
<1>3. /\ Highest(Chunk) \in win.staged /\ Chunk \subseteq win.staged
      /\ Chunk = Path[Highest(Chunk)] \ onChain
      /\ onChain = {} \/ \E x \in Path[Highest(Chunk)] : onChain = Path[x]
      /\ peak # NoBlock => Weight[Highest(Chunk)] > Weight[peak]
  BY <1>1, <1>2, RunIsRest DEF Layout, WTypes
<1> QED BY <1>2, <1>3, PathFacts

\* The layout of the call survives confirming a run in one write.
LEMMA RunFits ==
  ASSUME Layout, ConfirmRun
  PROVE  Layout'
<1> DEFINE run == Chunk
           tip == Highest(run)
<1>1. UNCHANGED <<job, reports>> /\ onChain' = SetPeak(tip) /\ peak' = tip
  BY DEF ConfirmRun
<1>2. tip \in Blocks /\ run \subseteq win.staged
  BY RunFacts DEF ConfirmRun
<1>3. /\ win' \in CallType
      /\ win'.pc = "confirm" /\ win'.todo = win.todo /\ win'.staged = win.staged \ run
      /\ win'.batch = {}
  <2>1. /\ win.pc = "confirm"
        /\ win' = [win EXCEPT !.staged = @ \ run, !.batch = {}, !.dim = {}, !.done = @ \cup run]
    BY DEF ConfirmRun
  <2> HIDE DEF run
  <2> QED BY <1>2, <2>1 DEF Layout, WTypes, CallType
<1> HIDE DEF tip, run
<1>4. peak' \in Blocks /\ peak' # NoBlock /\ FlagsMatchPeak'
  BY <1>1, <1>2, NewPeak DEF Layout, WTypes
<1>5. job = NoBlock
  BY DEF ConfirmRun, Layout, Phases
<1>6. WTypes'
  BY <1>1, <1>3, <1>4 DEF Layout, WTypes
<1>7. Phases'
  BY <1>1, <1>3, <1>5 DEF Layout, Phases
<1> QED BY <1>4, <1>6, <1>7 DEF Layout, FromGenesis

\* The layout of the call survives turning to the blocks outside the run.
LEMMA RestFits ==
  ASSUME Layout, ConfirmRest
  PROVE  Layout'
<1>1. UNCHANGED <<peak, onChain, job, reports, overlay>> /\ pending' \subseteq pending
  BY DEF ConfirmRest, Prune
<1>2. /\ win' \in CallType
      /\ win'.pc = "rest" /\ win'.todo = win.todo /\ win'.staged = win.staged /\ win'.batch = {}
  BY DEF ConfirmRest, Layout, WTypes, CallType
<1>3. WTypes' /\ FlagsMatchPeak'
  BY <1>1, <1>2 DEF Layout, WTypes, FlagsMatchPeak, ChainOf
<1>4. Phases'
  BY <1>1, <1>2 DEF Layout, Phases
<1>5. FromGenesis'
  BY <1>1, <1>2 DEF Layout, FromGenesis
<1> QED BY <1>3, <1>4, <1>5 DEF Layout

\* The layout of the call survives a failed confirmation.
LEMMA FailConfirmFits ==
  ASSUME Layout, FailConfirm
  PROVE  Layout'
<1>1. UNCHANGED <<peak, onChain, job, reports>> /\ job = NoBlock /\ win' = Off
  BY DEF FailConfirm, durable
<1>2. pending' \subseteq pending
  BY DEF FailConfirm
<1>3. reports' \in Seq(ReportType) /\ (peak = NoBlock => pending' = {})
  BY <1>1, <1>2 DEF Layout, WTypes, FromGenesis
<1> QED BY <1>1, <1>3, EndedFits

\* The lowest staged block, in the sequential rest.
LEMMA NextToConfirm ==
  ASSUME Layout, NEW b, Retired(b)
  PROVE  /\ b \in win.staged /\ b \in Blocks /\ win.pc = "rest" /\ job = NoBlock /\ win.batch = {}
         /\ peak = NoBlock => b = Genesis
<1>1. PICK e \in Blocks : win.todo \cup win.staged \subseteq Path[e]
  BY DEF Layout, Phases
<1>2. win.pc = "rest" /\ job = NoBlock /\ win.staged # {} /\ b = Lowest(win.staged)
  BY DEF Retired
<1>3. b \in win.staged /\ b \in Path[e] /\ \A y \in win.staged : Height[b] <= Height[y]
  BY <1>1, <1>2, LowestOf
<1>4. b \in Blocks /\ Height[b] \in Nat
  BY <1>1, <1>3, SameHeight
<1>5. ASSUME peak = NoBlock PROVE b = Genesis
  <2>1. Genesis \in win.staged
    BY <1>3, <1>4, <1>5, PathFacts DEF Layout, FromGenesis
  <2>2. Height[b] = Height[Genesis]
    BY <2>1, <1>3, <1>4, TreeAssumption
  <2> QED BY <1>1, <1>3, <2>1, <2>2, SameHeight
<1>6. win.batch = {}
  BY <1>2 DEF Layout, Phases
<1> QED BY <1>2, <1>3, <1>4, <1>5, <1>6

\* The layout of the call survives a single block that extends the peak.
LEMMA RestExtendFits ==
  ASSUME Layout, NEW b \in Blocks, RestExtend(b)
  PROVE  Layout'
<1>1. UNCHANGED <<job, reports>> /\ onChain' = SetPeak(b) /\ peak' = b /\ Retired(b)
  BY DEF RestExtend
<1>2. b \in win.staged /\ win.pc = "rest" /\ job = NoBlock /\ win.batch = {}
  BY <1>1, NextToConfirm
<1>3. /\ win' \in CallType
      /\ win'.pc = win.pc /\ win'.todo = win.todo /\ win'.staged = win.staged \ {b}
      /\ win'.batch = win.batch
  BY DEF RestExtend, Layout, WTypes, CallType
<1>4. peak' \in Blocks /\ peak' # NoBlock /\ FlagsMatchPeak'
  BY <1>1, NewPeak DEF Layout, WTypes
<1>5. WTypes'
  BY <1>1, <1>3, <1>4 DEF Layout, WTypes
<1>6. Phases'
  BY <1>1, <1>2, <1>3 DEF Layout, Phases
<1> QED BY <1>4, <1>5, <1>6 DEF Layout, FromGenesis

\* The layout of the call survives a single block kept as an orphan.
LEMMA RestOrphanFits ==
  ASSUME Layout, NEW b \in Blocks, RestOrphan(b)
  PROVE  Layout'
<1>1. UNCHANGED <<peak, onChain, job, reports>> /\ peak # NoBlock /\ Retired(b)
  BY DEF RestOrphan, durable
<1>2. b \in win.staged /\ win.pc = "rest" /\ job = NoBlock /\ win.batch = {}
  BY <1>1, NextToConfirm
<1>3. /\ win' \in CallType
      /\ win'.pc = win.pc /\ win'.todo = win.todo /\ win'.staged = win.staged \ {b}
      /\ win'.batch = win.batch
  BY DEF RestOrphan, Layout, WTypes, CallType
<1>4. WTypes' /\ FlagsMatchPeak'
  BY <1>1, <1>3 DEF Layout, WTypes, FlagsMatchPeak, ChainOf
<1>5. Phases'
  BY <1>1, <1>2, <1>3 DEF Layout, Phases
<1> QED BY <1>1, <1>4, <1>5 DEF Layout, FromGenesis

\* The layout of the call survives a single block that starts a reorg.
LEMMA RestReorgFits ==
  ASSUME Layout, NEW b \in Blocks, RestReorg(b)
  PROVE  Layout'
<1>1. /\ UNCHANGED <<peak, onChain, reports>> /\ peak # NoBlock /\ Retired(b) /\ job' = b
      /\ Weight[b] > Weight[peak]
  BY DEF RestReorg, durable
<1>2. b \in win.staged /\ win.pc = "rest" /\ win.batch = {}
  BY <1>1, NextToConfirm
<1>3. /\ win' \in CallType
      /\ win'.pc = win.pc /\ win'.todo = win.todo /\ win'.staged = win.staged \ {b}
      /\ win'.batch = win.batch
  BY DEF RestReorg, Layout, WTypes, CallType
<1>4. WTypes' /\ FlagsMatchPeak'
  BY <1>1, <1>3 DEF Layout, WTypes, FlagsMatchPeak, ChainOf
<1>5. Phases'
  BY <1>1, <1>2, <1>3 DEF Layout, Phases
<1> QED BY <1>1, <1>4, <1>5 DEF Layout, FromGenesis

\* A report joins the queue behind the others, unless the queue is full.
LEMMA ReportJoins ==
  ASSUME NEW r \in ReportType, reports \in Seq(ReportType)
  PROVE  /\ PushReport(r) \in Seq(ReportType)
         /\ Len(PushReport(r)) < ReportCap => /\ PushReport(r) = Append(reports, r)
                                              /\ Len(reports) < ReportCap
<1> DEFINE all == Append(reports, r)
<1>1. all \in Seq(ReportType) /\ Len(all) = Len(reports) + 1 /\ Len(reports) \in Nat
  OBVIOUS
<1> HIDE DEF all
<1>2. Tail(all) \in Seq(ReportType) /\ Len(Tail(all)) = Len(all) - 1
  BY <1>1
<1>3. PushReport(r) = IF Len(all) > ReportCap THEN Tail(all) ELSE all
  BY DEF PushReport, all
<1>4. CASE Len(all) > ReportCap
  BY <1>1, <1>2, <1>3, <1>4, EngineConstants
<1>5. CASE ~(Len(all) > ReportCap)
  BY <1>1, <1>3, <1>5, EngineConstants DEF all
<1> QED BY <1>4, <1>5

\* The second batch of a reorg, and the report it makes.
LEMMA ReorgFacts ==
  ASSUME Layout, FinishReorg
  PROVE  /\ job \in Blocks /\ peak \in Blocks /\ peak # NoBlock /\ Weight[job] > Weight[peak]
         /\ win.pc = "rest" /\ win.batch = {}
         /\ onChain' = Path[job] /\ peak' = job /\ peak' # NoBlock /\ FlagsMatchPeak'
         /\ \E x \in Path[job] \cap Path[peak] :
              ForkHeight(job) = Height[x] /\ Branch(job) = Path[job] \ Path[x]
         /\ \E r \in ReportType : r.reapplied = Branch(job) /\ reports' = PushReport(r)
<1>1. /\ job \in Blocks /\ peak \in Blocks /\ peak # NoBlock /\ Weight[job] > Weight[peak]
      /\ win.pc = "rest" /\ win.batch = {}
  BY DEF FinishReorg, Layout, WTypes, Phases
<1>2. onChain' = Path[job] /\ peak' = job /\ peak' # NoBlock /\ FlagsMatchPeak'
  BY <1>1, NewPeak DEF FinishReorg, Layout
<1>3. PICK x \in Path[job] \cap Path[peak] :
        ForkHeight(job) = Height[x] /\ Branch(job) = Path[job] \ Path[x]
  BY <1>1, ForkFacts DEF Layout
<1> DEFINE r == [fork |-> ForkHeight(job), rolledBack |-> RolledBack(ForkHeight(job), Height[peak]),
                 reapplied |-> Branch(job)]
<1>4. reports' = PushReport(r)
  BY DEF FinishReorg
<1>5. r \in ReportType
  <2>1. ForkHeight(job) \in Int
    BY <1>1, <1>3, PathFacts, TreeAssumption
  <2>2. Branch(job) \subseteq Blocks /\ RolledBack(ForkHeight(job), Height[peak]) \subseteq Coins
    BY <1>1, <1>3, PathFacts DEF RolledBack
  <2> QED BY <2>1, <2>2 DEF ReportType
<1>6. r.reapplied = Branch(job)
  OBVIOUS
<1> HIDE DEF r
<1> QED BY <1>1, <1>2, <1>3, <1>4, <1>5, <1>6

\* The layout of the call survives the end of a reorg.
LEMMA ReorgDoneFits ==
  ASSUME Layout, ReorgDone
  PROVE  Layout'
<1>1. FinishReorg /\ win' = win /\ overlay' = overlay
  BY DEF ReorgDone, windowVars
<1>2. /\ win.pc = "rest" /\ win.batch = {}
      /\ peak' = job /\ job \in Blocks /\ peak' # NoBlock /\ FlagsMatchPeak'
      /\ \E r \in ReportType : reports' = PushReport(r)
  BY <1>1, ReorgFacts
<1>3. job' = NoBlock
  BY <1>1 DEF FinishReorg
<1>4. reports' \in Seq(ReportType)
  BY <1>2, ReportJoins DEF Layout, WTypes
<1>5. WTypes'
  BY <1>1, <1>2, <1>3, <1>4 DEF Layout, WTypes
<1>6. Phases'
  BY <1>1, <1>2, <1>3 DEF Layout, Phases
<1> QED BY <1>2, <1>5, <1>6 DEF Layout, FromGenesis

\* The layout of the call survives a failed reorg.
LEMMA ReorgFailsFits ==
  ASSUME Layout, ReorgFails
  PROVE  Layout'
<1>1. UNCHANGED <<peak, onChain, reports>> /\ job' = NoBlock /\ job # NoBlock /\ win' = Off
  BY DEF ReorgFails, FailReorg, durable
<1>2. reports' \in Seq(ReportType) /\ peak # NoBlock
  BY <1>1 DEF Layout, WTypes, Phases
<1> QED BY <1>1, <1>2, EndedFits

\* The layout of the call survives handing the reports to the caller.
LEMMA ReturnFits ==
  ASSUME Layout, Return
  PROVE  Layout'
<1>1. UNCHANGED <<peak, onChain, job, pending>> /\ reports' = <<>> /\ win' = Off /\ job = NoBlock
  BY DEF Return, Returning, durable
<1>2. reports' \in Seq(ReportType) /\ (peak = NoBlock => pending' = {})
  BY <1>1 DEF Layout, FromGenesis
<1> QED BY <1>1, <1>2, EndedFits

\* The layout of the call survives a restart.
LEMMA RestartFits ==
  ASSUME Layout, Restart
  PROVE  Layout'
<1>1. UNCHANGED <<peak, onChain>> /\ reports' = <<>> /\ win' = Off /\ job' = NoBlock /\ pending' = {}
  BY DEF Restart, Crash, durable
<1>2. reports' \in Seq(ReportType)
  BY <1>1
<1> QED BY <1>1, <1>2, EndedFits

\* Every step keeps the shape.
LEMMA LayoutStep == Layout /\ [WNext]_allVars => Layout'
<1> SUFFICES ASSUME Layout, [WNext]_allVars PROVE Layout'
  OBVIOUS
<1>1. CASE UNCHANGED allVars
  <2>1. UNCHANGED <<peak, onChain, job, reports, pending, overlay, win>>
    BY <1>1 DEF allVars, vars, durable, windowVars
  <2> QED BY <2>1 DEF Layout, WTypes, FlagsMatchPeak, ChainOf, Phases, FromGenesis
<1>2. ASSUME NEW b \in Blocks, NEW h \in 0 .. Height[b], Begin(b, h) PROVE Layout'
  BY <1>2, BeginFits
<1>3. ASSUME NEW b \in Blocks, RestExtend(b) \/ RestOrphan(b) \/ RestReorg(b) PROVE Layout'
  BY <1>3, RestExtendFits, RestOrphanFits, RestReorgFits
<1> QED BY <1>1, <1>2, <1>3, SkipFits, AcceptFits, RejectFits, DrainFits, NothingFits, RunFits, RestFits,
           FailConfirmFits, ReorgDoneFits, ReorgFailsFits, ReturnFits, RestartFits DEF WNext

-----------------------------------------------------------------------------
(* The rows, the coins and the ledger.                                     *)

\* What a step may do to what readers see.
LedgerStep == LedgerView!LNext \/ UNCHANGED <<peak, coins>>

\* A block that joins a set that holds its ancestry keeps the set replayable.
LEMMA JoinReplayable ==
  ASSUME NEW S, Replayable(S), NEW b, Path[b] \subseteq S \cup {b}, SpendsValid(b)
  PROVE  Replayable(S \cup {b})
BY DEF Replayable

\* The walk cache after a derivation.
LEMMA WalkedHeld ==
  ASSUME NEW b, NEW walked \in Walked(b)
  PROVE  walked \subseteq cache \cup archive
<1>1. Repaired(b) \subseteq cache \cup archive
  BY CacheBound DEF Repaired
<1> QED BY <1>1 DEF Walked

\* A staged block has its ancestry held, and is valid against it.
LEMMA StagedIsValid ==
  ASSUME Layout, Kept, win.pc = "stage", NEW b \in Blocks, Accepts(b, pending \cup overlay)
  PROVE  Path[b] \subseteq Held \cup {b} /\ SpendsValid(b) /\ (win.batch = {} => Path[b] \subseteq archive \cup {b})
<1>1. CASE b = Genesis
  BY <1>1, TreeAssumption, CoinAssumption DEF SpendsValid
<1>2. CASE b # Genesis
  <2>1. Parent[b] \in Held /\ Path[b] = Path[Parent[b]] \cup {b} /\ LookupRemovals(b, pending \cup overlay)
    BY <1>2, TreeAssumption DEF Accepts, HasParent, Kept, Held
  <2>2. \A x \in Path[b] \ {b} : x \in Held /\ SpendsValid(x)
    BY <2>1 DEF Kept, Replayable
  <2>3. \A x \in Held : x \in pending \cup overlay \/ x \in archive
    BY DEF Held, Layout, Phases
  <2>4. /\ coins \in CoinTable
        /\ \A w \in onChain : ValidPath(w) /\ Rollback(coins, Height[w]) = CoinsOf(Path[w])
    <3>1. peak \in Blocks \cup {NoBlock} /\ FlagsMatchPeak /\ CoinsReplayChain /\ ChainSpendsValid
      BY DEF Kept, Replayable, ChainSpendsValid, Layout, WTypes
    <3> QED BY <3>1, ChainTable
  <2>5. SpendsValid(b)
    <3> DEFINE over == pending \cup overlay
    <3>1. /\ \A x \in Path[b] \ {b} : SpendsValid(x) /\ (x \in over \/ x \in archive)
          /\ LookupRemovals(b, over)
      BY <2>1, <2>2, <2>3
    <3> HIDE DEF over
    <3> QED BY <1>2, <2>4, <3>1, LookupIsSound
  <2> QED BY <2>2, <2>5 DEF Held
<1> QED BY <1>1, <1>2

\* A call that ends without a batch keeps what it committed.
LEMMA EndedKeeps ==
  ASSUME Layout, Kept, win.batch = {}, win' = Off, UNCHANGED <<archive, onChain, coins>>,
         cache' \subseteq cache \cup archive, job' = NoBlock
  PROVE  Kept'
<1>1. Held' = archive /\ Held = archive /\ win'.staged = {}
  BY OffFits DEF Held
<1> QED BY <1>1 DEF Kept, CoinsReplayChain, Replayable, Held

\* Nothing but the bookkeeping of the call changes.
LEMMA QuietKeeps ==
  ASSUME Kept, UNCHANGED <<archive, onChain, coins, job>>,
         cache' \subseteq Held, win'.staged \subseteq win.staged, win'.batch = win.batch
  PROVE  Kept'
<1>1. Held' = Held
  BY DEF Held
<1> QED BY <1>1 DEF Kept, CoinsReplayChain, Replayable

\* Confirming what a block adds to the chain adopts it in the ledger.
LEMMA ConfirmAdopts ==
  ASSUME peak \in Blocks \cup {NoBlock}, FlagsMatchPeak, CoinsReplayChain,
         NEW tip \in Blocks, ValidPath(tip),
         onChain = {} \/ \E x \in Path[tip] : onChain = Path[x],
         peak # NoBlock => Weight[tip] > Weight[peak],
         onChain' = SetPeak(tip), peak' = tip, coins' = Apply(coins, Path[tip] \ onChain)
  PROVE  CoinsReplayChain' /\ LedgerView!LNext
<1>1. onChain' = Path[tip]
  BY NewPeak
<1>2. coins' = CoinsOf(Path[tip])
  BY ApplyRest DEF CoinsReplayChain
<1>3. CoinsReplayChain'
  BY <1>1, <1>2 DEF CoinsReplayChain
<1>4. LedgerView!Adopt(tip)
  BY <1>2, SameTree DEF LedgerView!Adopt, ValidPath
<1> QED BY <1>3, <1>4 DEF LedgerView!LNext

\* What is stored stays sound through opening a window, a step of the ledger or none.
LEMMA BeginKeeps ==
  ASSUME Layout, Kept, NEW b \in Blocks, NEW h \in 0 .. Height[b], Begin(b, h)
  PROVE  Kept' /\ LedgerStep
<1>1. UNCHANGED <<archive, onChain, peak, coins, cache, job>>
  BY DEF Begin, vars, durable
<1>2. win.batch = {}
  BY DEF Begin, Layout, Phases
<1>3. win'.staged = {} /\ win'.batch = {}
  BY DEF Begin, Off
<1>4. Kept'
  BY <1>1, <1>2, <1>3, QuietKeeps DEF Kept
<1> QED BY <1>1, <1>4 DEF LedgerStep

\* What is stored stays sound through skipping a block already held, a step of the ledger or none.
LEMMA SkipKeeps ==
  ASSUME Layout, Kept, StageSkip
  PROVE  Kept' /\ LedgerStep
<1>1. UNCHANGED <<archive, onChain, peak, coins, cache, job>>
  BY DEF StageSkip, vars, durable
<1>2. win'.staged = win.staged /\ win'.batch = win.batch
  BY DEF StageSkip, Layout, WTypes, CallType
<1>3. Kept'
  BY <1>1, <1>2, QuietKeeps DEF Kept
<1> QED BY <1>1, <1>3 DEF LedgerStep

\* What is stored stays sound through staging a block, a step of the ledger or none.
LEMMA AcceptKeeps ==
  ASSUME Layout, Kept, StageAccept
  PROVE  Kept' /\ LedgerStep
<1> DEFINE b == Lowest(win.todo)
<1>1. /\ UNCHANGED <<onChain, peak, coins, job>> /\ win.pc = "stage" /\ win.todo # {}
      /\ Accepts(b, pending \cup overlay)
      /\ \E walked \in Walked(b) : cache' = CacheInsert(walked, {b})
  BY DEF StageAccept
<1>2. b \in Blocks
  BY <1>1, NextToStage
<1>3. /\ win'.staged = win.staged \cup {b}
      /\ \/ win.perBlock /\ archive' = archive \cup {b} /\ win'.batch = win.batch
         \/ ~win.perBlock /\ archive' = archive /\ win'.batch = win.batch \cup {b}
  <2>1. CASE win.perBlock
    BY <2>1 DEF StageAccept, Persist, Layout, WTypes, CallType
  <2>2. CASE ~win.perBlock
    BY <2>2 DEF StageAccept, Layout, WTypes, CallType
  <2> QED BY <2>1, <2>2
<1> HIDE DEF b
<1>4. /\ Path[b] \subseteq Held \cup {b} /\ SpendsValid(b)
      /\ win.batch = {} => Path[b] \subseteq archive \cup {b}
  BY <1>1, <1>2, StagedIsValid
<1>5. Held' = Held \cup {b} /\ archive' \subseteq Blocks /\ onChain' \subseteq archive'
  BY <1>1, <1>2, <1>3 DEF Held, Kept
<1>6. Replayable(Held) /\ Replayable(archive)
  BY DEF Kept
<1>7. Replayable(Held')
  BY <1>4, <1>5, <1>6, JoinReplayable
<1>8. Replayable(archive')
  <2>1. CASE win.perBlock
    <3>1. win.batch = {} /\ archive' = archive \cup {b}
      BY <1>1, <1>3, <2>1 DEF Layout, Phases
    <3> QED BY <1>4, <1>6, <3>1, JoinReplayable
  <2>2. CASE ~win.perBlock
    BY <1>3, <1>6, <2>2
  <2> QED BY <2>1, <2>2
<1>9. cache' \subseteq Held'
  <2>1. PICK walked \in Walked(b) : cache' = CacheInsert(walked, {b})
    BY <1>1
  <2>2. walked \subseteq cache \cup archive /\ cache' \subseteq walked \cup {b}
    BY <2>1, WalkedHeld, CacheBound
  <2> QED BY <2>2, <1>5 DEF Kept, Held
<1>10. win'.staged \subseteq Held'
  BY <1>3, <1>5 DEF Kept
<1>11. job' # NoBlock => job' \in archive'
  BY <1>1, <1>3 DEF Kept
<1>12. CoinsReplayChain'
  BY <1>1 DEF Kept, CoinsReplayChain
<1>13. Replayable(archive)' /\ Replayable(Held)'
  BY <1>7, <1>8 DEF Replayable
<1> QED BY <1>1, <1>5, <1>9, <1>10, <1>11, <1>12, <1>13 DEF Kept, LedgerStep

\* What is stored stays sound through a block that fails to stage, a step of the ledger or none.
LEMMA RejectKeeps ==
  ASSUME Layout, Kept, StageReject
  PROVE  Kept' /\ LedgerStep
<1>1. UNCHANGED <<archive, onChain, peak, coins, job>>
  BY DEF StageReject, durable
<1>2. win'.staged = win.staged /\ win'.batch = win.batch
  BY DEF StageReject, Layout, WTypes, CallType
<1>3. cache' \subseteq cache \cup archive
  BY WalkedHeld DEF StageReject
<1>4. cache' \subseteq Held
  BY <1>3 DEF Kept, Held
<1>5. Kept'
  BY <1>1, <1>2, <1>4, QuietKeeps
<1> QED BY <1>1, <1>5 DEF LedgerStep

\* What is stored stays sound through draining the batch, a step of the ledger or none.
LEMMA DrainKeeps ==
  ASSUME Layout, Kept, Drain
  PROVE  Kept' /\ LedgerStep
<1>1. UNCHANGED <<archive, onChain, peak, coins, cache, job>>
  BY DEF Drain, durable
<1>2. win'.staged \subseteq win.staged /\ win'.batch = win.batch
  BY DEF Drain, Layout, WTypes, CallType
<1>3. Kept'
  BY <1>1, <1>2, QuietKeeps DEF Kept
<1> QED BY <1>1, <1>3 DEF LedgerStep

\* What is stored stays sound through confirming an empty batch, a step of the ledger or none.
LEMMA NothingKeeps ==
  ASSUME Layout, Kept, ConfirmNothing, ~dropped'
  PROVE  Kept' /\ LedgerStep
<1>1. UNCHANGED <<archive, onChain, peak, coins, cache, job>>
  BY DEF ConfirmNothing, vars, durable
<1>2. win.batch = {}
  BY DEF ConfirmNothing
<1>3. win'.staged = win.staged /\ win'.batch = {}
  BY DEF ConfirmNothing, Layout, WTypes, CallType
<1>4. Kept'
  BY <1>1, <1>2, <1>3, QuietKeeps DEF Kept
<1> QED BY <1>1, <1>4 DEF LedgerStep

\* A batch that commits makes its rows durable.
LEMMA CommitHolds ==
  ASSUME Kept, CommitBatch, win.batch \subseteq Blocks, win'.batch = {}
  PROVE  /\ archive' = Held /\ Held' = Held /\ archive' \subseteq Blocks
         /\ Replayable(archive)' /\ Replayable(Held)'
<1>1. archive' = Held /\ Held' = Held /\ archive' \subseteq Blocks
  BY DEF CommitBatch, Held, Kept
<1> QED BY <1>1 DEF Kept, Replayable

\* What is stored stays sound through confirming a run in one write, a step of the ledger or none.
LEMMA RunKeeps ==
  ASSUME Layout, Kept, ConfirmRun
  PROVE  Kept' /\ LedgerStep
<1> DEFINE run == Chunk
           tip == Highest(run)
<1>1. /\ CommitBatch /\ onChain' = SetPeak(tip) /\ peak' = tip /\ coins' = Apply(coins, run)
      /\ cache' = CacheInsert(cache, run) /\ job' = job
  BY DEF ConfirmRun
<1>2. /\ tip \in Blocks /\ tip \in win.staged /\ run \subseteq win.staged
      /\ run = Path[tip] \ onChain
      /\ onChain = {} \/ \E x \in Path[tip] : onChain = Path[x]
      /\ peak # NoBlock => Weight[tip] > Weight[peak]
  BY RunFacts DEF ConfirmRun
<1>3. win'.staged = win.staged \ run /\ win'.batch = {}
  BY DEF ConfirmRun, Layout, WTypes, CallType
<1> HIDE DEF tip, run
<1>4. /\ archive' = Held /\ Held' = Held /\ archive' \subseteq Blocks
      /\ Replayable(archive)' /\ Replayable(Held)'
  BY <1>1, <1>3, CommitHolds DEF Layout, WTypes, CallType
<1>5. Path[tip] \subseteq Held /\ ValidPath(tip)
  BY <1>2 DEF Kept, Replayable, ValidPath
<1>6. CoinsReplayChain' /\ LedgerView!LNext
  BY <1>1, <1>2, <1>5, ConfirmAdopts DEF Layout, WTypes, Kept
<1>7. onChain' = Path[tip]
  BY <1>1, <1>2, NewPeak DEF Layout, WTypes
<1>8. cache' \subseteq Held' /\ win'.staged \subseteq Held'
  <2>1. cache' \subseteq cache \cup run
    BY <1>1, CacheBound
  <2> QED BY <2>1, <1>2, <1>3, <1>4 DEF Kept
<1>9. job' = NoBlock
  BY <1>1 DEF ConfirmRun, Layout, Phases
<1> QED BY <1>4, <1>5, <1>6, <1>7, <1>8, <1>9 DEF Kept, LedgerStep

\* What is stored stays sound through turning to the blocks outside the run, a step of the ledger or none.
LEMMA RestKeeps ==
  ASSUME Layout, Kept, ConfirmRest
  PROVE  Kept' /\ LedgerStep
<1>1. CommitBatch /\ UNCHANGED <<onChain, peak, coins, cache, job>>
  BY DEF ConfirmRest
<1>2. win'.staged = win.staged /\ win'.batch = {}
  BY DEF ConfirmRest, Layout, WTypes, CallType
<1>3. /\ archive' = Held /\ Held' = Held /\ archive' \subseteq Blocks
      /\ Replayable(archive)' /\ Replayable(Held)'
  BY <1>1, <1>2, CommitHolds DEF Layout, WTypes, CallType
<1>4. archive \subseteq Held
  BY DEF Held
<1>5. CoinsReplayChain'
  BY <1>1 DEF Kept, CoinsReplayChain
<1> QED BY <1>1, <1>2, <1>3, <1>4, <1>5 DEF Kept, LedgerStep

\* What is stored stays sound through a failed confirmation, a step of the ledger or none.
LEMMA FailConfirmKeeps ==
  ASSUME Layout, Kept, FailConfirm, ~dropped'
  PROVE  Kept' /\ LedgerStep
<1>1. UNCHANGED <<archive, onChain, peak, coins, cache, job>> /\ win' = Off /\ win.batch = {} /\ job = NoBlock
  BY DEF FailConfirm, durable
<1>2. Kept'
  BY <1>1, EndedKeeps
<1> QED BY <1>1, <1>2 DEF LedgerStep

\* What is stored stays sound through a single block that extends the peak, a step of the ledger or none.
LEMMA RestExtendKeeps ==
  ASSUME Layout, Kept, NEW b \in Blocks, RestExtend(b)
  PROVE  Kept' /\ LedgerStep
<1>1. /\ UNCHANGED <<archive, job>> /\ onChain' = SetPeak(b) /\ peak' = b /\ Retired(b) /\ Extends(b)
      /\ coins' = Apply(coins, {b}) /\ cache' = CacheInsert(cache, {b})
  BY DEF RestExtend
<1>2. b \in win.staged /\ job = NoBlock /\ win.batch = {} /\ (peak = NoBlock => b = Genesis)
  BY <1>1, NextToConfirm
<1>3. win'.staged = win.staged \ {b} /\ win'.batch = win.batch
  BY DEF RestExtend, Layout, WTypes, CallType
<1>4. Held = archive /\ Held' = archive /\ b \in archive
  BY <1>1, <1>2, <1>3 DEF Held, Kept
<1>5. Path[b] \subseteq archive /\ ValidPath(b)
  BY <1>4 DEF Kept, Replayable, ValidPath
<1>6. /\ onChain = {y \in Path[b] : Height[y] < Height[b]}
      /\ onChain = {} \/ \E x \in Path[b] : onChain = Path[x]
      /\ peak # NoBlock => Weight[b] > Weight[peak]
  BY <1>1, <1>2, ExtendsByOne DEF Layout, WTypes
<1>7. {b} = Path[b] \ onChain
  <2>1. ASSUME NEW y \in Path[b], ~(Height[y] < Height[b]) PROVE y = b
    <3>1. b \in Path[b] /\ Height[y] <= Height[b]
      BY PathFacts
    <3>2. Height[y] \in Nat /\ Height[b] \in Nat
      BY <3>1, SameHeight
    <3>3. Height[y] = Height[b]
      BY <2>1, <3>1, <3>2
    <3> QED BY <3>1, <3>3, SameHeight
  <2>2. b \in Path[b] /\ ~(Height[b] < Height[b])
    BY PathFacts, TreeAssumption
  <2> QED BY <1>6, <2>1, <2>2
<1>8. CoinsReplayChain' /\ LedgerView!LNext
  BY <1>1, <1>5, <1>6, <1>7, ConfirmAdopts DEF Layout, WTypes, Kept
<1>9. onChain' = Path[b]
  BY <1>1, NewPeak DEF Layout, WTypes
<1>10. cache' \subseteq Held' /\ win'.staged \subseteq Held'
  <2>1. cache' \subseteq cache \cup {b}
    BY <1>1, CacheBound
  <2> QED BY <2>1, <1>3, <1>4 DEF Kept
<1>11. Replayable(archive)' /\ Replayable(Held)'
  BY <1>1, <1>4 DEF Kept, Replayable
<1> QED BY <1>1, <1>2, <1>5, <1>8, <1>9, <1>10, <1>11 DEF Kept, LedgerStep

\* What is stored stays sound through a single block kept as an orphan, a step of the ledger or none.
LEMMA RestOrphanKeeps ==
  ASSUME Layout, Kept, NEW b \in Blocks, RestOrphan(b)
  PROVE  Kept' /\ LedgerStep
<1>1. UNCHANGED <<archive, onChain, peak, coins, job>> /\ Retired(b) /\ cache' = CacheInsert(cache, {b})
  BY DEF RestOrphan, durable
<1>2. b \in win.staged
  BY <1>1, NextToConfirm
<1>3. win'.staged = win.staged \ {b} /\ win'.batch = win.batch
  BY DEF RestOrphan, Layout, WTypes, CallType
<1>4. cache' \subseteq cache \cup {b}
  BY <1>1, CacheBound
<1>5. Kept'
  BY <1>1, <1>2, <1>3, <1>4, QuietKeeps DEF Kept
<1> QED BY <1>1, <1>5 DEF LedgerStep

\* What is stored stays sound through a single block that starts a reorg, a step of the ledger or none.
LEMMA RestReorgKeeps ==
  ASSUME Layout, Kept, NEW b \in Blocks, RestReorg(b)
  PROVE  Kept' /\ LedgerStep
<1>1. UNCHANGED <<archive, onChain, peak, coins, cache>> /\ Retired(b) /\ job' = b
  BY DEF RestReorg, durable
<1>2. b \in win.staged /\ win.batch = {}
  BY <1>1, NextToConfirm
<1>3. win'.staged = win.staged \ {b} /\ win'.batch = win.batch
  BY DEF RestReorg, Layout, WTypes, CallType
<1>4. Held' = Held /\ Held = archive
  BY <1>1, <1>2, <1>3 DEF Held
<1> QED BY <1>1, <1>2, <1>3, <1>4 DEF Kept, CoinsReplayChain, Replayable, LedgerStep

\* What is stored stays sound through the end of a reorg, a step of the ledger or none.
LEMMA ReorgDoneKeeps ==
  ASSUME Layout, Kept, ReorgDone
  PROVE  Kept' /\ LedgerStep
<1>1. FinishReorg /\ win' = win
  BY DEF ReorgDone, windowVars
<1>2. /\ job \in Blocks /\ peak \in Blocks /\ peak # NoBlock /\ Weight[job] > Weight[peak]
      /\ win.batch = {} /\ onChain' = Path[job] /\ peak' = job
  BY <1>1, ReorgFacts
<1>3. PICK x \in Path[job] \cap Path[peak] :
        ForkHeight(job) = Height[x] /\ Branch(job) = Path[job] \ Path[x]
  BY <1>1, ReorgFacts
<1>4. /\ archive' = archive /\ job' = NoBlock /\ job # NoBlock
      /\ coins' = Apply(Rollback(coins, ForkHeight(job)), Branch(job))
      /\ cache' = CacheInsert(cache, {job})
  BY <1>1 DEF FinishReorg
<1>5. onChain = Path[peak] /\ coins = CoinsOf(Path[peak]) /\ peak \in Path[peak]
  BY <1>2, PathFacts DEF Layout, FlagsMatchPeak, ChainOf, Kept, CoinsReplayChain
<1>6. job \in archive /\ Path[job] \subseteq archive /\ ValidPath(job) /\ ValidPath(peak)
  BY <1>4, <1>5 DEF Kept, Replayable, ValidPath
<1>7. coins' = CoinsOf(Path[job])
  <2>1. Rollback(coins, Height[x]) = CoinsOf(Path[x])
    BY <1>2, <1>3, <1>5, <1>6, RollbackPrefix
  <2>2. Apply(CoinsOf(Path[x]), Path[job] \ Path[x]) = CoinsOf(Path[job])
    BY <1>2, <1>3, <1>6, ApplyRest
  <2> QED BY <1>3, <1>4, <2>1, <2>2
<1>8. LedgerView!Adopt(job)
  BY <1>2, <1>6, <1>7, SameTree DEF LedgerView!Adopt, ValidPath
<1>9. LedgerStep
  BY <1>2, <1>8 DEF LedgerStep, LedgerView!LNext
<1>10. Held' = archive /\ Held = archive
  BY <1>1, <1>2, <1>4 DEF Held
<1>11. cache' \subseteq Held'
  <2>1. cache' \subseteq cache \cup {job}
    BY <1>4, CacheBound
  <2> QED BY <2>1, <1>6, <1>10 DEF Kept
<1>12. CoinsReplayChain'
  BY <1>2, <1>7 DEF CoinsReplayChain
<1>13. Replayable(archive)' /\ Replayable(Held)'
  BY <1>4, <1>10 DEF Kept, Replayable
<1> QED BY <1>1, <1>2, <1>4, <1>6, <1>9, <1>10, <1>11, <1>12, <1>13 DEF Kept

\* What is stored stays sound through a failed reorg, a step of the ledger or none.
LEMMA ReorgFailsKeeps ==
  ASSUME Layout, Kept, ReorgFails
  PROVE  Kept' /\ LedgerStep
<1>1. UNCHANGED <<archive, onChain, peak, coins, cache>> /\ job' = NoBlock /\ job # NoBlock /\ win' = Off
  BY DEF ReorgFails, FailReorg, durable
<1>2. win.batch = {}
  BY <1>1 DEF Layout, Phases
<1>3. Kept'
  BY <1>1, <1>2, EndedKeeps
<1> QED BY <1>1, <1>3 DEF LedgerStep

\* What is stored stays sound through handing the reports to the caller, a step of the ledger or none.
LEMMA ReturnKeeps ==
  ASSUME Layout, Kept, Return
  PROVE  Kept' /\ LedgerStep
<1>1. UNCHANGED <<archive, onChain, peak, coins, cache, job>> /\ job = NoBlock /\ win' = Off /\ win.pc = "rest"
  BY DEF Return, Returning, durable
<1>2. win.batch = {}
  BY <1>1 DEF Layout, Phases
<1>3. Kept'
  BY <1>1, <1>2, EndedKeeps
<1> QED BY <1>1, <1>3 DEF LedgerStep

\* A restart drops the batch and the cache with it.
LEMMA RestartKeeps ==
  ASSUME Layout, Kept, Restart
  PROVE  Kept' /\ LedgerStep
<1>1. UNCHANGED <<archive, onChain, peak, coins>> /\ job' = NoBlock /\ win' = Off /\ cache' = WarmCache
  BY DEF Restart, Crash, durable
<1>2. Held' = archive /\ win'.staged = {}
  BY <1>1, OffFits DEF Held
<1>3. cache' \subseteq onChain
  BY <1>1 DEF WarmCache
<1> QED BY <1>1, <1>2, <1>3 DEF Kept, CoinsReplayChain, Replayable, LedgerStep

\* As long as no batch was dropped every step keeps the rows, and is a step of
\* the ledger or invisible to it.
LEMMA KeptStep ==
  ASSUME Layout, Kept, ~dropped, [WNext]_allVars
  PROVE  (~dropped' => Kept') /\ LedgerStep
<1>1. CASE UNCHANGED allVars
  <2>1. UNCHANGED <<archive, onChain, peak, coins, cache, job, win>>
    BY <1>1 DEF allVars, vars, durable, windowVars
  <2> QED BY <2>1 DEF Kept, Held, CoinsReplayChain, Replayable, LedgerStep
<1>2. ASSUME NEW b \in Blocks, NEW h \in 0 .. Height[b], Begin(b, h) PROVE Kept' /\ LedgerStep
  BY <1>2, BeginKeeps
<1>3. ASSUME NEW b \in Blocks, RestExtend(b) \/ RestOrphan(b) \/ RestReorg(b) PROVE Kept' /\ LedgerStep
  BY <1>3, RestExtendKeeps, RestOrphanKeeps, RestReorgKeeps
<1>4. CASE ConfirmNothing \/ FailConfirm
  <2>1. UNCHANGED <<peak, coins>>
    BY <1>4 DEF ConfirmNothing, FailConfirm, vars, durable
  <2> QED BY <1>4, <2>1, NothingKeeps, FailConfirmKeeps DEF LedgerStep
<1> QED BY <1>1, <1>2, <1>3, <1>4, SkipKeeps, AcceptKeeps, RejectKeeps, DrainKeeps, RunKeeps, RestKeeps,
           ReorgDoneKeeps, ReorgFailsKeeps, ReturnKeeps, RestartKeeps DEF WNext

-----------------------------------------------------------------------------
(* What a call reports.                                                    *)

\* A report that joins the queue adds its branch to what is reported.
LEMMA ReportAdds ==
  ASSUME NEW r \in ReportType, reports \in Seq(ReportType), reports' = Append(reports, r),
         win' = win
  PROVE  Reported \cup r.reapplied \subseteq Reported'
<1>1. Len(reports) \in Nat /\ Len(reports') = Len(reports) + 1
  OBVIOUS
<1>2. \A k \in 1 .. Len(reports) : k \in 1 .. Len(reports') /\ reports'[k] = reports[k]
  BY <1>1
<1>3. Len(reports') \in 1 .. Len(reports') /\ reports'[Len(reports')] = r
  BY <1>1
<1> QED BY <1>2, <1>3 DEF Reported

\* Nothing the list or the reports hold is lost while they grow.
LEMMA StillAccounted ==
  ASSUME Accounted, win.pc \in {"confirm", "rest"}, UNCHANGED <<onChain, reports>>,
         win'.before = win.before, win'.done = win.done
  PROVE  Accounted'
<1>1. Reported' = Reported
  BY DEF Reported
<1> QED BY <1>1 DEF Accounted

\* A call keeps account of every block it confirms.
LEMMA AccountedStep == Layout /\ Accounted /\ [WNext]_allVars => Accounted'
<1> SUFFICES ASSUME Layout, Accounted, [WNext]_allVars PROVE Accounted'
  OBVIOUS
<1>1. CASE UNCHANGED allVars
  <2>1. UNCHANGED <<onChain, reports, win>>
    BY <1>1 DEF allVars, vars, durable, windowVars
  <2> QED BY <2>1 DEF Accounted, Reported
<1>2. ASSUME win'.pc = "off" \/ win'.pc = "stage" PROVE Accounted'
  BY <1>2 DEF Accounted
<1>3. ASSUME NEW b \in Blocks, NEW h \in 0 .. Height[b], Begin(b, h) PROVE Accounted'
  <2>1. win'.pc = "stage"
    BY <1>3 DEF Begin, Off
  <2> QED BY <2>1, <1>2
<1>4. CASE StageSkip \/ StageReject
  <2>1. win'.pc = "stage"
    BY <1>4 DEF StageSkip, StageReject, Layout, WTypes, CallType
  <2> QED BY <2>1, <1>2
<1>5. CASE StageAccept
  <2>1. win'.pc = "stage"
    <3>1. CASE win.perBlock
      BY <1>5, <3>1 DEF StageAccept, Layout, WTypes, CallType
    <3>2. CASE ~win.perBlock
      BY <1>5, <3>2 DEF StageAccept, Layout, WTypes, CallType
    <3> QED BY <3>1, <3>2
  <2> QED BY <2>1, <1>2
<1>6. CASE Drain
  <2>1. onChain' = onChain /\ win'.before = win.before
    BY <1>6 DEF Drain, durable, Layout, WTypes, CallType
  <2>2. win.before = onChain
    BY <1>6 DEF Drain, Layout, Phases
  <2> QED BY <2>1, <2>2 DEF Accounted
<1>7. CASE ConfirmNothing \/ ConfirmRest
  <2>1. UNCHANGED <<onChain, reports>> /\ win.pc = "confirm"
    BY <1>7 DEF ConfirmNothing, ConfirmRest, vars, durable
  <2>2. win'.before = win.before /\ win'.done = win.done
    BY <1>7 DEF ConfirmNothing, ConfirmRest, Layout, WTypes, CallType
  <2> QED BY <2>1, <2>2, StillAccounted
<1>8. CASE ConfirmRun
  <2> DEFINE run == Chunk
             tip == Highest(run)
  <2>1. reports' = reports /\ onChain' = SetPeak(tip) /\ peak' = tip /\ win.pc = "confirm"
    BY <1>8 DEF ConfirmRun
  <2>2. tip \in Blocks /\ run = Path[tip] \ onChain
    BY <1>8, RunFacts DEF ConfirmRun
  <2>3. win'.before = win.before /\ win'.done = win.done \cup run
    BY <1>8 DEF ConfirmRun, Layout, WTypes, CallType
  <2> HIDE DEF tip, run
  <2>4. onChain' = Path[tip]
    BY <2>1, <2>2, NewPeak DEF Layout, WTypes
  <2>5. Reported' = Reported \cup run
    BY <2>1, <2>3 DEF Reported
  <2>6. onChain' \subseteq onChain \cup run
    BY <2>2, <2>4
  <2> QED BY <2>1, <2>3, <2>5, <2>6 DEF Accounted
<1>9. ASSUME NEW b \in Blocks, RestExtend(b) PROVE Accounted'
  <2>1. /\ reports' = reports /\ onChain' = SetPeak(b) /\ peak' = b /\ Retired(b) /\ Extends(b)
    BY <1>9 DEF RestExtend
  <2>2. win.pc = "rest" /\ (peak = NoBlock => b = Genesis)
    BY <2>1, NextToConfirm
  <2>3. win'.before = win.before /\ win'.done = win.done \cup {b}
    BY <1>9 DEF RestExtend, Layout, WTypes, CallType
  <2>4. onChain' = Path[b]
    BY <2>1, NewPeak DEF Layout, WTypes
  <2>5. onChain = {y \in Path[b] : Height[y] < Height[b]}
    BY <2>1, <2>2, ExtendsByOne DEF Layout, WTypes
  <2>6. ASSUME NEW y \in Path[b], y \notin onChain PROVE y = b
    <3>1. b \in Path[b] /\ Height[y] <= Height[b] /\ ~(Height[y] < Height[b])
      BY <2>5, <2>6, PathFacts
    <3>2. Height[y] \in Nat /\ Height[b] \in Nat
      BY <3>1, SameHeight
    <3>3. Height[y] = Height[b]
      BY <3>1, <3>2
    <3> QED BY <3>1, <3>3, SameHeight
  <2>7. Reported' = Reported \cup {b}
    BY <2>1, <2>3 DEF Reported
  <2> QED BY <2>1, <2>2, <2>3, <2>4, <2>6, <2>7 DEF Accounted
<1>10. ASSUME NEW b \in Blocks, RestOrphan(b) \/ RestReorg(b) PROVE Accounted'
  <2>1. UNCHANGED <<onChain, reports>> /\ win.pc = "rest"
    BY <1>10 DEF RestOrphan, RestReorg, Retired, durable
  <2>2. win'.before = win.before /\ win'.done = win.done
    BY <1>10 DEF RestOrphan, RestReorg, Layout, WTypes, CallType
  <2> QED BY <2>1, <2>2, StillAccounted
<1>11. CASE ReorgDone
  <2>1. FinishReorg /\ win' = win
    BY <1>11 DEF ReorgDone, windowVars
  <2>2. /\ job \in Blocks /\ peak \in Blocks /\ peak # NoBlock
        /\ onChain' = Path[job] /\ win.pc = "rest"
    BY <2>1, ReorgFacts
  <2>3. PICK x \in Path[job] \cap Path[peak] : Branch(job) = Path[job] \ Path[x]
    BY <2>1, ReorgFacts
  <2>4. PICK r \in ReportType : r.reapplied = Branch(job) /\ reports' = PushReport(r)
    BY <2>1, ReorgFacts
  <2>5. onChain = Path[peak] /\ Path[x] \subseteq Path[peak]
    BY <2>2, <2>3, PathFacts DEF Layout, FlagsMatchPeak, ChainOf
  <2>6. onChain' \subseteq onChain \cup Branch(job)
    BY <2>2, <2>3, <2>5
  <2> SUFFICES ASSUME Len(reports') < ReportCap PROVE onChain' \ win'.before \subseteq Reported'
    BY DEF Accounted
  <2>7. reports' = Append(reports, r) /\ Len(reports) < ReportCap
    BY <2>4, ReportJoins DEF Layout, WTypes
  <2>8. Reported \cup Branch(job) \subseteq Reported'
    BY <2>1, <2>4, <2>7, ReportAdds DEF Layout, WTypes
  <2>9. onChain \ win.before \subseteq Reported
    BY <2>2, <2>7 DEF Accounted
  <2> QED BY <2>1, <2>6, <2>8, <2>9
<1>12. CASE FailConfirm \/ ReorgFails \/ Return \/ Restart
  <2>1. win' = Off
    BY <1>12 DEF FailConfirm, ReorgFails, Return, Restart
  <2> QED BY <2>1, <1>2, OffFits
<1> QED BY <1>1, <1>3, <1>4, <1>5, <1>6, <1>7, <1>8, <1>9, <1>10, <1>11, <1>12 DEF WNext

-----------------------------------------------------------------------------
(* The results.                                                            *)

WInv == Layout /\ (~dropped => Kept) /\ Accounted

\* The engine's initial state satisfies the whole invariant.
LEMMA WindowStart == WInit => WInv
<1> SUFFICES ASSUME WInit PROVE WInv
  OBVIOUS
<1>1. /\ archive = {} /\ onChain = {} /\ peak = NoBlock /\ coins = CoinsOf({}) /\ cache = {}
      /\ pending = {} /\ reports = <<>> /\ job = NoBlock /\ win = Off
  BY DEF WInit, Init
<1>2. WTypes /\ FlagsMatchPeak
  BY <1>1, OffFits DEF WTypes, FlagsMatchPeak, ChainOf
<1>3. Phases
  BY <1>1, OffFits, TreeAssumption DEF Phases
<1>4. FromGenesis
  BY <1>1, OffFits DEF FromGenesis
<1>5. Kept
  BY <1>1, OffFits DEF Kept, Held, CoinsReplayChain, Replayable
<1>6. Accounted
  BY <1>1, OffFits DEF Accounted
<1> QED BY <1>2, <1>3, <1>4, <1>5, <1>6 DEF WInv, Layout

\* Every step keeps the invariant and, until a carried batch is dropped, is a step of the ledger.
LEMMA WindowStep == WInv /\ [WNext]_allVars => WInv' /\ (~dropped => LedgerStep)
<1> SUFFICES ASSUME WInv, [WNext]_allVars PROVE WInv' /\ (~dropped => LedgerStep)
  OBVIOUS
<1>1. Layout' /\ Accounted'
  BY LayoutStep, AccountedStep DEF WInv
<1>2. dropped => dropped'
  BY DEF WNext, allVars, windowVars, Begin, StageSkip, StageAccept, StageReject, Drain, ConfirmNothing,
         ConfirmRun, ConfirmRest, FailConfirm, RestExtend, RestOrphan, RestReorg, ReorgDone, ReorgFails,
         Return, Restart
<1>3. ~dropped => (~dropped' => Kept') /\ LedgerStep
  BY KeptStep DEF WInv
<1> QED BY <1>1, <1>2, <1>3 DEF WInv

\* For every tree and every sequence of windows, rejections, failing drains,
\* failing reorgs and crashes, the coin table is the replay of the main chain
\* and the chain's spends are valid, until a carried batch is dropped.
THEOREM WindowsCorrect == WSpec => []WindowsKeepCoins
<1>1. WInv => WindowsKeepCoins
  BY DEF WInv, Kept, Replayable, WindowsKeepCoins, ChainSpendsValid
<1> QED BY <1>1, WindowStart, WindowStep, PTL DEF WSpec

\* Every step of the window path is one adoption of a heavier valid chain, or
\* invisible to readers: many blocks confirmed in one transaction included.
THEOREM WindowsRefineLedger == WSpec => WindowsImplementLedger
<1>1. WInv /\ [WNext]_allVars => [~dropped => LedgerView!LNext \/ UNCHANGED <<peak, coins>>]_allVars
  BY WindowStep DEF LedgerStep
<1> QED BY <1>1, WindowStart, WindowStep, PTL DEF WSpec, WindowsImplementLedger

\* What follow_blocks_reporting_pre returns without an error is every block the
\* call confirmed, whatever runs, orphans and reorgs it went through.
THEOREM WindowsReport == WSpec => []WindowReportsItsBlocks
<1>1. WInv => WindowReportsItsBlocks
  BY DEF WInv, Accounted, WindowReportsItsBlocks, Returning, Returned
<1> QED BY <1>1, WindowStart, WindowStep, PTL DEF WSpec
=============================================================================
