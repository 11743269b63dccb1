----------------------------- MODULE StoreProofs -----------------------------
(***************************************************************************)
(* Proofs about the memory-mapped store, for every tree of blocks, every   *)
(* assignment of coins and every scenario.  What EngineProofs shows of     *)
(* paths and coin tables is used through an instance of it.                *)
(***************************************************************************)
EXTENDS MmapStore, SetFacts

V == INSTANCE EngineProofs WITH
  MaxFailures <- 0, MaxCrashes <- 0, CacheCapacity <- 1, WarmDepth <- 2, WalkDepth <- 2, Horizon <- 0, ReportCap <- 1,
  archive <- records, onChain <- Confirmed, coins <- rows, shallow <- {},
  cache <- {}, pending <- held, reports <- <<>>, job <- NoBlock,
  MaxWindow <- 1, MaxDrains <- 0, MaxFaults <- 0,
  win <- [pc |-> "off"], overlay <- {}, unproved <- {}, dropped <- FALSE, drains <- 0

-----------------------------------------------------------------------------
(* The operators of the instances are those of the tree.                   *)

\* The operators on sets of blocks mean the same in the three modules.
LEMMA SameSets ==
  ASSUME NEW S
  PROVE  /\ V!AddedBy(S) = AddedBy(S) /\ View!AddedBy(S) = AddedBy(S)
         /\ V!RemovedBy(S) = RemovedBy(S) /\ View!RemovedBy(S) = RemovedBy(S)
         /\ V!TopHeight(S) = TopHeight(S) /\ View!TopHeight(S) = TopHeight(S)
BY DEF V!AddedBy, AddedBy, View!AddedBy, V!RemovedBy, RemovedBy, View!RemovedBy,
       V!TopHeight, TopHeight, View!TopHeight

\* So do those on tables.
LEMMA SameTables ==
  /\ V!Absent = Absent /\ View!Absent = Absent /\ V!CoinTable = CoinTable
  /\ V!NoBlock = NoBlock /\ View!NoBlock = NoBlock
BY DEF V!Absent, View!Absent, Absent, V!CoinTable, CoinTable, V!NoBlock, View!NoBlock, NoBlock

\* Replaying a set of blocks gives the same table.
LEMMA SameCoinsOf ==
  ASSUME NEW S
  PROVE  V!CoinsOf(S) = CoinsOf(S)
BY SameSets, SameTables, Zenon DEF V!CoinsOf, CoinsOf

\* Rolling a table back gives the same table.
LEMMA SameRollback ==
  ASSUME NEW t, NEW h
  PROVE  V!Rollback(t, h) = View!Rollback(t, h)
BY SameTables, Zenon DEF V!Rollback, View!Rollback

\* Applying blocks to a table gives the same table.
LEMMA SameApply ==
  ASSUME NEW t, NEW S
  PROVE  V!Apply(t, S) = View!Apply(t, S)
BY SameSets, SameTables, Zenon DEF V!Apply, View!Apply

\* A block is valid against its ancestry in both.
LEMMA SameValid ==
  ASSUME NEW b
  PROVE  V!SpendsValid(b) <=> SpendsValid(b)
BY SameSets, Zenon DEF V!SpendsValid, SpendsValid

\* lookup_removals sees the same.
LEMMA SameLookup ==
  ASSUME NEW b, NEW over, View!LookupRemovals(b, over)
  PROVE  V!LookupRemovals(b, over)
<1>1. V!WalkEnd(b, over) = View!WalkEnd(b, over)
  BY SameSets, Zenon DEF V!WalkEnd, View!WalkEnd
<1>2. V!Folded(b, over) = View!Folded(b, over)
  BY <1>1, Zenon DEF V!Folded, View!Folded
<1>3. V!ViewForkHeight(b, over) = View!ViewForkHeight(b, over)
  BY <1>1, Zenon DEF V!ViewForkHeight, View!ViewForkHeight
<1> QED BY <1>2, <1>3, SameSets, SameTables, Zenon DEF V!LookupRemovals, View!LookupRemovals

-----------------------------------------------------------------------------
(* What is used of EngineProofs.                                           *)

Valid(S) == \A x \in S : SpendsValid(x)

\* A path holds its own end and the paths of its members, and along it a block
\* is its height.
LEMMA Paths ==
  ASSUME NEW b \in Blocks
  PROVE  /\ b \in Path[b] /\ Path[b] \subseteq Blocks /\ Height[b] \in Nat
         /\ \A x \in Path[b] : /\ Path[x] \subseteq Path[b]
                               /\ Height[x] \in Nat /\ Height[x] <= Height[b]
                               /\ \A y \in Path[b] : y \in Path[x] <=> Height[y] <= Height[x]
<1>1. /\ b \in Path[b] /\ Path[b] \subseteq Blocks
      /\ \A x \in Path[b] : Path[x] \subseteq Path[b] /\ Height[x] <= Height[b]
  BY V!PathFacts, TreeAssumption, PathAssumption, CoinAssumption, SameTables DEF V!PathFacts
<1> QED BY <1>1, PathAssumption, TreeAssumption

\* The top height of a non-empty part of a path is that of its highest block.
LEMMA Top ==
  ASSUME NEW b \in Blocks, NEW S, S \subseteq Path[b], S # {}
  PROVE  \E x \in S : TopHeight(S) = Height[x] /\ \A y \in S : Height[y] <= Height[x]
<1> DEFINE T == {Height[x] : x \in S}
<1>1. T \subseteq Nat /\ T # {} /\ Height[b] \in Nat /\ \A h \in T : h <= Height[b]
  BY Paths
<1>2. \E h \in T : \A k \in T : k <= h
  <2> HIDE DEF T
  <2> QED BY <1>1, BoundedHasTop
<1>3. PICK x \in S : \A y \in S : Height[y] <= Height[x]
  BY <1>2
<1>4. TopHeight(S) \in T /\ \A y \in S : Height[y] <= TopHeight(S)
  BY <1>3 DEF TopHeight
<1> QED BY <1>4

\* Applying the rest of a valid path to the table of a block of it.
LEMMA ApplyRest ==
  ASSUME NEW b \in Blocks, Valid(Path[b]), NEW x \in Path[b]
  PROVE  View!Apply(CoinsOf(Path[x]), Path[b] \ Path[x]) = CoinsOf(Path[b])
<1>1. V!ValidPath(b)
  BY SameValid DEF Valid, V!ValidPath
<1>2. V!Apply(V!CoinsOf(Path[x]), Path[b] \ Path[x]) = V!CoinsOf(Path[b])
  BY SMTT(30), <1>1, V!ApplyRest, TreeAssumption, PathAssumption, CoinAssumption, SameTables DEF V!ApplyRest
<1> QED BY <1>2, SameApply, SameCoinsOf

\* The first block.
LEMMA ApplyFirst ==
  View!Apply(CoinsOf({}), {Genesis}) = CoinsOf({Genesis})
<1> DEFINE start == CoinsOf({})
<1>1. Genesis \in Blocks /\ Height[Genesis] = 0 /\ Path[Genesis] = {Genesis} /\ Removes[Genesis] = {}
  BY TreeAssumption, CoinAssumption
<1>2. AddedBy({Genesis}) = Adds[Genesis] /\ RemovedBy({Genesis}) = {} /\ AddedBy({}) = {}
  BY <1>1 DEF AddedBy, RemovedBy
<1>3. ASSUME NEW c \in Adds[Genesis] PROVE TopHeight({x \in {Genesis} : c \in Adds[x]}) = 0
  <2>1. {x \in {Genesis} : c \in Adds[x]} = {Genesis}
    BY <1>3
  <2> QED BY <1>1, <2>1, Top
<1>4. \A c \in Coins : start[c] = Absent
  BY <1>2 DEF CoinsOf
<1>5. ASSUME NEW c \in Coins PROVE View!Apply(start, {Genesis})[c] = CoinsOf({Genesis})[c]
  <2> HIDE DEF start
  <2>1. CASE c \in Adds[Genesis]
    <3>1. View!Apply(start, {Genesis})[c] = [created |-> 0, spent |-> 0]
      <4>1. c \in View!AddedBy({Genesis}) /\ c \notin View!RemovedBy({Genesis})
        BY <1>2, <2>1, SameSets
      <4>2. View!TopHeight({x \in {Genesis} : c \in Adds[x]}) = 0
        BY <1>3, <2>1, SameSets
      <4> QED BY <4>1, <4>2 DEF View!Apply
    <3>2. CoinsOf({Genesis})[c] = [created |-> 0, spent |-> 0]
      BY <1>2, <1>3, <2>1 DEF CoinsOf
    <3> QED BY <3>1, <3>2
  <2>2. CASE c \notin Adds[Genesis]
    <3>1. Absent.created = -1
      BY DEF Absent
    <3>2. View!Apply(start, {Genesis})[c] = Absent
      BY <1>2, <1>4, <2>2, <3>1, SameSets, SameTables DEF View!Apply
    <3>3. CoinsOf({Genesis})[c] = Absent
      BY <1>2, <2>2 DEF CoinsOf
    <3> QED BY <3>2, <3>3
  <2> QED BY <2>1, <2>2
<1> QED BY <1>5, Zenon DEF View!Apply, CoinsOf

\* Rolling a valid path's table back to a block of it gives that block's table.
LEMMA RollPrefix ==
  ASSUME NEW p \in Blocks, Valid(Path[p]), NEW x \in Path[p]
  PROVE  View!Rollback(CoinsOf(Path[p]), Height[x]) = CoinsOf(Path[x])
<1>1. V!ValidPath(p)
  BY SameValid DEF Valid, V!ValidPath
<1>2. V!Rollback(V!CoinsOf(Path[p]), Height[x]) = V!CoinsOf(Path[x])
  BY <1>1, V!RollbackPrefix, TreeAssumption, PathAssumption, CoinAssumption, SameTables DEF V!RollbackPrefix
<1> QED BY <1>2, SameRollback, SameCoinsOf

\* A path's table, and the table of nothing, have the right type.
LEMMA CoinsType ==
  CoinsOf({}) \in CoinTable /\ \A b \in Blocks : CoinsOf(Path[b]) \in CoinTable
<1>1. CoinsOf({}) \in CoinTable
  BY DEF CoinsOf, CoinTable, AddedBy
<1>2. \A b \in Blocks : CoinsOf(Path[b]) \in CoinTable
  BY V!TableType, SameCoinsOf, TreeAssumption, PathAssumption, CoinAssumption, SameTables DEF V!TableType
<1> QED BY <1>1, <1>2

\* A block offered to the engine is valid against its ancestry, if the table is
\* right up to every confirmed ancestor.
LEMMA OfferedIsValid ==
  ASSUME NEW b \in Blocks, Offered(b), rows \in CoinTable,
         \A x \in records : Path[x] \subseteq records /\ SpendsValid(x),
         \A w \in Confirmed \cap Path[b] : View!Rollback(rows, Height[w]) = CoinsOf(Path[w])
  PROVE  SpendsValid(b) /\ Path[b] \subseteq records \cup {b}
<1>1. CASE b = Genesis
  BY <1>1, TreeAssumption, CoinAssumption DEF SpendsValid
<1>2. CASE b # Genesis
  <2>1. Parent[b] \in records /\ Path[b] = Path[Parent[b]] \cup {b} /\ View!LookupRemovals(b, held)
    BY <1>2, TreeAssumption DEF Offered
  <2>2. Path[b] \subseteq records \cup {b}
    BY <2>1
  <2>3. \A x \in Path[b] \ {b} : V!SpendsValid(x) /\ (x \in held \/ x \in records)
    BY <2>2, SameValid
  <2>4. \A w \in Confirmed \cap Path[b] :
          V!ValidPath(w) /\ V!Rollback(rows, Height[w]) = V!CoinsOf(Path[w])
    BY SameValid, SameRollback, SameCoinsOf DEF Confirmed, V!ValidPath
  <2>5. V!LookupRemovals(b, held) /\ rows \in V!CoinTable
    BY <2>1, SameLookup, SameTables
  <2>6. V!SpendsValid(b)
    BY <1>2, <2>3, <2>4, <2>5, V!LookupIsSound, TreeAssumption, PathAssumption, CoinAssumption, SameTables DEF V!LookupIsSound
  <2> QED BY <2>2, <2>6, SameValid
<1> QED BY <1>1, <1>2

-----------------------------------------------------------------------------
(* Types.                                                                  *)

Linked == {"syncTables", "meta", "clear"}
Stored == {"retire", "link"} \cup Linked
Imaged == {"syncRows"} \cup Stored
Journalled == {"sweep", "images"} \cup Imaged
Converging == {"converge", "convergeSync", "convergeIndex", "convergeTables", "convergeMeta", "convergeClear"}

Closed == \A x \in records : Path[x] \subseteq records

\* What is under way is a publish of an archived block or a convergence.
OpOK ==
  /\ op.block \in records \cup {NoBlock} /\ op.fork \in Int
  /\ op.kind = "extend" => op.fork = Height[op.block] - 1 /\ pc \in {"images"} \cup Imaged
  /\ op.kind = "reorg" => op.fork \in Heights
  /\ pc \in {"journal", "sweep"} \cup Converging => op.kind = "reorg"
  /\ pc \notin {"idle", "down"} => op.kind \in {"extend", "reorg"}
  /\ pc \in {"journal"} \cup Journalled => op.block \in records
  /\ pc \in Converging => journal # NoJournal

Shape == TypeOK /\ Closed /\ OpOK

\* Heights are naturals.
LEMMA HeightsNat ==
  /\ Heights \subseteq Nat
  /\ \A h \in Heights : h \in Int /\ h >= 0
  /\ \A b \in Blocks : Height[b] \in Heights
BY TreeAssumption DEF Heights

\* The images of blocks of one path keep the table's type.
LEMMA ApplyType ==
  ASSUME NEW b \in Blocks, NEW S, S \subseteq Path[b], NEW t \in CoinTable
  PROVE  View!Apply(t, S) \in CoinTable
<1>1. ASSUME NEW c \in Coins PROVE View!Apply(t, S)[c] \in {Absent} \cup [created : Nat, spent : Nat]
  <2> DEFINE created == IF c \in AddedBy(S) THEN TopHeight({x \in S : c \in Adds[x]})
                        ELSE t[c].created
             spent == IF c \in RemovedBy(S) THEN TopHeight({x \in S : c \in Removes[x]})
                      ELSE IF c \in AddedBy(S) THEN 0 ELSE t[c].spent
             A == {x \in S : c \in Adds[x]}
             R == {x \in S : c \in Removes[x]}
  <2>1. View!Apply(t, S)[c] = IF created = -1 THEN Absent ELSE [created |-> created, spent |-> spent]
    BY SameSets, SameTables, Zenon DEF View!Apply
  <2>2. /\ A \subseteq Path[b] /\ (c \in AddedBy(S) => A # {})
        /\ R \subseteq Path[b] /\ (c \in RemovedBy(S) => R # {})
    BY DEF AddedBy, RemovedBy
  <2>3. (A # {} => TopHeight(A) \in Nat) /\ (R # {} => TopHeight(R) \in Nat)
    <3> HIDE DEF A, R
    <3> QED BY <2>2, Top, Paths
  <2>4. t[c].created \in Nat \cup {-1} /\ t[c].spent \in Nat
    BY DEF CoinTable, Absent
  <2>5. created \in Nat \cup {-1} /\ spent \in Nat
    <3> HIDE DEF A, R
    <3>1. created = IF c \in AddedBy(S) THEN TopHeight(A) ELSE t[c].created
      BY DEF A
    <3>2. spent = IF c \in RemovedBy(S) THEN TopHeight(R) ELSE IF c \in AddedBy(S) THEN 0 ELSE t[c].spent
      BY DEF R
    <3> QED BY <2>2, <2>3, <2>4, <3>1, <3>2
  <2> HIDE DEF created, spent
  <2> QED BY <2>1, <2>5
<1>2. View!Apply(t, S) = [c \in Coins |-> View!Apply(t, S)[c]]
  BY Zenon DEF View!Apply
<1> QED BY <1>1, <1>2 DEF CoinTable

\* A row rolled back to h.
LEMMA RollRow ==
  ASSUME NEW t, NEW h, NEW c \in Coins
  PROVE  View!Rollback(t, h)[c] = IF t[c].created > h THEN Absent
                                  ELSE IF t[c].spent > h THEN [t[c] EXCEPT !.spent = 0]
                                  ELSE t[c]
BY SameTables, Zenon DEF View!Rollback

\* A rollback is a function on the coins.
LEMMA RollFun ==
  ASSUME NEW t, NEW h
  PROVE  View!Rollback(t, h) = [c \in Coins |-> View!Rollback(t, h)[c]]
BY Zenon DEF View!Rollback

\* A rollback keeps the table's type.
LEMMA RollType ==
  ASSUME NEW t \in CoinTable, NEW h \in Int
  PROVE  View!Rollback(t, h) \in CoinTable
<1>1. ASSUME NEW c \in Coins PROVE View!Rollback(t, h)[c] \in {Absent} \cup [created : Nat, spent : Nat]
  <2> DEFINE r == t[c]
  <2>1. r \in {Absent} \cup [created : Nat, spent : Nat]
    BY DEF CoinTable
  <2>2. View!Rollback(t, h)[c] = IF r.created > h THEN Absent
                                 ELSE IF r.spent > h THEN [r EXCEPT !.spent = 0] ELSE r
    BY RollRow
  <2> HIDE DEF r
  <2>3. [r EXCEPT !.spent = 0] \in {Absent} \cup [created : Nat, spent : Nat]
    BY <2>1 DEF Absent
  <2> QED BY <2>1, <2>2, <2>3
<1> QED BY <1>1, RollFun DEF CoinTable

\* After a crash every row is the old one or the new one.
LEMMA MixRows ==
  ASSUME NEW old \in CoinTable, NEW new \in CoinTable, NEW t \in Mixes(old, new)
  PROVE  t \in CoinTable /\ \A c \in Coins : t[c] = old[c] \/ t[c] = new[c]
<1>1. DOMAIN old = Coins /\ DOMAIN new = Coins
  BY DEF CoinTable
<1>2. t \in [Coins -> {old[x] : x \in Coins} \cup {new[x] : x \in Coins}]
  BY <1>1 DEF Mixes
<1>3. \A c \in Coins : t[c] \in {old[c], new[c]}
  BY <1>1 DEF Mixes
<1> QED BY <1>2, <1>3 DEF CoinTable

\* So is every slot of the height index.
LEMMA MixSlots ==
  ASSUME NEW S, NEW old \in [Heights -> S], NEW new \in [Heights -> S], NEW t \in Mixes(old, new)
  PROVE  t \in [Heights -> S] /\ \A h \in Heights : t[h] = old[h] \/ t[h] = new[h]
<1>1. DOMAIN old = Heights /\ DOMAIN new = Heights
  OBVIOUS
<1>2. t \in [Heights -> {old[x] : x \in Heights} \cup {new[x] : x \in Heights}]
  BY <1>1 DEF Mixes
<1>3. \A h \in Heights : t[h] \in {old[h], new[h]}
  BY <1>1 DEF Mixes
<1> QED BY <1>2, <1>3

\* The store is created empty.
LEMMA ShapeInit == Init => Shape
<1> SUFFICES ASSUME Init PROVE Shape
  OBVIOUS
<1>1. Idle.block = NoBlock /\ Idle.fork = -1 /\ Idle.kind = "none"
  BY DEF Idle
<1>2. TypeOK
  <2>1. rows \in CoinTable /\ rowsDisk \in CoinTable
    BY CoinsType DEF Init
  <2>2. index \in [Heights -> records \cup {NoBlock}] /\ indexDisk \in [Heights -> records \cup {NoBlock}]
    BY DEF Init
  <2>3. scenario \in Scenarios /\ scenario.failures \in Nat /\ scenario.crashes \in Nat
    BY MmapConstants DEF Init
  <2>4. failures \in 0 .. scenario.failures /\ crashes \in 0 .. scenario.crashes
    BY <2>3 DEF Init
  <2> QED BY <2>1, <2>2, <2>3, <2>4 DEF Init, TypeOK, Steps
<1>3. OpOK
  BY <1>1 DEF Init, OpOK, Imaged, Stored, Linked, Journalled, Converging
<1> QED BY <1>2, <1>3 DEF Init, Shape, Closed

\* An offered block has its parent archived, and with it its whole ancestry.
LEMMA OfferedPath ==
  ASSUME Closed, records \subseteq Blocks, NEW b \in Blocks, Offered(b)
  PROVE  \A x \in records \cup {b} : Path[x] \subseteq records \cup {b}
<1>1. b = Genesis \/ Parent[b] \in records
  BY DEF Offered
<1>2. Path[b] \subseteq records \cup {b}
  BY <1>1, TreeAssumption DEF Closed
<1> QED BY <1>2 DEF Closed

\* Opening a batch keeps the types.
LEMMA ShapeExtend ==
  ASSUME Shape, NEW b \in Blocks, BeginExtend(b)
  PROVE  Shape'
<1>1. Closed'
  BY OfferedPath DEF Shape, TypeOK, BeginExtend, Closed
<1>2. op' = [block |-> b, fork |-> Height[b] - 1, kind |-> "extend"] /\ op' # Idle /\ pc' = "images" /\ pc = "idle"
  BY DEF BeginExtend, Offered, Idle
<1>3. OpOK'
  BY <1>2, Paths DEF BeginExtend, OpOK, Imaged, Stored, Linked, Journalled, Converging
<1>4. TypeOK'
  BY <1>2 DEF BeginExtend, Shape, TypeOK, Steps, files
<1> QED BY <1>1, <1>3, <1>4 DEF Shape

\* Archiving an orphan keeps the types.
LEMMA ShapeOrphan ==
  ASSUME Shape, NEW b \in Blocks, ArchiveOrphan(b)
  PROVE  Shape'
<1>1. Closed'
  BY OfferedPath DEF Shape, TypeOK, ArchiveOrphan, Closed
<1>2. pc = "idle" /\ pc' = pc /\ op' = op /\ op = Idle
  BY DEF ArchiveOrphan, Offered, Shape, TypeOK
<1>3. OpOK'
  BY <1>2 DEF ArchiveOrphan, Shape, OpOK, Imaged, Stored, Linked, Journalled, Converging
<1>4. TypeOK'
  BY <1>2 DEF ArchiveOrphan, Shape, TypeOK, Steps, files, ClearJournal
<1> QED BY <1>1, <1>3, <1>4 DEF Shape

\* The highest confirmed ancestor is where a reorg starts.
LEMMA ForkBlock ==
  ASSUME NEW b \in Blocks, NEW S, S # {}, S \subseteq Path[b]
  PROVE  \E x \in S : x \in Path[b] /\ x \in Blocks /\ TopHeight(S) = Height[x] /\ TopHeight(S) \in Heights
BY Top, Paths, HeightsNat

\* Filling a reorg's batch keeps the types.
LEMMA ShapeReorg ==
  ASSUME Shape, NEW b \in Blocks, BeginReorg(b)
  PROVE  Shape'
<1> DEFINE shared == Path[b] \cap Confirmed
           f == TopHeight(shared)
<1>1. Closed'
  BY OfferedPath DEF Shape, TypeOK, BeginReorg, Closed
<1>2. pc = "idle" /\ op = Idle
  BY DEF BeginReorg, Offered, Shape, TypeOK
<1>3. CASE shared # {} /\ op' = [block |-> b, fork |-> f, kind |-> "reorg"] /\ pc' = "journal" /\ held' = held
  <2>1. f \in Heights
    <3>1. shared # {} /\ shared \subseteq Path[b]
      BY <1>3
    <3> HIDE DEF shared
    <3> QED BY <3>1, ForkBlock
  <2> HIDE DEF shared, f
  <2>2. f \in Int
    BY <2>1, HeightsNat
  <2>3. OpOK'
    BY <1>3, <2>1, <2>2 DEF BeginReorg, OpOK, Imaged, Stored, Linked, Journalled, Converging
  <2>4. op' # Idle
    BY <1>3 DEF Idle
  <2>5. TypeOK'
    <3>1. /\ records' = records \cup {b} /\ (journal' = journal \/ journal' = NoJournal) /\ armed' = FALSE
          /\ UNCHANGED <<files, meta, peak, last, scenario, failures, crashes, held>>
      BY <1>3 DEF BeginReorg, ClearJournal
    <3>2. (journal # NoJournal => journal.fork \in Heights /\ journal.hash \in records \cup {NoBlock})'
      BY <3>1 DEF Shape, TypeOK
    <3>3. (pc \in {"idle", "down"})' = (op = Idle)'
      BY <1>3, <2>4
    <3> QED BY <1>3, <3>1, <3>2, <3>3 DEF Shape, TypeOK, Steps, files
  <2> QED BY <1>1, <2>3, <2>5 DEF Shape
<1>4. CASE held' = held \cup {b} /\ UNCHANGED <<op, pc>>
  <2>1. OpOK'
    BY <1>2, <1>4 DEF BeginReorg, Shape, OpOK, Imaged, Stored, Linked, Journalled, Converging
  <2>2. TypeOK'
    BY <1>2, <1>4 DEF BeginReorg, Shape, TypeOK, Steps, files, ClearJournal
  <2> QED BY <1>1, <2>1, <2>2 DEF Shape
<1> QED BY <1>3, <1>4 DEF BeginReorg

\* The steps that only move on, write the journal, or sync a file keep the types.
LEMMA ShapeQuiet ==
  ASSUME Shape, WriteJournal \/ SyncRows \/ SyncTables \/ WriteMeta \/ ConvergeSync \/ ConvergeTables \/ ConvergeMeta
  PROVE  Shape'
<1>0. op' = op /\ op # Idle /\ records' = records /\ pc \notin {"idle", "down"}
  BY DEF WriteJournal, SyncRows, SyncTables, WriteMeta, ConvergeSync, ConvergeTables, ConvergeMeta, Shape, TypeOK
<1>1. CASE WriteJournal
  <2>1. journal' # NoJournal /\ journal'.fork = op.fork /\ journal'.hash = index[op.fork] /\ op.fork \in Heights
    BY <1>1, HeightsNat DEF WriteJournal, NoJournal, Shape, OpOK
  <2>2. index[op.fork] \in records \cup {NoBlock}
    BY <2>1 DEF Shape, TypeOK
  <2> QED BY <1>0, <1>1, <2>1, <2>2
       DEF WriteJournal, Shape, TypeOK, Closed, OpOK, Steps, files, Imaged, Stored, Linked, Journalled, Converging
<1>2. CASE SyncRows
  BY <1>0, <1>2 DEF SyncRows, Shape, TypeOK, Closed, OpOK, Steps, files, Imaged, Stored, Linked, Journalled, Converging
<1>3. CASE SyncTables
  BY <1>0, <1>3 DEF SyncTables, Shape, TypeOK, Closed, OpOK, Steps, files, Imaged, Stored, Linked, Journalled, Converging
<1>4. CASE WriteMeta
  BY <1>0, <1>4 DEF WriteMeta, Shape, TypeOK, Closed, OpOK, Steps, files, Imaged, Stored, Linked, Journalled, Converging
<1>5. CASE ConvergeSync
  BY <1>0, <1>5 DEF ConvergeSync, Shape, TypeOK, Closed, OpOK, Steps, files, Imaged, Stored, Linked, Journalled, Converging
<1>6. CASE ConvergeTables
  BY <1>0, <1>6 DEF ConvergeTables, Shape, TypeOK, Closed, OpOK, Steps, files, Imaged, Stored, Linked, Journalled, Converging
<1>7. CASE ConvergeMeta
  BY <1>0, <1>7 DEF ConvergeMeta, Shape, TypeOK, Closed, OpOK, Steps, files, Imaged, Stored, Linked, Journalled, Converging
<1> QED BY <1>1, <1>2, <1>3, <1>4, <1>5, <1>6, <1>7

\* The steps that write rows keep the types.
LEMMA ShapeRows ==
  ASSUME Shape, Sweep \/ PublishImages \/ ConvergeRows
  PROVE  Shape'
<1>0. op' = op /\ op # Idle /\ records' = records /\ pc \notin {"idle", "down"}
  BY DEF Sweep, PublishImages, ConvergeRows, Shape, TypeOK
<1>1. CASE Sweep
  <2>1. rows' \in CoinTable
    BY <1>1, RollType, HeightsNat DEF Sweep, Shape, TypeOK, OpOK
  <2> QED BY <1>0, <1>1, <2>1 DEF Sweep, Shape, TypeOK, Closed, OpOK, Steps, Imaged, Stored, Linked, Journalled, Converging
<1>2. CASE PublishImages
  <2>1. op.block \in Blocks /\ rows \in CoinTable
    BY <1>2 DEF PublishImages, Shape, TypeOK, OpOK, Journalled
  <2>2. BranchAbove(op.block, op.fork) \subseteq Path[op.block]
    BY DEF BranchAbove
  <2>3. rows' \in CoinTable
    BY <1>2, <2>1, <2>2, ApplyType DEF PublishImages
  <2> QED BY <1>0, <1>2, <2>3 DEF PublishImages, Shape, TypeOK, Closed, OpOK, Steps, Imaged, Stored, Linked, Journalled, Converging
<1>3. CASE ConvergeRows
  <2>1. rows' \in CoinTable
    BY <1>3, RollType, HeightsNat DEF ConvergeRows, Shape, TypeOK, OpOK, Converging
  <2> QED BY <1>0, <1>3, <2>1 DEF ConvergeRows, Shape, TypeOK, Closed, OpOK, Steps, Imaged, Stored, Linked, Journalled, Converging
<1> QED BY <1>1, <1>2, <1>3

\* So do those that write flags and heights.
LEMMA ShapeTables ==
  ASSUME Shape, Retire \/ Link \/ ConvergeIndex
  PROVE  Shape'
<1>0. op' = op /\ op # Idle /\ records' = records /\ pc \notin {"idle", "down"}
  BY DEF Retire, Link, ConvergeIndex, Shape, TypeOK
<1>1. \A S : Vacate(S) \in [Heights -> records \cup {NoBlock}]
  BY DEF Vacate, Shape, TypeOK
<1>2. CASE Retire
  <2>1. flags' \subseteq flags /\ index' \in [Heights -> records \cup {NoBlock}]
    BY <1>1, <1>2 DEF Retire
  <2> QED BY <1>0, <1>2, <2>1 DEF Retire, Shape, TypeOK, Closed, OpOK, Steps, Imaged, Stored, Linked, Journalled, Converging
<1>3. CASE Link
  <2> DEFINE linked == BranchAbove(op.block, FlagFork(op.block))
  <2>1. op.block \in records
    BY <1>3 DEF Link, Shape, OpOK, Journalled, Imaged, Stored
  <2>2. linked \subseteq records
    BY <2>1 DEF BranchAbove, Shape, Closed
  <2> HIDE DEF linked
  <2>3. flags' = flags \cup linked /\ peak' = op.block
        /\ index' = [h \in Heights |-> IF \E x \in linked : Height[x] = h
                                       THEN CHOOSE x \in linked : Height[x] = h ELSE index[h]]
    BY <1>3 DEF Link, linked
  <2>4. index' \in [Heights -> records \cup {NoBlock}]
    BY <2>2, <2>3 DEF Shape, TypeOK
  <2> QED BY <1>0, <1>3, <2>1, <2>2, <2>3, <2>4
       DEF Link, Shape, TypeOK, Closed, OpOK, Steps, Imaged, Stored, Linked, Journalled, Converging
<1>4. CASE ConvergeIndex
  <2>1. flags' \subseteq flags /\ index' \in [Heights -> records \cup {NoBlock}]
    BY <1>1, <1>4 DEF ConvergeIndex
  <2> QED BY <1>0, <1>4, <2>1 DEF ConvergeIndex, Shape, TypeOK, Closed, OpOK, Steps, Imaged, Stored, Linked, Journalled, Converging
<1> QED BY <1>2, <1>3, <1>4

\* The end of a publish or of a convergence, an error, a crash and the opening
\* keep the types.
LEMMA ShapeEnds ==
  ASSUME Shape, FinishPublish \/ FailPublish \/ Crash \/ Open \/ ConvergeClear
  PROVE  Shape'
<1>0. Idle.block = NoBlock /\ Idle.fork = -1 /\ Idle.kind = "none"
  BY DEF Idle
<1>1. CASE FinishPublish
  <2>1. journal' \in {journal, NoJournal} /\ armed' = FALSE /\ held' \subseteq held
    BY <1>1 DEF FinishPublish, ClearJournal
  <2>2. OpOK'
    BY <1>0, <1>1 DEF FinishPublish, OpOK, Imaged, Stored, Linked, Journalled, Converging
  <2>3. TypeOK'
    <3>1. pc' = "idle" /\ op' = Idle /\ UNCHANGED <<files, records, meta, peak, scenario, failures, crashes>>
      BY <1>1 DEF FinishPublish
    <3>2. (journal # NoJournal => journal.fork \in Heights /\ journal.hash \in records \cup {NoBlock})' /\ (held \subseteq records)'
      BY <1>1, <2>1, <3>1 DEF FinishPublish, Shape, TypeOK
    <3> QED BY <2>1, <3>1, <3>2 DEF Shape, TypeOK, Steps, files
  <2> QED BY <1>1, <2>2, <2>3 DEF FinishPublish, Shape, Closed
<1>2. CASE FailPublish
  <2>1. held' \subseteq records /\ failures' \in 0 .. scenario.failures
    <3>1. scenario.failures \in Nat
      BY MmapConstants DEF Shape, TypeOK
    <3>2. held' \subseteq held \cup {op.block} /\ op.block \in records
      BY <1>2 DEF FailPublish, Publishing, Shape, OpOK, Journalled, Imaged, Stored, Linked
    <3>3. failures' = failures + 1 /\ failures < scenario.failures /\ failures \in 0 .. scenario.failures
      BY <1>2 DEF FailPublish, Shape, TypeOK
    <3> QED BY <3>1, <3>2, <3>3 DEF Shape, TypeOK
  <2> QED BY <1>0, <1>2, <2>1 DEF FailPublish, Shape, TypeOK, Closed, OpOK, Steps, files, Imaged, Stored, Linked, Journalled, Converging
<1>3. CASE Crash
  <2>1. rows' \in CoinTable /\ rowsDisk' \in CoinTable
    BY <1>3, MixRows DEF Crash, Shape, TypeOK
  <2>2. index' \in [Heights -> records \cup {NoBlock}] /\ indexDisk' \in [Heights -> records \cup {NoBlock}]
    BY <1>3, MixSlots DEF Crash, Shape, TypeOK
  <2>3. flags' \subseteq records /\ flagsDisk' \subseteq records
    BY <1>3 DEF Crash, SetMixes, Shape, TypeOK
  <2>4. crashes' \in 0 .. scenario.crashes
    BY <1>3, MmapConstants DEF Crash, Shape, TypeOK
  <2>5. TypeOK'
    BY <1>3, <2>1, <2>2, <2>3, <2>4 DEF Crash, Shape, TypeOK, Steps
  <2>6. OpOK'
    BY <1>0, <1>3 DEF Crash, OpOK, Imaged, Stored, Linked, Journalled, Converging
  <2> QED BY <1>3, <2>5, <2>6 DEF Crash, Shape, Closed
<1>4. CASE Open
  <2>1. CASE journal = NoJournal
    BY <1>0, <1>4, <2>1 DEF Open, Shape, TypeOK, Closed, OpOK, Steps, files, Imaged, Stored, Linked, Journalled, Converging
  <2>2. CASE journal # NoJournal
    <3>1. op' = [block |-> journal.hash, fork |-> journal.fork, kind |-> "reorg"] /\ pc' = "converge"
      BY <1>4, <2>2 DEF Open
    <3>2. op' # Idle /\ op'.block = journal.hash /\ op'.fork = journal.fork /\ op'.kind = "reorg"
      BY <3>1 DEF Idle
    <3>3. journal.hash \in records \cup {NoBlock} /\ journal.fork \in Heights
      BY <2>2 DEF Shape, TypeOK
    <3>4. journal.fork \in Int
      BY <3>3, HeightsNat
    <3> QED BY <1>4, <2>2, <3>1, <3>2, <3>3, <3>4
         DEF Open, Shape, TypeOK, Closed, OpOK, Steps, files, Imaged, Stored, Linked, Journalled, Converging
  <2> QED BY <2>1, <2>2
<1>5. CASE ConvergeClear
  <2>1. journal' \in {journal, NoJournal} /\ armed' = FALSE
    BY <1>5 DEF ConvergeClear, ClearJournal
  <2>2. OpOK'
    BY <1>0, <1>5 DEF ConvergeClear, OpOK, Imaged, Stored, Linked, Journalled, Converging
  <2>3. TypeOK'
    <3>1. pc' = "idle" /\ op' = Idle /\ UNCHANGED <<files, records, meta, peak, scenario, failures, crashes>>
      BY <1>5 DEF ConvergeClear
    <3>2. (journal # NoJournal => journal.fork \in Heights /\ journal.hash \in records \cup {NoBlock})' /\ (held \subseteq records)'
      BY <1>5, <2>1, <3>1 DEF ConvergeClear, Shape, TypeOK
    <3> QED BY <2>1, <3>1, <3>2 DEF Shape, TypeOK, Steps, files
  <2> QED BY <1>5, <2>2, <2>3 DEF ConvergeClear, Shape, Closed
<1> QED BY <1>1, <1>2, <1>3, <1>4, <1>5

-----------------------------------------------------------------------------
(* The inductive invariant of an undisturbed store.                        *)

\* An index, as far as it is filled, names blocks of S, each at its height; up
\* to the height f only, for Below.
Named(ix, S) == \A h \in Heights : ix[h] # NoBlock => ix[h] \in S /\ Height[ix[h]] = h
Below(ix, f, S) == \A h \in Heights : h <= f /\ ix[h] # NoBlock => ix[h] \in S /\ Height[ix[h]] = h

\* Nothing is under way: the rows, mapped and synced, are those of p's chain.
Rest(p) ==
  /\ journal = NoJournal /\ meta = p
  /\ rows = CoinsOf(ChainOf(p)) /\ rowsDisk = rows
  /\ Named(index, ChainOf(p)) /\ Named(indexDisk, ChainOf(p))

\* The journal names x, and rolling back to it gives x's table whatever part of
\* the reorg has reached the files.
Torn(x) ==
  /\ x \in records /\ journal = [fork |-> Height[x], hash |-> x]
  /\ View!Rollback(rows, Height[x]) = CoinsOf(Path[x])
  /\ View!Rollback(rowsDisk, Height[x]) = CoinsOf(Path[x])
  /\ Below(index, Height[x], Path[x]) /\ Below(indexDisk, Height[x], Path[x])

\* How far a publish has come, by the next step.
Written(b) ==
  /\ pc \in Imaged => rows = CoinsOf(Path[b])
  /\ pc \in Stored => rowsDisk = rows
  /\ pc \in Linked => peak = b
  /\ pc \in {"meta", "clear"} => Named(indexDisk, Path[b])
  /\ pc = "clear" => meta = b

Extending(b) ==
  /\ journal = NoJournal /\ Written(b) /\ Named(index, Path[b])
  /\ pc \notin Linked => Path[b] = ChainOf(peak) \cup {b} /\ b \notin ChainOf(peak)
  /\ pc = "images" => rows = CoinsOf(ChainOf(peak))

\* A reorg from x to b: until the tables are retired the store is still the old
\* peak's, and none of b's flags is another branch's.
Reorganising(x, b) ==
  /\ x \in Path[b] /\ op.fork = Height[x] /\ Written(b)
  /\ pc \notin Linked \cup {"link"} =>
       /\ peak # NoBlock /\ x \in Path[peak] /\ Named(index, Path[peak])
       /\ Path[b] \cap flags \subseteq Path[peak]
  /\ pc \in Linked \cup {"link"} => Named(index, Path[b])
  /\ pc = "journal" => Rest(peak) /\ index[Height[x]] = x
  /\ pc # "journal" => Torn(x) /\ armed
  /\ pc = "sweep" => rows = CoinsOf(Path[peak])
  /\ pc = "images" => rows = CoinsOf(Path[x])

ConvergingTo(x) ==
  /\ Torn(x) /\ op.block = x /\ op.fork = Height[x]
  /\ pc # "converge" => rows = CoinsOf(Path[x])
  /\ pc \notin {"converge", "convergeSync"} => rowsDisk = rows
  /\ pc \in {"convergeTables", "convergeMeta", "convergeClear"} => peak = x /\ Named(index, Path[x])
  /\ pc \in {"convergeMeta", "convergeClear"} => Named(indexDisk, Path[x])
  /\ pc = "convergeClear" => meta = x /\ armed

Sound ==
  /\ Valid(records)
  /\ pc = "idle" => Rest(peak)
  /\ pc = "down" => Rest(meta) \/ \E x \in Blocks : Torn(x)
  /\ op.kind = "extend" => Extending(op.block)
  /\ op.kind = "reorg" /\ pc \notin Converging => \E x \in Blocks : Reorganising(x, op.block)
  /\ pc \in Converging => \E x \in Blocks : ConvergingTo(x)

StoreInv == Shape /\ (Undisturbed => Sound)

\* At rest the table is right up to every confirmed block.
LEMMA RestLookup ==
  ASSUME Shape, Valid(records), Rest(peak)
  PROVE  \A w \in Confirmed : w \in ChainOf(peak) /\ View!Rollback(rows, Height[w]) = CoinsOf(Path[w])
<1> SUFFICES ASSUME NEW w \in Confirmed
             PROVE  w \in ChainOf(peak) /\ View!Rollback(rows, Height[w]) = CoinsOf(Path[w])
  OBVIOUS
<1>1. w \in records /\ w \in Blocks /\ index[Height[w]] = w /\ w # NoBlock /\ Height[w] \in Heights
  BY TreeAssumption, HeightsNat DEF Confirmed, Shape, TypeOK
<1>2. w \in ChainOf(peak)
  BY <1>1 DEF Rest, Named
<1>3. peak \in records /\ peak \in Blocks /\ w \in Path[peak] /\ rows = CoinsOf(Path[peak])
  BY <1>2 DEF ChainOf, Rest, Shape, TypeOK
<1>4. Valid(Path[peak])
  BY <1>3 DEF Shape, Closed, Valid
<1> QED BY <1>2, <1>3, <1>4, RollPrefix

\* A block that is offered at rest is valid.
LEMMA OfferedAtRest ==
  ASSUME Shape, Valid(records), Rest(peak), NEW b \in Blocks, Offered(b)
  PROVE  Valid(records \cup {b})
<1>1. \A x \in records : Path[x] \subseteq records /\ SpendsValid(x)
  BY DEF Shape, Closed, Valid
<1>2. SpendsValid(b)
  BY <1>1, RestLookup, OfferedIsValid DEF Shape, TypeOK
<1> QED BY <1>2 DEF Valid

\* The image of a child of the peak completes the child's table.
LEMMA ExtendTable ==
  ASSUME NEW b \in Blocks, Valid(Path[b]), peak \in Blocks \cup {NoBlock},
         Path[b] = ChainOf(peak) \cup {b}, b \notin ChainOf(peak)
  PROVE  View!Apply(CoinsOf(ChainOf(peak)), BranchAbove(b, Height[b] - 1)) = CoinsOf(Path[b])
<1>1. BranchAbove(b, Height[b] - 1) = {b}
  <2>1. \A x \in Path[b] : Height[x] \in Nat /\ Height[x] <= Height[b] /\ (Height[x] = Height[b] => x = b)
    BY Paths, PathAssumption
  <2> QED BY <2>1, Paths DEF BranchAbove
<1>2. CASE peak = NoBlock
  <2>1. ChainOf(peak) = {} /\ Path[b] = {b} /\ b = Genesis
    BY <1>2, Paths, PathAssumption DEF ChainOf
  <2> QED BY <1>1, <2>1, ApplyFirst
<1>3. CASE peak # NoBlock
  <2>1. ChainOf(peak) = Path[peak] /\ peak \in Path[b] /\ Path[b] \ Path[peak] = {b}
    BY <1>3, Paths DEF ChainOf
  <2>2. View!Apply(CoinsOf(Path[peak]), Path[b] \ Path[peak]) = CoinsOf(Path[b])
    BY <2>1, ApplyRest
  <2> QED BY <1>1, <2>1, <2>2
<1> QED BY <1>2, <1>3

\* The empty store is at rest.
LEMMA SoundInit == Init => Sound
<1> SUFFICES ASSUME Init PROVE Sound
  OBVIOUS
<1>1. Idle.kind = "none"
  BY DEF Idle
<1>2. Rest(peak)
  BY DEF Init, Rest, Named, ChainOf
<1> QED BY <1>1, <1>2 DEF Init, Sound, Valid, Converging

\* What a publish of kind k needs shown after one of its steps.
LEMMA SoundPublish ==
  ASSUME Sound, Shape', op' = op, records' = records, pc' \in Publishing,
         op.kind = "extend" => Extending(op.block)',
         op.kind = "reorg" => \E x \in Blocks : Reorganising(x, op.block)'
  PROVE  Sound'
<1>1. Valid(records)'
  BY DEF Sound, Valid
<1> QED BY <1>1 DEF Sound, Publishing, Converging

\* An extension begins at rest.
LEMMA SoundExtend ==
  ASSUME Shape, Sound, Shape', NEW b \in Blocks, BeginExtend(b)
  PROVE  Sound'
<1>1. pc = "idle" /\ Rest(peak) /\ Valid(records) /\ Offered(b)
  BY DEF BeginExtend, Offered, Sound
<1>2. Valid(records)'
  BY <1>1, OfferedAtRest DEF BeginExtend, Valid
<1>3. op' = [block |-> b, fork |-> Height[b] - 1, kind |-> "extend"] /\ pc' = "images" /\ UNCHANGED <<files, meta, journal, peak>>
  BY DEF BeginExtend
<1>4. Path[b] = ChainOf(peak) \cup {b} /\ b \notin ChainOf(peak)
  <2>1. CASE peak = NoBlock
    BY <1>1, <2>1, TreeAssumption DEF Offered, ChainOf
  <2>2. CASE peak # NoBlock
    <3>1. Parent[b] = peak /\ b # Genesis /\ peak \in Blocks
      BY <1>1, <2>2 DEF BeginExtend, Offered, Shape, TypeOK
    <3>2. Path[b] = Path[peak] \cup {b} /\ Height[b] = Height[peak] + 1
      BY <3>1, TreeAssumption
    <3>3. b \notin Path[peak]
      BY <3>1, <3>2, Paths
    <3> QED BY <2>2, <3>2, <3>3 DEF ChainOf
  <2> QED BY <2>1, <2>2
<1>5. Extending(b)'
  BY <1>1, <1>3, <1>4 DEF Extending, Written, Rest, Named, files, Imaged, Stored, Linked, ChainOf
<1> QED BY <1>2, <1>3, <1>5 DEF Sound, Converging

\* An orphan leaves the store at rest.
LEMMA SoundOrphan ==
  ASSUME Shape, Sound, Shape', NEW b \in Blocks, ArchiveOrphan(b)
  PROVE  Sound'
<1>1. pc = "idle" /\ Rest(peak) /\ Valid(records) /\ Offered(b) /\ op = Idle
  BY DEF ArchiveOrphan, Offered, Sound, Shape, TypeOK
<1>2. Valid(records)'
  BY <1>1, OfferedAtRest DEF ArchiveOrphan, Valid
<1>3. pc' = "idle" /\ op' = op /\ peak' = peak /\ Rest(peak)'
  BY <1>1 DEF ArchiveOrphan, ClearJournal, Rest, Named, files, ChainOf
<1>4. op.kind = "none"
  BY <1>1 DEF Idle
<1> QED BY <1>1, <1>2, <1>3, <1>4 DEF Sound, Converging

\* A reorg begins at rest, at the highest confirmed ancestor, which is on the
\* peak's chain.
LEMMA SoundReorg ==
  ASSUME Shape, Sound, Shape', ~stale', NEW b \in Blocks, BeginReorg(b)
  PROVE  Sound'
<1> DEFINE shared == Path[b] \cap Confirmed
<1>1. pc = "idle" /\ Rest(peak) /\ Valid(records) /\ Offered(b) /\ op = Idle /\ peak # NoBlock /\ peak \in Blocks
  BY DEF BeginReorg, Offered, Sound, Shape, TypeOK
<1>2. Valid(records)'
  BY <1>1, OfferedAtRest DEF BeginReorg, Valid
<1>3. Rest(peak)' /\ UNCHANGED <<peak, flags, index>>
  BY <1>1 DEF BeginReorg, ClearJournal, Rest, Named, files, ChainOf
<1>4. CASE shared # {} /\ op' = [block |-> b, fork |-> TopHeight(shared), kind |-> "reorg"] /\ pc' = "journal"
  <2>1. PICK x \in shared : TopHeight(shared) = Height[x]
    <3>1. shared # {} /\ shared \subseteq Path[b]
      BY <1>4
    <3> HIDE DEF shared
    <3> QED BY <3>1, Top
  <2>2. x \in Path[b] /\ x \in Blocks /\ x \in Path[peak] /\ index[Height[x]] = x
    BY <1>1, Paths, RestLookup DEF ChainOf, Confirmed
  <2>3. Path[b] \cap flags \subseteq Path[peak]
    BY <1>1 DEF BeginReorg, ChainOf
  <2> HIDE DEF shared
  <2>4. op'.block = b /\ op'.fork = Height[x] /\ op'.kind = "reorg"
    BY <1>4, <2>1
  <2>5. Reorganising(x, b)'
    BY <1>1, <1>3, <1>4, <2>2, <2>3, <2>4
       DEF Reorganising, Written, Rest, ChainOf, Imaged, Stored, Linked
  <2> QED BY <1>2, <1>4, <2>2, <2>4, <2>5 DEF Sound, Converging
<1>5. CASE UNCHANGED <<op, pc>>
  <2>1. op.kind = "none"
    BY <1>1 DEF Idle
  <2> QED BY <1>1, <1>2, <1>3, <1>5, <2>1 DEF Sound, Converging
<1> QED BY <1>4, <1>5 DEF BeginReorg

\* An index of p's chain, up to the height of x on it, is one of x's chain.
LEMMA NamedBelow ==
  ASSUME NEW p \in Blocks, NEW x \in Path[p], NEW ix, Named(ix, Path[p])
  PROVE  Below(ix, Height[x], Path[x])
<1>1. \A y \in Path[p] : y \in Path[x] <=> Height[y] <= Height[x]
  BY Paths
<1> QED BY <1>1 DEF Named, Below

\* set_peak keeps the index within the path of the new peak: linking adds
\* blocks of that path at their heights.
LEMMA LinkNames ==
  ASSUME Link, Named(index, Path[op.block])
  PROVE  Named(index', Path[op.block])
<1> DEFINE linked == BranchAbove(op.block, FlagFork(op.block))
<1>1. linked \subseteq Path[op.block]
  BY DEF BranchAbove
<1>2. index' = [h \in Heights |-> IF \E x \in linked : Height[x] = h
                                  THEN CHOOSE x \in linked : Height[x] = h ELSE index[h]]
  BY DEF Link
<1> HIDE DEF linked
<1>3. ASSUME NEW h \in Heights, index'[h] # NoBlock
      PROVE  index'[h] \in Path[op.block] /\ Height[index'[h]] = h
  <2>1. CASE \E x \in linked : Height[x] = h
    <3>1. index'[h] = CHOOSE x \in linked : Height[x] = h
      BY <1>2, <2>1
    <3> QED BY <1>1, <2>1, <3>1, Zenon
  <2>2. CASE ~\E x \in linked : Height[x] = h
    BY <1>2, <1>3, <2>2 DEF Named
  <2> QED BY <2>1, <2>2
<1> QED BY <1>3 DEF Named

\* The steps of an extension.
LEMMA ExtendStep ==
  ASSUME Shape, Sound, Shape', op.kind = "extend",
         PublishImages \/ SyncRows \/ Retire \/ Link \/ SyncTables \/ WriteMeta
  PROVE  Sound'
<1> DEFINE b == op.block
<1>1. Extending(b) /\ Valid(records) /\ op' = op /\ records' = records /\ pc' \in Publishing /\ journal' = journal
  BY DEF Sound, PublishImages, SyncRows, Retire, Link, SyncTables, WriteMeta, Publishing
<1>2. b \in records /\ b \in Blocks /\ Valid(Path[b]) /\ op.fork = Height[b] - 1
  BY <1>1 DEF Shape, TypeOK, OpOK, Closed, Valid, Journalled, PublishImages, SyncRows, Retire, Link, SyncTables, WriteMeta, Imaged, Stored, Linked
<1>3. CASE PublishImages
  <2>1. pc = "images" /\ pc' = "syncRows" /\ UNCHANGED <<index, peak>> /\ rows' = View!Apply(rows, BranchAbove(b, Height[b] - 1))
    BY <1>2, <1>3 DEF PublishImages
  <2>2. rows' = CoinsOf(Path[b])
    BY <1>1, <1>2, <2>1, ExtendTable DEF Extending, Linked, Shape, TypeOK
  <2>3. Extending(b)'
    BY <1>1, <2>1, <2>2 DEF Extending, Written, Named, ChainOf, Imaged, Stored, Linked
  <2> QED BY <1>1, <2>3, SoundPublish
<1>4. CASE SyncRows
  <2>1. Extending(b)'
    BY <1>1, <1>4 DEF SyncRows, Extending, Written, Named, ChainOf, Imaged, Stored, Linked
  <2> QED BY <1>1, <2>1, SoundPublish
<1>5. CASE Retire
  <2>1. Named(index', Path[b])
    BY <1>1, <1>5 DEF Retire, Vacate, Extending, Named
  <2>2. Extending(b)'
    BY <1>1, <1>5, <2>1 DEF Retire, Extending, Written, Named, ChainOf, Imaged, Stored, Linked
  <2> QED BY <1>1, <2>2, SoundPublish
<1>6. CASE Link
  <2>1. Named(index', Path[b])
    BY <1>1, <1>6, LinkNames DEF Extending
  <2>2. Extending(b)'
    BY <1>1, <1>6, <2>1 DEF Link, Extending, Written, Named, Imaged, Stored, Linked
  <2> QED BY <1>1, <2>2, SoundPublish
<1>7. CASE SyncTables
  <2>1. Extending(b)'
    BY <1>1, <1>7 DEF SyncTables, Extending, Written, Named, ChainOf, Imaged, Stored, Linked
  <2> QED BY <1>1, <2>1, SoundPublish
<1>8. CASE WriteMeta
  <2>1. Extending(b)'
    BY <1>1, <1>8 DEF WriteMeta, Extending, Written, Named, ChainOf, Imaged, Stored, Linked, files
  <2> QED BY <1>1, <2>1, SoundPublish
<1> QED BY <1>3, <1>4, <1>5, <1>6, <1>7, <1>8

\* set_peak retires what is not the new peak's: no flag of the new branch lies
\* above the block where the two chains part.
LEMMA RetireNames ==
  ASSUME Shape, Retire, NEW b, b = op.block, b \in Blocks, peak \in Blocks,
         Named(index, Path[peak]), Path[b] \cap flags \subseteq Path[peak]
  PROVE  Named(index', Path[b])
<1> DEFINE flagged == Path[b] \cap flags
           f == FlagFork(b)
           gone == {h \in Heights : h > f /\ h <= PeakHeight}
<1>1. index' = [h \in Heights |-> IF h \in gone THEN NoBlock ELSE index[h]]
  BY DEF Retire, Vacate
<1>2. PeakHeight = Height[peak] /\ Height[peak] \in Nat
  BY TreeAssumption DEF PeakHeight
<1>3. ASSUME NEW h \in Heights, index'[h] # NoBlock
      PROVE  index'[h] \in Path[b] /\ Height[index'[h]] = h
  <2>1. index'[h] = index[h] /\ h \notin gone /\ index[h] # NoBlock
    BY <1>1, <1>3
  <2>2. index[h] \in Path[peak] /\ Height[index[h]] = h /\ h \in Nat /\ h <= Height[peak]
    BY <2>1, Paths, HeightsNat DEF Named
  <2>3. ~(h > f)
    BY <1>2, <2>1, <2>2
  <2>4. flagged # {}
    <3>1. CASE flagged = {}
      <4>1. f = -1
        BY <3>1 DEF FlagFork
      <4> QED BY <2>2, <2>3, <4>1
    <3> QED BY <3>1
  <2>5. PICK y \in flagged : f = Height[y]
    <3>1. f = TopHeight(flagged) /\ flagged \subseteq Path[b]
      BY <2>4 DEF FlagFork
    <3> HIDE DEF flagged, f
    <3> QED BY <2>4, <3>1, Top
  <2>6. y \in Path[b] /\ y \in Path[peak] /\ Height[y] \in Nat
    BY <2>5, Paths
  <2>7. h <= Height[y]
    BY <2>2, <2>3, <2>5, <2>6
  <2>8. index[h] \in Path[y]
    BY <2>2, <2>6, <2>7, Paths
  <2> QED BY <2>1, <2>2, <2>6, <2>8, Paths
<1> QED BY <1>3 DEF Named

\* The steps of a reorg.
LEMMA ReorgStep ==
  ASSUME Shape, Sound, Shape', op.kind = "reorg", pc \notin Converging,
         WriteJournal \/ Sweep \/ PublishImages \/ SyncRows \/ Retire \/ Link \/ SyncTables \/ WriteMeta
  PROVE  Sound'
<1> DEFINE b == op.block
<1>1. Valid(records) /\ op' = op /\ records' = records /\ pc' \in Publishing
  BY DEF Sound, WriteJournal, Sweep, PublishImages, SyncRows, Retire, Link, SyncTables, WriteMeta, Publishing
<1>2. b \in records /\ b \in Blocks /\ Path[b] \subseteq records /\ Valid(Path[b])
  BY <1>1 DEF Shape, TypeOK, OpOK, Closed, Valid, Journalled, Imaged, Stored, Linked,
       WriteJournal, Sweep, PublishImages, SyncRows, Retire, Link, SyncTables, WriteMeta
<1>3. PICK x \in Blocks : Reorganising(x, b)
  BY DEF Sound
<1>4. x \in Path[b] /\ x \in records /\ op.fork = Height[x] /\ Valid(Path[x])
  BY <1>2, <1>3, Paths DEF Reorganising, Valid
<1>5. View!Rollback(CoinsOf(Path[x]), Height[x]) = CoinsOf(Path[x])
      /\ View!Rollback(CoinsOf(Path[b]), Height[x]) = CoinsOf(Path[x])
  BY <1>2, <1>4, Paths, RollPrefix
<1>6. ASSUME pc \notin Linked \cup {"link"}
      PROVE  /\ peak \in Blocks /\ ChainOf(peak) = Path[peak] /\ x \in Path[peak]
             /\ View!Rollback(CoinsOf(Path[peak]), Height[x]) = CoinsOf(Path[x])
  <2>1. peak \in records /\ peak # NoBlock /\ x \in Path[peak]
    BY <1>3, <1>6 DEF Reorganising, Shape, TypeOK
  <2>2. peak \in Blocks /\ Valid(Path[peak])
    BY <1>1, <2>1 DEF Shape, TypeOK, Closed, Valid
  <2> QED BY <2>1, <2>2, RollPrefix DEF ChainOf
<1> SUFFICES Reorganising(x, b)'
  BY <1>1, SoundPublish
<1>7. CASE WriteJournal
  <2>1. pc = "journal" /\ pc' = "sweep" /\ armed' /\ UNCHANGED <<files, peak, meta>> /\ journal' = [fork |-> Height[x], hash |-> x]
    BY <1>3, <1>4, <1>7 DEF WriteJournal, Reorganising
  <2>2. Rest(peak) /\ peak \in Blocks /\ ChainOf(peak) = Path[peak] /\ x \in Path[peak]
        /\ View!Rollback(CoinsOf(Path[peak]), Height[x]) = CoinsOf(Path[x])
    BY <1>3, <1>6, <2>1 DEF Reorganising, Linked
  <2>3. Below(index, Height[x], Path[x]) /\ Below(indexDisk, Height[x], Path[x])
    BY <2>2, NamedBelow DEF Rest
  <2>4. Torn(x)'
    BY <1>1, <1>4, <2>1, <2>2, <2>3 DEF Torn, Rest, Below, files
  <2> QED BY <1>3, <1>1, <2>1, <2>2, <2>4 DEF Reorganising, Written, Rest, Named, files, Imaged, Stored, Linked
<1>8. CASE Sweep
  <2>1. pc = "sweep" /\ pc' = "images" /\ UNCHANGED <<rowsDisk, flags, index, indexDisk, peak, meta, journal, armed>>
        /\ rows' = View!Rollback(rows, Height[x])
    BY <1>4, <1>8 DEF Sweep
  <2>2. rows' = CoinsOf(Path[x])
    BY <1>3, <1>6, <2>1 DEF Reorganising, Linked
  <2>3. Torn(x)'
    BY <1>1, <1>3, <1>5, <2>1, <2>2 DEF Reorganising, Torn, Below
  <2> QED BY <1>3, <1>1, <2>1, <2>2, <2>3 DEF Reorganising, Written, Named, Imaged, Stored, Linked
<1>9. CASE PublishImages
  <2>1. pc = "images" /\ pc' = "syncRows" /\ UNCHANGED <<rowsDisk, flags, index, indexDisk, peak, meta, journal, armed>>
        /\ rows' = View!Apply(CoinsOf(Path[x]), BranchAbove(b, Height[x]))
    BY <1>3, <1>4, <1>9 DEF PublishImages, Reorganising
  <2>2. BranchAbove(b, Height[x]) = Path[b] \ Path[x]
    BY <1>2, <1>4, Paths DEF BranchAbove
  <2>3. rows' = CoinsOf(Path[b])
    BY <1>2, <1>4, <2>1, <2>2, ApplyRest
  <2>4. Torn(x)'
    BY <1>1, <1>3, <1>5, <2>1, <2>3 DEF Reorganising, Torn, Below
  <2> QED BY <1>3, <1>1, <2>1, <2>3, <2>4 DEF Reorganising, Written, Named, Imaged, Stored, Linked
<1>10. CASE SyncRows
  <2>1. pc = "syncRows" /\ pc' = "retire" /\ UNCHANGED <<rows, flags, index, indexDisk, peak, meta, journal, armed>> /\ rowsDisk' = rows
    BY <1>10 DEF SyncRows
  <2>2. Torn(x)'
    BY <1>1, <1>3, <2>1 DEF Reorganising, Torn, Below
  <2> QED BY <1>3, <1>1, <2>1, <2>2 DEF Reorganising, Written, Named, Imaged, Stored, Linked
<1>11. CASE Retire
  <2>1. pc = "retire" /\ pc' = "link" /\ UNCHANGED <<rows, rowsDisk, indexDisk, peak, meta, journal, armed>>
    BY <1>11 DEF Retire
  <2>2. Named(index', Path[b])
    BY <1>2, <1>3, <1>6, <1>11, <2>1, RetireNames DEF Reorganising, Linked
  <2>3. Below(index', Height[x], Path[x])
    BY <1>2, <1>4, <2>2, NamedBelow
  <2>4. Torn(x)'
    BY <1>1, <1>3, <2>1, <2>3 DEF Reorganising, Torn, Below
  <2> QED BY <1>3, <1>1, <2>1, <2>2, <2>4 DEF Reorganising, Written, Named, Imaged, Stored, Linked
<1>12. CASE Link
  <2>1. pc = "link" /\ pc' = "syncTables" /\ UNCHANGED <<rows, rowsDisk, indexDisk, meta, journal, armed>> /\ peak' = b
    BY <1>12 DEF Link
  <2>2. Named(index', Path[b])
    BY <1>3, <1>12, <2>1, LinkNames DEF Reorganising
  <2>3. Below(index', Height[x], Path[x])
    BY <1>2, <1>4, <2>2, NamedBelow
  <2>4. Torn(x)'
    BY <1>1, <1>3, <2>1, <2>3 DEF Reorganising, Torn, Below
  <2> QED BY <1>3, <1>1, <2>1, <2>2, <2>4 DEF Reorganising, Written, Named, Imaged, Stored, Linked
<1>13. CASE SyncTables
  <2>1. pc = "syncTables" /\ pc' = "meta" /\ UNCHANGED <<rows, rowsDisk, flags, index, peak, meta, journal, armed>> /\ indexDisk' = index
    BY <1>13 DEF SyncTables
  <2>2. Torn(x)'
    BY <1>1, <1>3, <2>1 DEF Reorganising, Torn, Below
  <2> QED BY <1>3, <1>1, <2>1, <2>2 DEF Reorganising, Written, Named, Imaged, Stored, Linked
<1>14. CASE WriteMeta
  <2>1. pc = "meta" /\ pc' = "clear" /\ UNCHANGED <<rows, rowsDisk, flags, index, indexDisk, peak, journal, armed>> /\ meta' = peak
    BY <1>14 DEF WriteMeta, files
  <2>2. Torn(x)'
    BY <1>1, <1>3, <2>1 DEF Reorganising, Torn, Below
  <2> QED BY <1>3, <1>1, <2>1, <2>2 DEF Reorganising, Written, Named, Imaged, Stored, Linked
<1> QED BY <1>7, <1>8, <1>9, <1>10, <1>11, <1>12, <1>13, <1>14

\* A publish that ends leaves the store at rest.
LEMMA SoundFinish ==
  ASSUME Shape, Sound, FinishPublish
  PROVE  Sound'
<1> DEFINE b == op.block
<1>1. pc = "clear" /\ pc' = "idle" /\ op' = Idle /\ UNCHANGED <<files, records, meta, peak>>
  BY DEF FinishPublish
<1>2. b \in Blocks /\ ChainOf(b) = Path[b]
  BY <1>1, TreeAssumption DEF Shape, TypeOK, OpOK, Journalled, Imaged, Stored, Linked, ChainOf
<1>3. Idle.kind = "none"
  BY DEF Idle
<1>4. Written(b) /\ Named(index, Path[b]) /\ (journal = NoJournal \/ armed)
  <2>1. CASE op.kind = "extend"
    BY <2>1 DEF Sound, Extending
  <2>2. CASE op.kind = "reorg"
    BY <1>1, <2>2 DEF Sound, Reorganising, Converging, Linked
  <2> QED BY <1>1, <2>1, <2>2 DEF Shape, OpOK
<1>5. journal' = NoJournal
  BY <1>4 DEF FinishPublish, ClearJournal
<1>6. Rest(peak)'
  BY <1>1, <1>2, <1>4, <1>5 DEF Written, Rest, Named, files, Imaged, Stored, Linked, ChainOf
<1> QED BY <1>1, <1>3, <1>6 DEF Sound, Valid, Converging

\* What a row rolls back to depends on the row alone.
LEMMA SameRow ==
  ASSUME NEW t, NEW u, NEW h, NEW c \in Coins, t[c] = u[c]
  PROVE  View!Rollback(t, h)[c] = View!Rollback(u, h)[c]
<1> DEFINE row(r) == IF r.created > h THEN Absent
                     ELSE IF r.spent > h THEN [r EXCEPT !.spent = 0] ELSE r
<1>1. View!Rollback(t, h)[c] = row(t[c])
  BY RollRow
<1>2. View!Rollback(u, h)[c] = row(u[c])
  BY RollRow
<1> HIDE DEF row
<1> QED BY <1>1, <1>2

\* Every row of a torn table rolls back to the same row.
LEMMA MixRollback ==
  ASSUME NEW old \in CoinTable, NEW new \in CoinTable, NEW t \in Mixes(old, new), NEW h, NEW w,
         View!Rollback(old, h) = w, View!Rollback(new, h) = w
  PROVE  View!Rollback(t, h) = w
<1>1. ASSUME NEW c \in Coins PROVE View!Rollback(t, h)[c] = w[c]
  <2>1. t[c] = old[c] \/ t[c] = new[c]
    BY MixRows
  <2>2. CASE t[c] = old[c]
    <3>1. View!Rollback(t, h)[c] = View!Rollback(old, h)[c]
      BY <2>2, SameRow
    <3> QED BY <3>1
  <2>3. CASE t[c] = new[c]
    <3>1. View!Rollback(t, h)[c] = View!Rollback(new, h)[c]
      BY <2>3, SameRow
    <3> QED BY <3>1
  <2> QED BY <2>1, <2>2, <2>3
<1>2. w = [c \in Coins |-> w[c]]
  BY RollFun
<1>3. View!Rollback(t, h) = [c \in Coins |-> View!Rollback(t, h)[c]]
  BY RollFun
<1> QED BY <1>1, <1>2, <1>3

\* A torn index is within what its two versions are within.
LEMMA MixBelow ==
  ASSUME NEW R, NEW old \in [Heights -> R], NEW new \in [Heights -> R], NEW t \in Mixes(old, new), NEW S
  PROVE  /\ Named(old, S) /\ Named(new, S) => Named(t, S)
         /\ \A f : Below(old, f, S) /\ Below(new, f, S) => Below(t, f, S)
<1>1. DOMAIN old = Heights
  OBVIOUS
<1>2. \A h \in Heights : t[h] = old[h] \/ t[h] = new[h]
  BY <1>1 DEF Mixes
<1> QED BY <1>2 DEF Named, Below

\* A crash at rest, in a reorg or in a convergence can be recovered from.
LEMMA SoundCrash ==
  ASSUME Shape, Sound, Shape', "extend" \notin scenario.tears, Crash
  PROVE  Sound'
<1>1. /\ rows \in CoinTable /\ rowsDisk \in CoinTable
      /\ index \in [Heights -> records \cup {NoBlock}] /\ indexDisk \in [Heights -> records \cup {NoBlock}]
  BY DEF Shape, TypeOK
<1>2. /\ pc' = "down" /\ op' = Idle /\ UNCHANGED <<records, meta, journal>>
      /\ rows' \in Mixes(rowsDisk, rows) /\ rowsDisk' = rows'
      /\ index' \in Mixes(indexDisk, index) /\ indexDisk' = index'
  BY DEF Crash
<1>3. Idle.kind = "none"
  BY DEF Idle
<1>4. ASSUME NEW p, Rest(p) PROVE Rest(p)'
  <2>1. rows' = rows
    <3>1. rows' \in CoinTable /\ \A c \in Coins : rows'[c] = rows[c]
      BY <1>1, <1>2, <1>4, MixRows DEF Rest
    <3> QED BY <1>1, <3>1 DEF CoinTable
  <2>2. Named(index', ChainOf(p))
    BY <1>1, <1>2, <1>4, MixBelow DEF Rest
  <2> QED BY <1>2, <1>4, <2>1, <2>2 DEF Rest
<1>5. ASSUME NEW x, Torn(x) PROVE Torn(x)'
  <2>1. View!Rollback(rows', Height[x]) = CoinsOf(Path[x])
    BY <1>1, <1>2, <1>5, MixRollback DEF Torn
  <2>2. Below(index', Height[x], Path[x])
    BY <1>1, <1>2, <1>5, MixBelow DEF Torn
  <2> QED BY <1>2, <1>5, <2>1, <2>2 DEF Torn
<1>6. Rest(meta) \/ \E x \in Blocks : Torn(x)
  <2>1. CASE pc = "idle"
    BY <2>1 DEF Sound, Rest
  <2>2. CASE pc \in Converging
    BY <2>2 DEF Sound, ConvergingTo
  <2>3. CASE pc \notin {"idle", "down"} \cup Converging
    <3>1. op.kind = "reorg"
      BY <2>3 DEF Crash, Shape, OpOK
    <3>2. PICK x \in Blocks : Reorganising(x, op.block)
      BY <2>3, <3>1 DEF Sound
    <3> QED BY <3>2 DEF Reorganising, Rest
  <2> QED BY <2>1, <2>2, <2>3 DEF Crash
<1>7. (Rest(meta) \/ \E x \in Blocks : Torn(x))'
  BY <1>2, <1>4, <1>5, <1>6
<1> QED BY <1>2, <1>3, <1>7 DEF Sound, Valid, Converging

\* Opening finds the store at rest or starts the convergence.
LEMMA SoundOpen ==
  ASSUME Shape, Sound, Open
  PROVE  Sound'
<1>1. pc = "down" /\ peak' = meta /\ UNCHANGED <<files, records, meta, journal>> /\ op = Idle
  BY DEF Open, Shape, TypeOK
<1>2. Idle.kind = "none"
  BY DEF Idle
<1>3. CASE journal = NoJournal
  <2>1. pc' = "idle" /\ op' = op
    BY <1>3 DEF Open
  <2>2. Rest(meta)
    <3>1. ASSUME NEW x \in Blocks, Torn(x) PROVE FALSE
      BY <1>3, <3>1, TreeAssumption DEF Torn, NoJournal
    <3> QED BY <1>1, <3>1 DEF Sound
  <2>3. Rest(peak)'
    BY <1>1, <2>2 DEF Rest, Named, files, ChainOf
  <2> QED BY <1>1, <1>2, <2>1, <2>3 DEF Sound, Valid, Converging
<1>4. CASE journal # NoJournal
  <2>1. pc' = "converge" /\ op' = [block |-> journal.hash, fork |-> journal.fork, kind |-> "reorg"]
    BY <1>4 DEF Open
  <2>2. PICK x \in Blocks : Torn(x)
    BY <1>1, <1>4 DEF Sound, Rest
  <2>3. op'.block = x /\ op'.fork = Height[x] /\ op'.kind = "reorg"
    BY <2>1, <2>2 DEF Torn
  <2>4. ConvergingTo(x)'
    BY <1>1, <2>1, <2>2, <2>3 DEF ConvergingTo, Torn, Below, files
  <2> QED BY <1>1, <2>1, <2>3, <2>4 DEF Sound, Valid, Converging
<1> QED BY <1>3, <1>4

\* The convergence rolls the store back to the block the journal names.
LEMMA SoundConverge ==
  ASSUME Shape, Sound, Shape', Converge
  PROVE  Sound'
<1>1. pc \in Converging /\ records' = records /\ Valid(records) /\ op.kind = "reorg"
  BY DEF Converge, ConvergeRows, ConvergeSync, ConvergeIndex, ConvergeTables, ConvergeMeta, ConvergeClear, Converging, Sound, Shape, OpOK
<1>2. PICK x \in Blocks : ConvergingTo(x)
  BY <1>1 DEF Sound
<1>3. x \in records /\ Valid(Path[x]) /\ op.block = x /\ op.fork = Height[x] /\ Height[x] \in Nat
  BY <1>1, <1>2, Paths DEF ConvergingTo, Torn, Shape, Closed, Valid
<1>4. View!Rollback(CoinsOf(Path[x]), Height[x]) = CoinsOf(Path[x])
  BY <1>3, Paths, RollPrefix
<1>5. ASSUME op' = op, pc' \in Converging, ConvergingTo(x)' PROVE Sound'
  BY <1>1, <1>5 DEF Sound, Valid, Converging
<1>6. CASE ConvergeRows
  <2>1. pc = "converge" /\ pc' = "convergeSync" /\ rows' = CoinsOf(Path[x])
    BY <1>2, <1>3, <1>6 DEF ConvergeRows, ConvergingTo, Torn
  <2>2. ConvergingTo(x)'
    BY <1>2, <1>4, <1>6, <2>1 DEF ConvergeRows, ConvergingTo, Torn, Below, Named
  <2> QED BY <1>5, <1>6, <2>1, <2>2 DEF ConvergeRows, Converging
<1>7. CASE ConvergeSync
  <2>1. ConvergingTo(x)'
    BY <1>2, <1>7 DEF ConvergeSync, ConvergingTo, Torn, Below, Named
  <2> QED BY <1>5, <1>7, <2>1 DEF ConvergeSync, Converging
<1>8. CASE ConvergeIndex
  <2>1. index' = [h \in Heights |-> IF h > Height[x] THEN NoBlock ELSE index[h]]
    BY <1>3, <1>8 DEF ConvergeIndex, Vacate
  <2>2. Below(index, Height[x], Path[x])
    BY <1>2 DEF ConvergingTo, Torn
  <2>3. ASSUME NEW h \in Heights, index'[h] # NoBlock
        PROVE  index'[h] \in Path[x] /\ Height[index'[h]] = h
    <3>1. ~(h > Height[x]) /\ index'[h] = index[h]
      BY <2>1, <2>3
    <3>2. h <= Height[x]
      BY <1>3, <3>1, HeightsNat
    <3> QED BY <2>2, <2>3, <3>1, <3>2 DEF Below
  <2>4. Named(index', Path[x]) /\ Below(index', Height[x], Path[x])
    BY <2>3 DEF Named, Below
  <2>5. ConvergingTo(x)'
    BY <1>2, <1>3, <1>8, <2>4 DEF ConvergeIndex, ConvergingTo, Torn, Below, Named
  <2> QED BY <1>5, <1>8, <2>5 DEF ConvergeIndex, Converging
<1>9. CASE ConvergeTables
  <2>1. ConvergingTo(x)'
    BY <1>2, <1>9 DEF ConvergeTables, ConvergingTo, Torn, Below, Named
  <2> QED BY <1>5, <1>9, <2>1 DEF ConvergeTables, Converging
<1>10. CASE ConvergeMeta
  <2>1. ConvergingTo(x)'
    BY <1>2, <1>10 DEF ConvergeMeta, ConvergingTo, Torn, Below, Named, files
  <2> QED BY <1>5, <1>10, <2>1 DEF ConvergeMeta, Converging
<1>11. CASE ConvergeClear
  <2>1. pc = "convergeClear" /\ pc' = "idle" /\ op' = Idle /\ journal' = NoJournal /\ UNCHANGED <<files, meta, peak>>
    BY <1>2, <1>11 DEF ConvergeClear, ClearJournal, ConvergingTo
  <2>2. Idle.kind = "none" /\ ChainOf(x) = Path[x]
    BY TreeAssumption DEF Idle, ChainOf
  <2>3. Rest(peak)'
    BY <1>2, <2>1, <2>2 DEF ConvergingTo, Rest, Named, files, ChainOf
  <2> QED BY <1>1, <2>1, <2>2, <2>3 DEF Sound, Valid, Converging
<1> QED BY <1>6, <1>7, <1>8, <1>9, <1>10, <1>11 DEF Converge

\* Every step keeps the files in shape.
LEMMA ShapeStep ==
  ASSUME Shape, [Next]_vars
  PROVE  Shape'
<1>1. CASE UNCHANGED vars
  BY <1>1 DEF vars, files, Shape, TypeOK, Closed, OpOK
<1>2. CASE \E b \in Blocks : BeginExtend(b) \/ ArchiveOrphan(b) \/ BeginReorg(b)
  BY <1>2, ShapeExtend, ShapeOrphan, ShapeReorg
<1>3. CASE Publish \/ FailPublish \/ Crash \/ Open \/ Converge
  BY <1>3, ShapeQuiet, ShapeRows, ShapeTables, ShapeEnds DEF Publish, Converge
<1> QED BY <1>1, <1>2, <1>3 DEF Next

\* An undisturbed store was undisturbed before, and sound before and after.
LEMMA SoundStep ==
  ASSUME StoreInv, [Next]_vars, Undisturbed'
  PROVE  Sound'
<1>1. Shape /\ Shape'
  BY ShapeStep DEF StoreInv
<1>2. CASE UNCHANGED vars
  <2>1. Undisturbed
    BY <1>2 DEF vars, Undisturbed
  <2>2. Sound
    BY <2>1 DEF StoreInv
  <2> QED BY <1>2, <2>2 DEF vars, files, Sound, Valid, Rest, Torn, Named, Below, Extending, Reorganising, ConvergingTo, Written, ChainOf
<1>3. CASE \E b \in Blocks : BeginExtend(b) \/ ArchiveOrphan(b) \/ BeginReorg(b)
  <2>1. PICK b \in Blocks : BeginExtend(b) \/ ArchiveOrphan(b) \/ BeginReorg(b)
    BY <1>3
  <2>2. scenario' = scenario /\ failures' = failures
    BY <2>1 DEF BeginExtend, ArchiveOrphan, BeginReorg
  <2>3. ~stale' /\ Undisturbed
    <3>1. stale => stale'
      <4>1. CASE BeginReorg(b)
        BY <4>1, Zenon DEF BeginReorg
      <4>2. CASE BeginExtend(b) \/ ArchiveOrphan(b)
        BY <4>2, Zenon DEF BeginExtend, ArchiveOrphan
      <4> QED BY <2>1, <4>1, <4>2
    <3> QED BY <2>2, <3>1 DEF Undisturbed
  <2>4. Sound
    BY <2>3 DEF StoreInv
  <2> QED BY <1>1, <2>1, <2>3, <2>4, SoundExtend, SoundOrphan, SoundReorg
<1>4. CASE Publish
  <2>1. Sound
    BY <1>4 DEF StoreInv, Undisturbed, Publish, WriteJournal, Sweep, PublishImages, SyncRows, Retire, Link, SyncTables, WriteMeta, FinishPublish
  <2>2. CASE FinishPublish
    BY <1>1, <2>1, <2>2, SoundFinish
  <2>3. CASE ~FinishPublish
    <3>1. pc \in Publishing /\ pc \notin Converging /\ (WriteJournal \/ Sweep => pc \in {"journal", "sweep"})
      BY <1>4, <2>3 DEF Publish, WriteJournal, Sweep, PublishImages, SyncRows, Retire, Link, SyncTables, WriteMeta, Publishing, Converging
    <3>2. op.kind = "reorg" \/ (op.kind = "extend" /\ pc \notin {"journal", "sweep"})
      BY <1>1, <3>1 DEF Shape, OpOK, Publishing, Journalled, Imaged, Stored, Linked
    <3> QED BY <1>1, <1>4, <2>1, <2>3, <3>1, <3>2, ExtendStep, ReorgStep DEF Publish
  <2> QED BY <2>2, <2>3
<1>5. CASE FailPublish
  <2>1. failures \in Nat /\ failures' = failures + 1 /\ failures' = 0
    BY <1>1, <1>5, MmapConstants DEF FailPublish, Undisturbed, Shape, TypeOK
  <2> QED BY <2>1
<1>6. CASE Crash
  <2>1. Sound /\ "extend" \notin scenario.tears
    BY <1>6 DEF StoreInv, Undisturbed, Crash
  <2> QED BY <1>1, <1>6, <2>1, SoundCrash
<1>7. CASE Open
  <2>1. Sound
    BY <1>7 DEF StoreInv, Undisturbed, Open
  <2> QED BY <1>1, <1>7, <2>1, SoundOpen
<1>8. CASE Converge
  <2>1. Sound
    BY <1>8 DEF StoreInv, Undisturbed, Converge, ConvergeRows, ConvergeSync, ConvergeIndex, ConvergeTables, ConvergeMeta, ConvergeClear
  <2> QED BY <1>1, <1>8, <2>1, SoundConverge
<1> QED BY <1>2, <1>3, <1>4, <1>5, <1>6, <1>7, <1>8 DEF Next

\* The inductive invariant holds in every reachable state.
LEMMA StoreInductive == Spec => []StoreInv
<1>1. Init => StoreInv
  BY ShapeInit, SoundInit DEF StoreInv
<1>2. StoreInv /\ [Next]_vars => StoreInv'
  <2> SUFFICES ASSUME StoreInv, [Next]_vars PROVE StoreInv'
    OBVIOUS
  <2>1. Shape'
    BY ShapeStep DEF StoreInv
  <2>2. Undisturbed' => Sound'
    BY SoundStep
  <2> QED BY <2>1, <2>2 DEF StoreInv
<1> QED BY <1>1, <1>2, PTL DEF Spec

\* The files and the process's view of them keep their types through every
\* publish, error, crash and convergence: the height index and the flags only
\* ever name archived blocks.
THEOREM StoreTypes == Spec => []TypeOK
<1>1. StoreInv => TypeOK
  BY DEF StoreInv, Shape
<1> QED BY <1>1, StoreInductive, PTL

\* Between two publishes flush_coin_batch, set_peak and converge_torn_reorg have
\* left exactly the coins of the peak's chain.
THEOREM CoinsFollow == Spec => []CoinsFollowPeak
<1>1. StoreInv => CoinsFollowPeak
  BY DEF StoreInv, Sound, Rest, CoinsFollowPeak, Replayed
<1> QED BY <1>1, StoreInductive, PTL

\* And the height index then names no block of another branch.
THEOREM ConfirmedIsChain == Spec => []ConfirmedOnChain
<1>1. StoreInv => ConfirmedOnChain
  <2> SUFFICES ASSUME StoreInv, Undisturbed, pc = "idle" PROVE Confirmed \subseteq ChainOf(peak)
    BY DEF ConfirmedOnChain
  <2>1. Shape /\ Valid(records) /\ Rest(peak)
    BY DEF StoreInv, Sound
  <2> QED BY <2>1, RestLookup
<1> QED BY <1>1, StoreInductive, PTL

-----------------------------------------------------------------------------
(* One branch.  Torn extensions leave rows, flags and index slots above the *)
(* durable peak; on one branch they are all blocks' own, and what counts is *)
(* that the table is right up to the peak and to every indexed block.       *)

OneLine == \A x, y \in scenario.blocks : x \in Path[y] \/ y \in Path[x]

Base(p) == IF p = NoBlock THEN -1 ELSE Height[p]

\* The table t, rolled back to p's height, is p's.
Covers(t, p) == View!Rollback(t, Base(p)) = CoinsOf(ChainOf(p))

\* Every row says what archived blocks did, and every slot holds a block of its
\* height.
FromRecords(t) ==
  \A c \in Coins :
    \/ t[c] = Absent
    \/ /\ \E x \in records : c \in Adds[x] /\ t[c].created = Height[x]
       /\ t[c].spent = 0 \/ \E y \in records : c \in Removes[y] /\ t[c].spent = Height[y]

Slotted(ix) == \A h \in Heights : ix[h] # NoBlock => Height[ix[h]] = h
UpTo(ix, k) == \A h \in Heights : ix[h] # NoBlock => h <= k

Traced ==
  /\ records \subseteq scenario.blocks
  /\ FromRecords(rows) /\ FromRecords(rowsDisk)
  /\ Slotted(index) /\ Slotted(indexDisk)

\* On one branch the archived blocks up to a height are one path.
LEMMA LineBelow ==
  ASSUME Shape, Traced, OneLine, NEW q \in records, NEW x \in records, Height[x] <= Height[q]
  PROVE  x \in Path[q]
<1>1. q \in Blocks /\ x \in Blocks /\ Height[q] \in Nat /\ Height[x] \in Nat
  BY TreeAssumption DEF Shape, TypeOK
<1>2. CASE q \in Path[x]
  <2>1. Height[q] = Height[x]
    BY <1>1, <1>2, Paths
  <2>2. x = q
    BY <1>1, <1>2, <2>1, Paths, PathAssumption
  <2> QED BY <1>1, <2>2, Paths
<1> QED BY <1>2 DEF OneLine, Traced

\* A row rolled back twice is the row rolled back to the lower height.
LEMMA RollTwice ==
  ASSUME NEW t \in CoinTable, NEW h \in Int, NEW k \in Int, k <= h, k >= -1
  PROVE  View!Rollback(View!Rollback(t, h), k) = View!Rollback(t, k)
<1> DEFINE u == View!Rollback(t, h)
<1>1. ASSUME NEW c \in Coins PROVE View!Rollback(u, k)[c] = View!Rollback(t, k)[c]
  <2> DEFINE r == t[c]
             s == u[c]
  <2>1. r \in {Absent} \cup [created : Nat, spent : Nat]
    BY DEF CoinTable
  <2>2. s = IF r.created > h THEN Absent ELSE IF r.spent > h THEN [r EXCEPT !.spent = 0] ELSE r
    BY RollRow
  <2>3. View!Rollback(u, k)[c] = IF s.created > k THEN Absent ELSE IF s.spent > k THEN [s EXCEPT !.spent = 0] ELSE s
    BY RollRow
  <2>4. View!Rollback(t, k)[c] = IF r.created > k THEN Absent ELSE IF r.spent > k THEN [r EXCEPT !.spent = 0] ELSE r
    BY RollRow
  <2> HIDE DEF r, s, u
  <2>5. (IF s.created > k THEN Absent ELSE IF s.spent > k THEN [s EXCEPT !.spent = 0] ELSE s)
        = (IF r.created > k THEN Absent ELSE IF r.spent > k THEN [r EXCEPT !.spent = 0] ELSE r)
    BY <2>1, <2>2 DEF Absent
  <2> QED BY <2>3, <2>4, <2>5
<1>2. View!Rollback(u, k) = [c \in Coins |-> View!Rollback(u, k)[c]]
  BY RollFun
<1>3. View!Rollback(t, k) = [c \in Coins |-> View!Rollback(t, k)[c]]
  BY RollFun
<1> QED BY <1>1, <1>2, <1>3

\* Every table covers nothing, and one that covers a block covers its ancestors.
LEMMA CoversBelow ==
  ASSUME NEW t \in CoinTable
  PROVE  /\ Covers(t, NoBlock)
         /\ \A p \in Blocks : \A x \in Path[p] : Valid(Path[p]) /\ Covers(t, p) => Covers(t, x)
<1>1. Covers(t, NoBlock)
  <2>1. ASSUME NEW c \in Coins PROVE View!Rollback(t, -1)[c] = CoinsOf({})[c]
    <3> DEFINE r == t[c]
    <3>1. r \in {Absent} \cup [created : Nat, spent : Nat]
      BY DEF CoinTable
    <3>2. View!Rollback(t, -1)[c] = IF r.created > -1 THEN Absent ELSE IF r.spent > -1 THEN [r EXCEPT !.spent = 0] ELSE r
      BY RollRow
    <3>3. CoinsOf({})[c] = Absent
      BY DEF CoinsOf, AddedBy
    <3> HIDE DEF r
    <3> QED BY <3>1, <3>2, <3>3 DEF Absent
  <2>2. View!Rollback(t, -1) = [c \in Coins |-> View!Rollback(t, -1)[c]]
    BY RollFun
  <2>3. CoinsOf({}) = [c \in Coins |-> CoinsOf({})[c]]
    BY CoinsType DEF CoinTable
  <2> QED BY <2>1, <2>2, <2>3 DEF Covers, Base, ChainOf
<1>2. ASSUME NEW p \in Blocks, NEW x \in Path[p], Valid(Path[p]), Covers(t, p) PROVE Covers(t, x)
  <2>1. x \in Blocks /\ p # NoBlock /\ x # NoBlock /\ Height[x] \in Nat /\ Height[p] \in Nat /\ Height[x] <= Height[p]
    BY Paths, TreeAssumption
  <2>2. View!Rollback(t, Height[p]) = CoinsOf(Path[p])
    BY <1>2, <2>1 DEF Covers, Base, ChainOf
  <2>3. View!Rollback(t, Height[x]) = View!Rollback(CoinsOf(Path[p]), Height[x])
    BY <2>1, <2>2, RollTwice
  <2>4. View!Rollback(t, Height[x]) = CoinsOf(Path[x])
    BY <1>2, <2>3, RollPrefix
  <2> QED BY <2>1, <2>4 DEF Covers, Base, ChainOf
<1> QED BY <1>1, <1>2

\* Where blocks of one path create and spend a coin.
AddedAt(S, c) == TopHeight({x \in S : c \in Adds[x]})
SpentAt(S, c) == TopHeight({x \in S : c \in Removes[x]})

\* The row an image leaves.
LEMMA ApplyRow ==
  ASSUME NEW t, NEW S, NEW c \in Coins
  PROVE  View!Apply(t, S)[c] =
           LET created == IF c \in AddedBy(S) THEN AddedAt(S, c) ELSE t[c].created
               spent == IF c \in RemovedBy(S) THEN SpentAt(S, c)
                        ELSE IF c \in AddedBy(S) THEN 0 ELSE t[c].spent
           IN  IF created = -1 THEN Absent ELSE [created |-> created, spent |-> spent]
BY SameSets, SameTables, Zenon DEF View!Apply, AddedAt, SpentAt

\* Both heights are those of blocks that did it.
LEMMA DoneAt ==
  ASSUME NEW b \in Blocks, NEW S, S \subseteq Path[b], NEW c
  PROVE  /\ c \in AddedBy(S) => \E x \in S : c \in Adds[x] /\ AddedAt(S, c) = Height[x]
         /\ c \in RemovedBy(S) => \E y \in S : c \in Removes[y] /\ SpentAt(S, c) = Height[y]
<1> DEFINE A == {x \in S : c \in Adds[x]}
           R == {x \in S : c \in Removes[x]}
<1>1. /\ A \subseteq Path[b] /\ (c \in AddedBy(S) => A # {})
      /\ R \subseteq Path[b] /\ (c \in RemovedBy(S) => R # {})
  BY DEF AddedBy, RemovedBy
<1>2. AddedAt(S, c) = TopHeight(A) /\ SpentAt(S, c) = TopHeight(R)
  BY DEF AddedAt, SpentAt
<1>3. \A x \in A : x \in S /\ c \in Adds[x]
  OBVIOUS
<1>4. \A y \in R : y \in S /\ c \in Removes[y]
  OBVIOUS
<1> HIDE DEF A, R
<1>5. ASSUME c \in AddedBy(S) PROVE \E x \in S : c \in Adds[x] /\ AddedAt(S, c) = Height[x]
  <2>1. PICK x \in A : TopHeight(A) = Height[x]
    BY <1>1, <1>5, Top
  <2> QED BY <1>2, <1>3, <2>1
<1>6. ASSUME c \in RemovedBy(S) PROVE \E y \in S : c \in Removes[y] /\ SpentAt(S, c) = Height[y]
  <2>1. PICK y \in R : TopHeight(R) = Height[y]
    BY <1>1, <1>6, Top
  <2> QED BY <1>2, <1>4, <2>1
<1> QED BY <1>5, <1>6

\* The table of p's chain with the rest of b's path applied.
LEMMA BranchTable ==
  ASSUME NEW b \in Blocks, Valid(Path[b]), NEW p \in Blocks \cup {NoBlock}, ChainOf(p) \subseteq Path[b],
         p = NoBlock => b = Genesis
  PROVE  /\ BranchAbove(b, Base(p)) = Path[b] \ ChainOf(p)
         /\ View!Apply(CoinsOf(ChainOf(p)), BranchAbove(b, Base(p))) = CoinsOf(Path[b])
<1>1. CASE p = NoBlock
  <2>1. ChainOf(p) = {} /\ Path[b] = {b} /\ b = Genesis /\ Base(p) = -1 /\ Height[b] = 0
    BY <1>1, TreeAssumption DEF ChainOf, Base
  <2>2. BranchAbove(b, Base(p)) = {b}
    BY <2>1 DEF BranchAbove
  <2> QED BY <2>1, <2>2, ApplyFirst
<1>2. CASE p # NoBlock
  <2>1. p \in Blocks /\ ChainOf(p) = Path[p] /\ p \in Path[b] /\ Base(p) = Height[p]
    BY <1>2, Paths DEF ChainOf, Base
  <2>2. BranchAbove(b, Height[p]) = Path[b] \ Path[p]
    BY <2>1, Paths DEF BranchAbove
  <2> QED BY <2>1, <2>2, ApplyRest
<1> QED BY <1>1, <1>2

\* A table that covers p covers b once the images above p are in it, whatever
\* blocks of the branch left in it before.
LEMMA CoversApply ==
  ASSUME Shape, Traced, OneLine, Valid(records), NEW b \in records, NEW p \in records \cup {NoBlock},
         ChainOf(p) \subseteq Path[b], p = NoBlock => b = Genesis,
         NEW t \in CoinTable, FromRecords(t), Covers(t, p)
  PROVE  Covers(View!Apply(t, BranchAbove(b, Base(p))), b)
<1> DEFINE S == BranchAbove(b, Base(p))
           H == Height[b]
           u == View!Rollback(t, Base(p))
           v == View!Apply(t, S)
<1>1. b \in Blocks /\ b # NoBlock /\ p \in Blocks \cup {NoBlock} /\ Valid(Path[b]) /\ H \in Nat /\ Base(p) \in Int /\ Base(p) >= -1
  BY TreeAssumption DEF Shape, TypeOK, Closed, Valid, Base
<1>2. S = Path[b] \ ChainOf(p) /\ View!Apply(u, S) = CoinsOf(Path[b])
  BY <1>1, BranchTable DEF Covers
<1>3. S \subseteq Path[b] /\ \A x \in S : Height[x] \in Nat /\ Height[x] <= H
  BY <1>1, <1>2, Paths
<1>4. \A x \in records : Height[x] > Base(p) /\ Height[x] <= H => x \in S
  BY <1>1, LineBelow DEF BranchAbove
<1>5. \A x \in records : Height[x] \in Nat
  BY TreeAssumption DEF Shape, TypeOK
<1>10. Base(p) <= H
  BY <1>1, Paths DEF Base, ChainOf
<1>6. ASSUME NEW c \in Coins PROVE View!Rollback(v, H)[c] = View!Apply(u, S)[c]
  <2> DEFINE r == t[c]
             q == u[c]
             w == v[c]
             at == AddedAt(S, c)
             st == SpentAt(S, c)
  <2>1. r \in {Absent} \cup [created : Nat, spent : Nat]
    BY DEF CoinTable
  <2>2. q = IF r.created > Base(p) THEN Absent ELSE IF r.spent > Base(p) THEN [r EXCEPT !.spent = 0] ELSE r
    BY RollRow
  <2>3. w = LET created == IF c \in AddedBy(S) THEN at ELSE r.created
                spent == IF c \in RemovedBy(S) THEN st ELSE IF c \in AddedBy(S) THEN 0 ELSE r.spent
            IN  IF created = -1 THEN Absent ELSE [created |-> created, spent |-> spent]
    BY ApplyRow
  <2>4. View!Apply(u, S)[c] =
           LET created == IF c \in AddedBy(S) THEN at ELSE q.created
               spent == IF c \in RemovedBy(S) THEN st ELSE IF c \in AddedBy(S) THEN 0 ELSE q.spent
           IN  IF created = -1 THEN Absent ELSE [created |-> created, spent |-> spent]
    BY ApplyRow
  <2>5. View!Rollback(v, H)[c] = IF w.created > H THEN Absent ELSE IF w.spent > H THEN [w EXCEPT !.spent = 0] ELSE w
    BY RollRow
  <2>6. /\ c \in AddedBy(S) => at \in Nat /\ at <= H
        /\ c \in RemovedBy(S) => st \in Nat /\ st <= H
    BY <1>1, <1>3, DoneAt
  <2>7. r.created > Base(p) /\ r.created <= H => c \in AddedBy(S)
    <3>1. r = Absent \/ \E x \in records : c \in Adds[x] /\ r.created = Height[x]
      BY DEF FromRecords
    <3> QED BY <1>1, <1>4, <3>1 DEF AddedBy, Absent
  <2>8. r # Absent /\ r.spent > 0 /\ r.spent > Base(p) /\ r.spent <= H => c \in RemovedBy(S)
    <3>1. r = Absent \/ r.spent = 0 \/ \E y \in records : c \in Removes[y] /\ r.spent = Height[y]
      BY DEF FromRecords
    <3> QED BY <1>1, <1>4, <3>1 DEF RemovedBy
  <2> HIDE DEF r, q, w, at, st, u, v, S, H
  <2>9. CASE c \in AddedBy(S)
    BY <1>1, <2>1, <2>3, <2>4, <2>5, <2>6, <2>9
  <2>10. CASE c \notin AddedBy(S) /\ r = Absent
    BY <1>1, <2>2, <2>3, <2>4, <2>5, <2>10 DEF Absent
  <2>11. CASE c \notin AddedBy(S) /\ r # Absent /\ r.created > Base(p)
    BY <1>1, <2>1, <2>2, <2>3, <2>4, <2>5, <2>7, <2>11 DEF Absent
  <2>12. CASE c \notin AddedBy(S) /\ r # Absent /\ ~(r.created > Base(p))
    <3>1. r \in [created : Nat, spent : Nat] /\ Base(p) >= 0 /\ r.created <= H
      BY <1>1, <1>10, <2>1, <2>12
    <3>2. CASE c \in RemovedBy(S)
      BY <1>1, <1>10, <2>2, <2>3, <2>4, <2>5, <2>6, <2>12, <3>1, <3>2
    <3>3. CASE c \notin RemovedBy(S) /\ r.spent > Base(p)
      BY <1>1, <1>10, <2>2, <2>3, <2>4, <2>5, <2>8, <2>12, <3>1, <3>3
    <3>4. CASE c \notin RemovedBy(S) /\ ~(r.spent > Base(p))
      BY <1>1, <1>10, <2>2, <2>3, <2>4, <2>5, <2>12, <3>1, <3>4
    <3> QED BY <3>2, <3>3, <3>4
  <2> QED BY <2>9, <2>10, <2>11, <2>12
<1>7. View!Rollback(v, H) = [c \in Coins |-> View!Rollback(v, H)[c]]
  BY RollFun
<1>8. View!Apply(u, S) = [c \in Coins |-> View!Apply(u, S)[c]]
  BY <1>1, <1>2, CoinsType DEF CoinTable
<1>9. View!Rollback(v, H) = CoinsOf(Path[b])
  BY <1>2, <1>6, <1>7, <1>8
<1> QED BY <1>1, <1>9 DEF Covers, Base, ChainOf

\* Rolled back, applied and torn tables say what archived blocks did.
LEMMA TracedTables ==
  ASSUME NEW t \in CoinTable, FromRecords(t)
  PROVE  /\ \A h : FromRecords(View!Rollback(t, h))
         /\ \A b \in Blocks : \A S \in SUBSET Path[b] : S \subseteq records => FromRecords(View!Apply(t, S))
         /\ \A u \in CoinTable : FromRecords(u) => \A m \in Mixes(t, u) : FromRecords(m)
<1>1. ASSUME NEW c \in Coins, t[c] # Absent
      PROVE  /\ \E x \in records : c \in Adds[x] /\ t[c].created = Height[x]
             /\ t[c].spent = 0 \/ \E y \in records : c \in Removes[y] /\ t[c].spent = Height[y]
  BY <1>1 DEF FromRecords
<1>2. ASSUME NEW h PROVE FromRecords(View!Rollback(t, h))
  <2> DEFINE u == View!Rollback(t, h)
  <2>1. ASSUME NEW c \in Coins, u[c] # Absent
        PROVE  /\ \E x \in records : c \in Adds[x] /\ u[c].created = Height[x]
               /\ u[c].spent = 0 \/ \E y \in records : c \in Removes[y] /\ u[c].spent = Height[y]
    <3> DEFINE r == t[c]
               q == u[c]
    <3>1. q = IF r.created > h THEN Absent ELSE IF r.spent > h THEN [r EXCEPT !.spent = 0] ELSE r
      BY RollRow
    <3>2. r \in {Absent} \cup [created : Nat, spent : Nat]
      BY DEF CoinTable
    <3>3. r # Absent => /\ \E x \in records : c \in Adds[x] /\ r.created = Height[x]
                        /\ r.spent = 0 \/ \E y \in records : c \in Removes[y] /\ r.spent = Height[y]
      BY <1>1
    <3>4. q # Absent
      BY <2>1
    <3> HIDE DEF r, q, u
    <3>5. r # Absent /\ q.created = r.created /\ (q.spent = 0 \/ q.spent = r.spent)
      BY <3>1, <3>2, <3>4 DEF Absent
    <3>6. /\ \E x \in records : c \in Adds[x] /\ q.created = Height[x]
          /\ q.spent = 0 \/ \E y \in records : c \in Removes[y] /\ q.spent = Height[y]
      BY <3>3, <3>5
    <3> QED BY <3>6 DEF q
  <2> QED BY <2>1 DEF FromRecords
<1>3. ASSUME NEW b \in Blocks, NEW S \in SUBSET Path[b], S \subseteq records PROVE FromRecords(View!Apply(t, S))
  <2> DEFINE u == View!Apply(t, S)
  <2>1. ASSUME NEW c \in Coins, u[c] # Absent
        PROVE  /\ \E x \in records : c \in Adds[x] /\ u[c].created = Height[x]
               /\ u[c].spent = 0 \/ \E y \in records : c \in Removes[y] /\ u[c].spent = Height[y]
    <3> DEFINE r == t[c]
               q == u[c]
               at == AddedAt(S, c)
               st == SpentAt(S, c)
    <3>1. q = LET created == IF c \in AddedBy(S) THEN at ELSE r.created
                  spent == IF c \in RemovedBy(S) THEN st ELSE IF c \in AddedBy(S) THEN 0 ELSE r.spent
              IN  IF created = -1 THEN Absent ELSE [created |-> created, spent |-> spent]
      BY ApplyRow
    <3>2. r \in {Absent} \cup [created : Nat, spent : Nat]
      BY DEF CoinTable
    <3>3. r # Absent => /\ \E x \in records : c \in Adds[x] /\ r.created = Height[x]
                        /\ r.spent = 0 \/ \E y \in records : c \in Removes[y] /\ r.spent = Height[y]
      BY <1>1
    <3>4. q # Absent
      BY <2>1
    <3>5. /\ c \in AddedBy(S) => \E x \in records : c \in Adds[x] /\ at = Height[x]
          /\ c \in RemovedBy(S) => \E y \in records : c \in Removes[y] /\ st = Height[y]
      BY <1>3, DoneAt
    <3> HIDE DEF r, q, u, at, st
    <3>6. /\ q.created = IF c \in AddedBy(S) THEN at ELSE r.created
          /\ q.spent = IF c \in RemovedBy(S) THEN st ELSE IF c \in AddedBy(S) THEN 0 ELSE r.spent
          /\ c \notin AddedBy(S) => r # Absent
      BY <3>1, <3>2, <3>4 DEF Absent
    <3>7. \E x \in records : c \in Adds[x] /\ q.created = Height[x]
      BY <3>3, <3>5, <3>6
    <3>8. q.spent = 0 \/ \E y \in records : c \in Removes[y] /\ q.spent = Height[y]
      BY <3>3, <3>5, <3>6
    <3> QED BY <3>7, <3>8 DEF q
  <2> QED BY <2>1 DEF FromRecords
<1>4. ASSUME NEW u \in CoinTable, FromRecords(u), NEW m \in Mixes(t, u) PROVE FromRecords(m)
  <2>1. \A c \in Coins : m[c] = t[c] \/ m[c] = u[c]
    BY MixRows
  <2> QED BY <1>4, <2>1 DEF FromRecords
<1> QED BY <1>2, <1>3, <1>4

\* What only adds an archived block or copies a table or an index keeps this.
LEMMA TracedCopy ==
  ASSUME Traced, scenario' = scenario, records \subseteq records', records' \subseteq scenario.blocks,
         rows' = rows, rowsDisk' \in {rows, rowsDisk}, index' = index, indexDisk' \in {index, indexDisk}
  PROVE  Traced'
<1>1. ASSUME NEW t, FromRecords(t)
      PROVE  \A c \in Coins :
               \/ t[c] = Absent
               \/ /\ \E x \in records' : c \in Adds[x] /\ t[c].created = Height[x]
                  /\ t[c].spent = 0 \/ \E y \in records' : c \in Removes[y] /\ t[c].spent = Height[y]
  BY <1>1 DEF FromRecords
<1>2. FromRecords(rows)'
  BY <1>1 DEF FromRecords, Traced
<1>3. FromRecords(rowsDisk)'
  BY <1>1 DEF FromRecords, Traced
<1> QED BY <1>2, <1>3 DEF Traced, Slotted

\* Rows and slots are blocks' own after every step.
LEMMA TracedStep ==
  ASSUME Shape, Traced, [Next]_vars
  PROVE  Traced'
<1>1. CASE UNCHANGED vars
  BY <1>1, TracedCopy DEF vars, files, Traced
<1>2. CASE \E b \in Blocks : BeginExtend(b) \/ ArchiveOrphan(b) \/ BeginReorg(b)
  <2>1. PICK b \in Blocks : BeginExtend(b) \/ ArchiveOrphan(b) \/ BeginReorg(b)
    BY <1>2
  <2>2. /\ scenario' = scenario /\ records' = records \cup {b} /\ b \in scenario.blocks
        /\ rows' = rows /\ rowsDisk' = rowsDisk /\ index' = index /\ indexDisk' = indexDisk
    BY <2>1 DEF BeginExtend, ArchiveOrphan, BeginReorg, Offered, files
  <2> QED BY <2>2, TracedCopy DEF Traced
<1>3. CASE WriteJournal \/ SyncRows \/ SyncTables \/ WriteMeta \/ FinishPublish \/ FailPublish \/ Open
             \/ ConvergeSync \/ ConvergeTables \/ ConvergeMeta \/ ConvergeClear
  <2>1. /\ scenario' = scenario /\ records' = records
        /\ rows' = rows /\ rowsDisk' \in {rows, rowsDisk} /\ index' = index /\ indexDisk' \in {index, indexDisk}
    BY <1>3 DEF WriteJournal, SyncRows, SyncTables, WriteMeta, FinishPublish, FailPublish, Open,
         ConvergeSync, ConvergeTables, ConvergeMeta, ConvergeClear, files
  <2> QED BY <2>1, TracedCopy DEF Traced
<1>4. CASE Sweep \/ ConvergeRows \/ PublishImages
  <2>1. /\ scenario' = scenario /\ records' = records /\ rowsDisk' = rowsDisk /\ index' = index /\ indexDisk' = indexDisk
        /\ \/ rows' = View!Rollback(rows, op.fork)
           \/ rows' = View!Apply(rows, BranchAbove(op.block, op.fork)) /\ pc = "images"
    BY <1>4 DEF Sweep, ConvergeRows, PublishImages
  <2>2. rows \in CoinTable /\ FromRecords(rows)
    BY DEF Shape, TypeOK, Traced
  <2>3. pc = "images" => /\ op.block \in Blocks /\ BranchAbove(op.block, op.fork) \in SUBSET Path[op.block]
                         /\ BranchAbove(op.block, op.fork) \subseteq records
    BY DEF Shape, TypeOK, Closed, OpOK, Journalled, BranchAbove
  <2>4. FromRecords(rows')
    BY <2>1, <2>2, <2>3, TracedTables
  <2> QED BY <2>1, <2>4 DEF Traced, FromRecords, Slotted
<1>5. CASE Retire \/ ConvergeIndex \/ Link
  <2>1. /\ scenario' = scenario /\ records' = records /\ rows' = rows /\ rowsDisk' = rowsDisk /\ indexDisk' = indexDisk
    BY <1>5 DEF Retire, ConvergeIndex, Link
  <2>2. Slotted(index')
    <3>1. CASE Retire \/ ConvergeIndex
      <4>1. \A h \in Heights : index'[h] = NoBlock \/ index'[h] = index[h]
        BY <3>1 DEF Retire, ConvergeIndex, Vacate
      <4> QED BY <4>1 DEF Slotted, Traced
    <3>2. CASE Link
      <4> DEFINE linked == BranchAbove(op.block, FlagFork(op.block))
      <4>1. index' = [h \in Heights |-> IF \E x \in linked : Height[x] = h
                                        THEN CHOOSE x \in linked : Height[x] = h ELSE index[h]]
        BY <3>2 DEF Link
      <4> HIDE DEF linked
      <4>2. ASSUME NEW h \in Heights, index'[h] # NoBlock PROVE Height[index'[h]] = h
        <5>1. CASE \E x \in linked : Height[x] = h
          <6>1. index'[h] = CHOOSE x \in linked : Height[x] = h
            BY <4>1, <5>1
          <6> QED BY <5>1, <6>1, Zenon
        <5>2. CASE ~\E x \in linked : Height[x] = h
          BY <4>1, <4>2, <5>2 DEF Slotted, Traced
        <5> QED BY <5>1, <5>2
      <4> QED BY <4>2 DEF Slotted
    <3> QED BY <1>5, <3>1, <3>2
  <2> QED BY <2>1, <2>2 DEF Traced, FromRecords, Slotted
<1>6. CASE Crash
  <2>1. /\ scenario' = scenario /\ records' = records
        /\ rows' \in Mixes(rowsDisk, rows) /\ rowsDisk' = rows' /\ index' \in Mixes(indexDisk, index) /\ indexDisk' = index'
    BY <1>6 DEF Crash
  <2>2. FromRecords(rows')
    BY <2>1, TracedTables DEF Shape, TypeOK, Traced
  <2>3. Slotted(index')
    <3>1. DOMAIN indexDisk = Heights
      BY DEF Shape, TypeOK
    <3>2. \A h \in Heights : index'[h] = indexDisk[h] \/ index'[h] = index[h]
      BY <2>1, <3>1 DEF Mixes
    <3> QED BY <3>2 DEF Slotted, Traced
  <2> QED BY <2>1, <2>2, <2>3 DEF Traced, FromRecords, Slotted
<1> QED BY <1>1, <1>2, <1>3, <1>4, <1>5, <1>6 DEF Next, Publish, Converge

-----------------------------------------------------------------------------
(* One branch without a crash: the process's own view stays whole.         *)

\* b is a proper descendant of p, or the first block.
Offspring(b, p) == ChainOf(p) \subseteq Path[b] /\ b \notin ChainOf(p) /\ (p = NoBlock => b = Genesis)

\* The index is the peak's, no flag lies beyond it, and every publish goes on
\* from it: what a failed one leaves in the table lies above the peak.
Steady ==
  /\ pc \in {"idle"} \cup Publishing
  /\ Covers(rows, peak) /\ meta \in ChainOf(peak) \cup {NoBlock}
  /\ UpTo(index, Base(peak)) /\ \A x \in ChainOf(peak) : index[Height[x]] = x
  /\ flags \subseteq ChainOf(peak) /\ (peak # NoBlock => peak \in flags)
  /\ pc \in Publishing \ Linked => Offspring(op.block, peak) /\ op.fork = Base(peak)
  /\ pc \in Imaged => Covers(rows, op.block)
  /\ pc \in Linked => peak = op.block

\* The chain of an archived peak.
LEMMA PeakChain ==
  ASSUME Shape, Valid(records), NEW p \in records \cup {NoBlock}
  PROVE  /\ p \in Blocks \cup {NoBlock} /\ Base(p) \in Int /\ Base(p) >= -1
         /\ ChainOf(p) \subseteq records /\ (p # NoBlock => p \in ChainOf(p) /\ Base(p) = Height[p] /\ ChainOf(p) = Path[p])
         /\ \A x \in ChainOf(p) : x \in Blocks /\ Height[x] <= Base(p) /\ Valid(Path[x])
         /\ \A t \in CoinTable : Covers(t, p) => \A x \in ChainOf(p) : Covers(t, x)
<1>1. CASE p = NoBlock
  BY <1>1 DEF Base, ChainOf, Shape, TypeOK
<1>2. CASE p # NoBlock
  <2>1. p \in records /\ p \in Blocks /\ ChainOf(p) = Path[p] /\ Base(p) = Height[p] /\ Height[p] \in Nat /\ Path[p] \subseteq records
    BY <1>2, TreeAssumption DEF Base, ChainOf, Shape, TypeOK, Closed
  <2>2. p \in Path[p] /\ \A x \in Path[p] : x \in Blocks /\ Height[x] <= Height[p] /\ Path[x] \subseteq Path[p]
    BY <2>1, Paths
  <2>3. Valid(Path[p]) /\ \A x \in Path[p] : Valid(Path[x])
    BY <2>1, <2>2 DEF Valid
  <2>4. \A t \in CoinTable : Covers(t, p) => \A x \in Path[p] : Covers(t, x)
    BY <2>1, <2>3, CoversBelow
  <2> QED BY <1>2, <2>1, <2>2, <2>3, <2>4
<1> QED BY <1>1, <1>2

\* What is heavier than the peak, on its branch, descends from it.
LEMMA HeavierIsOffspring ==
  ASSUME Shape, Traced, OneLine, NEW b \in Blocks, Offered(b), peak # NoBlock => Weight[b] > Weight[peak]
  PROVE  Offspring(b, peak)
<1>1. CASE peak = NoBlock
  BY <1>1 DEF Offspring, ChainOf, Offered
<1>2. CASE peak # NoBlock
  <2>1. peak \in Blocks /\ b \in scenario.blocks /\ peak \in scenario.blocks /\ ChainOf(peak) = Path[peak]
    BY <1>2 DEF Shape, TypeOK, Traced, Offered, ChainOf
  <2>2. Weight[b] \in Nat /\ Weight[peak] \in Nat
    BY <2>1, TreeAssumption
  <2>3. b \notin Path[peak]
    <3>1. ASSUME b \in Path[peak] PROVE FALSE
      <4>1. b # peak => Weight[b] < Weight[peak]
        BY <2>1, <3>1, PathAssumption
      <4> QED BY <1>2, <2>2, <4>1
    <3> QED BY <3>1
  <2>4. peak \in Path[b]
    BY <2>1, <2>3 DEF OneLine
  <2> QED BY <1>2, <2>1, <2>3, <2>4, Paths DEF Offspring
<1> QED BY <1>1, <1>2

\* The engine accepts only valid blocks on a steady store.
LEMMA SteadyValid ==
  ASSUME Shape, Traced, OneLine, Valid(records), Steady, NEW b \in Blocks, Offered(b)
  PROVE  Confirmed = ChainOf(peak) /\ Valid(records \cup {b})
<1>1. peak \in records \cup {NoBlock} /\ rows \in CoinTable
  BY DEF Shape, TypeOK
<1>2. ASSUME NEW w \in Confirmed PROVE w \in ChainOf(peak)
  <2>1. w \in records /\ w \in Blocks /\ Height[w] \in Heights /\ index[Height[w]] = w /\ w # NoBlock /\ Height[w] \in Nat
    BY TreeAssumption, HeightsNat DEF Confirmed, Shape, TypeOK
  <2>2. Height[w] <= Base(peak)
    BY <2>1 DEF Steady, UpTo
  <2>3. peak # NoBlock
    BY <2>1, <2>2 DEF Base
  <2>4. peak \in records /\ Height[w] <= Height[peak] /\ ChainOf(peak) = Path[peak]
    BY <1>1, <2>2, <2>3 DEF Base, ChainOf
  <2> QED BY <2>1, <2>4, LineBelow
<1>3. ChainOf(peak) \subseteq Confirmed
  BY <1>1, PeakChain DEF Steady, Confirmed
<1>4. \A w \in Confirmed : View!Rollback(rows, Height[w]) = CoinsOf(Path[w])
  <2>1. \A w \in ChainOf(peak) : Covers(rows, w) /\ w \in Blocks
    BY <1>1, PeakChain DEF Steady
  <2>2. \A w \in Blocks : w # NoBlock
    BY TreeAssumption
  <2> QED BY <1>2, <2>1, <2>2 DEF Covers, Base, ChainOf
<1>5. SpendsValid(b)
  BY <1>1, <1>4, OfferedIsValid DEF Shape, Closed, Valid
<1> QED BY <1>2, <1>3, <1>5 DEF Valid

\* A publish begins on a steady store.
LEMMA SteadyBegin ==
  ASSUME Shape, Shape', Traced, OneLine, Valid(records), Steady, NEW b \in Blocks,
         BeginExtend(b) \/ ArchiveOrphan(b) \/ BeginReorg(b)
  PROVE  Valid(records)' /\ Steady'
<1>1. Offered(b) /\ pc = "idle" /\ UNCHANGED <<files, meta, peak>> /\ records' = records \cup {b}
  BY DEF BeginExtend, ArchiveOrphan, BeginReorg, Offered
<1>2. Valid(records)' /\ Confirmed = ChainOf(peak)
  BY <1>1, SteadyValid DEF Valid
<1>3. /\ Covers(rows, peak)' /\ (meta \in ChainOf(peak) \cup {NoBlock})'
      /\ UpTo(index, Base(peak))' /\ (\A x \in ChainOf(peak) : index[Height[x]] = x)'
      /\ (flags \subseteq ChainOf(peak))' /\ (peak # NoBlock => peak \in flags)'
  BY <1>1 DEF Steady, Covers, ChainOf, UpTo, Base, files
<1>4. peak \in Blocks \cup {NoBlock}
  BY DEF Shape, TypeOK
<1>5. CASE pc' = "idle"
  BY <1>2, <1>3, <1>5 DEF Steady, Publishing, Imaged, Stored, Linked
<1>6. CASE BeginExtend(b)
  <2>1. Offspring(b, peak)
    BY <1>1, <1>6, HeavierIsOffspring DEF BeginExtend
  <2>2. pc' = "images" /\ op'.block = b /\ op'.fork = Height[b] - 1
    BY <1>6 DEF BeginExtend
  <2>3. Height[b] - 1 = Base(peak)
    <3>1. CASE peak = NoBlock
      BY <2>1, <3>1, TreeAssumption DEF Offspring, Base
    <3>2. CASE peak # NoBlock
      <4>1. Parent[b] = peak /\ b # Genesis
        BY <1>1, <1>6, <3>2 DEF BeginExtend, Offered
      <4>2. Height[b] = Height[peak] + 1 /\ Height[peak] \in Nat
        BY <1>4, <3>2, <4>1, TreeAssumption
      <4> QED BY <3>2, <4>2 DEF Base
    <3> QED BY <3>1, <3>2
  <2>4. Offspring(op'.block, peak')
    BY <1>1, <2>1, <2>2
  <2> QED BY <1>1, <1>2, <1>3, <2>2, <2>3, <2>4 DEF Steady, Publishing, Imaged, Stored, Linked, Offspring, Base, ChainOf
<1>7. CASE BeginReorg(b) /\ pc' # "idle"
  <2> DEFINE shared == Path[b] \cap Confirmed
  <2>1. op' = [block |-> b, fork |-> TopHeight(shared), kind |-> "reorg"] /\ pc' = "journal"
    BY <1>1, <1>7 DEF BeginReorg
  <2>2. peak # NoBlock /\ Offspring(b, peak)
    BY <1>1, <1>7, HeavierIsOffspring DEF BeginReorg
  <2>3. peak \in Blocks /\ ChainOf(peak) = Path[peak] /\ shared = Path[peak] /\ Base(peak) = Height[peak]
    BY <1>2, <1>4, <2>2 DEF Offspring, ChainOf, Base
  <2>4. TopHeight(Path[peak]) = Height[peak]
    <3>1. peak \in Path[peak]
      BY <2>3, Paths
    <3>2. PICK x \in Path[peak] : TopHeight(Path[peak]) = Height[x] /\ \A y \in Path[peak] : Height[y] <= Height[x]
      BY <2>3, <3>1, Top
    <3> QED BY <2>3, <3>1, <3>2, Paths
  <2>5. op'.block = b /\ op'.fork = Base(peak)
    BY <2>1, <2>3, <2>4
  <2>6. Offspring(op'.block, peak')
    BY <1>1, <2>2, <2>5
  <2>7. Base(peak)' = Base(peak) /\ pc' = "journal"
    BY <1>1, <2>1 DEF Base
  <2> QED BY <1>2, <1>3, <2>5, <2>6, <2>7 DEF Steady, Publishing, Imaged, Stored, Linked, Offspring, ChainOf
<1> QED BY <1>1, <1>5, <1>6, <1>7 DEF ArchiveOrphan

\* set_peak's fork on a steady store is the peak.
LEMMA SteadyFork ==
  ASSUME Shape, Steady, pc \in {"retire", "link"}
  PROVE  FlagFork(op.block) = Base(peak)
<1> DEFINE flagged == Path[op.block] \cap flags
<1>1. op.block \in Blocks /\ Offspring(op.block, peak) /\ peak \in Blocks \cup {NoBlock}
  BY DEF Shape, TypeOK, OpOK, Journalled, Imaged, Stored, Linked, Steady, Publishing
<1>2. CASE peak = NoBlock
  <2>1. flagged = {}
    BY <1>2 DEF Steady, ChainOf
  <2> QED BY <1>2, <2>1 DEF FlagFork, Base
<1>3. CASE peak # NoBlock
  <2>1. peak \in Blocks /\ peak \in flagged /\ flagged \subseteq Path[peak]
    BY <1>1, <1>3, Paths DEF Steady, ChainOf, Offspring
  <2>2. FlagFork(op.block) = TopHeight(flagged)
    BY <2>1 DEF FlagFork
  <2> HIDE DEF flagged
  <2>3. PICK x \in flagged : TopHeight(flagged) = Height[x] /\ \A y \in flagged : Height[y] <= Height[x]
    BY <2>1, Top
  <2>4. Height[x] <= Height[peak] /\ Height[peak] <= Height[x] /\ Height[x] \in Nat /\ Height[peak] \in Nat
    BY <2>1, <2>3, Paths
  <2> QED BY <1>3, <2>2, <2>3, <2>4 DEF Base
<1> QED BY <1>2, <1>3

\* The steps of a publish keep a steady store steady, and so does its failure.
LEMMA SteadyStep ==
  ASSUME Shape, Shape', Traced, OneLine, Valid(records), Steady, Publish \/ FailPublish
  PROVE  Valid(records)' /\ Steady'
<1> DEFINE b == op.block
<1>1. records' = records /\ Valid(records)'
  BY DEF Publish, FailPublish, WriteJournal, Sweep, PublishImages, SyncRows, Retire, Link, SyncTables, WriteMeta, FinishPublish, Valid
<1>2. peak \in records \cup {NoBlock} /\ rows \in CoinTable /\ rows' \in CoinTable
  BY DEF Shape, TypeOK
<1>3. pc \in Publishing /\ b \in records /\ b \in Blocks /\ b # NoBlock /\ b \in Path[b] /\ ChainOf(b) = Path[b] /\ Base(b) = Height[b]
  BY TreeAssumption, Paths
     DEF Publish, FailPublish, WriteJournal, Sweep, PublishImages, SyncRows, Retire, Link, SyncTables, WriteMeta, FinishPublish,
         Shape, TypeOK, OpOK, Journalled, Imaged, Stored, Linked, Publishing, ChainOf, Base
<1>4. ASSUME UNCHANGED <<rows, index, flags, peak, meta>>,
             \/ pc' = "idle"
             \/ op' = op /\ pc' \in Publishing /\ (pc' \in Imaged => pc \in Imaged) /\ (pc' \in Linked => pc \in Linked)
                  /\ (pc' \notin Linked => pc \notin Linked)
      PROVE  Steady'
  BY <1>3, <1>4 DEF Steady, Covers, ChainOf, UpTo, Base, Offspring, Publishing, Imaged, Stored, Linked
<1>5. CASE WriteJournal \/ SyncRows \/ SyncTables \/ FinishPublish \/ FailPublish
  <2>1. /\ UNCHANGED <<rows, index, flags, peak, meta>>
        /\ \/ pc' = "idle"
           \/ op' = op /\ pc' \in Publishing /\ (pc' \in Imaged => pc \in Imaged) /\ (pc' \in Linked => pc \in Linked)
                /\ (pc' \notin Linked => pc \notin Linked)
    BY <1>5 DEF WriteJournal, SyncRows, SyncTables, FinishPublish, FailPublish, Publishing, Imaged, Stored, Linked, files
  <2> QED BY <1>1, <1>4, <2>1
<1>6. CASE WriteMeta
  <2>1. pc = "meta" /\ pc' = "clear" /\ meta' = peak /\ op' = op /\ UNCHANGED <<rows, index, flags, peak>> /\ peak = b
    BY <1>6 DEF WriteMeta, files, Steady, Linked
  <2>2. meta' \in ChainOf(peak)
    BY <1>3, <2>1
  <2> QED BY <1>1, <2>1, <2>2 DEF Steady, Covers, ChainOf, UpTo, Base, Offspring, Publishing, Imaged, Stored, Linked
<1>7. CASE Sweep
  <2>1. pc = "sweep" /\ pc' = "images" /\ op' = op /\ UNCHANGED <<index, flags, peak, meta>> /\ rows' = View!Rollback(rows, Base(peak))
    BY <1>7 DEF Sweep, Steady, Publishing, Linked
  <2>2. View!Rollback(rows', Base(peak)) = View!Rollback(rows, Base(peak))
    BY <1>2, <2>1, PeakChain, RollTwice
  <2>3. Covers(rows', peak')
    BY <2>1, <2>2 DEF Steady, Covers, Base, ChainOf
  <2> QED BY <1>1, <2>1, <2>3 DEF Steady, Covers, ChainOf, UpTo, Base, Offspring, Publishing, Imaged, Stored, Linked
<1>8. CASE PublishImages
  <2>1. pc = "images" /\ pc' = "syncRows" /\ op' = op /\ UNCHANGED <<index, flags, peak, meta>>
        /\ rows' = View!Apply(rows, BranchAbove(b, Base(peak))) /\ Offspring(b, peak)
    BY <1>8 DEF PublishImages, Steady, Publishing, Linked
  <2>2. Covers(rows', b)
    BY <1>2, <1>3, <2>1, CoversApply DEF Steady, Offspring, Traced
  <2>3. Covers(rows', peak)
    <3>1. CASE peak = NoBlock
      BY <1>2, <3>1, CoversBelow
    <3>2. CASE peak # NoBlock
      BY <1>2, <1>3, <2>1, <2>2, <3>2, PeakChain DEF Offspring
    <3> QED BY <3>1, <3>2
  <2>4. Covers(rows', b') /\ Covers(rows', peak')
    BY <2>1, <2>2, <2>3
  <2> QED BY <1>1, <2>1, <2>4 DEF Steady, Covers, ChainOf, UpTo, Base, Offspring, Publishing, Imaged, Stored, Linked
<1>9. CASE Retire
  <2> DEFINE gone == {h \in Heights : h > Base(peak) /\ h <= PeakHeight}
  <2>1. pc = "retire" /\ pc' = "link" /\ op' = op /\ UNCHANGED <<rows, peak, meta>>
        /\ flags' = flags \ {index[h] : h \in gone} /\ index' = Vacate(gone)
    <3>1. FlagFork(b) = Base(peak)
      BY <1>9, SteadyFork DEF Retire
    <3> QED BY <1>9, <3>1 DEF Retire
  <2>2. \A h \in gone : index[h] = NoBlock
    BY <1>2, PeakChain, HeightsNat DEF Steady, UpTo
  <2>3. index' = index
    <3>1. index \in [Heights -> records \cup {NoBlock}]
      BY DEF Shape, TypeOK
    <3>2. \A h \in Heights : Vacate(gone)[h] = index[h]
      BY <2>2 DEF Vacate
    <3>3. index = [h \in Heights |-> index[h]] /\ Vacate(gone) = [h \in Heights |-> Vacate(gone)[h]]
      BY <3>1 DEF Vacate
    <3> QED BY <2>1, <3>2, <3>3
  <2>4. flags' = flags
    <3>1. NoBlock \notin flags
      BY TreeAssumption DEF Shape, TypeOK
    <3> HIDE DEF gone
    <3> QED BY <2>1, <2>2, <3>1
  <2> QED BY <1>1, <1>4, <2>1, <2>3, <2>4 DEF Publishing, Imaged, Stored, Linked
<1>10. CASE Link
  <2> DEFINE linked == BranchAbove(b, Base(peak))
  <2>1. pc = "link" /\ pc' = "syncTables" /\ op' = op /\ UNCHANGED <<rows, meta>> /\ peak' = b /\ flags' = flags \cup linked
        /\ index' = [h \in Heights |-> IF \E x \in linked : Height[x] = h
                                       THEN CHOOSE x \in linked : Height[x] = h ELSE index[h]]
    <3>1. FlagFork(b) = Base(peak)
      BY <1>10, SteadyFork DEF Link
    <3> QED BY <1>10, <3>1 DEF Link
  <2>2. Offspring(b, peak) /\ Covers(rows, b)
    BY <2>1 DEF Steady, Publishing, Imaged, Stored, Linked
  <2>3. linked = Path[b] \ ChainOf(peak)
    <3>1. Valid(Path[b])
      BY <1>3 DEF Shape, Closed, Valid
    <3> QED BY <1>2, <1>3, <2>2, <3>1, PeakChain, BranchTable DEF Offspring
  <2>4. \A x, y \in Path[b] : Height[x] = Height[y] => x = y
    BY <1>3, PathAssumption
  <2> HIDE DEF linked
  <2>5. ASSUME NEW x \in Path[b] PROVE index'[Height[x]] = x
    <3>1. Height[x] \in Heights
      BY <1>3, Paths, HeightsNat
    <3>2. CASE x \in linked
      <4>1. index'[Height[x]] = CHOOSE y \in linked : Height[y] = Height[x]
        BY <2>1, <3>1, <3>2
      <4>2. \A y \in linked : Height[y] = Height[x] => y = x
        BY <2>3, <2>4
      <4> QED BY <3>2, <4>1, <4>2, Zenon
    <3>3. CASE x \notin linked
      <4>1. x \in ChainOf(peak) /\ ~\E y \in linked : Height[y] = Height[x]
        BY <2>3, <2>4, <3>3
      <4> QED BY <2>1, <3>1, <4>1 DEF Steady
    <3> QED BY <3>2, <3>3
  <2>6. ASSUME NEW h \in Heights, index'[h] # NoBlock PROVE h <= Height[b]
    <3>1. CASE \E x \in linked : Height[x] = h
      BY <1>3, <2>3, <3>1, Paths
    <3>2. CASE ~\E x \in linked : Height[x] = h
      <4>1. index[h] # NoBlock
        BY <2>1, <2>6, <3>2
      <4>2. h <= Base(peak) /\ h \in Int /\ h >= 0
        BY <4>1, HeightsNat DEF Steady, UpTo
      <4>3. peak # NoBlock
        BY <4>2 DEF Base
      <4>4. Base(peak) = Height[peak] /\ peak \in Path[b]
        BY <1>2, <2>2, <4>3, PeakChain DEF Offspring
      <4>5. Height[peak] <= Height[b] /\ Height[peak] \in Nat /\ Height[b] \in Nat
        BY <1>3, <4>4, Paths
      <4> QED BY <4>2, <4>4, <4>5
    <3> QED BY <3>1, <3>2
  <2>7. flags' \subseteq Path[b] /\ b \in flags'
    BY <1>3, <2>1, <2>2, <2>3 DEF Steady, Offspring
  <2>8. meta' \in Path[b] \cup {NoBlock}
    BY <2>1, <2>2 DEF Steady, Offspring
  <2>9. ChainOf(peak') = Path[b] /\ Base(peak') = Height[b] /\ b' = b
    BY <1>3, <2>1
  <2>10. Covers(rows', peak') /\ Covers(rows', b')
    BY <2>1, <2>2, <2>9
  <2> QED BY <1>1, <2>1, <2>5, <2>6, <2>7, <2>8, <2>9, <2>10 DEF Steady, UpTo, Publishing, Imaged, Stored, Linked
<1> QED BY <1>5, <1>6, <1>7, <1>8, <1>9, <1>10 DEF Publish

-----------------------------------------------------------------------------
(* One branch without an error: what a crash leaves can be taken up again. *)

\* Nothing is under way.  A torn extension has left at most the next height in
\* the index, and the rows are right up to every indexed block.
Settled(p) ==
  /\ journal = NoJournal /\ meta = p /\ rowsDisk = rows /\ indexDisk = index
  /\ Covers(rows, p) /\ UpTo(index, Base(p) + 1)
  /\ \A h \in Heights : index[h] # NoBlock => Covers(rows, index[h])

\* The journal names x, and the rows are right up to it.
Cut(x) ==
  /\ x \in records /\ journal = [fork |-> Height[x], hash |-> x]
  /\ Covers(rows, x) /\ Covers(rowsDisk, x)

\* How far the publish of b has come; the index reached up to k before.
Placed(b, k) ==
  /\ pc \in Imaged => Covers(rows, b)
  /\ pc \in Stored => rowsDisk = rows
  /\ pc \notin Linked => UpTo(index, k)
  /\ pc \in Linked => UpTo(index, Height[b]) /\ peak = b
  /\ pc \notin {"meta", "clear"} => UpTo(indexDisk, k)
  /\ pc \in {"meta", "clear"} => indexDisk = index
  /\ pc = "clear" => meta = b

Growing(b) ==
  /\ journal = NoJournal /\ Placed(b, Height[b] - 1)
  /\ pc \notin Linked => peak = meta
  /\ pc # "clear" => /\ Offspring(b, meta) /\ Height[b] = Base(meta) + 1
                     /\ Covers(rows, meta) /\ Covers(rowsDisk, meta)

Switching(x, b) ==
  /\ x \in Path[b] /\ op.fork = Height[x] /\ Placed(b, Height[x])
  /\ pc = "journal" => Settled(peak) /\ index[Height[x]] = x
  /\ pc # "journal" => Cut(x) /\ armed
  /\ pc = "images" => rows = CoinsOf(Path[x])

Returning(x) ==
  /\ Cut(x) /\ op.block = x /\ op.fork = Height[x]
  /\ pc # "converge" => rows = CoinsOf(Path[x])
  /\ pc \notin {"converge", "convergeSync"} => rowsDisk = rows
  /\ pc \in {"convergeTables", "convergeMeta", "convergeClear"} => peak = x /\ UpTo(index, Height[x])
  /\ pc \in {"convergeMeta", "convergeClear"} => indexDisk = index
  /\ pc = "convergeClear" => meta = x /\ armed

Recoverable ==
  /\ pc = "idle" => Settled(peak)
  /\ pc = "down" => Settled(meta) \/ \E x \in Blocks : Cut(x)
  /\ op.kind = "extend" => Growing(op.block)
  /\ op.kind = "reorg" /\ pc \notin Converging => \E x \in Blocks : Switching(x, op.block)
  /\ pc \in Converging => \E x \in Blocks : Returning(x)

\* On one branch a table that covers q covers every indexed block up to it.
LEMMA SlotsCovered ==
  ASSUME Shape, Traced, OneLine, Valid(records), NEW q \in records \cup {NoBlock}, NEW t \in CoinTable, Covers(t, q),
         NEW ix \in [Heights -> records \cup {NoBlock}], Slotted(ix), NEW h \in Heights, ix[h] # NoBlock, h <= Base(q)
  PROVE  ix[h] \in ChainOf(q) /\ Covers(t, ix[h])
<1>1. ix[h] \in records /\ Height[ix[h]] = h /\ h \in Int /\ h >= 0
  BY HeightsNat DEF Slotted
<1>2. q # NoBlock
  BY <1>1 DEF Base
<1>3. q \in records /\ Base(q) = Height[q] /\ ChainOf(q) = Path[q]
  BY <1>2 DEF Base, ChainOf
<1>4. ix[h] \in Path[q]
  BY <1>1, <1>3, LineBelow
<1> QED BY <1>3, <1>4, PeakChain

\* The engine accepts only valid blocks on a settled store.
LEMMA SettledValid ==
  ASSUME Shape, Valid(records), Settled(peak), NEW b \in Blocks, Offered(b)
  PROVE  Valid(records \cup {b})
<1>1. ASSUME NEW w \in Confirmed PROVE View!Rollback(rows, Height[w]) = CoinsOf(Path[w])
  <2>1. w \in Blocks /\ Height[w] \in Heights /\ index[Height[w]] = w /\ w # NoBlock
    BY TreeAssumption, HeightsNat DEF Confirmed, Shape, TypeOK
  <2>2. Covers(rows, w)
    BY <2>1 DEF Settled
  <2> QED BY <2>1, <2>2 DEF Covers, Base, ChainOf
<1>2. SpendsValid(b)
  BY <1>1, OfferedIsValid DEF Shape, TypeOK, Closed, Valid
<1> QED BY <1>2 DEF Valid

\* Two blocks of one branch at one height are one.
LEMMA SameHeight ==
  ASSUME OneLine, scenario.blocks \subseteq Blocks, NEW x \in scenario.blocks, NEW y \in scenario.blocks, Height[x] = Height[y]
  PROVE  x = y
<1>1. x \in Blocks /\ y \in Blocks /\ x \in Path[x] /\ y \in Path[y]
  BY Paths
<1> QED BY <1>1, PathAssumption DEF OneLine

\* What Recoverable asks for when a publish begins.
LEMMA RecoverBegin ==
  ASSUME Shape, Shape', Traced, OneLine, Valid(records), Recoverable, NEW b \in Blocks,
         BeginExtend(b) \/ ArchiveOrphan(b) \/ BeginReorg(b)
  PROVE  Valid(records)' /\ Recoverable'
<1>1. Offered(b) /\ pc = "idle" /\ UNCHANGED <<files, meta, peak>> /\ records' = records \cup {b} /\ Settled(peak) /\ op.kind = "none"
  BY DEF BeginExtend, ArchiveOrphan, BeginReorg, Offered, Recoverable, Shape, TypeOK, Idle
<1>2. Valid(records)'
  BY <1>1, SettledValid DEF Valid
<1>3. journal' = NoJournal /\ Settled(peak)'
  BY <1>1 DEF BeginExtend, ArchiveOrphan, BeginReorg, ClearJournal, Settled, Covers, ChainOf, Base, UpTo, files
<1>4. peak \in Blocks \cup {NoBlock} /\ scenario.blocks \subseteq Blocks /\ b \in scenario.blocks /\ b \notin Confirmed
  <2>1. b \notin Confirmed
    BY <1>1 DEF Offered, View!AlreadyHave
  <2> QED BY <1>1, <2>1, MmapConstants DEF Shape, TypeOK, Offered
<1>5. CASE pc' = "idle" /\ op' = op
  BY <1>1, <1>2, <1>3, <1>5 DEF Recoverable, Converging
<1>6. CASE BeginExtend(b)
  <2>1. pc' = "images" /\ op'.block = b /\ op'.kind = "extend"
    BY <1>6 DEF BeginExtend
  <2>2. Offspring(b, peak)
    BY <1>1, <1>6, HeavierIsOffspring DEF BeginExtend
  <2>3. Height[b] = Base(peak) + 1 /\ Height[b] \in Nat /\ Base(peak) \in Int
    <3>1. CASE peak = NoBlock
      BY <2>2, <3>1, TreeAssumption DEF Offspring, Base
    <3>2. CASE peak # NoBlock
      <4>1. Parent[b] = peak /\ b # Genesis
        BY <1>1, <1>6, <3>2 DEF BeginExtend, Offered
      <4> QED BY <1>4, <3>2, <4>1, TreeAssumption DEF Base
    <3> QED BY <3>1, <3>2
  <2>4. UpTo(index, Height[b] - 1)
    <3>1. ASSUME NEW h \in Heights, index[h] # NoBlock PROVE h <= Height[b] - 1
      <4>1. h <= Height[b] /\ h \in Int /\ index[h] \in records /\ Height[index[h]] = h
        BY <1>1, <2>3, <3>1, HeightsNat DEF Settled, UpTo, Shape, TypeOK, Traced, Slotted
      <4>2. h # Height[b]
        <5>1. ASSUME h = Height[b] PROVE FALSE
          <6>1. index[h] = b
            BY <1>4, <4>1, <5>1, SameHeight DEF Traced
          <6> QED BY <1>4, <4>1, <5>1, <6>1 DEF Confirmed
        <5> QED BY <5>1
      <4> QED BY <2>3, <4>1, <4>2
    <3> QED BY <3>1 DEF UpTo
  <2>5. Growing(b)'
    <3>1. Placed(b, Height[b] - 1)'
      BY <1>1, <1>3, <2>1, <2>4 DEF Placed, Settled, UpTo, files, Imaged, Stored, Linked
    <3>2. Offspring(b, meta)' /\ (Height[b] = Base(meta) + 1)'
      BY <1>1, <2>2, <2>3 DEF Settled, Offspring, ChainOf, Base
    <3> QED BY <1>1, <1>3, <2>1, <3>1, <3>2 DEF Growing, Settled, Linked, Covers, ChainOf, Base
  <2> QED BY <1>2, <2>1, <2>5 DEF Recoverable, Converging
<1>7. CASE BeginReorg(b) /\ pc' # "idle"
  <2> DEFINE shared == Path[b] \cap Confirmed
  <2>1. op' = [block |-> b, fork |-> TopHeight(shared), kind |-> "reorg"] /\ pc' = "journal" /\ shared # {}
    BY <1>1, <1>7 DEF BeginReorg
  <2>2. PICK x \in shared : TopHeight(shared) = Height[x] /\ \A y \in shared : Height[y] <= Height[x]
    <3>1. shared \subseteq Path[b]
      OBVIOUS
    <3> HIDE DEF shared
    <3> QED BY <2>1, <3>1, Top
  <2>3. x \in Path[b] /\ x \in Blocks /\ index[Height[x]] = x
    BY <2>2, Paths DEF Confirmed
  <2>4. peak # NoBlock /\ peak \in records /\ Offspring(b, peak) /\ Parent[b] # peak /\ b # Genesis /\ Parent[b] \in records
    BY <1>1, <1>7, HeavierIsOffspring DEF BeginReorg, Offered, Shape, TypeOK
  <2>5. /\ Path[b] = Path[Parent[b]] \cup {b} /\ Height[b] = Height[Parent[b]] + 1 /\ Parent[b] \in Blocks
        /\ peak \in Path[Parent[b]] /\ Base(peak) = Height[peak]
    <3>1. Path[b] = Path[Parent[b]] \cup {b} /\ Height[b] = Height[Parent[b]] + 1 /\ Parent[b] \in Blocks
      BY <2>4, TreeAssumption
    <3>2. peak \in ChainOf(peak)
      BY <1>4, <2>4, Paths DEF ChainOf
    <3> QED BY <2>4, <3>1, <3>2 DEF Offspring, Base
  <2>6. Height[peak] + 1 <= Height[Parent[b]] /\ Height[peak] \in Nat /\ Height[Parent[b]] \in Nat
    BY <2>4, <2>5, Paths, PathAssumption
  <2>7. UpTo(index, Height[x])
    <3>1. ASSUME NEW h \in Heights, index[h] # NoBlock PROVE h <= Height[x]
      <4>1. h <= Height[peak] + 1 /\ h \in Int /\ index[h] \in records /\ Height[index[h]] = h
        BY <1>1, <2>5, <3>1, HeightsNat DEF Settled, UpTo, Shape, TypeOK, Traced, Slotted
      <4>2. Height[index[h]] <= Height[Parent[b]]
        BY <2>6, <4>1
      <4>3. index[h] \in Path[b]
        BY <2>4, <2>5, <4>1, <4>2, LineBelow
      <4>4. index[h] \in shared
        BY <4>1, <4>3 DEF Confirmed
      <4> QED BY <2>2, <4>1, <4>4
    <3> QED BY <3>1 DEF UpTo
  <2> HIDE DEF shared
  <2>8. op'.block = b /\ op'.fork = Height[x] /\ op'.kind = "reorg"
    BY <2>1, <2>2
  <2>9. Switching(x, b)'
    <3>1. Placed(b, Height[x])'
      BY <1>1, <1>3, <2>1, <2>7 DEF Placed, Settled, UpTo, files, Imaged, Stored, Linked
    <3> QED BY <1>1, <1>3, <2>1, <2>3, <2>8, <3>1 DEF Switching, files
  <2> QED BY <1>2, <2>1, <2>3, <2>8, <2>9 DEF Recoverable, Converging
<1>8. BeginExtend(b) \/ (BeginReorg(b) /\ pc' # "idle") \/ (pc' = "idle" /\ op' = op)
  BY <1>1 DEF ArchiveOrphan, BeginReorg
<1> QED BY <1>5, <1>6, <1>7, <1>8

\* From the synced rows on, a publish moves the index within b's height.
LEMMA PlacedStep ==
  ASSUME Shape, NEW b \in Blocks, b = op.block, NEW k \in Int, k <= Height[b], Placed(b, k),
         SyncRows \/ Retire \/ Link \/ SyncTables \/ WriteMeta
  PROVE  Placed(b, k)'
<1>1. CASE SyncRows
  BY <1>1 DEF SyncRows, Placed, Covers, UpTo, Imaged, Stored, Linked
<1>2. CASE Retire
  <2>1. \A h \in Heights : index'[h] # NoBlock => index[h] # NoBlock
    BY <1>2 DEF Retire, Vacate
  <2>2. UpTo(index, k) => UpTo(index', k)
    BY <2>1 DEF UpTo
  <2> QED BY <1>2, <2>2 DEF Retire, Placed, Covers, UpTo, Imaged, Stored, Linked
<1>3. CASE Link
  <2> DEFINE linked == BranchAbove(b, FlagFork(b))
  <2>1. pc = "link" /\ pc' = "syncTables" /\ peak' = b /\ UNCHANGED <<rows, rowsDisk, indexDisk, meta>>
        /\ index' = [h \in Heights |-> IF \E x \in linked : Height[x] = h
                                       THEN CHOOSE x \in linked : Height[x] = h ELSE index[h]]
    BY <1>3 DEF Link
  <2>2. \A x \in linked : Height[x] <= Height[b]
    BY Paths DEF BranchAbove
  <2>3. UpTo(index, k) /\ Height[b] \in Nat
    BY <2>1, TreeAssumption DEF Placed, Linked
  <2> HIDE DEF linked
  <2>4. ASSUME NEW h \in Heights, index'[h] # NoBlock PROVE h <= Height[b]
    <3>1. CASE \E x \in linked : Height[x] = h
      BY <2>2, <3>1
    <3>2. CASE ~\E x \in linked : Height[x] = h
      <4>1. index[h] # NoBlock
        BY <2>1, <2>4, <3>2
      <4> QED BY <2>3, <4>1, HeightsNat DEF UpTo
    <3> QED BY <3>1, <3>2
  <2>5. UpTo(index', Height[b])
    BY <2>4 DEF UpTo
  <2> QED BY <2>1, <2>5 DEF Placed, Covers, UpTo, Imaged, Stored, Linked
<1>4. CASE SyncTables
  BY <1>4 DEF SyncTables, Placed, Covers, UpTo, Imaged, Stored, Linked
<1>5. CASE WriteMeta
  BY <1>5 DEF WriteMeta, Placed, Covers, UpTo, Imaged, Stored, Linked, files
<1> QED BY <1>1, <1>2, <1>3, <1>4, <1>5

\* What Recoverable asks for within a publish.
LEMMA RecoverPublish ==
  ASSUME op' = op, pc' \in Publishing,
         op.kind = "extend" => Growing(op.block)',
         op.kind = "reorg" => \E x \in Blocks : Switching(x, op.block)'
  PROVE  Recoverable'
BY DEF Recoverable, Publishing, Converging

\* The steps of an extension.
LEMMA RecoverExtend ==
  ASSUME Shape, Shape', Traced, OneLine, Valid(records), Recoverable, op.kind = "extend",
         PublishImages \/ SyncRows \/ Retire \/ Link \/ SyncTables \/ WriteMeta
  PROVE  Recoverable'
<1> DEFINE b == op.block
<1>1. Growing(b) /\ op' = op /\ pc' \in Publishing /\ journal' = journal
  BY DEF Recoverable, PublishImages, SyncRows, Retire, Link, SyncTables, WriteMeta, Publishing
<1>2. b \in records /\ b \in Blocks /\ op.fork = Height[b] - 1 /\ Height[b] \in Nat /\ b # NoBlock
  BY TreeAssumption DEF Shape, TypeOK, OpOK, Journalled, PublishImages, SyncRows, Retire, Link, SyncTables, WriteMeta, Imaged, Stored, Linked
<1>3. meta \in records \cup {NoBlock} /\ rows \in CoinTable /\ rows' \in CoinTable
  BY DEF Shape, TypeOK
<1>4. CASE PublishImages
  <2>1. pc = "images" /\ pc' = "syncRows" /\ UNCHANGED <<rowsDisk, index, indexDisk, peak, meta>>
        /\ rows' = View!Apply(rows, BranchAbove(b, Height[b] - 1))
    BY <1>2, <1>4 DEF PublishImages
  <2>2. Offspring(b, meta) /\ Height[b] = Base(meta) + 1 /\ Covers(rows, meta) /\ Covers(rowsDisk, meta) /\ Base(meta) \in Int
    BY <1>1, <1>3, <2>1, PeakChain DEF Growing
  <2>3. Height[b] - 1 = Base(meta)
    BY <2>2
  <2>4. Covers(rows', b)
    BY <1>2, <1>3, <2>1, <2>2, <2>3, CoversApply DEF Offspring, Traced
  <2>5. Covers(rows', meta)
    <3>1. CASE meta = NoBlock
      BY <1>3, <3>1, CoversBelow
    <3>2. CASE meta # NoBlock
      <4>1. meta \in ChainOf(b)
        BY <1>2, <1>3, <2>2, <3>2, PeakChain DEF Offspring, ChainOf
      <4> QED BY <1>2, <1>3, <2>4, <4>1, PeakChain
    <3> QED BY <3>1, <3>2
  <2>6. Placed(b, Height[b] - 1)'
    BY <1>1, <2>1, <2>4 DEF Growing, Placed, Covers, UpTo, Imaged, Stored, Linked
  <2>7. Growing(b)'
    BY <1>1, <2>1, <2>2, <2>5, <2>6 DEF Growing, Linked, Offspring, Covers, ChainOf, Base
  <2> QED BY <1>1, <2>7, RecoverPublish
<1>5. CASE SyncRows \/ Retire \/ Link \/ SyncTables \/ WriteMeta
  <2>1. Placed(b, Height[b] - 1)'
    BY <1>1, <1>2, <1>5, PlacedStep DEF Growing
  <2>2. /\ rows' = rows /\ rowsDisk' \in {rows, rowsDisk} /\ pc # "clear"
        /\ (pc' # "clear" => meta' = meta) /\ (pc' \notin Linked => pc \notin Linked /\ peak' = peak)
    BY <1>5 DEF SyncRows, Retire, Link, SyncTables, WriteMeta, files, Linked
  <2>3. Growing(b)'
    BY <1>1, <2>1, <2>2 DEF Growing, Linked, Offspring, Covers, ChainOf, Base
  <2> QED BY <1>1, <2>3, RecoverPublish
<1> QED BY <1>4, <1>5

\* The steps of a reorg.
LEMMA RecoverReorg ==
  ASSUME Shape, Shape', Traced, OneLine, Valid(records), Recoverable, op.kind = "reorg", pc \notin Converging,
         WriteJournal \/ Sweep \/ PublishImages \/ SyncRows \/ Retire \/ Link \/ SyncTables \/ WriteMeta
  PROVE  Recoverable'
<1> DEFINE b == op.block
<1>1. op' = op /\ pc' \in Publishing /\ records' = records
  BY DEF WriteJournal, Sweep, PublishImages, SyncRows, Retire, Link, SyncTables, WriteMeta, Publishing
<1>2. b \in records /\ b \in Blocks /\ Path[b] \subseteq records /\ Valid(Path[b]) /\ Height[b] \in Nat
  BY TreeAssumption DEF Shape, TypeOK, OpOK, Closed, Valid, Journalled, Imaged, Stored, Linked,
       WriteJournal, Sweep, PublishImages, SyncRows, Retire, Link, SyncTables, WriteMeta
<1>3. PICK x \in Blocks : Switching(x, b)
  BY DEF Recoverable
<1>4. /\ x \in Path[b] /\ x \in records /\ op.fork = Height[x] /\ Height[x] \in Nat /\ Height[x] <= Height[b] /\ Height[x] \in Heights
      /\ \A y \in {x, b} : y # NoBlock /\ Base(y) = Height[y] /\ ChainOf(y) = Path[y]
  BY <1>2, <1>3, Paths, HeightsNat, TreeAssumption DEF Switching, Base, ChainOf
<1>5. View!Rollback(CoinsOf(Path[x]), Height[x]) = CoinsOf(Path[x])
      /\ View!Rollback(CoinsOf(Path[b]), Height[x]) = CoinsOf(Path[x])
      /\ View!Rollback(CoinsOf(Path[b]), Height[b]) = CoinsOf(Path[b])
  BY <1>2, <1>4, Paths, RollPrefix DEF Valid
<1> SUFFICES Switching(x, b)'
  BY <1>1, RecoverPublish
<1>6. CASE WriteJournal
  <2>1. pc = "journal" /\ pc' = "sweep" /\ armed' /\ UNCHANGED <<files, peak, meta>> /\ journal' = [fork |-> Height[x], hash |-> x]
    BY <1>3, <1>4, <1>6 DEF WriteJournal, Switching
  <2>2. Covers(rows, x) /\ rowsDisk = rows
    BY <1>3, <1>4, <2>1 DEF Switching, Settled
  <2>3. Cut(x)'
    BY <1>1, <1>4, <2>1, <2>2 DEF Cut, Covers, Base, ChainOf, files
  <2> QED BY <1>1, <1>3, <2>1, <2>3 DEF Switching, Placed, Covers, UpTo, Imaged, Stored, Linked, files
<1>7. CASE Sweep
  <2>1. pc = "sweep" /\ pc' = "images" /\ UNCHANGED <<rowsDisk, index, indexDisk, peak, meta, journal, armed>>
        /\ rows' = View!Rollback(rows, Height[x])
    BY <1>4, <1>7 DEF Sweep
  <2>2. Cut(x) /\ rows' = CoinsOf(Path[x])
    BY <1>3, <1>4, <2>1 DEF Switching, Cut, Covers
  <2>3. Covers(rows', x)
    BY <1>4, <1>5, <2>2 DEF Covers
  <2>4. Cut(x)'
    BY <1>1, <2>1, <2>2, <2>3 DEF Cut, Covers, Base, ChainOf
  <2> QED BY <1>1, <1>3, <2>1, <2>2, <2>4 DEF Switching, Placed, Covers, UpTo, Imaged, Stored, Linked
<1>8. CASE PublishImages
  <2>1. pc = "images" /\ pc' = "syncRows" /\ UNCHANGED <<rowsDisk, index, indexDisk, peak, meta, journal, armed>>
        /\ rows' = View!Apply(CoinsOf(Path[x]), BranchAbove(b, Height[x]))
    BY <1>3, <1>4, <1>8 DEF PublishImages, Switching
  <2>2. BranchAbove(b, Height[x]) = Path[b] \ Path[x]
    BY <1>2, <1>4, Paths DEF BranchAbove
  <2>3. rows' = CoinsOf(Path[b])
    BY <1>2, <1>4, <2>1, <2>2, ApplyRest
  <2>4. Covers(rows', x) /\ Covers(rows', b)
    BY <1>4, <1>5, <2>3 DEF Covers
  <2>5. Cut(x)'
    BY <1>1, <1>3, <2>1, <2>4 DEF Switching, Cut, Covers, Base, ChainOf
  <2> QED BY <1>1, <1>3, <2>1, <2>4, <2>5 DEF Switching, Placed, Covers, UpTo, Imaged, Stored, Linked
<1>9. CASE SyncRows \/ Retire \/ Link \/ SyncTables \/ WriteMeta
  <2>1. Placed(b, Height[x])'
    <3>1. Placed(b, Height[x]) /\ Height[x] \in Int
      BY <1>3, <1>4 DEF Switching
    <3> QED BY <1>1, <1>2, <1>4, <1>9, <3>1, PlacedStep
  <2>2. /\ rows' = rows /\ rowsDisk' \in {rows, rowsDisk} /\ journal' = journal /\ armed' = armed
        /\ pc \notin {"journal"} /\ pc' \notin {"journal", "images"}
    BY <1>9 DEF SyncRows, Retire, Link, SyncTables, WriteMeta, files
  <2>3. Cut(x)'
    BY <1>1, <1>3, <2>2 DEF Switching, Cut, Covers, Base, ChainOf
  <2> QED BY <1>1, <1>3, <2>1, <2>2, <2>3 DEF Switching
<1> QED BY <1>6, <1>7, <1>8, <1>9

\* A publish that ends leaves the store settled.
LEMMA RecoverFinish ==
  ASSUME Shape, Traced, OneLine, Valid(records), Recoverable, FinishPublish
  PROVE  Recoverable'
<1> DEFINE b == op.block
<1>1. pc = "clear" /\ pc' = "idle" /\ op' = Idle /\ UNCHANGED <<files, records, meta, peak>>
  BY DEF FinishPublish
<1>2. b \in records /\ b \in Blocks /\ Height[b] \in Nat /\ Base(b) = Height[b] /\ rows \in CoinTable
      /\ index \in [Heights -> records \cup {NoBlock}]
  BY <1>1, TreeAssumption DEF Shape, TypeOK, OpOK, Journalled, Imaged, Stored, Linked, Base
<1>3. Idle.kind = "none"
  BY DEF Idle
<1>4. Covers(rows, b) /\ rowsDisk = rows /\ UpTo(index, Height[b]) /\ peak = b /\ indexDisk = index /\ meta = b /\ (journal = NoJournal \/ armed)
  <2>1. CASE op.kind = "extend"
    BY <1>1, <2>1 DEF Recoverable, Growing, Placed, Imaged, Stored, Linked
  <2>2. CASE op.kind = "reorg"
    BY <1>1, <2>2 DEF Recoverable, Switching, Placed, Converging, Imaged, Stored, Linked
  <2> QED BY <1>1, <2>1, <2>2 DEF Shape, OpOK
<1>5. journal' = NoJournal
  BY <1>4 DEF FinishPublish, ClearJournal
<1>6. \A h \in Heights : index[h] # NoBlock => Covers(rows, index[h]) /\ h <= Height[b] + 1
  BY <1>2, <1>4, SlotsCovered, HeightsNat DEF UpTo, Traced
<1>7. Settled(peak)'
  BY <1>1, <1>2, <1>4, <1>5, <1>6 DEF Settled, Covers, UpTo, Base, ChainOf, files
<1> QED BY <1>1, <1>3, <1>7 DEF Recoverable, Converging

\* A torn copy of two equal files is the file.
LEMMA MixSame ==
  ASSUME Shape
  PROVE  /\ rowsDisk = rows => \A m \in Mixes(rowsDisk, rows) : m = rows
         /\ indexDisk = index => \A m \in Mixes(indexDisk, index) : m = index
<1>1. rows \in CoinTable /\ index \in [Heights -> records \cup {NoBlock}]
  BY DEF Shape, TypeOK
<1>2. ASSUME rowsDisk = rows, NEW m \in Mixes(rows, rows) PROVE m = rows
  <2>1. m \in CoinTable /\ \A c \in Coins : m[c] = rows[c]
    BY <1>1, MixRows
  <2> QED BY <1>1, <2>1 DEF CoinTable
<1>3. ASSUME indexDisk = index, NEW m \in Mixes(index, index) PROVE m = index
  <2>1. DOMAIN index = Heights
    BY <1>1
  <2>2. m \in [Heights -> {index[x] : x \in Heights} \cup {index[x] : x \in Heights}] /\ \A h \in Heights : m[h] = index[h]
    BY <2>1 DEF Mixes
  <2> QED BY <1>1, <2>2
<1> QED BY <1>2, <1>3

\* A crash leaves a settled store, or one whose journal says how far to trust it.
LEMMA RecoverCrash ==
  ASSUME Shape, Shape', Traced, Traced', OneLine, Valid(records), Recoverable, Crash
  PROVE  Recoverable'
<1>1. /\ rows \in CoinTable /\ rowsDisk \in CoinTable /\ rows' \in CoinTable
      /\ index \in [Heights -> records \cup {NoBlock}] /\ indexDisk \in [Heights -> records \cup {NoBlock}]
      /\ index' \in [Heights -> records \cup {NoBlock}] /\ meta \in records \cup {NoBlock}
  BY DEF Shape, TypeOK, Crash
<1>2. /\ pc' = "down" /\ op' = Idle /\ UNCHANGED <<records, meta, journal>>
      /\ rows' \in Mixes(rowsDisk, rows) /\ rowsDisk' = rows'
      /\ index' \in Mixes(indexDisk, index) /\ indexDisk' = index'
  BY DEF Crash
<1>3. Idle.kind = "none"
  BY DEF Idle
<1>4. \A h \in Heights : index'[h] = indexDisk[h] \/ index'[h] = index[h]
  <2>1. DOMAIN indexDisk = Heights
    BY <1>1
  <2> QED BY <1>2, <2>1 DEF Mixes
<1>5. \A p : Covers(rows, p) /\ Covers(rowsDisk, p) => Covers(rows', p)
  BY <1>1, <1>2, MixRollback DEF Covers
<1>6. Slotted(index')
  BY DEF Traced
<1>7. ASSUME NEW p, Settled(p) PROVE Settled(p)'
  <2>1. rows' = rows /\ index' = index
    BY <1>2, <1>7, MixSame DEF Settled
  <2> QED BY <1>2, <1>7, <2>1 DEF Settled, Covers, UpTo
<1>8. ASSUME NEW x, Cut(x) PROVE Cut(x)'
  <2>1. Covers(rows', x)
    BY <1>5, <1>8 DEF Cut
  <2> QED BY <1>2, <1>8, <2>1 DEF Cut, Covers
<1>9. CASE pc = "idle" \/ pc \in Converging \/ (op.kind = "reorg" /\ pc \notin Converging)
  <2>1. CASE pc = "idle"
    <3>1. Settled(meta)
      BY <2>1 DEF Recoverable, Settled
    <3>2. Settled(meta)'
      BY <1>2, <1>7, <3>1
    <3> QED BY <1>2, <1>3, <3>2 DEF Recoverable, Converging
  <2>2. CASE pc \in Converging
    <3>1. PICK x \in Blocks : Cut(x)
      BY <2>2 DEF Recoverable, Returning
    <3>2. Cut(x)'
      BY <1>8, <3>1
    <3> QED BY <1>2, <1>3, <3>2 DEF Recoverable, Converging
  <2>3. CASE op.kind = "reorg" /\ pc \notin Converging
    <3>1. PICK x \in Blocks : Switching(x, op.block)
      BY <2>3 DEF Recoverable
    <3>2. CASE pc = "journal"
      <4>1. Settled(meta)
        BY <3>1, <3>2 DEF Switching, Settled
      <4>2. Settled(meta)'
        BY <1>2, <1>7, <4>1
      <4> QED BY <1>2, <1>3, <4>2 DEF Recoverable, Converging
    <3>3. CASE pc # "journal"
      <4>1. Cut(x)'
        BY <1>8, <3>1, <3>3 DEF Switching
      <4> QED BY <1>2, <1>3, <4>1 DEF Recoverable, Converging
    <3> QED BY <3>2, <3>3
  <2> QED BY <1>9, <2>1, <2>2, <2>3
<1>10. CASE op.kind = "extend" /\ pc # "idle"
  <2> DEFINE b == op.block
  <2>1. Growing(b) /\ b \in records /\ b \in Blocks /\ b # NoBlock /\ Height[b] \in Nat /\ Base(b) = Height[b] /\ pc \in {"images"} \cup Imaged
    BY <1>10, TreeAssumption DEF Recoverable, Shape, TypeOK, OpOK, Journalled, Imaged, Stored, Linked, Base
  <2>2. Covers(rows', meta)
    <3>1. CASE pc = "clear"
      BY <1>5, <2>1, <3>1 DEF Growing, Placed, Imaged, Stored, Linked
    <3>2. CASE pc # "clear"
      BY <1>5, <2>1, <3>2 DEF Growing
    <3> QED BY <3>1, <3>2
  <2>3. Base(meta) \in Int /\ Height[b] <= Base(meta) + 1
    <3>1. Base(meta) \in Int
      BY <1>1, PeakChain
    <3> QED BY <2>1, <3>1 DEF Growing, Placed
  <2>4. PICK q \in records \cup {NoBlock} : Covers(rows', q) /\ Base(q) <= Base(meta) + 1 /\ UpTo(index, Base(q)) /\ UpTo(indexDisk, Base(q))
    <3>1. CASE pc \in Stored
      <4>1. Covers(rows', b)
        BY <1>5, <2>1, <3>1 DEF Growing, Placed, Imaged
      <4>2. UpTo(index, Height[b]) /\ UpTo(indexDisk, Height[b])
        <5>1. \A ix : UpTo(ix, Height[b] - 1) => UpTo(ix, Height[b])
          BY <2>1, HeightsNat DEF UpTo
        <5> QED BY <2>1, <3>1, <5>1 DEF Growing, Placed, Linked, Stored
      <4> QED BY <2>1, <2>3, <4>1, <4>2
    <3>2. CASE pc \notin Stored
      <4>1. Height[b] - 1 = Base(meta)
        BY <2>1, <2>3, <3>2 DEF Growing, Stored, Linked
      <4>2. UpTo(index, Base(meta)) /\ UpTo(indexDisk, Base(meta))
        BY <2>1, <3>2, <4>1 DEF Growing, Placed, Stored, Linked
      <4> QED BY <1>1, <2>2, <2>3, <4>2
    <3> QED BY <3>1, <3>2
  <2>5. Base(q) \in Int
    BY PeakChain
  <2>6. ASSUME NEW h \in Heights, index'[h] # NoBlock PROVE h <= Base(meta) + 1 /\ Covers(rows', index'[h])
    <3>1. h <= Base(q) /\ h \in Int
      BY <1>4, <2>4, <2>6, HeightsNat DEF UpTo
    <3>2. Covers(rows', index'[h])
      BY <1>1, <1>6, <2>4, <2>6, <3>1, SlotsCovered
    <3> QED BY <2>3, <2>4, <2>5, <3>1, <3>2
  <2>7. journal = NoJournal
    BY <2>1 DEF Growing
  <2>8. Settled(meta)'
    BY <1>2, <2>2, <2>6, <2>7 DEF Settled, Covers, UpTo, Base, ChainOf
  <2> QED BY <1>2, <1>3, <2>8 DEF Recoverable, Converging
<1> QED BY <1>9, <1>10 DEF Crash, Shape, OpOK

\* Opening finds the store settled or starts the convergence.
LEMMA RecoverOpen ==
  ASSUME Shape, Recoverable, Open
  PROVE  Recoverable'
<1>1. pc = "down" /\ peak' = meta /\ UNCHANGED <<files, records, meta, journal>> /\ op = Idle
  BY DEF Open, Shape, TypeOK
<1>2. Idle.kind = "none"
  BY DEF Idle
<1>3. CASE journal = NoJournal
  <2>1. pc' = "idle" /\ op' = op
    BY <1>3 DEF Open
  <2>2. Settled(meta)
    <3>1. ASSUME NEW x \in Blocks, Cut(x) PROVE FALSE
      BY <1>3, <3>1, TreeAssumption DEF Cut, NoJournal
    <3> QED BY <1>1, <3>1 DEF Recoverable
  <2>3. Settled(peak)'
    BY <1>1, <2>2 DEF Settled, Covers, UpTo, Base, ChainOf, files
  <2> QED BY <1>1, <1>2, <2>1, <2>3 DEF Recoverable, Converging
<1>4. CASE journal # NoJournal
  <2>1. pc' = "converge" /\ op' = [block |-> journal.hash, fork |-> journal.fork, kind |-> "reorg"]
    BY <1>4 DEF Open
  <2>2. PICK x \in Blocks : Cut(x)
    BY <1>1, <1>4 DEF Recoverable, Settled
  <2>3. op'.block = x /\ op'.fork = Height[x] /\ op'.kind = "reorg"
    BY <2>1, <2>2 DEF Cut
  <2>4. Returning(x)'
    BY <1>1, <2>1, <2>2, <2>3 DEF Returning, Cut, Covers, files
  <2> QED BY <1>1, <2>1, <2>3, <2>4 DEF Recoverable, Converging
<1> QED BY <1>3, <1>4

\* The convergence settles the store at the block the journal names.
LEMMA RecoverConverge ==
  ASSUME Shape, Traced, OneLine, Valid(records), Recoverable, Converge
  PROVE  Recoverable'
<1>1. pc \in Converging /\ records' = records /\ op.kind = "reorg"
  BY DEF Converge, ConvergeRows, ConvergeSync, ConvergeIndex, ConvergeTables, ConvergeMeta, ConvergeClear, Converging, Shape, OpOK
<1>2. PICK x \in Blocks : Returning(x)
  BY <1>1 DEF Recoverable
<1>3. /\ x \in records /\ Valid(Path[x]) /\ op.block = x /\ op.fork = Height[x] /\ Height[x] \in Nat
      /\ x # NoBlock /\ Base(x) = Height[x] /\ ChainOf(x) = Path[x]
  BY <1>2, Paths, TreeAssumption DEF Returning, Cut, Shape, Closed, Valid, Base, ChainOf
<1>4. View!Rollback(CoinsOf(Path[x]), Height[x]) = CoinsOf(Path[x])
  BY <1>3, Paths, RollPrefix
<1>5. ASSUME op' = op, pc' \in Converging, Returning(x)' PROVE Recoverable'
  BY <1>1, <1>5 DEF Recoverable, Converging
<1>6. CASE ConvergeRows
  <2>1. pc = "converge" /\ pc' = "convergeSync" /\ rows' = CoinsOf(Path[x])
    BY <1>2, <1>3, <1>6 DEF ConvergeRows, Returning, Cut, Covers
  <2>2. Covers(rows', x)
    BY <1>3, <1>4, <2>1 DEF Covers
  <2>3. Returning(x)'
    BY <1>2, <1>6, <2>1, <2>2 DEF ConvergeRows, Returning, Cut, Covers, UpTo
  <2> QED BY <1>5, <1>6, <2>1, <2>3 DEF ConvergeRows, Converging
<1>7. CASE ConvergeSync
  <2>1. Returning(x)'
    BY <1>2, <1>7 DEF ConvergeSync, Returning, Cut, Covers, UpTo
  <2> QED BY <1>5, <1>7, <2>1 DEF ConvergeSync, Converging
<1>8. CASE ConvergeIndex
  <2>1. index' = [h \in Heights |-> IF h > Height[x] THEN NoBlock ELSE index[h]]
    BY <1>3, <1>8 DEF ConvergeIndex, Vacate
  <2>2. UpTo(index', Height[x])
    <3>1. ASSUME NEW h \in Heights, index'[h] # NoBlock PROVE h <= Height[x]
      <4>1. ~(h > Height[x])
        BY <2>1, <3>1
      <4> QED BY <1>3, <4>1, HeightsNat
    <3> QED BY <3>1 DEF UpTo
  <2>3. Returning(x)'
    BY <1>2, <1>3, <1>8, <2>2 DEF ConvergeIndex, Returning, Cut, Covers, UpTo
  <2> QED BY <1>5, <1>8, <2>3 DEF ConvergeIndex, Converging
<1>9. CASE ConvergeTables
  <2>1. Returning(x)'
    BY <1>2, <1>9 DEF ConvergeTables, Returning, Cut, Covers, UpTo
  <2> QED BY <1>5, <1>9, <2>1 DEF ConvergeTables, Converging
<1>10. CASE ConvergeMeta
  <2>1. Returning(x)'
    BY <1>2, <1>10 DEF ConvergeMeta, Returning, Cut, Covers, UpTo, files
  <2> QED BY <1>5, <1>10, <2>1 DEF ConvergeMeta, Converging
<1>11. CASE ConvergeClear
  <2>1. pc = "convergeClear" /\ pc' = "idle" /\ op' = Idle /\ journal' = NoJournal /\ UNCHANGED <<files, meta, peak>>
    BY <1>2, <1>11 DEF ConvergeClear, ClearJournal, Returning
  <2>2. Idle.kind = "none"
    BY DEF Idle
  <2>3. Covers(rows, x) /\ rowsDisk = rows /\ peak = x /\ UpTo(index, Height[x]) /\ indexDisk = index /\ meta = x
    BY <1>2, <2>1 DEF Returning, Cut
  <2>4. rows \in CoinTable /\ index \in [Heights -> records \cup {NoBlock}] /\ Slotted(index)
    BY DEF Shape, TypeOK, Traced
  <2>5. \A h \in Heights : index[h] # NoBlock => Covers(rows, index[h]) /\ h <= Height[x] + 1
    BY <1>3, <2>3, <2>4, SlotsCovered, HeightsNat DEF UpTo
  <2>6. Settled(peak)'
    BY <1>3, <2>1, <2>3, <2>5 DEF Settled, Covers, UpTo, Base, ChainOf, files
  <2> QED BY <2>1, <2>2, <2>6 DEF Recoverable, Converging
<1> QED BY <1>6, <1>7, <1>8, <1>9, <1>10, <1>11 DEF Converge

-----------------------------------------------------------------------------
LineInv ==
  /\ Shape /\ Traced
  /\ OneBranch => Valid(records) /\ (crashes = 0 => Steady) /\ (failures = 0 => Recoverable)

\* The bounds on errors and crashes only count up, and a scenario is for good.
LEMMA CountsUp ==
  ASSUME Shape, [Next]_vars
  PROVE  /\ scenario' = scenario
         /\ (failures' = 0 => failures = 0) /\ (crashes' = 0 => crashes = 0)
         /\ (FailPublish => failures' # 0) /\ (Crash => crashes' # 0)
<1>1. failures \in Nat /\ crashes \in Nat
  BY MmapConstants DEF Shape, TypeOK
<1>2. CASE UNCHANGED vars
  BY <1>1, <1>2 DEF vars, FailPublish, Crash
<1>3. CASE FailPublish \/ Crash
  BY <1>1, <1>3 DEF FailPublish, Crash
<1>4. CASE \E b \in Blocks : BeginExtend(b) \/ ArchiveOrphan(b) \/ BeginReorg(b)
  <2>1. scenario' = scenario /\ failures' = failures /\ crashes' = crashes
    BY <1>4 DEF BeginExtend, ArchiveOrphan, BeginReorg
  <2> QED BY <1>1, <2>1 DEF FailPublish, Crash
<1>5. CASE Publish \/ Open \/ Converge
  <2>1. scenario' = scenario /\ failures' = failures /\ crashes' = crashes
    BY <1>5 DEF Publish, WriteJournal, Sweep, PublishImages, SyncRows, Retire, Link, SyncTables, WriteMeta, FinishPublish,
         Open, Converge, ConvergeRows, ConvergeSync, ConvergeIndex, ConvergeTables, ConvergeMeta, ConvergeClear
  <2> QED BY <1>1, <2>1 DEF FailPublish, Crash
<1> QED BY <1>2, <1>3, <1>4, <1>5 DEF Next

\* On one branch every step keeps the store steady or recoverable.
LEMMA LineStep ==
  ASSUME LineInv, [Next]_vars
  PROVE  LineInv'
<1>1. Shape /\ Traced /\ Shape' /\ Traced'
  BY ShapeStep, TracedStep DEF LineInv
<1> SUFFICES ASSUME OneBranch' PROVE Valid(records)' /\ (crashes' = 0 => Steady') /\ (failures' = 0 => Recoverable')
  BY <1>1 DEF LineInv
<1>2. OneLine /\ Valid(records) /\ (crashes' = 0 => Steady) /\ (failures' = 0 => Recoverable)
  <2>1. OneBranch
    BY <1>1, CountsUp DEF OneBranch
  <2> QED BY <1>1, <2>1, CountsUp DEF LineInv, OneBranch, OneLine
<1>3. failures' = 0 \/ crashes' = 0
  BY DEF OneBranch
<1>4. CASE UNCHANGED vars
  <2>1. Steady => Steady'
    BY <1>4 DEF vars, files, Steady, Covers, ChainOf, UpTo, Base, Offspring
  <2>2. Recoverable => Recoverable'
    BY <1>4 DEF vars, files, Recoverable, Settled, Cut, Growing, Switching, Returning, Placed, Covers, ChainOf, UpTo, Base, Offspring
  <2> QED BY <1>2, <1>4, <2>1, <2>2 DEF vars, Valid
<1>5. CASE \E b \in Blocks : BeginExtend(b) \/ ArchiveOrphan(b) \/ BeginReorg(b)
  <2>1. PICK b \in Blocks : BeginExtend(b) \/ ArchiveOrphan(b) \/ BeginReorg(b)
    BY <1>5
  <2>2. crashes' = 0 => Valid(records)' /\ Steady'
    BY <1>1, <1>2, <2>1, SteadyBegin
  <2>3. failures' = 0 => Valid(records)' /\ Recoverable'
    BY <1>1, <1>2, <2>1, RecoverBegin
  <2> QED BY <1>3, <2>2, <2>3
<1>6. CASE Publish \/ FailPublish
  <2>1. Valid(records)'
    BY <1>2, <1>6 DEF Publish, FailPublish, WriteJournal, Sweep, PublishImages, SyncRows, Retire, Link, SyncTables, WriteMeta, FinishPublish, Valid
  <2>2. crashes' = 0 => Steady'
    BY <1>1, <1>2, <1>6, SteadyStep
  <2>3. ASSUME failures' = 0 PROVE Recoverable'
    <3>1. Publish /\ Recoverable
      BY <1>1, <1>2, <1>6, <2>3, CountsUp
    <3>2. CASE FinishPublish
      BY <1>1, <1>2, <3>1, <3>2, RecoverFinish
    <3>3. CASE ~FinishPublish
      <4>1. pc \in Publishing /\ pc \notin Converging /\ (WriteJournal \/ Sweep => pc \in {"journal", "sweep"})
        BY <3>1, <3>3 DEF Publish, WriteJournal, Sweep, PublishImages, SyncRows, Retire, Link, SyncTables, WriteMeta, Publishing, Converging
      <4>2. op.kind = "reorg" \/ (op.kind = "extend" /\ pc \notin {"journal", "sweep"})
        BY <1>1, <4>1 DEF Shape, OpOK, Publishing, Journalled, Imaged, Stored, Linked
      <4> QED BY <1>1, <1>2, <3>1, <3>3, <4>1, <4>2, RecoverExtend, RecoverReorg DEF Publish
    <3> QED BY <3>2, <3>3
  <2> QED BY <2>1, <2>2, <2>3
<1>7. CASE Crash
  <2>1. crashes' # 0 /\ records' = records
    BY <1>1, <1>7, CountsUp DEF Crash
  <2>2. Recoverable
    BY <1>2, <1>3, <2>1
  <2>3. Recoverable'
    BY <1>1, <1>2, <1>7, <2>2, RecoverCrash
  <2> QED BY <1>2, <2>1, <2>3 DEF Valid
<1>8. CASE Open \/ Converge
  <2>1. records' = records /\ pc \notin {"idle"} \cup Publishing
    BY <1>8 DEF Open, Converge, ConvergeRows, ConvergeSync, ConvergeIndex, ConvergeTables, ConvergeMeta, ConvergeClear, Publishing
  <2>2. crashes' # 0
    BY <1>2, <2>1 DEF Steady
  <2>3. Recoverable
    BY <1>2, <1>3, <2>2
  <2>4. Recoverable'
    BY <1>1, <1>2, <1>8, <2>3, RecoverOpen, RecoverConverge
  <2> QED BY <1>2, <2>1, <2>2, <2>4 DEF Valid
<1> QED BY <1>4, <1>5, <1>6, <1>7, <1>8 DEF Next

\* The empty store is both.
LEMMA LineInit == Init => LineInv
<1> SUFFICES ASSUME Init PROVE LineInv
  OBVIOUS
<1>1. Shape /\ rows \in CoinTable
  BY ShapeInit DEF Shape, TypeOK
<1>2. Covers(rows, NoBlock)
  BY <1>1, CoversBelow
<1>3. Traced
  <2>1. \A c \in Coins : CoinsOf({})[c] = Absent
    BY DEF CoinsOf, AddedBy
  <2> QED BY <2>1 DEF Init, Traced, FromRecords, Slotted
<1>4. Steady
  BY <1>2 DEF Init, Steady, UpTo, ChainOf, Publishing, Imaged, Stored, Linked
<1>5. Idle.kind = "none"
  BY DEF Idle
<1>6. Recoverable
  BY <1>2, <1>5 DEF Init, Recoverable, Settled, UpTo, Converging
<1> QED BY <1>1, <1>3, <1>4, <1>6 DEF LineInv, Valid, Init

\* What a restart finds without a journal is right up to the durable peak: after
\* torn reorgs, and on one branch after torn extensions or survived errors too.
THEOREM CoinsUpTo == Spec => []CoinsUpToPeak
<1>1. LineInv /\ [Next]_vars => LineInv'
  BY LineStep
<1>2. Spec => []LineInv
  BY <1>1, LineInit, PTL DEF Spec
<1>3. StoreInv /\ LineInv => CoinsUpToPeak
  <2> SUFFICES ASSUME StoreInv, LineInv, Undisturbed \/ OneBranch, pc \in {"idle", "down"}, journal = NoJournal
               PROVE  Covers(rows, meta)
    BY DEF CoinsUpToPeak, Covers, Base
  <2>1. Shape /\ rows \in CoinTable /\ meta \in records \cup {NoBlock} /\ peak \in records \cup {NoBlock}
    BY DEF StoreInv, Shape, TypeOK
  <2>2. CASE Undisturbed
    <3>1. Sound /\ Valid(records)
      BY <2>2 DEF StoreInv, Sound
    <3>2. Rest(meta)
      <4>1. ASSUME NEW x \in Blocks, Torn(x) PROVE FALSE
        BY <4>1, TreeAssumption DEF Torn, NoJournal
      <4> QED BY <3>1, <4>1 DEF Sound, Rest
    <3>3. CASE meta = NoBlock
      BY <2>1, <3>3, CoversBelow
    <3>4. CASE meta # NoBlock
      <4>1. meta \in Blocks /\ ChainOf(meta) = Path[meta] /\ Base(meta) = Height[meta] /\ Valid(Path[meta]) /\ meta \in Path[meta]
        BY <2>1, <3>1, <3>4, Paths DEF Shape, TypeOK, Closed, Valid, ChainOf, Base
      <4>2. rows = CoinsOf(Path[meta])
        BY <3>2, <4>1 DEF Rest
      <4> QED BY <4>1, <4>2, RollPrefix DEF Covers
    <3> QED BY <3>3, <3>4
  <2>3. CASE OneBranch /\ failures = 0
    <3>1. Recoverable
      BY <2>3 DEF LineInv
    <3>2. ASSUME NEW x \in Blocks, Cut(x) PROVE FALSE
      BY <3>2, TreeAssumption DEF Cut, NoJournal
    <3> QED BY <3>1, <3>2 DEF Recoverable, Settled
  <2>4. CASE OneBranch /\ crashes = 0
    <3>1. Steady /\ Valid(records)
      BY <2>4 DEF LineInv
    <3>2. CASE meta = NoBlock
      BY <2>1, <3>2, CoversBelow
    <3>3. CASE meta # NoBlock
      BY <2>1, <3>1, <3>3, PeakChain DEF Steady
    <3> QED BY <3>2, <3>3
  <2> QED BY <2>2, <2>3, <2>4 DEF OneBranch
<1> QED BY <1>2, <1>3, StoreInductive, PTL
=============================================================================
