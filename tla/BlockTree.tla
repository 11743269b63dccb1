------------------------------ MODULE BlockTree ------------------------------
(***************************************************************************)
(* The blocks the network can deliver, as a tree, with the coins each      *)
(* creates and spends.  A block stands for its BlockRecord (parent, height *)
(* and weight) and its BlockDelta (additions and removals): what engine.rs *)
(* reads of a FullBlock once the block is derived.                         *)
(***************************************************************************)
EXTENDS Integers, FiniteSets

CONSTANTS
  Blocks, Genesis,
  Parent,          \* prev_hash; Parent[Genesis] is not used
  Height, Weight,  \* of each block
  Path,            \* Path[b]: b and all its ancestors
  Coins,           \* coin names
  Adds, Removes    \* coins a block creates and spends

NoBlock == "none"  \* the value of a peak that is not there

ASSUME TreeAssumption ==
  /\ Genesis \in Blocks /\ NoBlock \notin Blocks
  /\ Parent \in [Blocks -> Blocks]
  /\ Height \in [Blocks -> Nat] /\ Height[Genesis] = 0
  /\ Weight \in [Blocks -> Nat]
  /\ Path \in [Blocks -> SUBSET Blocks]
  /\ Path[Genesis] = {Genesis}
  /\ \A b \in Blocks \ {Genesis} :
       /\ Height[b] = Height[Parent[b]] + 1
       /\ Weight[b] > Weight[Parent[b]]
       /\ Path[b] = Path[Parent[b]] \cup {b}

\* Paths are linear: along one, a block is its height, a later block is
\* heavier, and the path of a member is the part of the path up to it.
ASSUME PathAssumption ==
  \A b \in Blocks : \A x \in Path[b] :
    /\ Path[x] = {y \in Path[b] : Height[y] <= Height[x]}
    /\ \A y \in Path[b] : Height[y] = Height[x] => y = x
    /\ Height[x] <= Height[b]
    /\ x # b => Weight[x] < Weight[b]
    /\ Genesis \in Path[b]

\* A coin's name is a hash over the spend that creates it, so along one chain
\* it is created once.  The genesis block spends nothing.
ASSUME CoinAssumption ==
  /\ Adds \in [Blocks -> SUBSET Coins]
  /\ Removes \in [Blocks -> SUBSET Coins]
  /\ Removes[Genesis] = {}
  /\ \A b \in Blocks : \A x, y \in Path[b] : Adds[x] \cap Adds[y] # {} => x = y

-----------------------------------------------------------------------------
\* The coins created, and spent, by a set of blocks.
AddedBy(S) == UNION {Adds[x] : x \in S}
RemovedBy(S) == UNION {Removes[x] : x \in S}

\* The height of the highest block of a non-empty set S.
TopHeight(S) == CHOOSE h \in {Height[x] : x \in S} : \A y \in S : Height[y] <= h

\* A block is consistent with its own ancestry: what it spends was created on
\* its path and not spent before.
SpendsValid(b) ==
  \A c \in Removes[b] :
    /\ c \in AddedBy(Path[b])
    /\ c \notin RemovedBy(Path[b] \ {b})

\* The coin table: a row is absent, or says where a coin was created and spent.
Absent == [created |-> -1, spent |-> 0]

CoinTable == [Coins -> {Absent} \cup [created : Nat, spent : Nat]]

\* The table that replaying a set of blocks, one path, produces.
CoinsOf(S) ==
  [c \in Coins |->
     IF c \notin AddedBy(S) THEN Absent
     ELSE [created |-> TopHeight({x \in S : c \in Adds[x]}),
           spent |-> IF c \in RemovedBy(S) THEN TopHeight({x \in S : c \in Removes[x]}) ELSE 0]]
=============================================================================
