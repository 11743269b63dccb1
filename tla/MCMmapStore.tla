----------------------------- MODULE MCMmapStore -----------------------------
(***************************************************************************)
(* The mapped store under a fork at genesis, and on one branch alone:      *)
(*                                                                         *)
(*      g --- a1 --- a2 --- a3 --- a4                                      *)
(*       \- b1 --- b2 --- b3                                               *)
(*                                                                         *)
(* b2 outweighs a3 from a lower height, and a4 outweighs b3, so a chain    *)
(* can be left and taken up again.  ca is created on both branches, cb     *)
(* only on b; c0 is spent on both, at different heights.                   *)
(***************************************************************************)
EXTENDS MmapStore, TLC

CONSTANTS g, a1, a2, a3, a4, b1, b2, b3, c0, ca, cb

MCBlocks == {g, a1, a2, a3, a4, b1, b2, b3}
Fork == {g, a1, a2, b1, b2}
Line == {g, a1, a2, a3}

Scenario(blocks, tears, failures_, crashes_) ==
  [blocks |-> blocks, tears |-> tears, failures |-> failures_, crashes |-> crashes_]

\* A reorg torn twice, its convergence included; reorgs back and forth of which
\* one is torn; the extensions of one branch torn three times; and two errors
\* survived on one branch.
Held == {Scenario(Fork, {"reorg"}, 0, 2), Scenario(MCBlocks, {"reorg"}, 0, 1),
         Scenario(Line, {"extend", "reorg"}, 0, 3), Scenario(Line, {"extend", "reorg"}, 2, 0)}

TornReorg == {Scenario(Fork, {"reorg"}, 0, 1)}

Above(b) == CASE b \in {a1, b1} -> {g} [] b = a2 -> {g, a1} [] b = a3 -> {g, a1, a2}
              [] b = a4 -> {g, a1, a2, a3} [] b = b2 -> {g, b1} [] b = b3 -> {g, b1, b2} [] OTHER -> {}

MCPath == [b \in Blocks |-> {b} \cup Above(b)]
MCHeight == [b \in Blocks |-> Cardinality(Above(b))]
MCParent == [b \in Blocks |->
  IF b = g THEN g ELSE CHOOSE x \in Above(b) : Cardinality(Above(x)) + 1 = Cardinality(Above(b))]
MCWeight == [b \in Blocks |->
  CASE b = g -> 1 [] b \in {a1, b1} -> 2 [] b = a2 -> 3 [] b = a3 -> 4 [] b = b2 -> 5 [] b = b3 -> 6 [] b = a4 -> 7]

MCCoins == {c0, ca, cb}
MCAdds == [b \in Blocks |-> CASE b = g -> {c0} [] b = a1 -> {ca} [] b = b1 -> {cb} [] b = b2 -> {ca} [] OTHER -> {}]
MCRemoves == [b \in Blocks |-> CASE b = a1 -> {c0} [] b = a2 -> {ca} [] b = b2 -> {c0, cb} [] OTHER -> {}]
=============================================================================
