--------------------------- MODULE MCBlockAssembly ---------------------------
(***************************************************************************)
(* One chain g-a1-a2 on which a singleton moves on from s0 to s1 and s2.   *)
(***************************************************************************)
EXTENDS BlockAssembly

MCBlocks == {"g", "a1", "a2"}
MCParent == [g |-> "g", a1 |-> "g", a2 |-> "a1"]
MCHeight == [g |-> 0, a1 |-> 1, a2 |-> 2]
MCWeight == [g |-> 1, a1 |-> 2, a2 |-> 3]
MCPath == [g |-> {"g"}, a1 |-> {"g", "a1"}, a2 |-> {"g", "a1", "a2"}]
MCStamp == [g |-> 10, a1 |-> 20, a2 |-> 30]

MCCoins == {"c1", "c2", "c3", "c4", "c5", "c6", "d", "s0", "s1", "s2"}
MCAdds == [g |-> {"c1", "c2", "c3", "c4", "c5", "c6", "d", "s0"}, a1 |-> {"s1"}, a2 |-> {"s2"}]
MCRemoves == [g |-> {}, a1 |-> {"s0"}, a2 |-> {"s1"}]
MCPuzzle == [c \in MCCoins |-> IF c \in {"s0", "s1", "s2"} THEN "singleton" ELSE "plain"]
MCParentCoin == [c \in MCCoins |-> CASE c = "s1" -> "s0" [] c = "s2" -> "s1" [] OTHER -> NoCoin]

Spending(spends, cost, fee) ==
  [spends |-> spends, creates |-> {}, cost |-> cost, fee |-> fee, locks |-> <<>>,
   ff |-> {}, dedup |-> {}, solution |-> [c \in spends |-> "same"]]

\* k and l spend d alike, k at the better rate; f, h and e fast-forward the
\* singleton, f and e with a spend that may be merged; q spends s1 too, with
\* another solution, and can be moved on to spending it twice.
MCBundle ==
  [p |-> Spending({"c1"}, 4, 16),
   k |-> [Spending({"c2", "d"}, 4, 12) EXCEPT !.dedup = {"d"}],
   l |-> [Spending({"c3", "d"}, 3, 3) EXCEPT !.dedup = {"d"}],
   f |-> [Spending({"s0", "c4"}, 2, 4) EXCEPT !.ff = {"s0"}, !.dedup = {"s0"}],
   h |-> [Spending({"s0", "c5"}, 4, 10) EXCEPT !.ff = {"s0"}],
   e |-> [Spending({"s0", "c6"}, 3, 15) EXCEPT !.ff = {"s0"}, !.dedup = {"s0"}],
   q |-> [Spending({"s0", "s1"}, 2, 3) EXCEPT !.ff = {"s0"}, !.dedup = {"s1"},
                                              !.solution = [c \in {"s0", "s1"} |-> "other"]]]
=============================================================================
