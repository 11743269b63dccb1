------------------------------ MODULE MCTxIntake ------------------------------
(***************************************************************************)
(* Two branches above a common block: a1-a2 and the heavier a1-b2-b3,      *)
(* where b2 is not a transaction block.  A singleton s0-s1 moves on to s2  *)
(* on the first branch, which also has coin d, and is melted on the        *)
(* second, where c1 is spent too.                                          *)
(***************************************************************************)
EXTENDS TxIntake

MCBlocks == {"g", "a1", "a2", "b2", "b3"}
MCParent == [g |-> "g", a1 |-> "g", a2 |-> "a1", b2 |-> "a1", b3 |-> "b2"]
MCHeight == [g |-> 0, a1 |-> 1, a2 |-> 2, b2 |-> 2, b3 |-> 3]
MCWeight == [g |-> 1, a1 |-> 2, a2 |-> 3, b2 |-> 4, b3 |-> 5]
MCPath == [g |-> {"g"}, a1 |-> {"g", "a1"}, a2 |-> {"g", "a1", "a2"},
           b2 |-> {"g", "a1", "b2"}, b3 |-> {"g", "a1", "b2", "b3"}]
MCStamp == [g |-> 10, a1 |-> 20, a2 |-> 30, b2 |-> 0, b3 |-> 45]

MCCoins == {"c1", "c2", "c3", "d", "s0", "s1", "s2"}
MCAdds == [g |-> {"c1", "c2", "c3", "s0"}, a1 |-> {"s1"}, a2 |-> {"s2", "d"}, b2 |-> {}, b3 |-> {}]
MCRemoves == [g |-> {}, a1 |-> {"s0"}, a2 |-> {"s1"}, b2 |-> {}, b3 |-> {"c1", "s1"}]
MCPuzzle == [c \in MCCoins |-> IF c \in {"s0", "s1", "s2"} THEN "singleton" ELSE "plain"]
MCParentCoin == [c \in MCCoins |-> CASE c = "s1" -> "s0" [] c = "s2" -> "s1" [] OTHER -> NoCoin]

\* The block processor and the tip follower report alike.
FollowerSymmetry == Permutations(Followers)

Plain(spends, cost, fee, locks) ==
  [spends |-> spends, creates |-> {}, cost |-> cost, fee |-> fee, locks |-> locks,
   ff |-> {}, dedup |-> {}, solution |-> [c \in spends |-> "only"]]

\* p and r spend c1, r beside the branch's coin and at the better rate; x is
\* locked to height 2 and expires at 3; f fast-forwards the singleton beside c3;
\* the signature of v is wrong.
MCBundle ==
  [v |-> Plain({"c3"}, 1, 1, <<>>),
   p |-> Plain({"c1"}, 2, 4, <<>>),
   r |-> Plain({"c1", "d"}, 3, 12, <<>>),
   x |-> Plain({"c2"}, 3, 9, <<[kind |-> "height", coin |-> Absolute, at |-> 2],
                              [kind |-> "before_height", coin |-> "c2", at |-> 3]>>),
   f |-> [Plain({"s0", "c3"}, 3, 3, <<>>) EXCEPT !.ff = {"s0"}]]
=============================================================================
