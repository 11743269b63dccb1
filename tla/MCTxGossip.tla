------------------------------ MODULE MCTxGossip ------------------------------
(***************************************************************************)
(* x and y spend the same coin, and x pays more; y has a time lock.  Local *)
(* clients submit these and z.  Peers announce z and w, which is invalid,  *)
(* at true prices but for b, which lies about the cost of z and claims     *)
(* none for w.                                                             *)
(*                                                                         *)
(* The scenarios: gossip that fills the lanes, with a loss of sync; a body *)
(* and a loss of sync beside the wallet; and two clients, with a reorg, an *)
(* expiry or an eviction.                                                  *)
(***************************************************************************)
EXTENDS TxGossip

Ad(fee, cost) == [fee |-> fee, cost |-> cost]
Never == Ad(0, MaxBlockCost + 1)   \* more than a block holds: ignored

MCPrice == [x |-> Ad(6, 2), y |-> Ad(5, 2), z |-> Ad(4, 2), w |-> Ad(3, 1)]
MCAdvert == [p \in Peers |-> [n \in Txs |->
              CASE n \in {"x", "y"}   -> Never
                [] p = "b" /\ n = "z" -> Ad(4, 5)
                [] p = "b" /\ n = "w" -> Ad(3, 0)
                [] OTHER              -> MCPrice[n]]]

MCRivals == {<<"x", "y">>, <<"y", "x">>}
MCBeats == {<<"x", "y">>}

Scenario(ads, flips, drops, clients) ==
  [ads |-> ads, flips |-> flips, drops |-> drops, clients |-> clients]
MCScenarios == {Scenario(4, 1, 0, {}), Scenario(1, 1, 0, {"wallet"}), Scenario(0, 0, 1, {"rpc", "wallet"})}
=============================================================================
