-------------------------------- MODULE Ledger --------------------------------
(***************************************************************************)
(* What the node promises its readers: at every moment, across crashes,    *)
(* store failures and forks, one chain from genesis and exactly the coins  *)
(* that replaying it gives; the chain only ever changes to a heavier one.  *)
(***************************************************************************)
EXTENDS BlockTree

VARIABLES
  tip,    \* the block the confirmed chain ends in
  table   \* the coin table

ledgerVars == <<tip, table>>

LInit == tip = NoBlock /\ table = CoinsOf({})

\* The whole chain up to b becomes the confirmed one, in one step.
Adopt(b) ==
  /\ tip # NoBlock => Weight[b] > Weight[tip]
  /\ \A x \in Path[b] : SpendsValid(x)
  /\ tip' = b
  /\ table' = CoinsOf(Path[b])

LNext == \E b \in Blocks : Adopt(b)

LSpec == LInit /\ [][LNext]_ledgerVars
=============================================================================
