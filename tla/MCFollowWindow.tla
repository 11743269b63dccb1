--------------------------- MODULE MCFollowWindow ---------------------------
(***************************************************************************)
(* Windows over a fork at genesis:                                         *)
(*                                                                         *)
(*      g --- a1 --- d2 --- d3                                             *)
(*       \- b1 --- b2 --- b3                                               *)
(*                                                                         *)
(* b1 weighs as much as a1, b2 more.  d2 spends what a1 spent: a window    *)
(* that holds it is cut there, and d3 is refused with it.  c0 is spent on  *)
(* both branches, ca is created on both; b2 and b3 spend what their        *)
(* parents create.                                                         *)
(***************************************************************************)
EXTENDS FollowWindow, TLC

CONSTANTS g, a1, b1, b2, d2, d3, b3, c0, ca, cb

MCBlocks == {g, a1, b1, b2, d2, d3, b3}
MCParent == (g :> g) @@ (a1 :> g) @@ (b1 :> g) @@ (b2 :> b1) @@ (d2 :> a1) @@ (d3 :> d2) @@ (b3 :> b2)
MCHeight == (g :> 0) @@ (a1 :> 1) @@ (b1 :> 1) @@ (b2 :> 2) @@ (d2 :> 2) @@ (d3 :> 3) @@ (b3 :> 3)
MCWeight == (g :> 1) @@ (a1 :> 2) @@ (b1 :> 2) @@ (b2 :> 4) @@ (d2 :> 4) @@ (d3 :> 5) @@ (b3 :> 5)
MCPath == [b \in MCBlocks |-> {g, b} \cup (CASE b = d2 -> {a1} [] b = d3 -> {a1, d2} [] b = b2 -> {b1} [] b = b3 -> {b1, b2} [] OTHER -> {})]

MCCoins == {c0, ca, cb}
MCAdds == (g :> {c0}) @@ (a1 :> {ca}) @@ (b1 :> {cb}) @@ (b2 :> {ca}) @@ (d2 :> {}) @@ (d3 :> {}) @@ (b3 :> {})
MCRemoves == (g :> {}) @@ (a1 :> {c0}) @@ (b1 :> {}) @@ (b2 :> {c0, cb}) @@ (d2 :> {c0}) @@ (d3 :> {}) @@ (b3 :> {ca})
=============================================================================
