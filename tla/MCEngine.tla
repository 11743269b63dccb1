------------------------------ MODULE MCEngine ------------------------------
(***************************************************************************)
(* The engine on a tree with a fork at genesis and one at height 1:        *)
(*                                                                         *)
(*      g --- a1 --- a2 --- a3                                             *)
(*       \      \      \--- e3                                             *)
(*        \      \-- d2                                                    *)
(*         \- b1 --- b2 --- b3                                             *)
(*                                                                         *)
(* a1 and b1 weigh the same; b2 outweighs a3, so branch b wins while it is *)
(* the shorter one, and e3 outweighs everything, so the chain can come     *)
(* back.  d2 spends what a1 already spent: it has to be refused wherever   *)
(* the chain stands.  c0 and c1 are spent on both branches, ca is created  *)
(* on both, cb only on b.                                                  *)
(***************************************************************************)
EXTENDS Engine, TLC

CONSTANTS g, a1, a2, a3, b1, b2, b3, d2, e3, c0, c1, ca, cb

MCBlocks == {g, a1, a2, a3, b1, b2, b3, d2, e3}
MCParent == (g :> g) @@ (a1 :> g) @@ (a2 :> a1) @@ (a3 :> a2) @@
            (b1 :> g) @@ (b2 :> b1) @@ (b3 :> b2) @@ (d2 :> a1) @@ (e3 :> a2)
MCHeight == (g :> 0) @@ (a1 :> 1) @@ (a2 :> 2) @@ (a3 :> 3) @@
            (b1 :> 1) @@ (b2 :> 2) @@ (b3 :> 3) @@ (d2 :> 2) @@ (e3 :> 3)
MCWeight == (g :> 1) @@ (a1 :> 2) @@ (a2 :> 3) @@ (a3 :> 4) @@
            (b1 :> 2) @@ (b2 :> 5) @@ (b3 :> 6) @@ (d2 :> 4) @@ (e3 :> 7)
MCPath == (g :> {g}) @@ (a1 :> {g, a1}) @@ (a2 :> {g, a1, a2}) @@ (a3 :> {g, a1, a2, a3}) @@
          (b1 :> {g, b1}) @@ (b2 :> {g, b1, b2}) @@ (b3 :> {g, b1, b2, b3}) @@
          (d2 :> {g, a1, d2}) @@ (e3 :> {g, a1, a2, e3})

MCCoins == {c0, c1, ca, cb}
MCAdds == (g :> {c0, c1}) @@ (a1 :> {ca}) @@ (a2 :> {}) @@ (a3 :> {}) @@
          (b1 :> {cb}) @@ (b2 :> {ca}) @@ (b3 :> {}) @@ (d2 :> {}) @@ (e3 :> {})
MCRemoves == (g :> {}) @@ (a1 :> {c0}) @@ (a2 :> {ca}) @@ (a3 :> {c1}) @@
             (b1 :> {}) @@ (b2 :> {c1}) @@ (b3 :> {cb, c0}) @@ (d2 :> {c0}) @@ (e3 :> {c1})
=============================================================================
