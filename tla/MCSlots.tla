------------------------------- MODULE MCSlots -------------------------------
(***************************************************************************)
(* Sub-slots of three iterations.  g is in the first; a and, on a heavier  *)
(* branch, b are in the second; o overflows from the second into the third *)
(* on top of b.  The bundles e2a and e2b end the second slot behind the    *)
(* block they are named for and share their challenge chain; e3a ends an   *)
(* empty third slot behind e2a.                                            *)
(***************************************************************************)
EXTENDS Slots

MCBlocks == {"g", "a", "b", "o"}
MCParent == [g |-> None, a |-> "g", b |-> "g", o |-> "b"]
MCWeight == [g |-> 1, a |-> 2, b |-> 3, o |-> 4]
MCIters == [g |-> 1, a |-> 4, b |-> 5, o |-> 7]
MCOverflow == {"o"}

Bundle(cc, rc, hash) == [cc |-> cc, rc |-> rc, hash |-> hash]
MCBundles == [e1 |-> Bundle(GENESIS, "g", "s1"),
              e2a |-> Bundle("s1", "a", "s2"), e2b |-> Bundle("s1", "b", "s2"),
              e3a |-> Bundle("s2", "e2a", "s3")]
MCFinished == [g |-> <<>>, a |-> <<"e1">>, b |-> <<"e1">>, o |-> <<"e2b">>]

Point(cc, index, rc) == [cc |-> cc, index |-> index, rc |-> rc]
MCPoints == {Point("s2", 1, "e2a"), Point("s2", 2, "o"), Point("s3", 1, "e3a")}
=============================================================================
