---------------------------- MODULE MCBlockQueue ----------------------------
(* The queue alone, under any callers, on a small height range. *)
EXTENDS BlockQueue

CONSTANT MaxRebases

\* Bound on the otherwise unbounded generation counter.
RebaseBound == generation <= MaxRebases
=============================================================================
