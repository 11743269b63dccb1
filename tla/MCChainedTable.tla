--------------------------- MODULE MCChainedTable ---------------------------
(***************************************************************************)
(* Three keys in two buckets.                                              *)
(***************************************************************************)
EXTENDS ChainedTable

MCBucket == [k1 |-> 1, k2 |-> 1, k3 |-> 2]
=============================================================================
