----------------------------- MODULE MCSessions -----------------------------
(* Sessions for TLC.                                                       *)
EXTENDS Sessions, TLC

PoolSymmetry == Permutations(Requests) \cup Permutations(Tokens)
=============================================================================
