---------------------------- MODULE MCRunInputs ----------------------------
(* RunInputs for TLC.                                                      *)
EXTENDS RunInputs, TLC

RequestSymmetry == Permutations(Requests)

RunSymmetry == Permutations(Runs)

Undisturbed == abandoned \cup raced = {}
=============================================================================
