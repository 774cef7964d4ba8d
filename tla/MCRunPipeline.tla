--------------------------- MODULE MCRunPipeline ---------------------------
(* RunPipeline for TLC.                                                    *)
EXTENDS RunPipeline, TLC

RequestSymmetry == Permutations(Requests)

NoOverlap == ~overlapped

=============================================================================
