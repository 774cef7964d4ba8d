--------------------------- MODULE MCEmailOutbox ---------------------------
(* EmailOutbox for TLC.                                                    *)
EXTENDS EmailOutbox, TLC

PollerSymmetry == Permutations(Pollers)
=============================================================================
