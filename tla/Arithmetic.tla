---------------------------- MODULE Arithmetic ------------------------------
(* What the engines compute with besides the operators of Integers: sums over  *)
(* sets are SumFunction and SumFunctionOnSet, powers the function below.       *)
EXTENDS Integers, FiniteSetsExt, Sequences

\* b ** n for a natural number n.
Power(b, n) == LET p[k \in 0..n] == IF k = 0 THEN 1 ELSE b * p[k - 1] IN p[n]
=============================================================================
