----------------------------- MODULE MCPdEngine -----------------------------
(* PdEngine for TLC.                                                       *)
EXTENDS PdEngine, TLC
CONSTANTS l1, l2
Quarter == <<31, 28, 31>>
OncePerMonth == {<<1, 28>>, <<2, 28>>, <<3, 31>>}
MonthEnds == {<<1, 31>>, <<2, 28>>}
Amounts == (l1 :> 1) @@ (l2 :> 2)
OneLoanTwice == {l1} \X OncePerMonth
NoOther == {}
=============================================================================
