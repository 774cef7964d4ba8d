------------------------------ MODULE Calendar ------------------------------
(* The dates of the uploaded workbooks, as far as the engines tell them apart: *)
(* pairs <<month, day>>, with months counted from the first one of the book.   *)
EXTENDS Arithmetic

CONSTANTS MonthDays,   \* the length of each month of the book
          MaxPdMonth   \* MAX_PD_MONTH: the months ahead a default is priced for

ASSUME MonthDaysAssumption == MonthDays \in Seq(28..31) /\ MaxPdMonth \in Nat

\* d + pandas.DateOffset(months=k): the same day k months later, or the last
\* day of that month when it is shorter.  Months outside the book have 31 days.
AddMonths(d, k) ==
    LET m == d[1] + k
    IN  <<m, IF m \in DOMAIN MonthDays THEN Min({d[2], MonthDays[m]}) ELSE d[2]>>

\* d <= e
NotAfter(d, e) == d[1] < e[1] \/ (d[1] = e[1] /\ d[2] <= e[2])

\* The whole months from d to e, whatever their days (_months_between).
MonthsBetween(d, e) == e[1] - d[1]
=============================================================================
