------------------------------ MODULE PdEngine ------------------------------
(* compute_pd (app/engine/pd_engine.py) for one segment: the staging history   *)
(* of the loans becomes a matrix of monthly transitions weighted by loan       *)
(* amount, and the powers of that matrix the cumulative and marginal           *)
(* probabilities of default that the EAD step looks up.                        *)
(*                                                                             *)
(* Probabilities are exact: after m months the entries of the matrix are       *)
(* integers over scale^m, scale being the product of the row totals.           *)
EXTENDS Calendar

CONSTANTS Loans, Dates,
          Amount,     \* the amount of each loan
          Extra       \* the rows a second uploaded file may hold

Stages == 1..3
Offbooks == 4
Absent == 0

ASSUME PdAssumption ==
    /\ Amount \in [Loans -> Nat]
    /\ Dates \subseteq {<<m, d>> : m \in DOMAIN MonthDays, d \in 1..31}
    /\ Extra \subseteq Loans \X Dates
    /\ IsFiniteSet(Loans) /\ IsFiniteSet(Dates)

VARIABLES files,    \* the uploaded files, in the order they are combined
          step,     \* the step compute_pd has reached
          history,  \* Loans x Dates -> the stage kept for that key
          matrix,   \* the aggregate 3 x 3 matrix of amounts
          cure,     \* the cure rate, over the total of the third row
          month, power,     \* matrix_power(normalized, month), over scale^month
          cumulative,       \* Stage_3_prob of each month so far, over scale^month
          marginal          \* Marginal_PD of each month, a fraction <<num, den>>
pdVars == <<files, step, history, matrix, cure, month, power, cumulative, marginal>>

Keys == Loans \X Dates
Histories == [Keys -> Stages \cup {Absent}]
Zero == [i \in Stages |-> [j \in Stages |-> 0]]

RowTotal(m, i) == m[i][1] + m[i][2] + m[i][3]

PdInit ==
    /\ \E first \in Histories : \E e \in [Extra -> Stages \cup {Absent}] :
          /\ \E k \in Keys : first[k] # Absent
          /\ Cardinality({k \in Extra : e[k] # Absent}) <= 1
          /\ files = <<first, [k \in Keys |-> IF k \in Extra THEN e[k] ELSE Absent]>>
    /\ step = "combine"
    /\ history = [k \in Keys |-> Absent]
    /\ matrix = Zero /\ power = Zero
    /\ cure = 0 /\ month = 0
    /\ cumulative = <<>> /\ marginal = <<>>

-----------------------------------------------------------------------------
(* Steps 1 to 4: from the rows to the aggregate matrix. *)

\* drop_duplicates(keep="first"): of the rows for one key, the earlier file's.
FirstRow(k) == IF files[1][k] # Absent THEN files[1][k] ELSE files[2][k]

Combine ==
    /\ step = "combine"
    /\ step' = "matrix"
    /\ history' = [k \in Keys |-> FirstRow(k)]
    /\ UNCHANGED <<files, matrix, cure, month, power, cumulative, marginal>>

\* Mutant: the join asks for the same day of the next month.
NextDay(k) == {n \in Keys : n[1] = k[1] /\ history[n] # Absent
                               /\ n[2] = <<k[2][1] + 1, k[2][2]>>}

\* next_lookup: the rows of the same loan whose date, moved one month back, is
\* the date of row k.  The left join repeats k once for each of them.
NextRows(k) == {n \in Keys : n[1] = k[1] /\ history[n] # Absent
                               /\ AddMonths(n[2], -1) = k[2]}

\* The joined rows <<key, next row, next stage>>, Offbooks where the join found nothing.
Joined ==
    UNION {IF NextRows(k) = {} THEN {<<k, <<>>, Offbooks>>}
                               ELSE {<<k, n, history[n]>> : n \in NextRows(k)}
             : k \in {k \in Keys : history[k] # Absent}}

\* _build_monthly_matrix summed over the months: the amounts of the joined rows,
\* by stage and next stage; the Offbooks column is dropped.
Aggregate(i, j) ==
    SumFunction([r \in {r \in Joined : history[r[1]] = i /\ r[3] = j} |-> Amount[r[1][1]]])

BuildMatrix ==
    /\ step = "matrix"
    /\ step' = "normalize"
    /\ matrix' = [i \in Stages |-> [j \in Stages |-> Aggregate(i, j)]]
    /\ UNCHANGED <<files, history, cure, month, power, cumulative, marginal>>

-----------------------------------------------------------------------------
(* Steps 5 to 9: proportions, normalisation and powers. *)

OrOne(n) == IF n = 0 THEN 1 ELSE n
scale == OrOne(RowTotal(matrix, 1)) * OrOne(RowTotal(matrix, 2)) * OrOne(RowTotal(matrix, 3))

\* _row_proportions: a row without amounts stays zero.
Proportion(i, j) == matrix[i][j] * (scale \div OrOne(RowTotal(matrix, i)))

\* _normalize_matrix: Stage 1 cannot default within a month, and Stage 3 is
\* absorbing.  All entries are over scale.
Normalized ==
    [i \in Stages |->
        CASE i = 1 -> <<Proportion(1, 1), Proportion(1, 2) + Proportion(1, 3), 0>>
          [] i = 2 -> <<Proportion(2, 1), Proportion(2, 2), Proportion(2, 3)>>
          [] i = 3 -> <<0, 0, scale>>]

\* The amounts that left Stage 3 for a better stage, over the third row's total.
CureRate == matrix[3][1] + matrix[3][2]

Times(a, b) == [i \in Stages |-> [j \in Stages |->
                  a[i][1] * b[1][j] + a[i][2] * b[2][j] + a[i][3] * b[3][j]]]

Normalize ==
    /\ step = "normalize"
    /\ step' = "power"
    /\ cure' = CureRate
    /\ UNCHANGED <<files, history, matrix, month, power, cumulative, marginal>>

\* One turn of the loop over the months: the next power and its rows.
PowerMonth ==
    /\ step = "power"
    /\ month < MaxPdMonth
    /\ month' = month + 1
    /\ power' = IF month = 0 THEN Normalized ELSE Times(power, Normalized)
    /\ cumulative' = Append(cumulative, [i \in Stages |-> power'[i][3]])
    /\ UNCHANGED <<files, step, history, matrix, cure, marginal>>

-----------------------------------------------------------------------------
(* Step 10: the marginal probabilities. *)

\* Mutant: the increase of the cumulative probability, whoever survived.
IncreaseOnly(i, m) ==
    IF m = 1 THEN <<cumulative[1][i], scale>>
    ELSE <<cumulative[m][i] - scale * cumulative[m - 1][i], Power(scale, m)>>

\* _compute_marginal_pd of stage i in month m, as a fraction.
MarginalPd(i, m) ==
    LET before == IF m = 1 THEN 0 ELSE cumulative[m - 1][i]
        alive  == IF m = 1 THEN 1 ELSE Power(scale, m - 1) - before
    IN  IF alive = 0 THEN <<0, 1>>
        ELSE <<cumulative[m][i] - scale * before, scale * alive>>

Marginals ==
    /\ step = "power"
    /\ month = MaxPdMonth
    /\ step' = "done"
    /\ marginal' = [m \in 1..MaxPdMonth |-> [i \in Stages |-> MarginalPd(i, m)]]
    /\ UNCHANGED <<files, history, matrix, cure, month, power, cumulative>>

PdNext == Combine \/ BuildMatrix \/ Normalize \/ PowerMonth \/ Marginals

PdSpec == PdInit /\ [][PdNext]_pdVars

-----------------------------------------------------------------------------
(* Properties *)

\* The staging of a loan in month m, according to the first file that has it.
StageIn(l, m) ==
    LET in(f) == {d \in Dates : d[1] = m /\ files[f][<<l, d>>] # Absent}
        stage(f) == files[f][<<l, CHOOSE d \in in(f) : TRUE>>]
    IN  IF in(1) # {} THEN stage(1) ELSE IF in(2) # {} THEN stage(2) ELSE Absent

\* The matrix holds, for every loan and month, one transition from the loan's
\* stage in that month to its stage in the next month, weighted by its amount,
\* and nothing else: no row is lost or counted twice by the join on dates moved
\* back a month (pd_engine.py:99).  For books with one date per month.
MatrixCountsTransitions ==
    step = "normalize" =>
        \A i, j \in Stages :
            matrix[i][j] =
                SumFunction([p \in {p \in Loans \X DOMAIN MonthDays :
                                      StageIn(p[1], p[2]) = i /\ StageIn(p[1], p[2] + 1) = j}
                               |-> Amount[p[1]]])

\* The marginal probabilities are probabilities and rebuild the cumulative ones,
\* which therefore never fall: surviving m months is surviving m - 1 months and
\* then not defaulting in month m, also where nobody is left to default and the
\* code returns 0 instead of dividing.
MarginalsRebuildCumulative ==
    \A m \in DOMAIN marginal : \A i \in Stages :
        LET alive == IF m = 1 THEN 1 ELSE Power(scale, m - 1) - cumulative[m - 1][i]
            p == marginal[m][i]
        IN  /\ p[1] \in 0..p[2] /\ p[2] > 0
            /\ alive * scale * (p[2] - p[1]) = (Power(scale, m) - cumulative[m][i]) * p[2]
=============================================================================
