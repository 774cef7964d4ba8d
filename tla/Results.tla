------------------------------ MODULE Results -------------------------------
(* What a complete run shows: the totals stored with it (compute_tasks.py),    *)
(* the explorer's portfolio, segment and loan views (results/service.py) and   *)
(* the ECL Summary workbook (engine/excel_writer.py).  Each of them aggregates *)
(* the rows of compute_ead on its own.                                         *)
(*                                                                             *)
(* A row's discounted ECL stands for itself as the exposure of module          *)
(* EadEngine: the views only add it up.  Percentages, rounding and the order   *)
(* and the paging of lists are left out.                                       *)
EXTENDS EadEngine

CONSTANT Thresholds   \* the values of min_ecl, 0 when it is not given

ASSUME ThresholdsAssumption == 0 \in Thresholds /\ Thresholds \subseteq Nat

AnyStage == "any"          \* no stage is given
StageFilters == {AnyStage} \cup StagingValues

\* The rows bulk_insert_ead_results stores.
EadResults ==
    UNION {{[loan |-> Row(i).loan, customer |-> Row(i).customer, segment |-> Row(i).segment,
             stage |-> Row(i).staging, period |-> RowAt(i, k) - 1,
             balance |-> walk[i][RowAt(i, k)].missed, ecl |-> loss[i][k]] :
               k \in snaps[i]} : i \in DOMAIN loss}

Ecl(S) == SumFunction([r \in S |-> r.ecl])
LoansOf(S) == {r.loan : r \in S}
OfLoan(S, l) == {r \in S : r.loan = l}
Largest(S) == Max({r.balance : r \in S})

\* The largest balance of every loan, added up.
Outstanding(S) == SumFunction([l \in LoansOf(S) |-> Largest(OfLoan(S, l))])

\* _compute_run_totals, stored with the run and shown on the dashboard.
RunTotals == [ecl |-> Ecl(EadResults), outstanding |-> Outstanding(EadResults),
              loans |-> Cardinality(LoansOf(EadResults))]

-----------------------------------------------------------------------------
(* The explorer. *)

\* Mutant: the threshold is put to single rows.
ApplyMinEclToRows(S, min) == {r \in S : r.ecl >= min}

\* _apply_min_ecl_filter: the rows of the loans that reach the threshold.
ApplyMinEcl(S, min) == {r \in S : Ecl(OfLoan(S, r.loan)) >= min}

InStage(S, stage) == {r \in S : stage \in {AnyStage, r.stage}}
InSegment(S, segment) == {r \in S : r.segment = segment}

\* The rows of each loan's first period.
InitialRows(S) == {r \in S : \A q \in OfLoan(S, r.loan) : r.period <= q.period}

\* _segment_aggregates: the filters are applied to the whole run.
SegmentAggregates(stage, min) ==
    LET all == ApplyMinEcl(InStage(EadResults, stage), min) IN
    [segment \in {r.segment : r \in all} |->
        LET S == InSegment(all, segment)
            initial(s) == {r \in InitialRows(S) : r.stage = s}
        IN  [ecl |-> Ecl(S), outstanding |-> Outstanding(S), loans |-> Cardinality(LoansOf(S)),
             mix |-> [s \in {r.stage : r \in S} |-> Cardinality(LoansOf(initial(s)))]]]

\* get_portfolio: the totals over the segments.
GetPortfolio(stage, min) ==
    LET A == SegmentAggregates(stage, min)
        total(field) == SumFunction([s \in DOMAIN A |-> A[s][field]])
    IN  [ecl |-> total("ecl"), outstanding |-> total("outstanding"), loans |-> total("loans")]

LoanRow(S, l, stage) == [loan |-> l, ecl |-> Ecl(OfLoan(S, l)),
                         outstanding |-> Largest(OfLoan(S, l)), stage |-> stage]

\* _loan_rows_for_segment: the filters are applied to the segment, and a loan is joined
\* with every row of its first period.
LoanRows(segment, stage, min) ==
    LET S == ApplyMinEcl(InStage(InSegment(EadResults, segment), stage), min)
    IN  UNION {{LoanRow(S, l, r.stage) : r \in InitialRows(OfLoan(S, l))} : l \in LoansOf(S)}

\* get_loan: any one of the rows of the first period gives the stage.
GetLoan(l) == {LoanRow(EadResults, l, r.stage) : r \in InitialRows(OfLoan(EadResults, l))}

-----------------------------------------------------------------------------
(* The ECL Summary workbook: build_ecl_aggregates. *)

\* loan_ecl: groupby leaves out the rows with an empty key.
LoanEcl == {r \in EadResults : Null \notin {r.customer, r.segment, r.stage}}

\* ecl_by_segment, with what the file says is outstanding.
EclBySegment ==
    [segment \in {r.segment : r \in LoanEcl} |->
        [ecl |-> Ecl(InSegment(LoanEcl, segment)),
         outstanding |-> SumFunction([i \in {i \in EadRows : Row(i).segment = segment}
                                        |-> Row(i).outstanding])]]

\* ecl_total: what every loan of the file owes, nothing when there are no rows.
EclTotal ==
    LET first == {i \in EadRows : \A j \in EadRows : Row(j).loan = Row(i).loan => i <= j}
    IN  [ecl |-> Ecl(LoanEcl),
         outstanding |-> IF EadResults = {} THEN 0
                         ELSE SumFunction([i \in first |-> Row(i).outstanding])]

-----------------------------------------------------------------------------
(* Properties *)

Reported == phase \in {"empty", "done"}

\* Whatever was validated, the views of a run agree: the portfolio adds up to the
\* totals stored with the run, every segment to its list of loans, for every
\* filter, each loan in one stage; a loan picked by its loss shows all of it.
ViewsAgree ==
    Reported =>
        /\ GetPortfolio(AnyStage, 0) = RunTotals
        /\ \A stage \in StageFilters, min \in Thresholds :
             LET A == SegmentAggregates(stage, min) IN
             \A segment \in DOMAIN A :
                 LET a == A[segment]
                     L == LoanRows(segment, stage, min)
                     listed(field) == SumFunction([x \in L |-> x[field]])
                 IN  /\ a.ecl = listed("ecl")
                     /\ a.outstanding = listed("outstanding")
                     /\ a.loans = Cardinality(L)
                     /\ a.loans = SumFunction(a.mix)
                     /\ \A x \in L : {x} = GetLoan(x.loan)

\* The workbook reports the losses of the run, in total and by segment, although
\* it leaves out loans with an empty stage or segment: those have no loss.  It
\* needs a customer in every row of the EAD file.
SummaryAgrees ==
    Reported /\ (\A i \in EadRows : Row(i).customer # Null) =>
        /\ EclTotal.ecl = RunTotals.ecl
        /\ \A s \in DOMAIN EclBySegment : EclBySegment[s].ecl = SegmentAggregates(AnyStage, 0)[s].ecl

-----------------------------------------------------------------------------
(* Claims the code does not keep: TLC refutes them on the run of this module. *)

\* The docstring of build_ecl_aggregates, "Build aggregate DataFrames for the ECL
\* Summary workbook and run totals.": both report the same losses.
SummaryHasEveryLoss == Reported => EclTotal.ecl = RunTotals.ecl

\* ... and the same amount outstanding.
OneTotalOutstanding == Reported => EclTotal.outstanding = RunTotals.outstanding
=============================================================================
