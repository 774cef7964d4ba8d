----------------------------- MODULE EadEngine ------------------------------
(* From the uploaded workbooks to the exposures and losses of their loans:     *)
(* validate_files decides whether the run may execute, then compute_lgd and    *)
(* compute_ead (app/engine) work on the same rows.                             *)
(*                                                                             *)
(* The PD table is what compute_pd always produces: for every segment of the   *)
(* PD rows, every stage and the months 1 to MAX_PD_MONTH.  Amounts are         *)
(* integers in a unit small enough for the divisions of the annuity and the    *)
(* walk; NotANumber stands for a NaN.  The identifiers that are joined, and    *)
(* segments, may be numbers: LGD and PD results are stored as text.            *)
EXTENDS Validators

CONSTANTS Books,       \* the files a run may have been given, in families
          Config,      \* the tenant's collateral type: its haircut and delay
          Offsets      \* the snapshots of a Stage 1 loan (13)

\* The dates of the months of the book.
BookDates == {<<m, d>> : m \in DOMAIN MonthDays, d \in 1..31}

\* A column that holds numbers holds nothing else.
AllOrNone(cells) == cells \cap Numbers = {} \/ cells \subseteq Numbers \cup {Null}

\* An EAD sheet has rows, and the segments of a workbook are written in one way.
\* Other cells may be anything of their column's type.
ASSUME BooksAssumption ==
    /\ Offsets \in Nat \ {0} /\ Config.haircut \in 0..100 /\ Config.delay \in Nat
    /\ \A f \in DOMAIN Books : \A b \in Books[f] :
          /\ IsFiniteSet(b.ead.absent) /\ DOMAIN b.ead.rows # {} /\ IsFiniteSet(DOMAIN b.ead.rows)
          /\ AllOrNone({b.ead.rows[i].segment : i \in DOMAIN b.ead.rows})
          /\ AllOrNone(UNION {{b.pd[n].rows[i].segment : i \in DOMAIN b.pd[n].rows} : n \in DOMAIN b.pd})
          /\ IsFiniteSet(b.lgd.absent) /\ IsFiniteSet(b.lgd.extra)
          /\ DOMAIN b.lgd.rows \subseteq Nat /\ IsFiniteSet(DOMAIN b.lgd.rows)
          /\ \A i \in DOMAIN b.lgd.rows :
                LET r == b.lgd.rows[i]
                IN  r.eir \in Int /\ r.outstanding \in Int /\ r.pledged \in Int
          /\ \A i \in DOMAIN b.ead.rows :
                LET r == b.ead.rows[i]
                IN  /\ {r.reporting, r.first, r.adjusted, r.maturity}
                            \subseteq BookDates \cup {NoDate, BadDate}
                    /\ r.outstanding \in Int /\ r.eir \in Int

VARIABLES book,      \* [pd |-> sheets, lgd |-> sheet, ead |-> sheet, combine |-> BOOLEAN]
          phase,     \* how far the run has come
          verdict,   \* validation_status of the uploads, by kind
          accepted,  \* warnings_accepted of the uploads, by kind
          overall,   \* overall_status of the last validate_files
          lgd,       \* LGD row -> its discounted collateral
          snaps,     \* EAD row -> the month offsets of its snapshots
          walk,      \* EAD row -> its balances, one entry per snapshot
          loss       \* EAD row -> the exposure it provisions, by snapshot
vars == <<book, phase, verdict, accepted, overall, lgd, snaps, walk, loss>>

Kinds == {"PD", "LGD", "EAD"}
LgdRows == DOMAIN book.lgd.rows
EadRows == DOMAIN book.ead.rows
Row(i) == book.ead.rows[i]

Init ==
    /\ \E f \in DOMAIN Books : book \in Books[f]
    /\ phase = "uploaded"
    /\ verdict = [k \in Kinds |-> "none"] /\ overall = "none"
    /\ accepted = [k \in Kinds |-> FALSE]
    /\ lgd = <<>> /\ snaps = <<>> /\ walk = <<>> /\ loss = <<>>

-----------------------------------------------------------------------------
(* Validation and the gate of execute_run. *)

\* What the pre-scan found is provisioned, so it is allowed.
Segments == InFiles(book.pd, "segment") \cup Column(book.ead, "segment")

\* The blocking issues of the files of a kind.
Blocks(k) ==
    CASE k = "PD"  -> ValidatePdFiles(book.pd, Segments)
      [] k = "LGD" -> ValidateLgd(book.lgd, book.lgd.extra)
      [] k = "EAD" -> ValidateEad(book.ead, Segments)

Warnings == CrossWarnings(book.pd, book.lgd, book.ead)
Errors == CrossBlocks(book.pd, book.lgd, book.ead)

\* The warnings among a file's own issues: the validators of single files only
\* add blocking ones.
FileWarnings(k) == {}

\* validate_files, with or without the ids of all warnings in
\* accepted_warning_ids.  The cross-file issues all name the EAD file; they come
\* after the acceptance, and a warning does not soften an error.
ValidateFiles(accept) ==
    /\ IF accept THEN phase = "validated" /\ overall = "warn" ELSE phase = "uploaded"
    /\ phase' = "validated"
    /\ accepted' = [k \in Kinds |-> accepted[k] \/ (accept /\ FileWarnings(k) # {})]
    /\ verdict' = [k \in Kinds |->
                     IF Blocks(k) > 0 \/ (k = "EAD" /\ Errors # {}) THEN "error"
                     ELSE IF \/ FileWarnings(k) # {} /\ ~accepted'[k]
                             \/ k = "EAD" /\ Warnings # {} THEN "warn" ELSE "ok"]
    /\ overall' = IF Errors # {} \/ \E k \in Kinds : Blocks(k) > 0 THEN "blocking"
                  ELSE IF Warnings # {} /\ ~accept THEN "warn" ELSE "ok"
    /\ UNCHANGED <<book, lgd, snaps, walk, loss>>

\* Mutant: any file that was validated may be executed.
AnyVerdict == \A k \in Kinds : verdict[k] # "none"

\* The gate of execute_run.
MayExecute == \A k \in Kinds : verdict[k] = "ok" \/ (verdict[k] = "warn" /\ accepted[k])

ExecuteRun ==
    /\ phase = "validated"
    /\ MayExecute
    /\ phase' = "lgd"
    /\ UNCHANGED <<book, verdict, accepted, overall, lgd, snaps, walk, loss>>

-----------------------------------------------------------------------------
(* compute_lgd *)

CustomerTotal(c) ==
    SumFunction([i \in {i \in LgdRows : book.lgd.rows[i].customer = c}
                   |-> book.lgd.rows[i].outstanding])

\* Mutant: every loan counts the whole collateral of its row.
WholeCollateral(r) == r.pledged

\* The loan's share of the collateral on its row: its proportion of what the
\* customer owes, nothing when the customer owes nothing.
ProportionalCollateral(r) ==
    IF CustomerTotal(r.customer) = 0 THEN 0
    ELSE (r.pledged * r.outstanding) \div CustomerTotal(r.customer)

\* Haircut and time discount.
Discounted(r) ==
    IF book.lgd.extra = {} THEN 0
    ELSE ((ProportionalCollateral(r) \div 100) * (100 - Config.haircut)
             * Power(RateUnit, Config.delay)) \div Power(RateUnit + r.eir, Config.delay)

LgdLoans == {book.lgd.rows[i].loan : i \in LgdRows}

\* Numbers and texts cannot be sorted together.
ComputeLgd ==
    /\ phase = "lgd"
    /\ IF LgdLoans \cap Numbers # {} /\ ~(LgdLoans \subseteq Numbers)
       THEN phase' = "failed" /\ UNCHANGED lgd
       ELSE phase' = "expand" /\ lgd' = [i \in LgdRows |-> Discounted(book.lgd.rows[i])]
    /\ UNCHANGED <<book, verdict, accepted, overall, snaps, walk, loss>>

\* The text of a loan in lgd_results: str(row["Loan ID"]).
Stored(loan) == IF loan \in Numbers THEN Bare[loan] ELSE loan

\* The left join of an EAD row with the LGD results, on the loan as written;
\* without a match the collateral is 0 (EC-06) and the row's own EIR is used.
LgdOf(r) == {i \in LgdRows : Stored(book.lgd.rows[i].loan) = r.loan}
Collateral(r) == IF LgdOf(r) = {} THEN 0 ELSE lgd[Min(LgdOf(r))]
Eir(r) == IF LgdOf(r) = {} THEN r.eir ELSE book.lgd.rows[Min(LgdOf(r))].eir

-----------------------------------------------------------------------------
(* compute_ead: snapshots, instalments, balances. *)

\* Both ends of what a loan is walked over are known.
Bounded(r) == NoDate \notin {r.reporting, r.maturity}

\* Mutant: the month of maturity is not expanded.
Stage2Months(r) == 0 .. (MonthsBetween(r.reporting, r.maturity) - 1)

\* max_months of a Stage 2 loan, at least the reporting date itself.
MaxMonths(r) ==
    IF ~Bounded(r) THEN {0} ELSE 0 .. Max({0, MonthsBetween(r.reporting, r.maturity)})

\* _expand_snapshots: the offsets of a row's snapshots, clipped at maturity for
\* the stages that look ahead.  An empty date is not before any other.
Expanded(r) ==
    CASE r.staging = "Stage 1" ->
            {k \in 0..(Offsets - 1) : Bounded(r) /\ NotAfter(AddMonths(r.reporting, k), r.maturity)}
      [] r.staging = "Stage 2" ->
            {k \in MaxMonths(r) : Bounded(r) /\ NotAfter(AddMonths(r.reporting, k), r.maturity)}
      [] OTHER -> {0}

\* Loans that are numbers are joined with no text, nor sorted among texts.
ExpandSnapshots ==
    /\ phase = "expand"
    /\ IF \E i \in EadRows : Row(i).loan \in Numbers
       THEN phase' = "failed" /\ UNCHANGED <<snaps, walk>>
       ELSE /\ snaps' = [i \in EadRows |-> Expanded(Row(i))]
            /\ walk' = [i \in EadRows |-> <<>>]
            /\ phase' = IF \A i \in EadRows : snaps'[i] = {} THEN "empty" ELSE "walk"
    /\ UNCHANGED <<book, verdict, accepted, overall, lgd, loss>>

\* amount * (1 + eir / 12) ** n
Grown(amount, eir, n) ==
    LET year == 12 * RateUnit
    IN  IF n = 0 THEN amount ELSE (amount \div Power(year, n)) * Power(year + eir, n)

\* Mutant: the instalment is spread over one period more.
RemainingPlusOne(r) == MonthsBetween(r.reporting, r.adjusted) + 1

\* total_term - elapsed, both counted from the first payment.
Remaining(r) ==
    MonthsBetween(r.first, r.adjusted) - MonthsBetween(r.first, r.reporting)

\* The term of a loan is known; without it remaining is NaN.
TermKnown(r) == NoDate \notin {r.first, r.reporting, r.adjusted}

\* The unit of the amounts is small enough for the monthly loans of the books: what they owe
\* is a whole number after every instalment, at every rate.
WholeInstalments ==
    \A f \in DOMAIN Books : \A b \in Books[f] : \A i \in DOMAIN b.ead.rows :
        LET r == b.ead.rows[i]
            n == MonthsBetween(r.reporting, r.adjusted)
            year == 12 * RateUnit
        IN  r.freq = "MTH" /\ {r.reporting, r.adjusted} \subseteq BookDates /\ n > 0 /\ r.outstanding > 0 =>
              /\ r.outstanding % (year * n) = 0
              /\ \A e \in 1..RateUnit :
                    r.outstanding % (year * (Power(year + e, n) - Power(year, n))) = 0

\* npf.pmt for n periods at the yearly rate eir in parts of a year.
Annuity(amount, eir, n, parts) ==
    LET year == parts * RateUnit
    IN  IF eir = 0 THEN amount \div n
        ELSE (amount \div (year * (Power(year + eir, n) - Power(year, n)))) * eir * Power(year + eir, n)

\* _period_instalment: max(1, NaN // 3) is 1, and NaN is not <= 0.
Instalment(r) ==
    IF r.freq = "QTR"
    THEN Annuity(r.outstanding, Eir(r), IF TermKnown(r) THEN Max({1, Remaining(r) \div 3}) ELSE 1, 4)
    ELSE IF ~TermKnown(r) THEN NotANumber
    ELSE IF Remaining(r) <= 0 THEN 0
    ELSE Annuity(r.outstanding, Eir(r), Remaining(r), 12)

\* The instalment is a number.
InstalmentKnown(r) == r.freq = "QTR" \/ TermKnown(r)

\* Row i (from 1) of a loan is one in which it pays.
PaymentRow(r, i) == r.freq # "QTR" \/ i % 3 = 0

\* A balance that would be negative is zero.
Clamped(n) == Max({n, 0})

\* The balance row n of a loan opens with.
Opening(i, n) == IF n = 1 THEN Row(i).outstanding ELSE walk[i][n - 1].repaid

\* Without an instalment every balance is NaN, which nothing clamps.
AfterRepayment(i, n) ==
    IF ~InstalmentKnown(Row(i)) THEN NotANumber
    ELSE Clamped(Grown(Opening(i, n), Eir(Row(i)), 1)
                 - (IF PaymentRow(Row(i), n) THEN Instalment(Row(i)) ELSE 0))

\* _count_missed_periods: of the last three payment rows before row n, those
\* that opened with less than an instalment.
LastThree(S) == {j \in S : Cardinality({k \in S : k > j}) < 3}
MissedPeriods(i, n) ==
    IF Instalment(Row(i)) <= 0 THEN 0
    ELSE Min({3, Cardinality({j \in LastThree({j \in 1..(n - 1) : PaymentRow(Row(i), j)}) :
                                Grown(Opening(i, j), Eir(Row(i)), 1) < Instalment(Row(i))})})

Unwalked == {i \in EadRows : Len(walk[i]) < Cardinality(snaps[i])}

\* _walk_loan_balances: the next row of every loan that has one left.  The walks
\* of different loans do not read each other.
WalkRow ==
    /\ phase = "walk" /\ Unwalked # {}
    /\ walk' = [i \in EadRows |->
                  IF i \notin Unwalked THEN walk[i]
                  ELSE LET n == Len(walk[i]) + 1
                           repaid == AfterRepayment(i, n)
                       IN  Append(walk[i], [repaid |-> repaid,
                                            missed |-> Grown(repaid, Eir(Row(i)), MissedPeriods(i, n))])]
    /\ UNCHANGED <<book, phase, verdict, accepted, overall, lgd, snaps, loss>>

-----------------------------------------------------------------------------
(* compute_ead: the PD join and the losses. *)

\* The segments of the rows compute_pd was given: those of the first file only
\* unless the run combines its PD files.
PdSegments ==
    LET used == IF book.combine THEN DOMAIN book.pd ELSE {1}
    IN  (UNION {{Stored(book.pd[f].rows[i].segment) : i \in DOMAIN book.pd[f].rows} : f \in used}) \ {Null}

\* Snapshot k of row i lies in a month of the PD table.
InTable(i, k) == /\ NoDate \notin {Row(i).first, Row(i).reporting}
                 /\ MonthsBetween(Row(i).first, Row(i).reporting) + k \in 1..MaxPdMonth

\* Mutant: the PD rows are joined by segment and month only.
FoundByMonth(i, k) == Row(i).segment \in PdSegments /\ InTable(i, k)

\* The PD table has a row for snapshot k of row i, which has a text as segment.
Found(i, k) ==
    Row(i).segment \in PdSegments /\ Row(i).staging \in StagingValues /\ InTable(i, k)

\* EC-08: a segment none of whose snapshots found a PD row.
SegmentsWithoutPd ==
    {Row(i).segment : i \in {i \in EadRows : snaps[i] # {}}}
        \ {Row(i).segment : i \in {i \in EadRows : \E k \in snaps[i] : Found(i, k)}}

\* The row of a loan that holds snapshot k.
RowAt(i, k) == Cardinality({j \in snaps[i] : j <= k})

\* balance * LGW, which the probability and the cure rate only scale: what the
\* collateral does not cover, and nothing where the join found no PD.
Exposed(i, k) ==
    IF ~InstalmentKnown(Row(i)) THEN NotANumber
    ELSE IF ~Found(i, k) THEN 0
    ELSE Max({0, walk[i][RowAt(i, k)].missed - Collateral(Row(i))})

\* Mutant: the totals are compared although they are NaN.
Inserted(r) == NoDate \notin {r.first, r.reporting}

\* A row with a snapshot date, a period since origination and balances that are
\* numbers: bulk_insert refuses NaN as a period or a date, and no Decimal that
\* is NaN can be compared with 0 (_compute_run_totals).
Storable(r) == NoDate \notin {r.first, r.reporting} /\ InstalmentKnown(r)

\* The rows that make the task fail after compute_ead.
Refused == {i \in EadRows : snaps[i] # {} /\ ~Storable(Row(i))}

\* The end of compute_ead, the insertion of its rows and their totals.  What a
\* failed task leaves behind is the subject of module RunPipeline.
JoinPd ==
    /\ phase = "walk" /\ Unwalked = {}
    /\ IF SegmentsWithoutPd # {} \/ Refused # {}
       THEN phase' = "failed" /\ UNCHANGED loss
       ELSE /\ phase' = "done"
            /\ loss' = [i \in EadRows |-> [k \in snaps[i] |-> Exposed(i, k)]]
    /\ UNCHANGED <<book, verdict, accepted, overall, lgd, snaps, walk>>

Next == \/ \E accept \in BOOLEAN : ValidateFiles(accept)
        \/ ExecuteRun \/ ComputeLgd \/ ExpandSnapshots \/ WalkRow \/ JoinPd

Spec == Init /\ [][Next]_vars

-----------------------------------------------------------------------------
(* Properties *)

Ended == phase \in {"empty", "failed", "done"}

\* Every cell the engines join on is a text, written exactly, the dates they
\* count from are there, and they read the PD files the validators read.
Exact == /\ \A i \in EadRows : /\ Row(i).staging \in StagingValues
                               /\ Row(i).segment \in PdSegments
                               /\ Row(i).loan \notin Numbers
                               /\ Row(i).maturity # NoDate /\ Storable(Row(i))
         /\ LgdLoans \cap Numbers = {}
         /\ book.combine \/ Len(book.pd) = 1

\* What validation lets through, the engine provisions: with exact cells every
\* loan keeps its snapshot at the reporting date, and the computation only fails
\* for a segment all of whose loans begin or leave the PD table's months.  A
\* run that completes, with exact cells or not, has no loss that is not a number.
ValidatedLoansAreProvisioned ==
    Ended =>
        /\ Exact => /\ \A i \in EadRows : 0 \in snaps[i]
                    /\ (\A i \in EadRows : \E j \in EadRows :
                           Row(j).segment = Row(i).segment /\ InTable(j, 0)) => phase = "done"
        /\ \A i \in DOMAIN loss : \A k \in DOMAIN loss[i] : loss[i][k] \in Nat

\* Stage 1 and Stage 2 loans have a snapshot for every month up to maturity, for
\* Stage 1 within the year and for Stage 2 without any limit: counting whole
\* months (_months_between) never cuts the last one off, whatever the days of
\* the two dates.  (The template's limit of 299 is claim SnapshotsAreLimited.)
SnapshotsReachMaturity ==
    \A i \in DOMAIN snaps :
        (Row(i).staging \in {"Stage 1", "Stage 2"} /\ Bounded(Row(i))) =>
            snaps[i] = {k \in DOMAIN MonthDays \cup {0} :
                          /\ NotAfter(AddMonths(Row(i).reporting, k), Row(i).maturity)
                          /\ Row(i).staging = "Stage 1" => k < Offsets}

\* The walk agrees with the annuity: a loan that pays monthly has paid
\* everything with its last instalment, at the adjusted maturity.
PaidOffAtMaturity ==
    \A i \in DOMAIN walk :
        LET n == MonthsBetween(Row(i).reporting, Row(i).adjusted)
        IN  (Row(i).freq = "MTH" /\ TermKnown(Row(i)) /\ n \in DOMAIN walk[i]) => walk[i][n].repaid = 0

\* The collateral of a customer is shared out among its loans, never counted
\* more than once, also when every row states it.
CollateralIsSharedOut ==
    \A i \in DOMAIN lgd :
        LET same == {j \in LgdRows : book.lgd.rows[j].customer = book.lgd.rows[i].customer}
        IN  SumFunctionOnSet(lgd, same)
                <= Max({0} \cup {book.lgd.rows[j].pledged : j \in same})

\* What validate_files reports and what execute_run lets through agree, as long
\* as the files raise no warning when they are compared: no blocking issue, of a
\* row or across files, is forgotten, whatever the cap on the issues of a sheet.
ReadyRunsExecute ==
    phase = "validated" /\ Warnings = {} => (overall = "ok" <=> MayExecute)

-----------------------------------------------------------------------------
(* Claims the code does not keep: TLC refutes each of them.                    *)

\* "files are ready for computation" (runs/service.py:507): the computation of a
\* run whose files validate_files found without any issue does not fail.
ReadyFilesAreComputed == overall = "ok" => phase # "failed"

\* "The rundown produces up to 299 monthly EAD snapshots per loan."
\* (generate_templates.py:638): no loan has more than the PD table has months.
SnapshotsAreLimited == \A i \in DOMAIN snaps : Cardinality(snaps[i]) <= MaxPdMonth

\* "Stage 3 loans accrue missed-payment interest into the balance at each forward
\* step." (generate_templates.py:637): one that owes something at a positive rate
\* has such a step, in a run that completes.
Stage3AccruesInterest ==
    phase = "done" =>
        \A i \in EadRows :
            (Row(i).staging = "Stage 3" /\ Row(i).outstanding > 0 /\ Eir(Row(i)) > 0) =>
                \E n \in DOMAIN walk[i] : walk[i][n].missed > walk[i][n].repaid

\* A run whose warnings were all accepted and whose files validate_files calls
\* "ready for computation" (runs/service.py:507) is not refused by execute_run.
AcceptedWarningsLetRunExecute ==
    phase = "validated" /\ overall = "ok" => MayExecute

\* No row reaches the engine with a staging it does not know: "the validator
\* catches this" (ead_engine.py:191).
UnknownStagingIsCaught ==
    \A i \in DOMAIN snaps : Row(i).staging \in StagingValues
=============================================================================
