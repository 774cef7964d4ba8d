----------------------------- MODULE Validators -----------------------------
(* The rules an uploaded workbook must pass (app/engine/validators) and what   *)
(* validate_files makes of them (app/modules/runs/service.py).                 *)
(*                                                                             *)
(* A sheet is [absent |-> the required columns it lacks, rows |-> a sequence   *)
(* of records, one field per column].  A text cell is a string, a date cell a  *)
(* pair <<month, day>>, <<>> when it is empty and <<0>> when it is no date, a  *)
(* number cell an integer, NotANumber when it is empty or text.  A number in a *)
(* text column is one of Numbers, whose text Bare gives.                       *)
EXTENDS Calendar

CONSTANTS MaxIssues,   \* MAX_ISSUES
          RateUnit,    \* interest rates are counted in parts of this: RateUnit is 100%
          Bare,        \* texts with blanks around them, and numbers -> the bare text
          Numbers      \* the cells of text columns that hold a number

ASSUME ValidatorsAssumption == /\ MaxIssues \in Nat \ {0} /\ RateUnit \in Nat \ {0}
                               /\ Numbers \subseteq DOMAIN Bare

Null == "null"          \* an empty text cell
NoDate == <<>>
BadDate == <<0>>
NotANumber == -1000
StagingValues == {"Stage 1", "Stage 2", "Stage 3"}

\* str(...).strip()
Strip(cell) == IF cell \in DOMAIN Bare THEN Bare[cell] ELSE cell

-----------------------------------------------------------------------------
(* The checks of base.py: how many rows of a sheet each of them blocks.        *)

Bad(s, column, P(_)) ==
    IF column \in s.absent THEN 0
    ELSE Cardinality({i \in DOMAIN s.rows : P(s.rows[i])})

RequiredColumns(s) == Cardinality(s.absent)

NonEmpty(s, c) == Bad(s, c, LAMBDA r : Strip(r[c]) \in {Null, ""})

\* An empty cell passes, and so does an allowed value with blanks around it.
EnumValues(s, c, allowed) == Bad(s, c, LAMBDA r : r[c] # Null /\ Strip(r[c]) \notin allowed)

\* One issue per distinct value instead of one per row.
EnumGrouped(s, c, allowed) ==
    IF c \in s.absent THEN 0
    ELSE Cardinality({s.rows[i][c] : i \in {i \in DOMAIN s.rows :
                        s.rows[i][c] # Null /\ Strip(s.rows[i][c]) \notin allowed}})

NumericRange(s, c, low, high) ==
    Bad(s, c, LAMBDA r : r[c] = NotANumber \/ r[c] < low \/ r[c] > high)

\* An empty date passes.
ValidDates(s, c) == Bad(s, c, LAMBDA r : r[c] = BadDate)

Uniqueness(s, columns) ==
    IF columns \cap s.absent # {} THEN 0
    ELSE Cardinality({i \in DOMAIN s.rows : \E j \in DOMAIN s.rows \ {i} :
                        \A c \in columns : s.rows[i][c] = s.rows[j][c]})

IsDate(d) == d # NoDate /\ d # BadDate

\* Rows whose later date is before the earlier one (EC-03, EC-04 and the
\* adjusted maturity); a row without one of the dates passes.
OutOfOrder(s, earlier, later) ==
    IF {earlier, later} \cap s.absent # {} THEN 0
    ELSE Bad(s, earlier, LAMBDA r : /\ IsDate(r[earlier]) /\ IsDate(r[later])
                                    /\ ~NotAfter(r[earlier], r[later]))

\* Every check adds issues up to the capacity that is left, so a sheet has as
\* many as its checks found, or MAX_ISSUES.
Capped(n) == Min({n, MaxIssues})

Highest == 2147483647

-----------------------------------------------------------------------------
(* The validators of the three kinds of sheet: the number of blocking issues.  *)
(* None of them adds a warning.                                                *)

ValidatePd(s, segments) ==
    Capped(RequiredColumns(s)
           + IF "month" \in s.absent THEN 0
             ELSE NonEmpty(s, "loan") + NonEmpty(s, "segment") + ValidDates(s, "month")
                  + EnumValues(s, "staging", StagingValues)
                  + NumericRange(s, "amount", 0, Highest)
                  + (IF segments = {} THEN 0 ELSE EnumGrouped(s, "segment", segments))
                  + Uniqueness(s, {"loan", "month"}))

ValidatePdFiles(sheets, segments) ==
    SumFunction([f \in DOMAIN sheets |-> ValidatePd(sheets[f], segments)])

\* The columns that are not known are blocked too (EC-02): s.extra.
ValidateLgd(s, collateral) ==
    Capped(RequiredColumns(s)
           + IF "eir" \in s.absent THEN 0
             ELSE Cardinality(s.extra \ collateral)
                  + NonEmpty(s, "customer") + NonEmpty(s, "loan") + Uniqueness(s, {"loan"})
                  + NumericRange(s, "outstanding", 0, Highest)
                  + NumericRange(s, "eir", 0, RateUnit)
                  + (IF s.extra \cap collateral = {} THEN 0
                     ELSE NumericRange(s, "pledged", 0, Highest)))

\* Mutant: the maturity date is not compared with the reporting date.
DateRulesWithoutEc03(s) ==
    OutOfOrder(s, "first", "reporting") + OutOfOrder(s, "first", "adjusted")

\* EC-03, EC-04 and the adjusted maturity.
DateRules(s) ==
    OutOfOrder(s, "reporting", "maturity") + OutOfOrder(s, "first", "reporting")
        + OutOfOrder(s, "first", "adjusted")

ValidateEad(s, segments) ==
    Capped(RequiredColumns(s)
           + IF {"staging", "eir"} \cap s.absent # {} THEN 0
             ELSE NonEmpty(s, "loan") + Uniqueness(s, {"loan"})
                  + ValidDates(s, "reporting") + ValidDates(s, "maturity")
                  + ValidDates(s, "first") + ValidDates(s, "adjusted")
                  + EnumValues(s, "staging", StagingValues)
                  + NumericRange(s, "outstanding", 0, Highest)
                  + NumericRange(s, "eir", 0, RateUnit)
                  + (IF segments = {} THEN 0 ELSE EnumGrouped(s, "segment", segments))
                  + EnumValues(s, "freq", {"MTH", "QTR"})
                  + DateRules(s))

-----------------------------------------------------------------------------
(* validate_cross_files: the three kinds against each other. *)

\* The distinct texts of a column, stripped, without empty cells.
Column(s, c) == IF c \in s.absent THEN {}
                ELSE {Strip(s.rows[i][c]) : i \in DOMAIN s.rows} \ {Null, ""}
InFiles(sheets, c) == UNION {Column(sheets[f], c) : f \in DOMAIN sheets}

\* _eir_by_loan: the last row of a loan decides.
EirOf(s, loan) ==
    LET at == {i \in DOMAIN s.rows : Strip(s.rows[i].loan) = loan}
    IN  s.rows[Max(at)].eir

CrossBlocks(pd, lgd, ead) ==
    (IF Column(ead, "loan") \subseteq Column(lgd, "loan") THEN {} ELSE {"EC-06"})
    \cup (IF Column(ead, "segment") \subseteq InFiles(pd, "segment") THEN {} ELSE {"EC-08"})

CrossWarnings(pd, lgd, ead) ==
    (IF Column(ead, "loan") \subseteq InFiles(pd, "loan") THEN {} ELSE {"no PD history"})
    \cup (IF "eir" \notin ead.absent \cup lgd.absent
             /\ \E l \in Column(ead, "loan") \cap Column(lgd, "loan") :
                    /\ NotANumber \notin {EirOf(ead, l), EirOf(lgd, l)}
                    /\ EirOf(ead, l) # EirOf(lgd, l)
          THEN {"EIR mismatch"} ELSE {})
=============================================================================
