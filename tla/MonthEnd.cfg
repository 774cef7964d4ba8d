SPECIFICATION PdSpec
CONSTANTS
  l1 = l1
  l2 = l2
  Loans = {l1, l2}
  MonthDays <- Quarter
  Dates <- MonthEnds
  Amount <- Amounts
  Extra <- NoOther
  MaxPdMonth = 1
INVARIANTS MatrixCountsTransitions
CHECK_DEADLOCK FALSE
