SPECIFICATION PdSpec
CONSTANTS
  l1 = l1
  l2 = l2
  Loans = {l1, l2}
  MonthDays <- Quarter
  Dates <- OncePerMonth
  Amount <- Amounts
  Extra <- OneLoanTwice
  MaxPdMonth = 3
INVARIANTS MatrixCountsTransitions MarginalsRebuildCumulative
CHECK_DEADLOCK FALSE
