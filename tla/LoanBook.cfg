SPECIFICATION Spec
CONSTANTS
  MonthDays <- HalfYear
  MaxIssues = 2
  RateUnit <- HalfRates
  Bare <- Texts
  Numbers <- Cells
  Books <- AllBooks
  Config <- Property
  Offsets = 4
  MaxPdMonth = 4
  Thresholds <- SomeThresholds
INVARIANTS  SnapshotsReachMaturity PaidOffAtMaturity CollateralIsSharedOut ReadyRunsExecute ViewsAgree SummaryAgrees
CHECK_DEADLOCK FALSE
