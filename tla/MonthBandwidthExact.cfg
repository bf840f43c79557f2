CONSTANTS
  Domain = {d1, d2}
  DayTicks = 3
  MonthDays = 5
  BackfillDays = 3
  Lag = 1
  Late = 1
  Horizon = 24
SPECIFICATION Spec
INVARIANT MonthIsExact
