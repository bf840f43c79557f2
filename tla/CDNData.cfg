CONSTANTS
  d1 = d1  d2 = d2
  Domain = {d1, d2}
  DayTicks = 3
  MonthDays = 6
  BackfillDays = 3
  Lag = 1
  Horizon = 24
  Scenarios <- ManyScenarios
  DayBuckets = 4
  LastHour = 8
  Answers <- AnyAnswer
  HourTicks = 2
  UsageDay = 6
  UsageMonth = 3
  Late = 3
  LastTime = 26
  Batches = 2
  Spelling = {1, 2, 3, 4, 5}
  Parse <- Addresses
  Value = {2, 3}
  TopIPLimit = 2
SPECIFICATION MCSpec
INVARIANTS MonthHasNoGaps EveryDomainAnswered OnlyRejectedAreCached BudgetMakesProgress OneSafeBucket PeriodsAddUp TopIsOfTheSums
PROPERTIES PublishesItsScope
