CONSTANTS
  b1 = b1  b2 = b2
  Bucket = {b1, b2}
  Jobs = {"capacity", "activity", "summary"}
  DataTimes = {1, 2}
  MaxOverlap = 1
  DayTicks = 2
  MonthDays = 2
  Lag = 1
  Horizon = 9
  Requests = 2
  Answers <- ShortAnswers
  DayAnswers <- MonthAnswers
  Last = 3
  Dcdn = {2}
  PageSize = 1
  MaxResources = 3
  MaxPages = 3
SPECIFICATION MCSpec
INVARIANTS SettledCopiesAgree TimesDescribeSamples OneSafeBucket TotalsAreOfThisMonth ListingsAreWhole
