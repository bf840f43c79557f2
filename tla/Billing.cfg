CONSTANTS
  p1 = p1  p2 = p2  p3 = p3  p4 = p4
  Window = 12
  Horizon = 5
  MaxRestarts = 1
  MonthDays = 3
  EstimateHorizon = 10
  Answers <- Snapshots
  Pack = {p1, p2, p3, p4}
  Allowed = {p1, p2, p3}
  PageSize = 1
  MaxPages = 4
SPECIFICATION MCSpec
INVARIANTS HistoryIsWhole DailyAddsUp SeriesAreUnique
PROPERTIES FetchedOnce HistoryCompletes
