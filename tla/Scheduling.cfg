CONSTANTS
  fixed = fixed   daily = daily  packs = packs  job = job
  Job = {fixed, daily, packs, job}
  ProcessJob = {fixed, job}
  MaxScrapes = 2
  Registrations <- MCRegistrations
  IntervalOf <- MCInterval
  MaxRound <- MCMaxRound
  AtOnce = {}
  Day = 5
  MarkOf <- MCMark
  OpenOf <- MCOpen
  SourceLag = 2
  Width = 1
  StaleAfter = 22
SPECIFICATION MCSpec
INVARIANTS NoGapWithRoom CleanExit
PROPERTIES DeadlineKeepsTurns OncePerMark EveryDayServed ProcessEnds
