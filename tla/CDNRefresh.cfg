CONSTANTS
  a = a  b = b
  Domain = {a, b}
  Jobs = {"monitoring", "analytics", "top_ips", "scrape"}
  BatchSize = 1
  MaxOverlap = 1
SPECIFICATION MCSpec
INVARIANTS SettledCopiesAgree CompleteCoversScope QuietScrapeAgrees
PROPERTIES UsageImplementsScope TopIPsImplementsScope
