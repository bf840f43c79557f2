CONSTANTS
  Domain = {a, b}
  Jobs = {"top_ips", "scrape"}
  BatchSize = 1
  MaxOverlap = 1
SPECIFICATION Spec
INVARIANT ScrapeUsesOneResourceSet
