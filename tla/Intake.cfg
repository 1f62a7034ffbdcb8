SPECIFICATION CrawlSpec
CONSTANTS
  phishtank = phishtank
  legacy = legacy
  crawls = crawls
  Feeds = {phishtank}
  Clocked = {legacy}
  Whole = {}
  Crawled = {crawls}
  Parts = 1
  MaxPublished = 2
  MaxRuns = 2
  Lookback = 2
INVARIANTS NoRecordTwice NothingSkipped CompletedIsFlushed RecordsAreTraceable
CHECK_DEADLOCK FALSE
