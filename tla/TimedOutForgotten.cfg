SPECIFICATION CrawlSpec
CONSTANTS
  phishtank = phishtank
  legacy = legacy
  crawls = crawls
  Feeds = {}
  Clocked = {}
  Whole = {}
  Crawled = {crawls}
  Parts = 1
  MaxPublished = 2
  MaxRuns = 1
  Lookback = 2
INVARIANT TimedOutIsRetried
CHECK_DEADLOCK FALSE
