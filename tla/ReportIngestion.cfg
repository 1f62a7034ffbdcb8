SPECIFICATION ReportsFairSpec
CONSTANTS
  i1 = i1
  d1 = d1
  d2 = d2
  d3 = d3
  b1 = b1
  b2 = b2
  r1 = r1
  e1 = e1
  Items = {i1}
  Deliveries = {d1, d2, d3}
  Releases = {}
  Whitelists = {}
  Deletes = {}
  Purges = {}
  NoBytes = NoBytes
  Crashes = FALSE
  Reports = {d2, d3}
  Platform = {d1}
  Foreign = {d3}
  ItemOf <- OneItem
  BytesOf <- DifferentBytes
  Records = 2
INVARIANTS IngestedIsPersisted
PROPERTY EveryDeliveryDecided
