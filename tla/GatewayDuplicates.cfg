SPECIFICATION GatewaySpec
CONSTANTS
  i1 = i1
  d1 = d1
  d2 = d2
  d3 = d3
  b1 = b1
  b2 = b2
  r1 = r1
  e1 = e1
  Items = {i1}
  Deliveries = {d1, d2}
  Releases = {}
  Whitelists = {}
  Deletes = {e1}
  Purges = {}
  NoBytes = NoBytes
  Crashes = TRUE
  Reports = {}
  Platform = {}
  Foreign = {}
  ItemOf <- OneItem
  BytesOf <- DifferentBytes
INVARIANT HeldStaysSuspect
INVARIANT AlertedOnce
PROPERTY ImplementsFate
