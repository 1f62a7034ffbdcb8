SPECIFICATION Spec
CONSTANTS
  i1 = i1
  d1 = d1
  d2 = d2
  b1 = b1
  b2 = b2
  r1 = r1
  w1 = w1
  e1 = e1
  Items = {i1}
  Deliveries = {d1, d2}
  Releases = {r1, w1}
  Whitelists = {w1}
  Deletes = {e1}
  Purges = {"cron"}
  NoBytes = NoBytes
  Crashes = TRUE
  ItemOf <- OneItem
  BytesOf <- DifferentBytes
INVARIANT OneReleaseAtATime
INVARIANT MarkedDeliveredIsDelivered
INVARIANT StoredUntilDelivered
PROPERTY AcknowledgedIsFinal
PROPERTY SettledDeletionIsFinal
