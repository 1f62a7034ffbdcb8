SPECIFICATION Spec
CONSTANTS
  c1 = c1
  f1 = f1
  f2 = f2
  own1 = own1
  own2 = own2
  box1 = box1
  sicurre = sicurre
  OwnTerms = {own1, own2}
  OwnMailboxes = {box1}
  Sicurre = sicurre
  Syncs = {c1}
  Refreshes = {f1, f2}
  Published <- SomeZones
  Edited <- OtherZone
  Edits = 1
  Day = 3
  Quiet <- SomeQuiet
  Listings = {0, 1}
CHECK_DEADLOCK FALSE
INVARIANT OwnRecordsKept
INVARIANT FixedIsKept
INVARIANT AlwaysCurrent
INVARIANT QuietHoursKept
PROPERTY PolicyNeverWeakened
