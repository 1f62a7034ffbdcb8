SPECIFICATION FairSpec
CONSTANTS
  Records = {1, 2}
  Drafts = {11, 12, 13}
  Usable = {11, 12, 13}
  Seeded = {11}
  Candidates = {21}
  RecordOf <- SmallRecordOf
  Texts = {101, 102}
  TextOf <- SmallTextOf
  Normalizers = {n1}
  Lanes = {l1}
  Reviewers = {v1}
  Acceptors = {a1}
  Backfills = {b1}
  n1 = n1
  l1 = l1
  v1 = v1
  a1 = a1
  b1 = b1
  Parallel = 2
  MaxFaults = 1
INVARIANTS ReleasedIsCurated OnlyOvertakenCollide
PROPERTY AcceptableIsCurated
