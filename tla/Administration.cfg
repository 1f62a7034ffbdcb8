SPECIFICATION AdministrationSpec
CONSTANTS
  e1 = e1
  e2 = e2
  g1 = g1
  r1 = r1
  b1 = b1
  v1 = v1
  s1 = s1
  a1 = a1
  m1 = m1
  p1 = p1
  z1 = z1
  z2 = z2
  Starts = {e1, e2}
  Gets = {}
  Recovers = {r1}
  Boots = {b1}
  None = None
  Visits = {v1}
  SelfErasures = {s1}
  AdminErasures = {a1}
  Mails = {m1}
  Reports = {p1}
  Domains = {z1, z2}
  MaxWorkspaces = 4
  MaxFailures = 1
CHECK_DEADLOCK FALSE
INVARIANT OneRunsAtATime
INVARIANT OnlyEvidenceOutlives
INVARIANT MemberCanReturn
PROPERTY ManualIsNotAutomatic
PROPERTY RowEnds
