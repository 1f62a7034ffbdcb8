SPECIFICATION FairSpec
CONSTANTS
  s1 = s1
  s2 = s2
  t1 = t1
  m1 = m1
  Setups = {s1, s2}
  Removers = {t1}
  Scans = {m1}
  Owned = {s1}
  Faults = {"refused", "lost", "crash"}
  None = None
  Forward = Forward
CHECK_DEADLOCK FALSE
INVARIANT WorkerIsTrusted
INVARIANT MailHasRoute
PROPERTY ProvisioningIsNotTornDown
PROPERTY FailedStaysFailed
PROPERTY ProvisioningEnds
