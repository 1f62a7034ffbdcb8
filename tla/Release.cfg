SPECIFICATION Spec
CONSTANTS
  phishing = phishing
  legitimate = legitimate
  v1 = v1
  e1 = e1
  c1 = c1
  c2 = c2
  m1 = m1
  m2 = m2
  x1 = x1
  x2 = x2
  g1 = g1
  g2 = g2
  N = 1
  Labels = {phishing, legitimate}
  Versions = {v1}
  MaxPushes = 1
  MaxSplit = 11
  Sets = {e1}
  Checksums = {c1, c2}
  Models = {m1, m2}
  Evaluations = {x1, x2}
  Deployments = {g1, g2}
  Overlap = 2
SYMMETRY ModelSymmetry
INVARIANTS ProductionIsEvaluated TrainingIsTraceable SplitsAreFair
