SPECIFICATION FairSpec
CONSTANTS
  o1 = o1
  o2 = o2
  p1 = p1
  p2 = p2
  w1 = w1
  w2 = w2
  NoWorker = NoWorker
  Outputs = {o1, o2}
  Prefixes = {p1}
  Labels = {1}
  Workers = {w1, w2}
  Artifacts <- MCOnePrefix
  MaxUpsets = 0
  OperatorTexts <- MCTexts
INVARIANTS
  SnapshotIsCurrent
PROPERTIES
  RequestsEnd
  ImplementsOutputClaims
