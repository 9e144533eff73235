SPECIFICATION Spec
CONSTANTS
  o1 = o1
  o2 = o2
  p1 = p1
  p2 = p2
  w1 = w1
  w2 = w2
  NoWorker = NoWorker
  Outputs = {o1, o2}
  Prefixes = {p1, p2}
  Labels = {1, 2}
  Workers = {w1}
  Artifacts <- MCArtifacts
  MaxUpsets = 1
  OperatorTexts <- MCTexts
INVARIANTS
  ReconcileNeverRefuses
  LedgerIsTrue
PROPERTIES
  SharedAndForeignRoutesStay
  OperatorRoutesSurvive
  SuccessIsTrue
