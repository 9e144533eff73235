SPECIFICATION Spec
CONSTANTS
  Nobody = Nobody
  NoDevice = NoDevice
  NoOutput = NoOutput
  MaxPending = 1
  Nowhere = Nowhere
  NoId = NoId
  NoAttempt = NoAttempt
  Timer = Timer
  h1 = h1
  h2 = h2
  d1 = d1
  d2 = d2
  o1 = o1
  o2 = o2
  a1 = a1
  a2 = a2
  i1 = i1
  Handlers = {h1, h2}
  Devices = {d1}
  Outputs = {o1, o2}
  Addresses = {a1, a2}
  Ids = {i1}
INVARIANTS
  RequestsKnowTheirRow
  SecretsNameTheirDevice
  ConsentNamesItsConnection
  OnlyAuthorisedSends
  AttemptsAreSingleRuns
  WipedStaysWiped
CHECK_DEADLOCK FALSE
SYMMETRY Symmetry
