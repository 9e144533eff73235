SPECIFICATION Spec
CONSTANTS
  NoArtifact = NoArtifact
  NoOutput = NoOutput
  NoComposition = NoComposition
  Nothing = Nothing
  Frozen = Frozen
  b1 = b1
  b2 = b2
  o1 = o1
  o2 = o2
  t1 = t1
  t2 = t2
  c1 = c1
  c2 = c2
  FirstSetting = 1
  Builders = {b1, b2}
  Outputs = {o1}
  Tokens = {t1, t2}
  Compositions = {c1}
  Settings = {1}
  MaxEdits = 0
  MaxObserved = 1
  MaxBuilds = 2
  MaxCrashes = 1
  MaxDamaged = 1
PROPERTIES
  NeverOlder
INVARIANTS
  LinksWork
  AttemptsTellTheTruth
SYMMETRY Symmetry
CHECK_DEADLOCK FALSE
