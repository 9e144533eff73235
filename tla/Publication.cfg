SPECIFICATION FairSpec
CONSTANTS
  NoArtifact = NoArtifact
  NoOutput = NoOutput
  NoComposition = NoComposition
  Nothing = Nothing
  Frozen = Frozen
  b1 = b1
  b2 = b2
  o1 = o1
  o2 = o2
  t1 = t1
  t2 = t2
  c1 = c1
  c2 = c2
  FirstSetting = 1
  Builders = {b1}
  Outputs = {o1}
  Tokens = {}
  Compositions = {c1, c2}
  Settings = {1}
  MaxEdits = 1
  MaxObserved = 0
  MaxBuilds = 1
  MaxCrashes = 1
  MaxDamaged = 0
PROPERTIES
  ImplementsInstantBuilds
  PublicationEnds
CHECK_DEADLOCK FALSE
