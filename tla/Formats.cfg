SPECIFICATION Spec
CONSTANTS
  Width = 2
  Bare = {3}
  Long <- TheLong
  MaxLines = 6
  MaxRules = 5
  MaxEntriesPerGroup = 2
  MaxGroups = 3
  Plans <- ThePlans
  Output = 40
  Paths = {1, 2}
  Relative = {2}
  Foreign <- TheForeign
INVARIANTS
  FilesSteerThePlan
  OneFileForOneMeaning
  ImportReplaces
  OutcomeIsTold
CHECK_DEADLOCK FALSE
