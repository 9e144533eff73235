SPECIFICATION Spec
CONSTANTS
  o1 = o1
  o2 = o2
  Outputs = {o1, o2}
  Names = {1, 2, 3}
  Entries = {1, 2, 3}
  Files <- MCFiles
  MaxGroups = 2
  MaxEntriesPerGroup = 2
  MaxParseCommands = 3
  MaxUpsets = 1
INVARIANTS
  LinesAreAccepted
  RoutedGroupsAreWhole
  RecordsAreTrue
PROPERTIES
  ForeignGroupsStay
CHECK_DEADLOCK FALSE
