SPECIFICATION Spec
CONSTANTS
  Names = {100, 101}
  Zones <- TheZones
  Width = 3
  Special = {7}
  MinBits = 1
  MinCommunityBits = 2
  Grace = 3
  Retention = 3
  Lists = {1, 2, 3}
  Base <- TheBase
  Pool <- ThePool
  Targets <- TheTargets
  Bare = {100}
  Bytes <- TheBytes
  Requests <- TheRequests
  Values <- TheValues
  Cutoff = 7
  MaxEdits = 3
INVARIANTS PlanRoutesTheMaterial OwnershipIsSettled ForecastIsTheBuild OverlapsAreShared
CHECK_DEADLOCK FALSE
