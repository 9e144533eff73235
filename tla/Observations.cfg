SPECIFICATION ObservationsSpec
CONSTANTS
  dns = dns
  feed = feed
  v1 = v1
  v2 = v2
  v3 = v3
  junk = junk
  w1 = w1
  w2 = w2
  Workers = {w1, w2}
  Sources <- TheSources
  Feeds = {feed}
  Bodies <- TheBodies
  Junk = junk
  MaxEntries = 2
  Validity <- TheValidity
  Revisions <- TheRevisions
  Grace = 2
  Retention = 1
  MaxTime = 3
  MaxRefreshes = 3
SYMMETRY Symmetry
INVARIANTS AdmittedIsPromised CardTellsTheLatestRead
PROPERTIES FailuresWithdrawNothing
CHECK_DEADLOCK FALSE
