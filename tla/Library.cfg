\* One shipped and one custom list, a shipped and a custom category, a feed, a
\* destination and a profile.
CONSTANTS
  s1 = s1 u1 = u1 c1 = c1 k1 = k1 f1 = f1 a1 = a1 v1 = v1 p1 = p1 t1 = t1
  ShippedLists = {s1}
  CustomLists = {u1}
  ShippedCategories = {c1}
  CustomCategories = {k1}
  Carried <- CarriedOne
  CatalogSources = {}
  Offered <- OfferedNothing
  Feeds = {f1}
  Values = {v1}
  Contents = {t1}
  Profiles = {p1}
  Callers = {a1}
  NoList = NoList NoSource = NoSource NoContent = NoContent Free = Free
  MaxLists = 2
  MaxCategories = 1
  MaxFeedsPerList = 1
  MaxFeeds = 1
  MaxVerdicts = 1
SPECIFICATION Spec
INVARIANTS NothingDangles RegistryIsStore
PROPERTIES ImplementsOwnedLibrary MembersAreWhatWasAsked
CONSTRAINT Small
