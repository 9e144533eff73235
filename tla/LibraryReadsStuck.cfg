\* One reader of categories.
CONSTANTS
  r1 = r1 r2 = r2 r3 = r3
  Readers = {r1}
  Reads = {"category"}
  MaxCategories = 1
  MaxMembers = 1
SPECIFICATION Spec
PROPERTIES ImportEnds
CHECK_DEADLOCK FALSE
