SPECIFICATION Spec
CONSTANTS
  Catalogs <- TheCatalogs
  Configurations <- TheConfigurations
  Pool <- ThePool
  Refs <- TheRefs
  Forms <- TheForms
  Installations = {here, there}
  MaxEdits = 1
INVARIANTS ImportIsTheExport RegistryIsStore
SYMMETRY Symmetry
CHECK_DEADLOCK FALSE
