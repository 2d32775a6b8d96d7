\* Three callers, on an empty database and on those of the last releases.
CONSTANTS
  Jobs = {j1, j2, j3}
  Deployed = {0, 5, 6, 7}
  Faults = TRUE
  MaxId = 28
SPECIFICATION Spec
SYMMETRY Callers
INVARIANTS
  MigrationsTypeOK
  SchemaIsOfDone
  OnlyTheSeventhTwice
PROPERTIES
  
  ImplementsHistory
