SPECIFICATION FairSpec
CONSTANTS
  None = None
  u1 = u1
  u2 = u2
  d1 = d1
  Migrators = {u1, u2, d1}
  MaxCrashes = 2
  CommandOf <- MCCommandOf
INVARIANTS
  SchemaWhole
  NoMigratorFails
PROPERTIES
  SuccessMeansThere
  EveryMigratorEnds
