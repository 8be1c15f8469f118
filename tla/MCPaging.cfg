SPECIFICATION Spec
CONSTANTS
  E = 4
  PgSize = 2
  Limits <- SomeLimits
  Kmaps <- SomeKmaps
  MaxKmaps = 2
  MpPage = 1
INVARIANTS TypeOK TablesRight
PROPERTIES OthersUndisturbed MapReturns DirectMapSpec
CHECK_DEADLOCK FALSE
