SPECIFICATION Spec
CONSTANTS
  PgSize = 2
  MemoryMaps <- Maps
  KernEnd = 5
  MbootEnds = {4, 7}
  Requests = {1, 2, 3}
  PageArray = 2
  EarlyLimit = 2
INVARIANTS TypeOK PagesRight
PROPERTIES OverrunsOnlyWhenFull
