SPECIFICATION Spec
CONSTANTS
  CPUs = {cpu1, cpu2}
  NoCPU = NoCPU
  Caches = {c1, c2}
  NoCache = NoCache
  Pages = {s1, s2, s3, s4}
  Bogus = Bogus
  NoPage = NoPage
  ObjsPerPage = 2
  MaxHeld = 2
  SerialGrow = TRUE
INVARIANTS TypeOK MutualExclusion ObjectsExclusive SlabsRight
PROPERTIES OwnerIsFinal LockReleased
