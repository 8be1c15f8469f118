SPECIFICATION Spec
CONSTANTS
  NrPages = 4
  MaxOrder = 3
  AllocSizes <- SinglePages
  Frees = "any"
  PagesZeroed = TRUE
  LastPageAvail = TRUE
INVARIANT NoDoubleUse
