SPECIFICATION Spec
CONSTANTS
  NrPages = 9
  MaxOrder = 3
  AllocSizes <- SinglePages
  Frees = "lifo"
  PagesZeroed = TRUE
  LastPageAvail = TRUE
INVARIANTS TypeOK ListsRight NoDoubleUse
PROPERTIES BootEnds PageAllocatorSpec
