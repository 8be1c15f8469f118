SPECIFICATION Spec
CONSTANTS
  CPUs = {p1, p2}
  Nobody = Nobody
  Calls <- AllCalls
  HandlerCalls <- Logging
  Traps = TRUE
INVARIANTS TypeOK OutputRight
PROPERTIES PanicSilencesOthers LogReturns PanicAppears
CHECK_DEADLOCK FALSE
