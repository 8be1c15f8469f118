SPECIFICATION PreemptSpec
CONSTANT Depth = 6
INVARIANTS PreemptionRight
CHECK_DEADLOCK FALSE
