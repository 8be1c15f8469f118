SPECIFICATION Spec
CONSTANTS
  CPUs = {0, 1}
  Madts <- SomeMadts
  NoMadt = NoMadt
  MaxGsi = 4
  NrIsa = 3
  TestTicks = 1
  TickMod = 3
  Faulty = {1}
INVARIANTS TypeOK HandlersAlone ClockWired HandlerReady
PROPERTIES TimersRun
CHECK_DEADLOCK FALSE
