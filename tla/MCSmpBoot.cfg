SPECIFICATION BootSpec
CONSTANTS
  NrAPs = 3
  TickMod = 4
  Prompt = TRUE
  BspPrompt = TRUE
INVARIANTS BootTypeOK HandoverRight
PROPERTIES BootEnds AllComeOnline
