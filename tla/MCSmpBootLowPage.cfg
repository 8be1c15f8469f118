SPECIFICATION BootSpec
CONSTANTS
  NrAPs = 1
  TickMod = 4
  Prompt = TRUE
  BspPrompt = TRUE
INVARIANT NoneFaults
