SPECIFICATION Spec
CONSTANTS
  Width = 5
  Height = 7
  FontW = 2
  FontH = 2
  Chars = {a, b}
  Leftovers <- LeftByLoader
INVARIANTS TypeOK
PROPERTIES TerminalSpec
