SPECIFICATION ConsoleSpec
CONSTANTS
  WIDTH = 2
  HEIGHT = 3
  BYTES <- MCBytes
  SPACE = " "
  NEWLINE = "newline"
  BACKSPACE = "backspace"
  TAB = "tab"
  WIRE = 3
  Users <- MCUsers
  Displays <- MCDisplays
INVARIANT ConsoleTypeOK
PROPERTY ImplementsTerminal
PROPERTY TypedIsPrinted
