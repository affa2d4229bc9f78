SPECIFICATION ConsoleSpec
CONSTANTS
  c1 = c1
  sp = sp
  BufferSize = 5
  TabWidth = 2
  Chars = {c1, sp}
  Space = sp
  NUL = NUL
  NoKey = NoKey
  Habits <- AllHabits
  VGA_WIDTH = 3
  VGA_HEIGHT = 2
  Old = Old
INVARIANTS
  TypeOK
  CursorInText
  EchoShowsLine
  CursorOnScreen
PROPERTIES
  InputEndsUnlessStuck
  DeliversLine
CHECK_DEADLOCK FALSE
