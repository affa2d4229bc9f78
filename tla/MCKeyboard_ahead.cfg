SPECIFICATION Spec
CONSTANTS
  c1 = c1
  sp = sp
  BufferSize = 4
  TabWidth = 2
  Chars = {c1, sp}
  Space = sp
  NUL = NUL
  NoKey = NoKey
  Habits <- TypesAhead
PROPERTIES
  InputEnds
CHECK_DEADLOCK FALSE
