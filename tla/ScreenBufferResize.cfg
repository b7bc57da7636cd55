CONSTANTS
  blank = blank
  Line = {a, blank}
  MinRows = 2
  MaxRows = 3
  MaxStep = 1
  ScrollCounts = {}
  MaxLines = 6
  MaxChunk = 3
SPECIFICATION Spec
INVARIANT CursorOnScreen
