CONSTANTS
  blank = blank
  Line = {a, blank}
  MinRows = 2
  MaxRows = 3
  MaxStep = 1
  ScrollCounts = {0, 2}
  MaxLines = 4
  MaxChunk = 2
SPECIFICATION FairSpec
INVARIANTS TypeOK ScrollbackKept ScreenIsWindow StaleIsInvalid
PROPERTY NobodyWaitsForEver
