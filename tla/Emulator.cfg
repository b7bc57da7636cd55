CONSTANTS
  columnCount = 2
  MinRows = 1
  MaxRows = 3
  MaxArg = 3
SPECIFICATION Spec
INVARIANTS DamageIsNamed EditsStayInPlace ChangedIsMarked
PROPERTY OnlyPositioningLeavesMargins
