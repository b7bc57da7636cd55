CONSTANTS
  Message <- MCMessage
  MaxMessages = 2
  MaxFailures = 2
  MaxQueue = 1
  MaxEvents = 2
  Login <- MCLogin
  SplitSubOptions = FALSE
SPECIFICATION ConnFairSpec
INVARIANTS ConnTypeOK TextIntact ServerKnows
PROPERTIES EndIsReported KeepsToLine
CHECK_DEADLOCK FALSE
