CONSTANTS
  Message <- SubOptionMessage
  MaxMessages = 2
  MaxFailures = 2
  MaxQueue = 1
  MaxEvents = 2
  Login <- Named
  SplitSubOptions = TRUE
SPECIFICATION ConnSpec
INVARIANT TextIntact
CHECK_DEADLOCK FALSE
