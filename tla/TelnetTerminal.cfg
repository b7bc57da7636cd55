CONSTANTS
  MaxSessions = 2
  MaxQueue = 1
  MaxEvents = 2
  MaxFailures = 1
SPECIFICATION FairSpec
INVARIANTS TypeOK SessionsAreOwned
PROPERTY DisconnectIsAnswered
CHECK_DEADLOCK FALSE
