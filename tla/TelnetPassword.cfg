CONSTANTS
  Message <- SubOptionMessage
  MaxMessages = 2
  MaxFailures = 2
  MaxQueue = 1
  MaxEvents = 2
  Login <- Named
  SplitSubOptions = FALSE
SPECIFICATION ConnSpec
INVARIANT PasswordAfterPrompt
CHECK_DEADLOCK FALSE
