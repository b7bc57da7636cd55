CONSTANTS
  Confs <- MCConfs
  BufferSize = 6
  HttpReplies <- MCHttpReplies
SPECIFICATION FairSpec
INVARIANTS BypassIsExact ConnectedIsTheHost
PROPERTY ConnectEnds
CHECK_DEADLOCK FALSE
