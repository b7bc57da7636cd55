CONSTANTS
  Confs <- MCConfs
  BufferSize = 6
  HttpReplies <- MCHttpReplies
SPECIFICATION FairSpec
INVARIANT ConnectionIsComplete
CHECK_DEADLOCK FALSE
