CONSTANTS
  nil = nil
  c1 = c1
  c2 = c2
  j1 = j1
  j2 = j2
  tunnel = tunnel
  Conn <- MCConn
  Connection <- MCConnection
  Jump <- MCJump
  Tunnel = {tunnel}
  TunnelConn = {}
  ForwardOf <- MCForwardOf
  ReverseOf <- MCReverseOf
  X11Conn <- None
  MaxQueue = 1
  MaxEvents = 1
  Patient = TRUE
SPECIFICATION FairSpec
INVARIANTS LetGoMeansReleased NoStrayEvent ReadyForNextSession
  TunnelOutlivesTraffic
PROPERTY UserIsAnswered
CHECK_DEADLOCK FALSE
