CONSTANTS
  c1 = c1
  c2 = c2
  f1 = f1
  r1 = r1
  Conn <- MCConn
  Tunnel <- MCTunnel
  TunnelConn = {t1, t2}
  ForwardOf <- MCForwardOf
  ReverseOf <- MCReverseOf
  X11Conn <- MCX11Conn
  MaxQueue = 4
  MaxEvents = 2
  MaxEnds = 2
SPECIFICATION FairSpec
CONSTRAINT OneUsed
INVARIANTS TypeOK PurgeIsFinal ReleasedWhenReported
  OnlyLateOpenLeaksSource TunnelsNeedSession NoListenerOnceClosing
PROPERTIES ImplementsLifecycle EndIsReported LoginIsAnswered
CHECK_DEADLOCK FALSE
