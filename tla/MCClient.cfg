SPECIFICATION Spec
CONSTANTS
  Sender = {s1}
  Closer = {k1}
  NoProc = noproc
  Conn = {c1, c2}
  NoConn = noconn
  Message <- Batches
  MaxKeepalive = 1
  Disabled = FALSE
INVARIANTS NeverTwice OkIsDelivered PeersReadWholeUnits ClosedHoldsNothing
SYMMETRY Interchangeable
