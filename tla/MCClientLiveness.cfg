SPECIFICATION FairSpec
CONSTANTS
  Sender = {s1}
  Closer = {k1}
  NoProc = noproc
  Conn = {c1, c2}
  NoConn = noconn
  Message <- OneUnit
  MaxKeepalive = 0
  Disabled = FALSE
PROPERTIES CloseReturns DeadMDFIsNoticed RecoveryIsNoticed
