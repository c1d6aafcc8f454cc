SPECIFICATION FairSpec
CONSTANTS
  Request = {r1, r2}
  Watchdog = watchdog
  NoProc = noproc
  XID = {x1}
  EmptyXID = noxid
  t1 = t1
  t2 = t2
  d1 = d1
  d2 = d2
  a1 = a1
  a2 = a2
  Target = {t1, t2}
  DID = {d1, d2}
  NoDID = nodid
  Address = {a1, a2}
  NoTask = notask
  NoDest = nodest
  Details <- SentDetails
  NewDest <- CreatedDestinations
  Configured <- OneConfigured
  Timeout = 0
  deactivateAllDisabled = FALSE
  removeAllDestinationsEnabled = TRUE
  requireDIDs = TRUE
INVARIANTS X1Inv POIMirrorsStore DestinationAgreement
PROPERTIES AcknowledgedIsDone LapseSparesFreshTasks SilenceEndsInterception
