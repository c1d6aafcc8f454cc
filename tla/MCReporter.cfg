SPECIFICATION FairSpec
CONSTANTS
  Site = {s1}
  Watcher = watcher
  d1 = d1
  a1 = a1
  a2 = a2
  x1 = x1
  issue = issue
  Address = {a1, a2}
  NoDID = nodid
  Entry <- OneAndDefaults
  MDFUnreachable = mdfUnreachable
  EventKey <- SharedKeys
  reportThrottle = 1
  LateRequests = FALSE
  Retasking = TRUE
INVARIANTS ReporterInv OneAttempt RecordIsADMFs SuppressesOnlyRepeats
PROPERTIES EndedFaultIsRetracted
