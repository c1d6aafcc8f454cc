SPECIFICATION FairSpec
CONSTANTS
  Site = {}
  Watcher = watcher
  d1 = d1
  a1 = a1
  a2 = a2
  x1 = x1
  issue = issue
  Address = {a1, a2}
  NoDID = nodid
  Entry <- OneAndDefault
  MDFUnreachable = mdfUnreachable
  EventKey <- NoEvents
  reportThrottle = 1
  LateRequests = TRUE
  Retasking = FALSE
PROPERTIES EndedFaultIsRetracted
