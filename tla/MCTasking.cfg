SPECIFICATION TaskingSpec
CONSTANTS
  XID = {x1, x2}
  EmptyXID = noxid
  NoTask = notask
  Target <- Criteria
  Task <- Tasks
  TaskDetails <- Messages
  honoursCorrelation = TRUE
INVARIANTS StoreInv MatchExact InterceptsAsOrdered ReportsWhatIsHeld
