SPECIFICATION Spec
CONSTANTS
  Day = 3
  Quiet = {2}
  Tasks = {1, 2}
  Linked = {1}
  Characters = {c1, c2}
  Commands <- Recall
  Requests <- Manage
  Policies <- AllRules
  FirstPolicy <- Free
  Grace = 2
  MaxPending = 3
  MaxOpen = 2
  MaxTime = 3
  MaxEvents = 3
  MaxChanges = 1
  MaxRequests = 3
  MaxCrashes = 1
  Few = 3
CONSTRAINT FewThings
INVARIANTS OneActive NothingTwice
PROPERTIES SendsAreAuthorized
CHECK_DEADLOCK FALSE
