SPECIFICATION Spec
CONSTANTS
  Day = 2
  Quiet = {}
  Jobs = {1}
  Incoming = {"message", "memory", "binding"}
  Policies <- OnAndOff
  FirstPolicy <- Wanted
  Window = 2
  Recently = 1
  SourceAge = 4
  MaxUnanswered = 2
  MaxPending = 2
  MaxTime = 3
  MaxDue = 3
  MaxEvents = 3
  MaxVersions = 2
  MaxChanges = 1
  MaxRequests = 3
  MaxCrashes = 1
  Few = 3
CONSTRAINT FewThings
INVARIANTS OnePlanned NothingTwice
PROPERTIES OperatorDecides
CHECK_DEADLOCK FALSE
