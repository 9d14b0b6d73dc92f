SPECIFICATION FairWithin
CONSTANTS
  Convs = {alice,bob}
  Sources = {}
  Requests = {}
  Characters = {hana}
  NoSource = NoSource
  NoCharacter = NoCharacter
  Workers = 1
  MaxPending = 2
  MaxSeq = 2
  MaxAttempts = 1
  MaxGeneration = 2
CHECK_DEADLOCK FALSE
PROPERTIES EventsSettle ShutdownCompletes
