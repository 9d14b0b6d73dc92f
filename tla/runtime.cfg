SPECIFICATION Spec
CONSTANTS
  Convs = {alice}
  Sources = {m1}
  Requests = {r1}
  Characters = {hana, yuki}
  NoSource = NoSource
  NoCharacter = NoCharacter
  Workers = 1
  MaxPending = 2
  MaxSeq = 3
  MaxAttempts = 2
  MaxGeneration = 2
SYMMETRY Symmetry
CONSTRAINT Within
INVARIANTS StoreAgrees SendsArePermitted DeletionIsExact NothingErasedReturns OrderIsKept
PROPERTIES ErasureHolds KeepsPromise
CHECK_DEADLOCK FALSE
