SPECIFICATION Spec
CONSTANTS
  Memories = {m1, m2}
  Dates = {d1, d2}
  NoDate = NoDate
  Says <- Everything
  MaxRows = 3
  MaxChanges = 1
  MaxCrashes = 1
SYMMETRY Alike
CONSTRAINT Within
INVARIANTS RecordsAgree ConfirmedAsShown
PROPERTIES CorrectionsStand
CHECK_DEADLOCK FALSE
