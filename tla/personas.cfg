SPECIFICATION FairSpec
CONSTANTS
    Characters = {c1, c2}
    First = c1
    Messages = {m1, m2, u1}
    Unasked = {u1}
    Switches = {s1, s2}
    Console = TRUE
    StoresFail = TRUE
    None = None
INVARIANTS StoresAgree
PROPERTIES NobodyWaits
CHECK_DEADLOCK FALSE
