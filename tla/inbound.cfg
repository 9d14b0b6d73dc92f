SPECIFICATION FairSpec
CONSTANTS
    Links = {w1, w2}
    Copies = {"a1", "a2", "b1"}
    a = a
    b = b
    Messages <- MCMessages
    MessageOf <- MCMessageOf
    Requests <- MCRequests
    Parts = 2
    MaxEntries = 1
    None = None
CONSTRAINT TwoCopies
INVARIANTS AnsweredOnce DedupAgrees LinkAgrees
PROPERTIES DeliveriesEnd
CHECK_DEADLOCK FALSE
