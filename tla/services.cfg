SPECIFICATION MCFairSpec
CONSTANTS
    Early = r1
    Later = r2
    Nobody = None
INVARIANTS TableKept HistoryKept OperatorsHeeded TokensExact MembersKept
PROPERTIES ServicesEnd
CHECK_DEADLOCK FALSE
