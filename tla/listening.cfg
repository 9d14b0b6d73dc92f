SPECIFICATION MCFairSpec
CONSTANTS
    Senders = {s1, s2}
    Kinds = {"mention", "plain", "hush", "elsewhere"}
    Bound = 3
    Contended = FALSE
INVARIANTS NothingDropped ChimesAlone SpeaksFirstKept
PROPERTIES SpeakingEnds
CHECK_DEADLOCK FALSE
