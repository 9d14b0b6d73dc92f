SPECIFICATION FairSpec
PROPERTIES RemindersEnd FollowupsEnd
CHECK_DEADLOCK FALSE
