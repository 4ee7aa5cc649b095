CONSTANT MaxFaults = 3
SPECIFICATION FairSpec
INVARIANTS TypeOK ProxyFollowsNode ReportedUrlKept
PROPERTIES AdoptsLiveUrl FailureEndsProcess RecordCatchesUp
CHECK_DEADLOCK FALSE
