SPECIFICATION FairSpec
CONSTANTS
    SystemConfig <- MCSystemConfig
    Tag = {"latest", "safe", "finalized"}
    Fork = {"x", "y"}
    MaxNumber = 2
    ChanSize = 1
    MaxPolls = 3
INVARIANT HeadersExact
PROPERTIES FailureEndsProcess 
CHECK_DEADLOCK FALSE
