CONSTANTS
    Nobody = Nobody
    Holder = {h1, h2}
    Caller = {h1}
    MaxRetries = 2
    TTL = 3
    AcquireDelay = 1
    MaxStall = 8
    MaxTime = 5
SPECIFICATION ClientSpec
INVARIANTS GuardMeansOwnership OneLateSend
PROPERTIES LockChangesHands ImplementsRequest
CHECK_DEADLOCK FALSE
