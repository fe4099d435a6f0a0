SPECIFICATION FairSpec
CONSTANTS
    p1 = p1
    p2 = p2
    p3 = p3
    Networks <- MCNetworks
    Pending <- MCPending
    NetworkOf <- MCNetworkOf
    Funded = {p2, p3}
    FailureThreshold = 2
    MaxRetries = 1
    ResetTimeout = 2
    MaxFinality = 2
    MaxOutages = 2
INVARIANT ThresholdDecides
PROPERTIES ProbesAreSpaced EveryPaymentIsAsked
CHECK_DEADLOCK FALSE
