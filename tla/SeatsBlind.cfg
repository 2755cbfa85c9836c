SPECIFICATION Spec
CONSTANTS
    Lanes = {1, 2}
    Registry <- TheRegistry
    Order <- TheOrder
    Policies <- ChainsOnly
    MaxRuns = 5
    MaxAttempts = 1
    MaxCrashes = 1
INVARIANT NoBlindFailover
CHECK_DEADLOCK FALSE
