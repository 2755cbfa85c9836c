SPECIFICATION Spec
CONSTANTS
    Lanes = {1, 2}
    Registry <- TheRegistry
    Order <- TheOrder
    Policies <- ThePolicies
    MaxRuns = 4
    MaxAttempts = 1
    MaxCrashes = 1
INVARIANTS ReviewerIsAnother  
CHECK_DEADLOCK FALSE
