\* A short conversation under crashes, lost receipts, resumes, a stop, every kind of refusal
\* at every gate, grants coming and going, claims, loops, ceilings and endpoint faults.
SPECIFICATION FairSpec
CONSTANTS
    MaxExchanges = 3
    IncompleteRetryLimit = 1
    RepeatLimit = 1
    CompletionLimit = 2
    Texts = {"work"}
    Effects = {"edit", "gated", "unknown"}
    Claims = {FALSE, TRUE}
    Askable = {"EXECUTION"}
    MaxCrashes = 1
    MaxResumes = 2
    MaxStops = 1
    MaxFlips = 1
    MayExpire = TRUE
INVARIANTS TypeOK HeardInOrderOnce OneTurnAfterStop HoldsAreWhatIsOwed
PROPERTIES NothingHeardWhileHeld ImplementsConversation StopIsNotUndone ComesToRest
