SPECIFICATION Spec
CONSTANTS
    Lanes = {"a"}
    Code = {"a"}
    Requires = {}
    Merged = {}
    Late = {}
    Reviews = TRUE
    MaxReviewCycles = 0
    EscalationPasses = 1
    Ceiling = 2
    MayAsk = {}
    MayRefuse = TRUE
    MayFail = TRUE
    CancelsBefore = 1
    MaxRuns = 3
    MaxCrashes = 0
    MaxDeaths = 1
    MaxAnswers = 0
    MaxMisreads = 1
INVARIANTS  AttemptsAreBounded 
CHECK_DEADLOCK FALSE
