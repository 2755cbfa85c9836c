SPECIFICATION Spec
CONSTANTS
    Lanes = {"a", "r"}
    Code = {"a"}
    Requires <- Needs
    Merged = {}
    Late = {"r"}
    Reviews = TRUE
    MaxReviewCycles = 1
    EscalationPasses = 2
    Ceiling = 2
    MayAsk = {"a"}
    MayRefuse = FALSE
    MayFail = TRUE
    CancelsBefore = 0
    MaxRuns = 2
    MaxCrashes = 1
    MaxDeaths = 0
    MaxAnswers = 1
    MaxMisreads = 0
INVARIANTS OneWriter CompletedOnEvidence
CHECK_DEADLOCK FALSE
