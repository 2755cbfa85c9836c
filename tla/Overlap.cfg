\* Two lanes that both change the lockfile are integrated.
SPECIFICATION TreeSpec
CONSTANTS
    Crew = {l1, l2}
    First = l1
    Sources = {"app", "lock"}
    Lockfile = "lock"
    MaxRuns = 2
    MaxTampers = 1
INVARIANT OverlapIsSeen
CHECK_DEADLOCK FALSE
