SPECIFICATION Spec
CONSTANTS
    Runs = {r1, r2}
    NoRun = NoRun
    Earlier = {}
    Writes = {r1}
    NeedsLease = {r1}
    Real = {r1, r2}
    Dispatchers = {d1, d2}
    Reconcilers = {}
    Cancels = FALSE
    r1 = r1
    r2 = r2
    d1 = d1
    d2 = d2
INVARIANTS OneRealChild
PROPERTIES OneWorkerPerKey
CHECK_DEADLOCK FALSE
