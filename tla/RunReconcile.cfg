SPECIFICATION FairSpec
CONSTANTS
    Runs = {r1}
    NoRun = NoRun
    Earlier = {r0}
    Writes = {r1}
    NeedsLease = {r1}
    Real = {r1}
    Dispatchers = {d1}
    Reconcilers = {c1}
    Cancels = TRUE
    r1 = r1
    d1 = d1
    c1 = c1
    r0 = r0
INVARIANTS WriterHoldsLease HandoffIsBacked
 
