SPECIFICATION Spec
CONSTANTS
    Commands = {p1, p2, p3}
    Commanded = {v1}
    Unset = Unset
    MaxEffects = 2
    MaxTurns = 2
    MaxApiTurns = 3
    MaxRestarts = 1
    MaxWords = 3
    MaxLines = 3
    MaxChecks = 1
    Limit = 2
    Window = 6
    MissLimit = 2
    RetryLimit = 1
    MaxWork = 3
    MaxOwn = 1
    MaxCrashes = 2
    Threads = {t1, t2}
    DispatchKeys = {1}
    MaxCalls = 3
    MaxLocal = 1
    MaxEvents = 2
    Strategists = {s1, s2}
    Digests = {g1}
    LeaseS = 1
    MaxClock = 2
    MaxClaims = 3
    MaxDecisions = 3
    MaxMessages = 2
    LaneCount = 3
    MaxDeps = 2
    MaxAdoptions = 2
    Own = "own"
    Other = "other"
    LookLimit = 2
    SettlePolls = 2
    StablePolls = 2
    Lag = 1
    Flicker = 1
    ShownTurns = 3
    MaxTroubles = 1
    Producers = {p1, p2}
    MessageIds = {"a", "b"}
    MaxAppends = 3
    MaxDeaths = 1
    MaxMisses = 1
    InboxRuns = {r1, r2}
    MaxAnswers = 3
    Budget = 2
    BlockerWindow = 1
    ObservationWindow = 1
    DirectiveLimit = 1
    MaxEntries = 2
    MaxSize = 2
    MaxUpstream = 1
    Files = {"f", "g"}
    MaxWrites = 1
    Crew = {l1, l2}
    Upstream = l1
    Sources = {"app", "lock"}
    Lockfile = "lock"
    MaxRuns = 2
    MaxTampers = 1
INVARIANTS   ClaimsAreWeighed  ToolsStayInScope
INVARIANTS RecordsStayWhole DeliveredOnce HandoverIsHonest   
CHECK_DEADLOCK FALSE
