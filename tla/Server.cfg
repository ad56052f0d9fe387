CONSTANTS
    Persistent = FALSE
    Lifetime = "turn"
    Ceiling = 1
    Retries = 0
    Reqs = {r1, r2}
    MaxAgents = 2
    MaxSessions = 2
    MaxProcs = 2
    MaxRestarts = 1
    Lead = Lead
    Help = Help
    Unseated = Unseated
    GateReqs = {h1, h2}
    MaxToolTokens = 2
    MaxSeats = 3
    MaxGateRestarts = 1
    Triggers <- TwoAgents
    Fires = {f1}
    Debounce = 1
    MaxEntries = 5
    MaxTicks = 1
    WakeManagers = {m1}
    Workers = {w1}
    WakeJobs = {j1}
    MaxLog = 3
    MaxWakes = 2
    MaxResets = 1
    MaxSpaces = 2
    MaxReportRows = 5
    MaxConsumerRestarts = 1
    Verbs = {a}
    DialValues = {x}
    Unset = Unset
    EmbSessions = {s1}
    EmbJobs = {j2}
    MaxEdits = 2
SPECIFICATION ServerSpec
INVARIANTS OneTimerEach HandedOver ResumesSame HeaderHonest OneMoment
PROPERTIES NoStaleFire LiveUntilFired NoDispatchCleared CompletionHasRow
CHECK_DEADLOCK FALSE
