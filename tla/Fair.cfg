CONSTANTS
    Persistent = TRUE
    Lifetime = "session"
    Ceiling = 1
    Retries = 1
    Reqs = {r1}
    MaxAgents = 1
    MaxSessions = 2
    MaxProcs = 3
    MaxRestarts = 0
    Clis = {c1, c2}
    Bridges = {b1}
    Nobody = Nobody
    MaxQuestions = 3
    MaxHandlers = 3
    MaxResumes = 1
    MaxFaults = 1
SPECIFICATION PartsSpec
INVARIANTS EndedHasNoOpenAsk
PROPERTIES CycleKeepsAgentSeated RequestsEnd DeadChildReaped AskerTold KeepsPromise
CHECK_DEADLOCK FALSE
