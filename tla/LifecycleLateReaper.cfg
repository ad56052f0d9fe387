CONSTANTS
    Persistent = TRUE
    Lifetime = "session"
    Ceiling = 1
    Retries = 0
    Reqs = {r1}
    MaxAgents = 1
    MaxSessions = 1
    MaxProcs = 2
    MaxRestarts = 0
SPECIFICATION Spec
INVARIANT SecondReaperIsNoop
CHECK_DEADLOCK FALSE
