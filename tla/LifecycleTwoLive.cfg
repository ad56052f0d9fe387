CONSTANTS
    Persistent = TRUE
    Lifetime = "session"
    Ceiling = 1
    Retries = 0
    Reqs = {r1, r2}
    MaxAgents = 1
    MaxSessions = 2
    MaxProcs = 2
    MaxRestarts = 0
SPECIFICATION Spec
SYMMETRY Slots
INVARIANT OneLiveSession
CHECK_DEADLOCK FALSE
