CONSTANTS
    Persistent = TRUE
    Lifetime = "session"
    Ceiling = 1
    Retries = 1
    Reqs = {r1, r2}
    MaxAgents = 2
    MaxSessions = 2
    MaxProcs = 2
    MaxRestarts = 1
    HookSessions = {s1, s2}
    HookAgents = {"A"}
    Works <- OneAgent
    Keeps = {}
    HookSlots = {k1, k2}
    HabitLists <- RoleHabits
    ToolCalls <- Calls
    MaxHooks = 3
    MaxTaskRows = 3
    MaxQuiet = 1
    MaxHookRestarts = 1
    MaxLines = 5
    MaxResumes = 2
    MaxReads = 2
    MaxWindow = 2
    MaxViewed = 2
    TurnSlots = {h1}
    MaxKids = 2
    MaxThreads = 2
    MaxOut = 2
SPECIFICATION SessionsSpec
SYMMETRY Slots
INVARIANTS HandlesAgree KilledChildUnreachable ReaperOwed FlaggedByReaper QuietSaid TransitionsReplay RepairSpares ViewerTracks WindowsTile
PROPERTIES TurnHeard
CHECK_DEADLOCK FALSE
