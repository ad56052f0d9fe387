CONSTANTS
    Desks = {d1, d2}
    Names = {"m", "x"}
    Shipped = {"m"}
    MaxCommits = 2
    MaxEdits = 2
    MaxRows = 2
    WtAgents = {a, b}
    WtReqs = {h1, h2}
    Label <- OneLabel
    Roots = {"wt"}
    BranchPrefixes <- NoPrefix
    Places <- OnePlace
    Backfilled = {a}
    MaxHands = 1
    MaxBoots = 0
    Eras <- NoEra
    MaxWrites = 2
    MaxCuts = 1
    Workspaces = {"A", "B"}
    Chats = {"a1", "a2", "b1"}
    Seat <- SeatOf
    Pages = {p1}
    Kinds = {"sessions", "whiteboard", "spawn"}
    Nowhere = "nowhere"
    RingSize = 2
    MaxGestures = 0
    MaxPolls = 2
    MaxBooted = 2
    SkillNames <- SlashedSkills
    ProgramNames <- OneProgram
    Companions <- OneFile
    Contents = {"c", "d"}
    Wakes = {"t1", "t2", "t3"}
    Slug <- SlugOf
    Absent = "absent"
    MaxRoleEdits = 2
    LineNames = {"m", "x", "n", "o"}
    EngineRoles <- TwoShipped
    PmNames = {"v", "w"}
    PmRoles = {"r", "f"}
    PmStanding = {"r"}
    PmShipped <- TwoReleases
    PmLegacy = {"w"}
    MaxShas = 3
    BaseRef = "base"
    MaxLine = 3
    AskLabels <- TwoLabels
    Typed <- TypedStrings
    MaxPanel = 1
    MaxAsks = 0
    MaxCalls = 0
    MaxTouches = 0
SPECIFICATION Spec
SYMMETRY Slots
INVARIANT PinReads
CHECK_DEADLOCK FALSE
