CONSTANTS
    Desks = {d1, d2}
    Names = {"m", "x"}
    Shipped = {"m"}
    MaxCommits = 3
    MaxEdits = 2
    MaxRows = 2
    WtAgents = {a, b}
    WtReqs = {h1, h2}
    Label <- OneLabel
    Roots = {"wt"}
    BranchPrefixes <- NoPrefix
    Places <- OnePlace
    Backfilled = {a}
    MaxHands = 1
    MaxBoots = 1
    Eras <- AllEras
    MaxWrites = 1
    MaxCuts = 1
    Workspaces = {"A", "B"}
    Chats = {"a1", "a2", "b1"}
    Seat <- SeatOf
    Pages = {p1}
    Kinds = {"sessions", "whiteboard", "spawn"}
    Nowhere = "nowhere"
    RingSize = 2
    MaxGestures = 2
    MaxPolls = 2
    MaxBooted = 2
    SkillNames <- OneSkill
    ProgramNames <- OneProgram
    Companions <- OneFile
    Contents = {"c", "d"}
    Wakes = {"t1", "t2", "t3"}
    Slug <- SlugOf
    Absent = "absent"
    MaxRoleEdits = 3
    LineNames = {"m", "x", "n", "o"}
    EngineRoles <- TwoShipped
    PmNames = {"v", "w"}
    PmRoles = {"r", "f"}
    PmStanding = {"r"}
    PmShipped <- TwoReleases
    PmLegacy = {"w"}
    MaxShas = 3
    BaseRef = "base"
    MaxLine = 6
    AskLabels <- TwoLabels
    Typed <- TypedStrings
    MaxPanel = 2
    MaxAsks = 2
    MaxCalls = 3
    MaxTouches = 2
SPECIFICATION Spec
INVARIANTS PinResolves AckedEditsKept NoResidue UpgradeKeeps NoRowLost LayoutsStayHome HoldsGrabbed RoleReads ComparedWithOrigin RefsResolve AnswerArrives
PROPERTIES TriggersStayInStep
CHECK_DEADLOCK FALSE
