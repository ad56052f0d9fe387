CONSTANTS
    Clis = {c1}
    Bridges = {}
    Nobody = Nobody
    MaxQuestions = 2
    MaxHandlers = 2
    MaxResumes = 0
    MaxFaults = 1
SPECIFICATION AskFairSpec
PROPERTY ReconnectKeepsQuestion
CHECK_DEADLOCK FALSE
