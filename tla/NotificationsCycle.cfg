CONSTANTS
    Manager = Manager
    Worker = Worker
    Nobody = Nobody
    Jobs = {j1}
    MaxNotes = 2
    MaxSessions = 2
    MaxRestarts = 0
SPECIFICATION Spec
PROPERTY RearmedOutlivesCycle
CHECK_DEADLOCK FALSE
