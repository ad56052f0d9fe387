CONSTANTS
    Manager = Manager
    Worker = Worker
    Nobody = Nobody
    Jobs = {j1, j2}
    MaxNotes = 3
    MaxSessions = 3
    MaxRestarts = 1
SPECIFICATION Spec
SYMMETRY Slots
INVARIANTS DeliveredIffLanded NewestTriggerKept NoDoubleResume
CHECK_DEADLOCK FALSE
