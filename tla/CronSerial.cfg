SPECIFICATION Spec
CONSTANTS
    Task <- TwoTasks
    Absent = Absent
    Torn = Torn
    Payloads <- MCPayloads
    Ensurers = {e1, e2, e3}
    Overlap = FALSE
    MaxJobs = 3
    SameRoot = TRUE
INVARIANTS
    TypeOK
    OneJob
PROPERTIES
    QueuedIsClaimed
CHECK_DEADLOCK FALSE
