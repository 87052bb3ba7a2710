SPECIFICATION Spec
CONSTANTS
    Task <- TwoTasks
    Absent = Absent
    Torn = Torn
    Workers = {w1}
    Tools = {d1}
    Payloads <- MCPayloads
    Faults = {"edit_raises", "send_raises", "torn_get", "crash"}
    MaxCardUpdates = 4
    MaxRequests = 2
INVARIANTS
    TypeOK
    RunOnce
    DoneWasRun
PROPERTIES
    QueuedSettles
    SettledIsReported
CHECK_DEADLOCK FALSE
