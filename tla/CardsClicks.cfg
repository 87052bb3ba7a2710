SPECIFICATION Spec
CONSTANTS
    Task <- OneTask
    Absent = Absent
    Torn = Torn
    Workers = {w1}
    Tools = {d1}
    Payloads <- MCPayloads
    Faults = {"edit_raises", "send_raises", "torn_get", "crash"}
    MaxCardUpdates = 4
    MaxRequests = 3
    Users = {"ann", "bob"}
    AllowedUsers = {"ann"}
    Commands = {c1, c2}
INVARIANTS
    TypeOK
    DecidedByAllowed
    OneVerdict
    RejectedNeverRuns
    CardTellsTheDecision
    CardAgrees
    DeliveredWasShown
SYMMETRY CommandSymmetry
CHECK_DEADLOCK FALSE
