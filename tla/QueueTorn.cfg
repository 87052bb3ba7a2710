SPECIFICATION Spec
CONSTANTS
    Task <- TwoTasks
    Absent = Absent
    Torn = Torn
    Proc = {p1, p2}
    NoProc = NoProc
    Payloads <- ScanPayloads
    DeliveryResults = {}
    MaxCardUpdates = 0
INVARIANTS
    ClaimFindsQueued
CHECK_DEADLOCK FALSE
