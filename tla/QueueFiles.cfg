SPECIFICATION Spec
CONSTANTS
    Task <- OneTask
    Absent = Absent
    Torn = Torn
    Proc = {p1, p2}
    NoProc = NoProc
    Payloads <- MCPayloads
    DeliveryResults = {"DELIVERED"}
    MaxCardUpdates = 1
INVARIANTS
    TypeOK
    ClaimedOnce
    ApprovalGate
    NoTornAtRest
PROPERTIES
    LockGivenBack
    Irrevocable
    ImplementsTaskQueue
CHECK_DEADLOCK FALSE
