SPECIFICATION Spec
CONSTANTS
    Task <- OneTask
    Absent = Absent
    Torn = Torn
    Workers = {w1}
    Tools = {}
    Payloads <- MCPayloads
    Faults = {}
    MaxCardUpdates = 4
    MaxRequests = 3
    Users = {"ann", "bob"}
    AllowedUsers = {}
    Commands = {c1, c2}
INVARIANTS
    WillNotRun
CHECK_DEADLOCK FALSE
