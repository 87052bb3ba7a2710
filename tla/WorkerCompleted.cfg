SPECIFICATION Spec
CONSTANTS
    Task <- OneTask
    Absent = Absent
    Torn = Torn
    Workers = {w1}
    Tools = {}
    Payloads <- MCPayloads
    Faults = {"send_raises"}
    MaxCardUpdates = 4
    MaxRequests = 2
PROPERTIES
    CompletedIsTerminal
CHECK_DEADLOCK FALSE
