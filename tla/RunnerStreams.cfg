SPECIFICATION Spec
CONSTANTS
    Lines <- MCLines
    Limits = {0, 2, 5}
    Capacity = 1
    Background = {b1}
    MaxLines = 2
INVARIANTS
    TypeOK
    KeptIsLongestPrefix
    OutputIsComplete
    SessionIsFound
PROPERTIES
    RunReturns
    PrintsEnd
CHECK_DEADLOCK FALSE
