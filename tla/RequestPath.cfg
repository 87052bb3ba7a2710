SPECIFICATION Spec
CONSTANTS
    Task = {1}
    Absent = Absent
    Torn = Torn
    Messages <- MCMessages
INVARIANTS
    TypeOK
    RanAsApproved
    ForbiddenNeverRuns
    ViewsAgree
    MismatchMeansRefused
    AnswerGoesBack
PROPERTIES
    FinalUnlessDeliveryRaises
CHECK_DEADLOCK FALSE
