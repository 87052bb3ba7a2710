SPECIFICATION Spec
CONSTANTS
    Calls = {c1, c2}
    Projects <- AppOnly
    Plain = {}
    NoGit = {}
    Names <- AppOnly
    NameOf <- Itself
    WorkspaceIds = {"ws", "ws2"}
    Paths = {"docs", "code"}
    None = None
    Requests <- SharedRequests
    MaxWorkspaces = 0
    MaxActive = 2
    Behaviours = {}
INVARIANTS
    AllowlistKept
PROPERTIES
    RunIsRecorded
CHECK_DEADLOCK FALSE
