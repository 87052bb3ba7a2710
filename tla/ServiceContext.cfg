SPECIFICATION Spec
CONSTANTS
    Calls = {c1, c2}
    Projects <- AppAndLib
    Plain = {}
    NoGit = {}
    Names <- AppAndLib
    NameOf <- Itself
    WorkspaceIds = {"ws"}
    Paths = {"docs"}
    None = None
    Requests <- SameNameRequests
    MaxWorkspaces = 0
    MaxActive = 1
    Behaviours = {}
INVARIANTS
    ContextStaysInWorktree
CHECK_DEADLOCK FALSE
