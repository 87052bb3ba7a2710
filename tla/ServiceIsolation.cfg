SPECIFICATION Spec
CONSTANTS
    Calls = {c1, c2}
    Projects <- AppAndNotes
    Plain = {"notes"}
    NoGit = {"notes"}
    Names <- AppAndNotes
    NameOf <- Itself
    WorkspaceIds = {"ws"}
    Paths = {"docs"}
    None = None
    Requests <- AnyRequests
    MaxWorkspaces = 1
    MaxActive = 2
    Behaviours = {"commit", "verify_writes", "verify_raises", "remove"}
INVARIANTS
    TypeOK
    MainCheckoutUntouched
    ContextStaysInWorktree
CHECK_DEADLOCK FALSE
