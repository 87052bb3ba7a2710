----------------------------- MODULE MCTaskService -----------------------------
(* TaskService on small instances, for TLC. *)
EXTENDS TaskService

\* Repositories "app" and "lib", and a directory "notes" without a commit.
AppOnly == {"app"}
AppAndLib == {"app", "lib"}
AppAndNotes == {"app", "notes"}
Itself == [p \in Projects |-> p]

\* Both end in the same path component.
AllApp == [p \in Projects |-> "app"]

Ask(project, workspace, mode, approved) ==
    [project |-> project, workspace |-> workspace, mode |-> mode,
     approved |-> approved, blocked |-> FALSE, verify |-> FALSE, allow |-> {}]

Careful(request) == [request EXCEPT !.verify = TRUE, !.allow = {"docs"}]

\* Everything create_agent_task refuses or lets pass.
AnyRequests ==
    {Ask(p, w, "read", FALSE) : p \in Projects, w \in {None, "ws"}}
    \cup {Ask("app", "ws", "write", a) : a \in BOOLEAN}
    \cup {[Ask("app", None, "write", TRUE) EXCEPT !.blocked = TRUE],
          Ask("notes", "ws", "write", TRUE),
          Careful(Ask("app", "ws", "write", TRUE)),
          Careful(Ask("app", "ws", "read", TRUE))}

\* Approved write tasks that share a workspace, or do not.
SharedRequests ==
    {Careful(Ask("app", w, "write", TRUE)) : w \in WorkspaceIds}
    \cup {Ask("app", None, "read", FALSE)}

\* Read tasks in a workspace of the same name in each project.
SameNameRequests == {Ask(p, "ws", "read", FALSE) : p \in Projects}
=============================================================================
