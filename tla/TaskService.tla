------------------------------ MODULE TaskService ------------------------------
(***************************************************************************)
(* create_agent_task (task_service.py) as several workers and tool calls   *)
(* run it at once: the worktree a task runs in (worktree.py), the saved    *)
(* runner session (sessions.py), the approval and risk refusals, the       *)
(* runner, the checks after it and task.json.                              *)
(*                                                                         *)
(* Abstracted: file contents.  A tree is the set of paths that git status  *)
(* reports in it; workspace_fingerprint covers times and contents, so it   *)
(* differs from the earlier one exactly if somebody touched the tree in    *)
(* between.  Prompts and risk patterns are one bit of the request.  The    *)
(* byte quota and git's own errors are an unexplained failure.  Paths that *)
(* the repository's .gitignore hides from git status (artifacts.py:106)    *)
(* are left out: Paths are those it would show.  Callers leave the choice  *)
(* of the session to the gateway.                                          *)
(*                                                                         *)
(* Behaviours names what a configuration lets the surroundings do:         *)
(*   "commit"         a runner commits its changes                         *)
(*   "verify_writes"  a verification command writes into the tree          *)
(*   "verify_raises"  a verification command is not allowed or not there   *)
(*   "remove"         manage_agent_workspace removes worktrees             *)
(***************************************************************************)
EXTENDS Naturals, FiniteSets

CONSTANTS
    Calls,          \* calls of create_agent_task
    Projects,       \* resolved project paths
    Plain,          \* those without a HEAD: no worktree can be made
    NoGit,          \* of these, the ones that are not a Git work tree at all
    Names, NameOf,  \* safe_id of the last path component of each project
    WorkspaceIds,   \* ids callers choose (safe_id of them)
    Paths,          \* paths in a tree that git does not ignore
    None,           \* no such thing
    Requests,       \* what is asked for
    MaxWorkspaces,  \* 0: no quota
    MaxActive,      \* how many calls run at the same time
    Behaviours

Request ==
    [project : Projects, workspace : WorkspaceIds \cup {None},
     mode : {"read", "write"}, approved : BOOLEAN, blocked : BOOLEAN,
     verify : BOOLEAN, allow : SUBSET Paths]

\* A task that names no workspace gets its own id as one.
Ids == WorkspaceIds \cup Calls

Worktrees == Names \X Ids

\* The project path itself as the tree a task works in.
Checkout(p) == <<p>>

Checkouts == {Checkout(p) : p \in Projects}

Trees == Checkouts \cup Worktrees

ASSUME NamesAssumption == 
    /\ NameOf \in [Projects -> Names]
    /\ NoGit \subseteq Plain
    /\ Plain \subseteq Projects
ASSUME DistinctAssumption ==
    /\ Calls \cap WorkspaceIds = {}
    /\ None \notin Ids \cup Trees \cup Projects \cup Paths
ASSUME RequestAssumption == Requests \subseteq Request
ASSUME BoundAssumption == MaxWorkspaces \in Nat /\ MaxActive \in Nat

VARIABLES
    tree,       \* tree[d]: paths git status reports in d, or Gone
    sessions,   \* sessions[id]: the session saved for workspace id
    call,       \* the local state of each call
    wrote,      \* wrote[c]: paths the runner and the verification of c wrote
    context,    \* context[s]: trees the runner session s has worked in
    taskJson    \* taskJson[c]: the status in c's task.json, or None

vars == <<tree, sessions, call, wrote, context, taskJson>>

Gone == {None}      \* git -C of a missing directory prints an error line

\* A runner session is named by the call that started it.
Session == Calls

Outcome == {"DONE", "FAILED", "BLOCKED", "APPROVAL_REQUIRED"}

ASSUME OutcomeAssumption == None \notin Outcome

Local ==
    [pc : {"ready", "prepare", "quota", "add", "judge", "run", "after",
           "verify", "save", "finish", "ended"},
     request : Request \cup {None},
     tree : Trees \cup {None},          \* execution_path
     id : Ids \cup {None},              \* workspace.workspace_id
     error : BOOLEAN,
     session : Session \cup {None},     \* the one resumed, then the one resolved
     touched : BOOLEAN,                 \* the tree differs from the fingerprint
     zero : BOOLEAN,                    \* the runner's return code is 0
     status : SUBSET (Paths \cup {None})]   \* after_status.txt

Fresh == [pc |-> "ready", request |-> None, tree |-> None, id |-> None,
          error |-> FALSE, session |-> None, touched |-> FALSE,
          zero |-> FALSE, status |-> {}]

TypeOK ==
    /\ tree \in [Trees -> (SUBSET Paths) \cup {Gone}]
    /\ sessions \in [Ids -> Session \cup {None}]
    /\ call \in [Calls -> Local]
    /\ wrote \in [Calls -> SUBSET Paths]
    /\ context \in [Session -> SUBSET Trees]
    /\ taskJson \in [Calls -> Outcome \cup {None}]

Init ==
    /\ tree = [d \in Trees |-> IF d \in Checkouts THEN {} ELSE Gone]
    /\ sessions = [id \in Ids |-> None]
    /\ call = [c \in Calls |-> Fresh]
    /\ wrote = [c \in Calls |-> {}]
    /\ context = [s \in Session |-> {}]
    /\ taskJson = [c \in Calls |-> None]

-----------------------------------------------------------------------------

At(c, pc) == call[c].pc = pc

Asked(c) == call[c].request

Goto(c, pc) == call' = [call EXCEPT ![c].pc = pc]

\* Nothing but the call's own state changes.
Locally == UNCHANGED <<tree, sessions, wrote, context, taskJson>>

\* Every call that has fingerprinted d will see that d has changed.
Touched(d) ==
    [c \in Calls |-> IF call[c].tree = d THEN [call[c] EXCEPT !.touched = TRUE]
                     ELSE call[c]]

Touch(d, paths) ==
    /\ tree' = [tree EXCEPT ![d] = paths]
    /\ call' = Touched(d)

-----------------------------------------------------------------------------
(* The workspace. *)

\* verify_commands and allowed_paths are for write tasks only.
Valid(request) ==
    request.mode # "write" => ~request.verify /\ request.allow = {}

\* resolve_target: write mode requires a Git work tree.
Resolves(request) == request.mode = "write" => request.project \notin NoGit

Begin(c, request) ==
    /\ At(c, "ready")
    /\ Cardinality({b \in Calls : call[b].pc \notin {"ready", "ended"}}) < MaxActive
    /\ call' = [call EXCEPT ![c] = [@ EXCEPT
            !.request = request,
            !.pc = IF Valid(request) /\ Resolves(request) THEN "prepare" ELSE "ended"]]
    /\ Locally

WorkspaceId(c) == IF Asked(c).workspace = None THEN c ELSE Asked(c).workspace

WorktreePath(c) == <<NameOf[Asked(c).project], WorkspaceId(c)>>

Execute(c, d, id) ==
    call' = [call EXCEPT ![c] = [@ EXCEPT !.tree = d, !.id = id, !.pc = "judge"]]

\* A project without a commit is used directly, an existing worktree again.
Prepare(c) ==
    /\ At(c, "prepare")
    /\ \/ /\ Asked(c).project \in Plain
          /\ Execute(c, Checkout(Asked(c).project), None)
       \/ /\ Asked(c).project \notin Plain
          /\ tree[WorktreePath(c)] # Gone
          /\ Execute(c, WorktreePath(c), WorkspaceId(c))
       \/ /\ Asked(c).project \notin Plain
          /\ tree[WorktreePath(c)] = Gone
          /\ Goto(c, "quota")
    /\ Locally

\* WorktreeError: the workspace stays the project itself, and error is set.
WorktreeFails(c) ==
    call' = [call EXCEPT ![c] = [@ EXCEPT
                !.tree = Checkout(Asked(c).project), !.id = None,
                !.error = TRUE, !.pc = "judge"]]

Existing == {d \in Worktrees : tree[d] # Gone}

OverQuota(n) == MaxWorkspaces # 0 /\ n >= MaxWorkspaces

CheckQuota(c) ==
    /\ At(c, "quota")
    /\ \/ /\ ~OverQuota(Cardinality(Existing))
          /\ Goto(c, "add")
       \/ WorktreeFails(c)
    /\ Locally

\* Seeded fault: a failure to add the worktree goes unnoticed.
AddUnnoticed(c) ==
    /\ At(c, "add")
    /\ Execute(c, Checkout(Asked(c).project), None)
    /\ Locally

\* git worktree add; it fails if somebody has just made the same worktree.
AddWorktree(c) ==
    /\ At(c, "add")
    /\ \/ /\ tree[WorktreePath(c)] = Gone
          /\ tree' = [tree EXCEPT ![WorktreePath(c)] = {}]
          /\ call' = [Touched(WorktreePath(c)) EXCEPT ![c] = [@ EXCEPT
                        !.tree = WorktreePath(c), !.id = WorkspaceId(c), !.pc = "judge"]]
          /\ UNCHANGED <<sessions, wrote, context, taskJson>>
       \/ /\ WorktreeFails(c)
          /\ Locally

\* manage_agent_workspace, action remove or archive, at any time.
RemoveWorktree(d) ==
    /\ "remove" \in Behaviours
    /\ tree[d] # Gone
    /\ Touch(d, Gone)
    /\ UNCHANGED <<sessions, wrote, context, taskJson>>

-----------------------------------------------------------------------------
(* Refusals, and what is read before the run. *)

Record(c, outcome) == taskJson' = [taskJson EXCEPT ![c] = outcome]

\* assess_task_risk looks for the forbidden words in write tasks only.
Blocked(request) == request.mode = "write" /\ request.blocked

NeedsApproval(request) == request.mode = "write" /\ ~request.approved

Refuse(c) ==
    /\ At(c, "judge")
    /\ \/ Blocked(Asked(c)) /\ Record(c, "BLOCKED")
       \/ /\ ~Blocked(Asked(c))
          /\ NeedsApproval(Asked(c))
          /\ Record(c, "APPROVAL_REQUIRED")
    /\ Goto(c, "ended")
    /\ UNCHANGED <<tree, sessions, wrote, context>>

\* Seeded fault: all workspaces share one session file.
OneSession(id) == CHOOSE shared \in WorkspaceIds : TRUE

\* The file name; the project does not enter into it.
SessionPath(id) == id

Saved(id) == IF id = None THEN None ELSE sessions[SessionPath(id)]

Load(c) ==
    call' = [call EXCEPT ![c] = [@ EXCEPT
                !.session = Saved(call[c].id), !.touched = FALSE,
                !.pc = IF call[c].error THEN "after" ELSE "run"]]

\* Session, fingerprint and git status; after a WorktreeError the runner is
\* skipped.  A session file that is just being rewritten makes json.loads raise.
Before(c) ==
    /\ At(c, "judge")
    /\ ~Blocked(Asked(c))
    /\ ~NeedsApproval(Asked(c))
    /\ \/ Load(c)
       \/ /\ call[c].id # None
          /\ \E b \in Calls \ {c} :
                At(b, "save") /\ call[b].id = call[c].id /\ call[b].session # None
          /\ Goto(c, "ended")
    /\ Locally

-----------------------------------------------------------------------------
(* The runner. *)

Sandbox(mode) == IF mode = "read" THEN "read-only" ELSE "workspace-write"

RunnerWrites(c, path) ==
    /\ At(c, "run")
    /\ Sandbox(Asked(c).mode) = "workspace-write"
    /\ tree[call[c].tree] # Gone
    /\ path \notin tree[call[c].tree]
    /\ Touch(call[c].tree, tree[call[c].tree] \cup {path})
    /\ wrote' = [wrote EXCEPT ![c] = @ \cup {path}]
    /\ UNCHANGED <<sessions, context, taskJson>>

\* git status no longer shows what has been committed.
RunnerCommits(c) ==
    /\ "commit" \in Behaviours
    /\ At(c, "run")
    /\ wrote[c] # {}
    /\ tree[call[c].tree] \notin {{}, Gone}
    /\ Touch(call[c].tree, {})
    /\ UNCHANGED <<sessions, wrote, context, taskJson>>

\* Seeded fault: what the runner raises is not caught.
RunnerEscapes(c) ==
    /\ At(c, "run")
    /\ Goto(c, "ended")
    /\ Locally

\* The runner ends with a return code and perhaps a thread id: the resumed one,
\* or a new one; or it raises.
RunnerEnds(c) ==
    /\ At(c, "run")
    /\ \/ \E zero \in BOOLEAN, s \in {call[c].session, c} :
            /\ s = c => call[c].session = None
            /\ call' = [call EXCEPT ![c] = [@ EXCEPT
                            !.zero = zero, !.session = s, !.pc = "after"]]
            /\ context' = IF s = None THEN context
                          ELSE [context EXCEPT ![s] = @ \cup {call[c].tree}]
       \/ /\ call' = [call EXCEPT ![c] = [@ EXCEPT !.error = TRUE, !.pc = "after"]]
          /\ UNCHANGED context
    /\ UNCHANGED <<tree, sessions, wrote, taskJson>>

-----------------------------------------------------------------------------
(* The checks after it, and the records. *)

\* capture_git: the output of git status, or its error line.
GitStatus(d) == tree[d]

\* A read task must leave, and find, its tree as it was.
FailedAfter(c) == call[c].error \/ (Asked(c).mode = "read" /\ call[c].touched)

After(c) ==
    /\ At(c, "after")
    /\ call' = [call EXCEPT ![c] = [@ EXCEPT
            !.status = GitStatus(call[c].tree), !.error = FailedAfter(c),
            !.pc = "verify"]]
    /\ Locally

Verifying(c) == At(c, "verify") /\ ~call[c].error /\ Asked(c).verify

VerifyWrites(c, path) ==
    /\ "verify_writes" \in Behaviours
    /\ Verifying(c)
    /\ tree[call[c].tree] # Gone
    /\ path \notin tree[call[c].tree]
    /\ Touch(call[c].tree, tree[call[c].tree] \cup {path})
    /\ wrote' = [wrote EXCEPT ![c] = @ \cup {path}]
    /\ UNCHANGED <<sessions, context, taskJson>>

\* Seeded fault: some changed path is in the allow-list, not every one.
SomeAllowed(status, allow) == status \cap allow # {}

\* _unexpected_changed_paths; an error line of git is no allowed path either.
AllAllowed(status, allow) == status \subseteq allow

Unexpected(c) ==
    /\ Asked(c).mode = "write"
    /\ Asked(c).allow # {}
    /\ ~AllAllowed(call[c].status, Asked(c).allow)

FailedChecks(c, failed) == call[c].error \/ failed \/ Unexpected(c)

\* Verification, then the allow-list on the status read before verification.
Check(c) ==
    /\ At(c, "verify")
    /\ Verifying(c) => tree[call[c].tree] # Gone
    /\ \E failed \in {FALSE, Verifying(c)} :
        call' = [call EXCEPT ![c] = [@ EXCEPT
                    !.error = FailedChecks(c, failed), !.pc = "save"]]
    /\ Locally

\* ValueError of a command that is not allowed, FileNotFoundError of one that is
\* not installed or of a tree that is gone: nothing catches it.
VerifyRaises(c) ==
    /\ Verifying(c)
    /\ "verify_raises" \in Behaviours \/ tree[call[c].tree] = Gone
    /\ Goto(c, "ended")
    /\ Locally

SaveSession(c) ==
    /\ At(c, "save")
    /\ sessions' = IF call[c].id = None \/ call[c].session = None THEN sessions
                   ELSE [sessions EXCEPT ![SessionPath(call[c].id)] = call[c].session]
    /\ Goto(c, "finish")
    /\ UNCHANGED <<tree, wrote, context, taskJson>>

\* Seeded fault: the outcome is the exception's, not a status of a task.
FinishUnknown(c) ==
    /\ At(c, "finish")
    /\ Record(c, IF call[c].zero /\ ~call[c].error THEN "DONE" ELSE "ERROR")
    /\ Goto(c, "ended")
    /\ UNCHANGED <<tree, sessions, wrote, context>>

Finish(c) ==
    /\ At(c, "finish")
    /\ Record(c, IF call[c].zero /\ ~call[c].error THEN "DONE" ELSE "FAILED")
    /\ Goto(c, "ended")
    /\ UNCHANGED <<tree, sessions, wrote, context>>

-----------------------------------------------------------------------------

\* The steps the call takes by itself, the end of its runner included.
Progress(c) ==
    \/ Prepare(c)
    \/ CheckQuota(c)
    \/ AddWorktree(c)
    \/ Refuse(c)
    \/ Before(c)
    \/ RunnerEnds(c)
    \/ After(c)
    \/ Check(c)
    \/ VerifyRaises(c)
    \/ SaveSession(c)
    \/ Finish(c)

Next ==
    \/ \E c \in Calls :
        \/ \E request \in Requests : Begin(c, request)
        \/ Progress(c)
        \/ \E path \in Paths : RunnerWrites(c, path) \/ VerifyWrites(c, path)
        \/ RunnerCommits(c)
    \/ \E d \in Worktrees : RemoveWorktree(d)

\* A call that has begun goes on, and its runner ends.
Fairness == \A c \in Calls : WF_vars(Progress(c))

Spec == Init /\ [][Next]_vars /\ Fairness

-----------------------------------------------------------------------------
(* Properties. *)

\* "Existing user changes in the source repository are not modified": whatever
\* goes wrong with the worktree, no task writes into the project itself, unless
\* it is a repository without a commit, which is used directly
\* (policy.py:74, worktree.py:34-85, task_service.py:82-94, 159).
MainCheckoutUntouched ==
    \A p \in Projects : tree[Checkout(p)] # {} => p \in Plain \ NoGit

\* "Stable workspace= values can resume context while remaining isolated from
\* other worktrees": a runner session works in one tree, as long as no two
\* projects use one workspace name (sessions.py:45).
ContextStaysInWorktree ==
    \A s \in Session : Cardinality(context[s]) <= 1

\* "Changes outside that allowlist fail the task even if the selected runner
\* exits successfully", as long as nothing is committed and verification does
\* not write (task_service.py:195-199).
AllowlistKept ==
    \A c \in Calls : taskJson[c] = "DONE" /\ Asked(c).allow # {}
        => wrote[c] \subseteq Asked(c).allow

\* Every call that has started a runner leaves a task.json, whatever the runner
\* raises, as long as verification does not raise (task_service.py:158-235).
RunIsRecorded == \A c \in Calls : At(c, "run") ~> taskJson[c] # None

-----------------------------------------------------------------------------
(* What one expects and concurrent calls, or projects of one name, do not    *)
(* keep: each has a counterexample, see the README.                          *)

\* There are never more worktrees than max_workspaces (worktree.py:54-69).
QuotaKept == MaxWorkspaces # 0 => Cardinality(Existing) <= MaxWorkspaces

\* Tasks of different projects never work in one tree (worktree.py:42-51).
TreeOfOneProject ==
    \A b, c \in Calls :
        call[b].tree # None /\ call[b].tree = call[c].tree
            => Asked(b).project = Asked(c).project
=============================================================================
