------------------------------- MODULE WorkerCron -------------------------------
(***************************************************************************)
(* The Hermes cron job that drives the workers (scheduler.py): how         *)
(* ensure_worker_cron_job creates, reuses or repairs it, and the wake      *)
(* script that decides at each tick whether an agent session, and with it  *)
(* run_next_agent_task, is started.  The queue is TaskQueue; what a worker *)
(* does after its claim is Worker.tla's.                                   *)
(*                                                                         *)
(* The cron API of Hermes is external: it lists jobs in the order of their *)
(* creation and does what it is asked.  A job of an older plugin version   *)
(* has another prompt, script or toolset and claims nothing here.          *)
(***************************************************************************)
EXTENDS TaskRecords

CONSTANTS
    Payloads,
    Ensurers,       \* calls of ensure_agent_worker_cron
    Overlap,        \* whether they may run at the same time
    MaxJobs,        \* bound on the jobs of the worker's name
    SameRoot        \* artifact_root.parent is HERMES_HOME

ASSUME CronAssumption ==
    /\ Overlap \in BOOLEAN
    /\ MaxJobs \in Nat
    /\ SameRoot \in BOOLEAN

ASSUME PayloadAssumption == Payloads \subseteq Payload

VARIABLES
    records,    \* the queue
    jobs,       \* the cron jobs of the worker's name, "old" or "current"
    script,     \* the wake script on disk: "none", "old" or "current"
    ensurer,    \* where each ensure call is
    target      \* the job an ensure call has found and will update

vars == <<records, jobs, script, ensurer, target>>

Queue == INSTANCE TaskQueue WITH DeliveryResults <- {}, MaxCardUpdates <- 0

Version == {"old", "current"}

JobNumber == 1 .. MaxJobs

TypeOK ==
    /\ Queue!TypeOK
    /\ jobs \in [JobNumber -> Version \cup {"none"}]
    /\ script \in Version \cup {"none"}
    /\ ensurer \in [Ensurers -> {"ready", "list", "create", "update", "ended"}]
    /\ target \in [Ensurers -> JobNumber \cup {0}]

\* A fresh installation, or one that an older version has left.
Init ==
    /\ Queue!Init
    /\ \/ jobs = [j \in JobNumber |-> "none"]
       \/ jobs = [j \in JobNumber |-> IF j = 1 THEN "old" ELSE "none"]
    /\ script \in {"none", "old"}
    /\ ensurer = [e \in Ensurers |-> "ready"]
    /\ target = [e \in Ensurers |-> 0]

-----------------------------------------------------------------------------
(* ensure_worker_cron_job *)

Goto(e, pc) == ensurer' = [ensurer EXCEPT ![e] = pc]

\* ensure_worker_wake_script: written when it is missing or differs.
EnsureScript(e) ==
    /\ ensurer[e] = "ready"
    /\ ~Overlap => \A f \in Ensurers : ensurer[f] \in {"ready", "ended"}
    /\ script' = "current"
    /\ Goto(e, "list")
    /\ UNCHANGED <<records, jobs, target>>

Existing == {j \in JobNumber : jobs[j] # "none"}

First(j) == j \in Existing /\ \A k \in Existing : j <= k

\* Seeded fault: a job of the name is good enough, whatever it runs.
ReuseAny(e, j) ==
    /\ First(j)
    /\ Goto(e, "ended")
    /\ UNCHANGED target

\* The first job of the name is reused, or updated if it is not the current one.
Reuse(e, j) ==
    /\ First(j)
    /\ \/ jobs[j] = "current" /\ Goto(e, "ended") /\ UNCHANGED target
       \/ jobs[j] = "old" /\ Goto(e, "update") /\ target' = [target EXCEPT ![e] = j]

\* Seeded fault: the listing is not looked at.
ListNothing(e) ==
    /\ ensurer[e] = "list"
    /\ Goto(e, "create")
    /\ UNCHANGED <<records, jobs, script, target>>

List(e) ==
    /\ ensurer[e] = "list"
    /\ \/ \E j \in JobNumber : Reuse(e, j)
       \/ Existing = {} /\ Goto(e, "create") /\ UNCHANGED target
    /\ UNCHANGED <<records, jobs, script>>

Update(e) ==
    /\ ensurer[e] = "update"
    /\ jobs' = [jobs EXCEPT ![target[e]] = "current"]
    /\ Goto(e, "ended")
    /\ UNCHANGED <<records, script, target>>

\* Seeded fault: the job is created without the version mark in its prompt.
CreateUnmarked(e) ==
    /\ ensurer[e] = "create"
    /\ \E j \in JobNumber \ Existing : jobs' = [jobs EXCEPT ![j] = "unmarked"]
    /\ Goto(e, "ended")
    /\ UNCHANGED <<records, script, target>>

Create(e) ==
    /\ ensurer[e] = "create"
    /\ \E j \in JobNumber \ Existing :
        /\ \A k \in JobNumber \ Existing : j <= k
        /\ jobs' = [jobs EXCEPT ![j] = "current"]
    /\ Goto(e, "ended")
    /\ UNCHANGED <<records, script, target>>

Ensure(e) ==
    \/ EnsureScript(e)
    \/ List(e)
    \/ Update(e)
    \/ Create(e)

-----------------------------------------------------------------------------
(* The tick. *)

Submit(t, payload) ==
    /\ Queue!Enqueue(t, payload)
    /\ UNCHANGED <<jobs, script, ensurer, target>>

Queued(t) == Whole(records[t]) /\ records[t].status = "QUEUED"

\* The script looks for queued_*.json under HERMES_HOME/agent_queue; the queue
\* is beside artifact_root.
WakeAgent == SameRoot /\ \E t \in Task : Queued(t)

Tick(j, t) ==
    /\ jobs[j] = "current"
    /\ script = "current"
    /\ WakeAgent
    /\ Queue!ClaimNext(t)
    /\ UNCHANGED <<jobs, script, ensurer, target>>

-----------------------------------------------------------------------------

Next ==
    \/ \E e \in Ensurers : Ensure(e)
    \/ \E t \in Task :
        \/ \E payload \in Payloads : Submit(t, payload)
        \/ \E j \in JobNumber : Tick(j, t)

\* The cron scheduler keeps ticking, and an ensure call that began goes on.
Fairness ==
    /\ \A j \in JobNumber : WF_vars(\E t \in Task : Tick(j, t))
    /\ \A e \in Ensurers : WF_vars(List(e) \/ Update(e) \/ Create(e))

Spec == Init /\ [][Next]_vars /\ Fairness

-----------------------------------------------------------------------------
(* Properties. *)

\* "Create or reuse": there is never a second job of the worker's name
\* (scheduler.py:131-171).
OneJob == \A j, k \in Existing : j = k

\* Once somebody has ensured the job, on a fresh installation or over an older
\* one, every queued task is eventually claimed by a tick.
QueuedIsClaimed ==
    \A t \in Task :
        (Queued(t) /\ \E e \in Ensurers : ensurer[e] = "ended") ~> ~Queued(t)
=============================================================================
