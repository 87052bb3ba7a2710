-------------------------------- MODULE Worker --------------------------------
(***************************************************************************)
(* The background workers (scheduler.py: run_next_queue_task) and result   *)
(* delivery (delivery.py), which the workers and the tool                  *)
(* deliver_agent_task_result share.  The queue is used at the level of     *)
(* TaskQueue, which FileTaskQueue implements; between two queue calls the  *)
(* others may take any number of steps.                                    *)
(*                                                                         *)
(* What lies outside the plugin, the chat adapter and the runner, answers  *)
(* in any way the code handles.  Faults names the answers a configuration  *)
(* admits beyond success and a reported failure:                           *)
(*   "edit_raises"  the card updater raises (feishu_router.py:593-594)     *)
(*   "send_raises"  the adapter sender raises                              *)
(*   "torn_get"     an unlocked get() meets a file that another process is *)
(*                  rewriting (queue.py:44)                                *)
(*   "crash"        the process of a worker, a tool call or the gateway    *)
(*                  dies, between two steps or in the middle of write_json *)
(*                  (artifacts.py:26); then the record is torn for ever,   *)
(*                  every locked or unlocked get() of it raises, and so    *)
(*                  does every claim_next() that meets it before a QUEUED  *)
(*                  record                                                 *)
(* A send or an edit that raises or reports failure shows nothing.         *)
(***************************************************************************)
EXTENDS TaskRecords, FiniteSets

CONSTANTS
    Workers,            \* run_next_agent_task calls: cron ticks and the tool
    Tools,              \* deliver_agent_task_result calls, one each
    Payloads,           \* what is submitted
    Faults,
    MaxCardUpdates,     \* not less than the card updates the actors can make
    MaxRequests         \* bound on the tasks submitted and delivery calls made

ASSUME ActorAssumption == Workers \cap Tools = {}

ASSUME PayloadAssumption == Payloads \subseteq Payload

ASSUME NoTaskAssumption == 0 \notin Task     \* 0 stands for "no task"

ASSUME FaultAssumption ==
    Faults \subseteq {"edit_raises", "send_raises", "torn_get", "crash"}

VARIABLES
    records,    \* the queue
    actor,      \* the local state of every worker and tool call
    runs,       \* runs[t]: how often create_agent_task was called for t
    face,       \* the phase the approval card of t shows in the chat
    shown,      \* tasks whose result the chat was shown
    outcomes,   \* outcomes[t]: the results complete() and fail() have written
    abandoned   \* tasks whose worker died, or ended by an exception

chat == <<face, shown>>

vars == <<records, actor, runs, chat, outcomes, abandoned>>

DeliveryResults == DeliveryStatus \ {"none"}

Queue == INSTANCE TaskQueue

Actor == Workers \cup Tools

\* The local variables of run_next_queue_task and deliver_task_result: the task,
\* the record they hold, the outcome at hand, and whether they are inside the
\* try block, in its except clause, or in the tool.
Local ==
    [pc : {"idle", "edit_running", "mark_running", "run", "complete", "fail",
           "select", "edit", "mark_edit", "send", "tool_send", "mark", "reread",
           "ready", "ended"},
     task : Task \cup {0},
     record : TaskRecord \cup {Absent},
     outcome : {"success", "failure"} \cup DeliveryStatus,
     within : {"try", "except", "tool"}]

AtRest(pc, within) ==
    [pc |-> pc, task |-> 0, record |-> Absent, outcome |-> "none",
     within |-> within]

Resting(a) == IF a \in Workers THEN AtRest("idle", "try") ELSE AtRest("ended", "tool")

TypeOK ==
    /\ Queue!TypeOK
    /\ actor \in [Actor -> Local]
    /\ runs \in [Task -> Nat]
    /\ face \in [Task -> {"none", "RUNNING"} \cup FINAL_STATUSES]
    /\ shown \subseteq Task
    /\ outcomes \in [Task -> SUBSET FINAL_STATUSES]
    /\ abandoned \subseteq Task

Init ==
    /\ Queue!Init
    /\ actor = [a \in Actor |-> IF a \in Workers THEN AtRest("idle", "try")
                                                ELSE AtRest("ready", "tool")]
    /\ runs = [t \in Task |-> 0]
    /\ face = [t \in Task |-> "none"]
    /\ shown = {}
    /\ outcomes = [t \in Task |-> {}]
    /\ abandoned = {}

-----------------------------------------------------------------------------
(* The gateway: submissions, approvals and the saved approval card. *)

Requests ==
    Cardinality({t \in Task : records[t] # Absent})
        + Cardinality({d \in Tools : actor[d].pc # "ready"})

Submit(t, payload) ==
    /\ Requests < MaxRequests
    /\ Queue!Enqueue(t, payload)
    /\ UNCHANGED <<actor, runs, chat, outcomes, abandoned>>

Approve(t) ==
    /\ Queue!Approve(t)
    /\ UNCHANGED <<actor, runs, chat, outcomes, abandoned>>

\* The card of a task that asked for approval was sent; its id is saved when the
\* send has returned, which may be at any later time.
CardUnsaved(t) ==
    /\ Whole(records[t])
    /\ records[t].mode = "write"
    /\ ~records[t].approval_card

SaveCard(t) ==
    /\ CardUnsaved(t)
    /\ Queue!MarkApprovalCard(t)
    /\ UNCHANGED <<actor, runs, chat, outcomes, abandoned>>

\* The gateway may be rewriting the record of t: a decision, or the saved card.
GatewayRewrites(t) ==
    \/ Whole(records[t]) /\ AwaitingApproval(records[t])
    \/ CardUnsaved(t)

\* The gateway dies while it writes a new record or rewrites one.
GatewayTears(t) ==
    /\ "crash" \in Faults
    /\ \/ records[t] = Absent /\ Requests < MaxRequests
       \/ GatewayRewrites(t)
    /\ Queue!Put(t, Torn)
    /\ UNCHANGED <<actor, runs, chat, outcomes, abandoned>>

-----------------------------------------------------------------------------
(* Local steps. *)

At(a, pc) == actor[a].pc = pc

Goto(a, pc) == actor' = [actor EXCEPT ![a].pc = pc]

GotoWith(a, pc, outcome) ==
    actor' = [actor EXCEPT ![a].pc = pc, ![a].outcome = outcome]

Rest(a) == actor' = [actor EXCEPT ![a] = Resting(a)]

Abandon(w) == abandoned' = abandoned \cup {actor[w].task}

\* An exception that nothing catches: the call ends with a tool error.
Escape(a) ==
    /\ Rest(a)
    /\ IF a \in Workers THEN Abandon(a) ELSE UNCHANGED abandoned

\* An exception: the except clause of run_next_queue_task catches what its try
\* block raises.
Raise(a) ==
    \/ /\ actor[a].within = "try"
       /\ Goto(a, "fail")
       /\ UNCHANGED abandoned
    \/ /\ actor[a].within # "try"
       /\ Escape(a)

\* The steps that rewrite the record of the task, under the lock.
Rewriting == {"mark_running", "complete", "fail", "mark_edit", "mark"}

\* b may be in the middle of rewriting the record of t.
Rewrites(b, t) ==
    \/ At(b, "idle") /\ Claimable(records, t)
    \/ actor[b].pc \in Rewriting /\ actor[b].task = t

\* An unlocked get() of t raises: the record is torn, or half-written while
\* someone else rewrites it.
GetRaises(a, t) ==
    \/ records[t] = Torn
    \/ /\ "torn_get" \in Faults
       /\ GatewayRewrites(t) \/ \E b \in Actor \ {a} : Rewrites(b, t)

\* A rewrite meets a torn record: json.loads raises under the lock.  The RUNNING
\* mark comes before the try block, and fail() is in its except clause.
RewriteRaises(a) ==
    /\ actor[a].pc \in Rewriting
    /\ records[actor[a].task] = Torn
    /\ IF actor[a].pc \in {"mark_running", "fail"} THEN Escape(a) ELSE Raise(a)
    /\ UNCHANGED <<records, runs, chat, outcomes>>

\* Seeded fault: only a card counts as a place to deliver to.
HasCard(r) == r.approval_card

HasDelivery(r) == r.target \/ r.approval_card

-----------------------------------------------------------------------------
(* run_next_queue_task *)

Claim(w, t) ==
    /\ At(w, "idle")
    /\ Queue!ClaimNext(t)
    /\ actor' = [actor EXCEPT ![w] = [AtRest("edit_running", "try") EXCEPT
                                        !.task = t, !.record = records'[t]]]
    /\ UNCHANGED <<runs, chat, outcomes, abandoned>>

\* update_task_lifecycle_card(phase="RUNNING"), before the try block.
EditRunning(w) ==
    LET t == actor[w].task
    IN  /\ At(w, "edit_running")
        /\ \/ /\ ~actor[w].record.approval_card
              /\ Goto(w, "run")
              /\ UNCHANGED <<face, abandoned>>
           \/ /\ actor[w].record.approval_card
              /\ Goto(w, "mark_running")
              /\ \/ face' = [face EXCEPT ![t] = "RUNNING"]
                 \/ UNCHANGED face
              /\ UNCHANGED abandoned
           \/ /\ actor[w].record.approval_card
              /\ "edit_raises" \in Faults
              /\ Escape(w)
              /\ UNCHANGED face
        /\ UNCHANGED <<records, runs, shown, outcomes>>

MarkRunning(w) ==
    /\ At(w, "mark_running")
    /\ Queue!MarkCardUpdate(actor[w].task)
    /\ Goto(w, "run")
    /\ UNCHANGED <<runs, chat, outcomes, abandoned>>

\* get_runner_definition raises for a runner that is not enabled; otherwise
\* create_agent_task returns a result with or without success, or raises.
Run(w) ==
    /\ At(w, "run")
    /\ \/ /\ Raise(w)
          /\ UNCHANGED runs
       \/ /\ runs' = [runs EXCEPT ![actor[w].task] = @ + 1]
          /\ \/ Raise(w)
             \/ /\ \E outcome \in {"success", "failure"} :
                        GotoWith(w, "complete", outcome)
                /\ UNCHANGED abandoned
    /\ UNCHANGED <<records, chat, outcomes>>

\* The record is completed or failed; if it has a delivery it is delivered.
Settle(w, success, within) ==
    LET t == actor[w].task
    IN  /\ Queue!Complete(t, success)
        /\ actor' = [actor EXCEPT ![w] =
                        IF HasDelivery(records'[t])
                        THEN [AtRest("select", within) EXCEPT !.task = t]
                        ELSE Resting(w)]
        /\ outcomes' = [outcomes EXCEPT ![t] = @ \cup {records'[t].status}]
        /\ UNCHANGED <<runs, chat, abandoned>>

Complete(w) ==
    /\ At(w, "complete")
    /\ Settle(w, actor[w].outcome = "success", "try")

\* Seeded faults: the except clause queues the task again, ...
FailRetries(w) ==
    LET t == actor[w].task
    IN  /\ At(w, "fail")
        /\ Whole(records[t])
        /\ Queue!Put(t, [records[t] EXCEPT !.status = "QUEUED"])
        /\ Rest(w)
        /\ UNCHANGED <<runs, chat, outcomes, abandoned>>

\* ... or takes the task as done, ...
FailSucceeds(w) ==
    /\ At(w, "fail")
    /\ Settle(w, TRUE, "except")

\* ... or forgets it.
FailForgets(w) ==
    /\ At(w, "fail")
    /\ Rest(w)
    /\ UNCHANGED <<records, runs, chat, outcomes, abandoned>>

Fail(w) ==
    /\ At(w, "fail")
    /\ Settle(w, FALSE, "except")

-----------------------------------------------------------------------------
(* deliver_task_result *)

Undelivered(t) ==
    /\ Whole(records[t])
    /\ records[t].status \in FINAL_STATUSES
    /\ HasDelivery(records[t])
    /\ records[t].delivery_result # "DELIVERED"

\* The tool with a task id, or without one: then the newest undelivered record.
StartTool(d, t) ==
    /\ At(d, "ready")
    /\ Requests < MaxRequests
    /\ \/ records[t] # Absent
       \/ /\ Undelivered(t)
          /\ \A u \in Task : Undelivered(u) => u <= t
    /\ actor' = [actor EXCEPT ![d].pc = "select", ![d].task = t]
    /\ UNCHANGED <<records, runs, chat, outcomes, abandoned>>

\* After the delivery the worker reads the record once more.
Delivered(a) == IF a \in Workers THEN Goto(a, "reread") ELSE Rest(a)

Select(a) ==
    LET t == actor[a].task
        r == records[t]
    IN  /\ At(a, "select")
        /\ \/ /\ GetRaises(a, t)
              /\ Raise(a)
           \/ /\ Whole(r)
              /\ \/ r.status \notin FINAL_STATUSES
                 \/ r.delivery_result = "DELIVERED"
              /\ Delivered(a)
              /\ UNCHANGED abandoned
           \/ /\ Whole(r)
              /\ r.status \in FINAL_STATUSES
              /\ r.delivery_result # "DELIVERED"
              /\ actor' = [actor EXCEPT
                    ![a].record = r,
                    ![a].pc = IF r.target THEN "edit" ELSE "mark",
                    ![a].outcome = IF r.target THEN "none" ELSE "NO_TARGET"]
              /\ UNCHANGED abandoned
        /\ UNCHANGED <<records, runs, chat, outcomes>>

\* Seeded fault: the card always ends DONE.
AlwaysDone(r) == "DONE"

FinalPhase(r) == r.status

\* The card is tried first; it shows the status and the result of the record that
\* was read.
Edit(a) ==
    LET t == actor[a].task
    IN  /\ At(a, "edit")
        /\ \/ /\ ~actor[a].record.approval_card
              /\ Goto(a, "send")
              /\ UNCHANGED <<chat, abandoned>>
           \/ /\ actor[a].record.approval_card
              /\ \/ /\ face' = [face EXCEPT ![t] = FinalPhase(actor[a].record)]
                    /\ shown' = shown \cup {t}
                    /\ GotoWith(a, "mark_edit", "DELIVERED")
                 \/ /\ UNCHANGED chat
                    /\ GotoWith(a, "mark_edit", "none")
              /\ UNCHANGED abandoned
           \/ /\ actor[a].record.approval_card
              /\ "edit_raises" \in Faults
              /\ Raise(a)
              /\ UNCHANGED chat
        /\ UNCHANGED <<records, runs, outcomes>>

\* Seeded fault: an edit that failed counts as the delivery.
MarkAnyEdit(a) ==
    /\ At(a, "mark_edit")
    /\ Queue!MarkCardUpdate(actor[a].task)
    /\ GotoWith(a, "mark", "DELIVERED")
    /\ UNCHANGED <<runs, chat, outcomes, abandoned>>

MarkEdit(a) ==
    /\ At(a, "mark_edit")
    /\ Queue!MarkCardUpdate(actor[a].task)
    /\ Goto(a, IF actor[a].outcome = "DELIVERED" THEN "mark" ELSE "send")
    /\ UNCHANGED <<runs, chat, outcomes, abandoned>>

SendText(a) ==
    /\ shown' = shown \cup {actor[a].task}
    /\ GotoWith(a, "mark", "DELIVERED")

Send(a) ==
    /\ At(a, "send")
    /\ \/ SendText(a) /\ UNCHANGED abandoned
       \/ /\ Goto(a, "tool_send")
          /\ UNCHANGED <<shown, abandoned>>
       \/ /\ "send_raises" \in Faults
          /\ Raise(a)
          /\ UNCHANGED shown
    /\ UNCHANGED <<records, runs, face, outcomes>>

\* Seeded fault: a task status is recorded as the delivery status.
ToolSendFailed(a) ==
    /\ At(a, "tool_send")
    /\ \/ SendText(a)
       \/ /\ GotoWith(a, "mark", "FAILED")
          /\ UNCHANGED shown
    /\ UNCHANGED <<records, runs, face, outcomes, abandoned>>

\* The fallback through the send tool; it catches every exception.
ToolSend(a) ==
    /\ At(a, "tool_send")
    /\ \/ SendText(a)
       \/ /\ GotoWith(a, "mark", "DELIVERY_FAILED")
          /\ UNCHANGED shown
    /\ UNCHANGED <<records, runs, face, outcomes, abandoned>>

Mark(a) ==
    /\ At(a, "mark")
    /\ Queue!MarkDelivery(actor[a].task, actor[a].outcome)
    /\ Delivered(a)
    /\ UNCHANGED <<runs, chat, outcomes, abandoned>>

Reread(w) ==
    /\ At(w, "reread")
    /\ \/ /\ Whole(records[actor[w].task])
          /\ Rest(w)
          /\ UNCHANGED abandoned
       \/ /\ GetRaises(w, actor[w].task)
          /\ Raise(w)
    /\ UNCHANGED <<records, runs, chat, outcomes>>

\* The process of a call dies, between two steps or in the middle of a rewrite.
\* The next tick starts a new worker.
Crash(a) ==
    /\ "crash" \in Faults
    /\ actor[a].task # 0
    /\ \/ UNCHANGED records
       \/ actor[a].pc \in Rewriting /\ Queue!Lose(actor[a].task)
    /\ Escape(a)
    /\ UNCHANGED <<runs, chat, outcomes>>

\* A worker dies while claim_next() rewrites the record it takes.
CrashInClaim(w, t) ==
    /\ "crash" \in Faults
    /\ At(w, "idle")
    /\ Claimable(records, t)
    /\ Queue!Lose(t)
    /\ UNCHANGED <<actor, runs, chat, outcomes, abandoned>>

-----------------------------------------------------------------------------

Deliver(a) ==
    \/ Select(a)
    \/ Edit(a)
    \/ MarkEdit(a)
    \/ Send(a)
    \/ ToolSend(a)
    \/ Mark(a)
    \/ RewriteRaises(a)

WorkerStep(w) ==
    \/ \E t \in Task : Claim(w, t)
    \/ EditRunning(w)
    \/ MarkRunning(w)
    \/ Run(w)
    \/ Complete(w)
    \/ Fail(w)
    \/ Deliver(w)
    \/ Reread(w)

Gateway(t) ==
    \/ \E payload \in Payloads : Submit(t, payload)
    \/ Approve(t)
    \/ SaveCard(t)
    \/ GatewayTears(t)

Death(a) == Crash(a) \/ (a \in Workers /\ \E t \in Task : CrashInClaim(a, t))

Next ==
    \/ \E t \in Task : Gateway(t)
    \/ \E w \in Workers : WorkerStep(w)
    \/ \E d \in Tools : Deliver(d) \/ \E t \in Task : StartTool(d, t)
    \/ \E a \in Actor : Death(a)

\* The scheduler keeps ticking, and a call that has started goes on; nobody has
\* to submit or approve anything.
Fairness ==
    /\ \A w \in Workers : WF_vars(WorkerStep(w))
    /\ \A d \in Tools : WF_vars(Deliver(d))

Spec == Init /\ [][Next]_vars /\ Fairness

-----------------------------------------------------------------------------
(* Properties. *)

\* A task's runner is started at most once, with any number of workers, crashes
\* and exceptions: nothing retries a claimed task (scheduler.py:62, 92-99).
RunOnce == \A t \in Task : runs[t] <= 1

\* A task is DONE only after a run, and one that was never approved was never
\* run if it writes (scheduler.py:67-93).
DoneWasRun ==
    \A t \in Task : Whole(records[t]) =>
        /\ records[t].status = "DONE" => runs[t] = 1
        /\ runs[t] > 0 /\ records[t].mode = "write" => records[t].approved

\* DELIVERED in the queue means the chat was shown the result at least once, by
\* an edit of the card or by a text that was accepted.  What the card shows later
\* is not part of it (delivery.py:48-77).
DeliveredWasShown ==
    \A t \in Task :
        Whole(records[t]) /\ records[t].delivery_result = "DELIVERED"
        => t \in shown

\* The try block has completed the task as DONE, and its delivery then raised:
\* fail() took the result back (scheduler.py:86-93).
TakenBack(t) == outcomes[t] = FINAL_STATUSES

\* A final status the card shows is the one the queue has, also when a tool call
\* edits the card from a record it read long ago; the one exception is the DONE
\* of a task that fail() has taken back afterwards.  A record torn by a death has
\* no status (delivery.py:48-53, scheduler.py:85-99).
CardAgrees ==
    \A t \in Task :
        Whole(records[t]) /\ face[t] \in FINAL_STATUSES =>
            \/ face[t] = records[t].status
            \/ face[t] = "DONE" /\ TakenBack(t)

Queued(t) == Whole(records[t]) /\ records[t].status = "QUEUED"

Settled(t) == Whole(records[t]) /\ records[t].status \in FINAL_STATUSES

\* A record that claim_next() meets before t is torn.
Behind(t) == \E u \in Task : u < t /\ records[u] = Torn

\* Every queued task is eventually settled, although runs, sends and unlocked
\* reads raise.  What leaves it unsettled is the death of its worker or an
\* exception out of the try statement, and a death, of whatever process, in the
\* middle of a write: the task's own record is torn, or one that every
\* claim_next() meets before it (scheduler.py:62-99, queue.py:96, artifacts.py:26).
QueuedSettles ==
    \A t \in Task :
        Queued(t) ~> \/ Settled(t)
                     \/ t \in abandoned
                     \/ records[t] = Torn
                     \/ Queued(t) /\ Behind(t)

\* Every settled task with a saved target eventually has a delivery outcome,
\* also after an exception out of its first delivery: only the death of its
\* worker, a second exception, or a death that tears its record leaves it without
\* one (scheduler.py:85-119).
SettledIsReported ==
    \A t \in Task :
        Settled(t) /\ records[t].target
            ~> \/ Whole(records[t]) /\ records[t].delivery_result # "none"
               \/ t \in abandoned
               \/ records[t] = Torn

-----------------------------------------------------------------------------
(* What the documentation and the tests say and the code does not keep: each *)
(* has a counterexample, see the README.                                     *)

\* gateway_task_state_view calls a DONE task completed and terminal.
CompletedIsTerminal ==
    [][\A t \in Task : Whole(records[t]) /\ records[t].status = "DONE"
                        => records'[t].status = "DONE"]_vars

\* "The background worker will run it on the next scheduler tick": an approved
\* task is eventually run, or at least failed with the reason why it was not.
ApprovedTaskRuns ==
    \A t \in Task : (Queued(t) /\ records[t].approved) ~> Settled(t)
=============================================================================
