------------------------------ MODULE RequestPath ------------------------------
(***************************************************************************)
(* One request on its whole way: the four ways it comes in (a chat message *)
(* in feishu_router.py, the tools submit_agent_command and                 *)
(* create_agent_task in __init__.py, an adapter's envelope), the queue     *)
(* record, the decision, the run, and what                                 *)
(* adapter_projection_service.py shows of it all the while.                *)
(*                                                                         *)
(* An adapter outside the plugin enqueues what gateway_message_payload     *)
(* returns.  Commands that decide or ask are in ApprovalCards; the run is  *)
(* one step here and many in TaskService, the call of a worker in Worker.  *)
(***************************************************************************)
EXTENDS TaskRecords, Requests

CONSTANT Messages

Entry == {"chat", "command_tool", "create_tool", "adapter"}

\* The first line of the text: /agent, something else, or none at all.
Head == {"agent", "talk", "empty"}

Message ==
    [entry : Entry, head : Head, channel : ChannelText, chat : ChatText, request : Request]

ASSUME MessageAssumption == Messages \subseteq Message
ASSUME OneTask == Task = {1}

VARIABLES
    message,    \* what was sent
    answer,     \* of the hook or the tool
    payload,    \* payload["risk"] and what is in it of the request, once queued
    record,     \* the rest of the queue record, or Absent
    result,     \* what create_agent_task returned, or raised
    ran,        \* how the runner was started
    delivering  \* the worker delivers, inside the try block that ran the task

vars == <<message, answer, payload, record, result, ran, delivering>>

NoResult == [status |-> "none", success |-> FALSE, error |-> FALSE, changed |-> FALSE]

NotRun == [sandbox |-> "none", approved |-> FALSE]

\* A queue record, with the mode as it was written.
QueueRecord ==
    [task_id : Task, status : Status, mode : ModeText, approved : BOOLEAN,
     target : BOOLEAN, approval_card : BOOLEAN, delivery_result : DeliveryStatus,
     card_updates : Nat]

ASSUME NoRecordAssumption == Absent \notin QueueRecord

Unqueued(m) == [request |-> m.request, risk |-> NoRisk, delivery |-> NoDelivery]

TypeOK ==
    /\ message \in Message
    /\ answer \in {"none", "allow", "skip", "result", "raises"}
    /\ payload \in [request : Request, risk : [approval_required : BOOLEAN, blocked : BOOLEAN],
                    delivery : [channel : ChannelText, chat : ChatText]]
    /\ record \in QueueRecord \cup {Absent}
    /\ result \in [status : {"none", "raised", "BLOCKED", "APPROVAL_REQUIRED"} \cup FINAL_STATUSES,
                   success : BOOLEAN, error : BOOLEAN, changed : BOOLEAN]
    /\ ran \in [sandbox : {"none", "read-only", "workspace-write"}, approved : BOOLEAN]
    /\ delivering \in BOOLEAN

Init ==
    /\ message \in Messages
    /\ answer = "none"
    /\ payload = Unqueued(message)
    /\ record = Absent
    /\ result = NoResult
    /\ ran = NotRun
    /\ delivering = FALSE

-----------------------------------------------------------------------------
(* Coming in. *)

Answer(entry, a) ==
    /\ message.entry = entry
    /\ answer = "none"
    /\ answer' = a
    /\ UNCHANGED message

Ignore == UNCHANGED <<payload, record, result, ran, delivering>>

Enqueue(request, risk, delivery) ==
    /\ payload' = [request |-> request, risk |-> risk, delivery |-> delivery]
    /\ record' = EnqueuedRecord(1, [mode |-> request.mode, blocked |-> risk.blocked,
                                    target |-> Readable(delivery)])
    /\ UNCHANGED <<result, ran, delivering>>

EnqueueCommand(delivery) ==
    /\ CommandAccepted(message.request)
    /\ Enqueue(Command(message.request), Risk(Command(message.request)), delivery)

\* handle_pre_gateway_dispatch.  An empty text has no first line: IndexError.
Dispatch ==
    \/ /\ ~EnabledChannel(message.channel) \/ message.head = "talk"
       /\ Answer("chat", "allow")
       /\ Ignore
    \/ /\ EnabledChannel(message.channel)
       /\ \/ message.head = "empty"
          \/ message.head = "agent" /\ ~CommandAccepted(message.request)
       /\ Answer("chat", "raises")
       /\ Ignore
    \/ /\ EnabledChannel(message.channel)
       /\ message.head = "agent"
       /\ Answer("chat", "skip")
       /\ EnqueueCommand(DeliveryTarget(message.channel, message.chat))

SubmitCommand ==
    \/ /\ message.head # "agent" \/ ~CommandAccepted(message.request)
       /\ Answer("command_tool", "raises")
       /\ Ignore
    \/ /\ message.head = "agent"
       /\ Answer("command_tool", "result")
       /\ EnqueueCommand(NoDelivery)

SubmitEnvelope ==
    \/ /\ ~EnvelopeAccepted(message.request)
       /\ Answer("adapter", "raises")
       /\ Ignore
    \/ /\ EnvelopeAccepted(message.request)
       /\ Answer("adapter", "result")
       /\ Enqueue(Envelope(message.request), NoRisk, NoDelivery)

-----------------------------------------------------------------------------
(* The queue. *)

Change(new) ==
    /\ record' = new
    /\ UNCHANGED <<message, answer, payload, result, ran, delivering>>

Approve == record # Absent /\ AwaitingApproval(record) /\ Change(ApprovedRecord(record))

Reject == record # Absent /\ AwaitingApproval(record) /\ Change(RejectedRecord(record))

Claim == record # Absent /\ record.status = "QUEUED" /\ Change(ClaimedRecord(record))

-----------------------------------------------------------------------------
(* create_agent_task *)

\* What the runner, the worktree and the checks make of it.  "stray": git status
\* shows a path that is not allowed.
Outcome ==
    [end : {"no_worktree", "raised", "nonzero", "zero"},
     changed : BOOLEAN, failed : BOOLEAN, stray : BOOLEAN]

Broken(r, o) ==
    \/ o.end \in {"no_worktree", "raised"}
    \/ r.mode = "read" /\ o.changed

Error(r, o) == Broken(r, o) \/ (r.verify # "none" /\ o.failed) \/ (r.allow # "none" /\ o.stray)

\* Seeded fault: the return code alone makes the status.
ReturnCodeStatus(zero, error) == IF zero THEN "DONE" ELSE "FAILED"

ResultStatus(zero, error) == IF zero /\ ~error THEN "DONE" ELSE "FAILED"

Refusal(status) ==
    [status |-> status, success |-> FALSE, error |-> TRUE, changed |-> FALSE]

Raised == Refusal("raised")

Returned(r, o) ==
    [status |-> ResultStatus(o.end = "zero", Error(r, o)),
     success |-> o.end = "zero" /\ ~Error(r, o),
     error |-> Error(r, o), changed |-> o.changed]

Started(r, approved, o) ==
    IF o.end = "no_worktree" THEN NotRun ELSE [sandbox |-> Sandbox(r), approved |-> approved]

\* It may raise at any point: before the run for its arguments, the session file or
\* an artifact, after it for a check that cannot start or a file that cannot be
\* written.
Execute(request, approved) ==
    LET r == Sanitized(Arguments(request))
        needs == r.mode = "write" /\ ~approved
    IN  \/ /\ result' = Raised
           /\ UNCHANGED ran
        \/ /\ ArgumentsAccepted(r)
           /\ Risk(r).blocked \/ needs
           /\ result' = Refusal(IF Risk(r).blocked THEN "BLOCKED" ELSE "APPROVAL_REQUIRED")
           /\ UNCHANGED ran
        \/ /\ ArgumentsAccepted(r) /\ ~Risk(r).blocked /\ ~needs
           /\ \E o \in Outcome :
                /\ \/ result' = Raised
                   \/ /\ r.verify # "disallowed" \/ Broken(r, o)
                      /\ result' = Returned(r, o)
                /\ ran' = Started(r, approved, o)

\* The tool does not wait for an approval, it does without.
CreateTask ==
    /\ Answer("create_tool", "result")
    /\ Execute(message.request, FALSE)
    /\ UNCHANGED <<payload, record, delivering>>

Run ==
    /\ record # Absent
    /\ record.status = "RUNNING"
    /\ result = NoResult
    /\ Execute(payload.request, record.approved)
    /\ UNCHANGED <<message, answer, payload, record, delivering>>

\* complete() with the result, in the try block, or fail() with the exception, in
\* its except clause; then the delivery, of which Worker has the steps.
Settle ==
    /\ record # Absent
    /\ record.status = "RUNNING"
    /\ result # NoResult
    /\ record' = CompletedRecord(record, result.success)
    /\ delivering' = (payload.delivery # NoDelivery /\ result # Raised)
    /\ UNCHANGED <<message, answer, payload, result, ran>>

\* An exception out of the delivery in the except clause changes nothing either.
DeliveryEnds ==
    /\ delivering
    /\ delivering' = FALSE
    /\ UNCHANGED <<message, answer, payload, record, result, ran>>

\* Seeded fault: a delivery that raises puts the task back in the queue.
DeliveryRetries ==
    /\ delivering
    /\ delivering' = FALSE
    /\ record' = [record EXCEPT !.status = "QUEUED"]
    /\ UNCHANGED <<message, answer, payload, result, ran>>

\* In the try block it is the task's exception: fail() takes the result back.
DeliveryRaises ==
    /\ delivering
    /\ delivering' = FALSE
    /\ record' = CompletedRecord(record, FALSE)
    /\ result' = Raised
    /\ UNCHANGED <<message, answer, payload, ran>>

Next ==
    \/ Dispatch \/ SubmitCommand \/ SubmitEnvelope \/ CreateTask
    \/ Approve \/ Reject \/ Claim \/ Run
    \/ Settle \/ DeliveryEnds \/ DeliveryRaises

Spec == Init /\ [][Next]_vars

-----------------------------------------------------------------------------
(* What is shown of the record. *)

View(state, terminal, reason) == [state |-> state, terminal |-> terminal, reason |-> reason]

\* An exception's text is an error; the failure of a check always has one.
FailureReason(res) ==
    IF res.error THEN "error" ELSE IF res.changed THEN "workspace changed" ELSE "none"

\* gateway_task_state_view; "unknown" is its ValueError.
TaskState(status, res) ==
    CASE status = "QUEUED" -> View("submitted", FALSE, "none")
      [] status = "RUNNING" -> View("working", FALSE, "none")
      [] status = "APPROVAL_REQUIRED" -> View("input-required", FALSE, "approval required")
      [] status = "DONE" /\ res.success -> View("completed", TRUE, "none")
      [] status = "FAILED" \/ (status = "DONE" /\ ~res.success) ->
            View("failed", TRUE, FailureReason(res))
      [] status = "REJECTED" -> View("rejected", TRUE, "approval rejected")
      [] status = "BLOCKED" -> View("blocked", TRUE, "risk")
      [] OTHER -> View("unknown", FALSE, "none")

\* _queue_task_state_view goes by the status, whatever the result.
QueueState(status, res) ==
    CASE status = "DONE" -> View("completed", TRUE, "none")
      [] status = "FAILED" -> View("failed", TRUE, FailureReason(res))
      [] OTHER -> TaskState(status, NoResult)

\* The result is in the record once the task is settled.
Shown == QueueState(record.status, result)

\* _status_mismatches: the result and task.json have the same status, and an
\* exception leaves neither.
Mismatched ==
    /\ record.status \in FINAL_STATUSES
    /\ result.status \notin {"raised", record.status}

-----------------------------------------------------------------------------
(* Properties. *)

\* Whatever way a request comes in and however its mode is written, nothing runs
\* in a sandbox that can write, and nothing the risk policy wanted approved runs
\* at all, without an approval: queue.py:25, risk_policy.py:34 and codex.py:40
\* each read the mode in a way of their own.
RanAsApproved ==
    ran.sandbox = "workspace-write" \/ (ran # NotRun /\ payload.risk.approval_required)
        => ran.approved

\* What the policy forbids in a write task does not run: neither what the
\* submission let pass because it was spelled otherwise or came without a risk,
\* nor after an approval (feishu_router.py:86, task_service.py:52, 76-95).
ForbiddenNeverRuns ==
    ran.sandbox = "workspace-write" =>
        /\ message.request.prompt # "forbidden"
        /\ message.request.allow \notin {"governed", "backslashed", "outside"}

\* The two state views tell the same of every record there can be, and neither
\* raises (adapter_projection_service.py:231-268, 431-438).
ViewsAgree ==
    record # Absent =>
        /\ Shown = TaskState(record.status, result)
        /\ Shown.state # "unknown"

\* A client that was shown a terminal state sees another only if the delivery
\* inside the try block raises: a completed or failed task is then failed by an
\* error.  After the worker's call nothing changes what is shown, and a refusal
\* is final at once (adapter_projection_service.py:247-266, scheduler.py:85-93).
FinalUnlessDeliveryRaises ==
    [][record # Absent /\ Shown.terminal =>
        \/ Shown' = Shown
        \/ /\ delivering
           /\ Shown.state \in {"completed", "failed"}
           /\ Shown' = View("failed", TRUE, "error")]_vars

\* The view reports a mismatch only of a task that was queued, or approved, and
\* then refused for its risk without having run (task_service.py:95-122,
\* adapter_projection_service.py:479-492).
MismatchMeansRefused ==
    record # Absent /\ Mismatched =>
        /\ result.status = "BLOCKED"
        /\ ~payload.risk.blocked
        /\ ran = NotRun

\* A command from a chat is answered in that chat, if the chat has a name that is
\* not blank; no other request has a place to answer to (feishu_router.py:287-296,
\* channel_boundary.py:50-65).
AnswerGoesBack ==
    record # Absent =>
        (record.target <=> message.entry = "chat" /\ message.chat = "chat")

-----------------------------------------------------------------------------
(* What one expects and the code does not keep: each has a counterexample, *)
(* see the README.                                                         *)

\* A message that is no command goes on to the gateway.
OthersPass == message.entry = "chat" /\ message.head # "agent" => answer \in {"none", "allow"}

\* A task that was queued is not refused for its risk any more.
RiskIsFinal == record # Absent => result.status # "BLOCKED"

\* A task is not said to have failed because a write task wrote.
ReasonIsRight ==
    record # Absent /\ record.mode = "write" => Shown.reason # "workspace changed"
=============================================================================
