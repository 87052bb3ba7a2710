--------------------------- MODULE RequestPathProofs ---------------------------
(***************************************************************************)
(* Proofs about RequestPath, for every set of messages.                    *)
(***************************************************************************)
EXTENDS RequestPath, TLAPS

\* Nothing has happened to a message that was not answered.
Unanswered ==
    answer = "none" =>
        /\ payload = Unqueued(message)
        /\ record = Absent
        /\ result = NoResult
        /\ ran = NotRun
        /\ ~delivering

\* What is queued is what was sent, and was judged as it was queued, or not at all.
PayloadInv ==
    /\ payload.request.prompt = message.request.prompt
    /\ payload.request.allow = message.request.allow
    /\ \/ payload.risk = NoRisk
       \/ /\ payload.risk = Risk(payload.request)
          /\ payload.request.mode # "absent"

\* What is known of the record.
RecordInv ==
    record # Absent =>
        /\ record.mode = payload.request.mode
        /\ payload.risk.blocked => record.status = "BLOCKED"
        /\ record.mode = "write" /\ record.status \in {"QUEUED"} \cup Ran
             => record.approved

\* The run and its result; the record is settled with the result.
ResultInv ==
    /\ result.status = "none" => result = NoResult
    /\ result = NoResult => ran = NotRun
    /\ result.status = "BLOCKED" => ran = NotRun
    /\ result.success <=> result.status = "DONE"
    /\ record # Absent =>
        /\ result # NoResult => record.status \in Ran
        /\ record.status \in FINAL_STATUSES => result # NoResult
        /\ record.status = "DONE" => result.success
        /\ record.status = "FAILED" => ~result.success
        /\ result.status # "APPROVAL_REQUIRED"

\* A delivery in the try block is of a task that was settled.
DeliveringInv == delivering => record # Absent /\ record.status \in FINAL_STATUSES

IInv ==
    /\ TypeOK
    /\ Unanswered
    /\ PayloadInv
    /\ RecordInv
    /\ ResultInv
    /\ DeliveringInv
    /\ RanAsApproved
    /\ ForbiddenNeverRuns
    /\ AnswerGoesBack

-----------------------------------------------------------------------------
(* What the operators of Requests promise. *)

\* Everything that can be done to a request leaves a request.
LEMMA RequestTypes ==
    ASSUME NEW r \in Request
    PROVE  /\ Command(r) \in Request
           /\ Arguments(r) \in Request
           /\ Sanitized(r) \in Request
    BY DEF Request, Command, Arguments, Sanitized, Lower, RunnerText, ModeText,
           AllowText

\* An envelope that is accepted has a mode of its own, in lower case.
LEMMA EnvelopeTypes ==
    ASSUME NEW r \in Request, EnvelopeAccepted(r)
    PROVE  Envelope(r) \in Request
    BY DEF Request, Envelope, EnvelopeAccepted, Lower, RunnerText, ModeText

\* An accepted request whose run needs no approval reads, and was sent as one
\* that reads, for the risk policy too (risk_policy.py:34, scheduler.py:73,
\* policy.py:49).
LEMMA ReadsAsSent ==
    ASSUME NEW r \in Request,
           ArgumentsAccepted(Sanitized(Arguments(r))),
           Sanitized(Arguments(r)).mode # "write"
    PROVE  /\ r.mode \in {"", "absent", "read"}
           /\ Sandbox(Sanitized(Arguments(r))) = "read-only"
           /\ r.mode # "absent" => ~Risk(r).approval_required
<1>1. Arguments(r) \in Request
    BY RequestTypes
<1>2. Sanitized(Arguments(r)).mode = Arguments(r).mode
    BY <1>1 DEF Sanitized, Request
<1>3. Arguments(r).mode = "read"
    BY <1>2 DEF ArgumentsAccepted, Resolved
<1>4. r.mode \in {"", "absent", "read"}
    BY <1>3 DEF Arguments, Request
<1>5. QED
    BY <1>2, <1>3, <1>4 DEF Sandbox, Risk, Lower

\* An accepted request that writes was sent as a write, and what the policy
\* forbids is blocked, however its paths are spelled (task_service.py:245-257,
\* risk_policy.py:26-59).
LEMMA WritesAsSent ==
    ASSUME NEW r \in Request,
           ArgumentsAccepted(Sanitized(Arguments(r))),
           Sanitized(Arguments(r)).mode = "write"
    PROVE  /\ r.mode = "write"
           /\ ~Risk(Sanitized(Arguments(r))).blocked =>
                /\ r.prompt # "forbidden"
                /\ r.allow \notin {"governed", "backslashed", "outside"}
<1> DEFINE s == Sanitized(Arguments(r))
<1>1. Arguments(r) \in Request
    BY RequestTypes
<1>2. /\ s.mode = Arguments(r).mode
      /\ s.prompt = Arguments(r).prompt
      /\ s.allow = IF Arguments(r).allow = "backslashed" THEN "governed"
                   ELSE Arguments(r).allow
    BY <1>1 DEF Sanitized, Request
<1>3. /\ r.mode = "write"
      /\ Arguments(r).prompt = r.prompt
      /\ Arguments(r).allow = r.allow
    BY <1>2 DEF Arguments, Request
<1>4. s.allow # "outside"
    BY DEF ArgumentsAccepted
<1>5. Lower(s.mode) \notin {"", "read"}
    BY DEF Lower
<1>6. QED
    BY <1>2, <1>3, <1>4, <1>5 DEF Risk

\* The four ways out of create_agent_task, and what has run then.
LEMMA ExecuteEffect ==
    ASSUME NEW request \in Request, NEW approved \in BOOLEAN,
           Execute(request, approved)
    PROVE  /\ result' \in [status : {"raised", "BLOCKED", "APPROVAL_REQUIRED"} \cup FINAL_STATUSES,
                            success : BOOLEAN, error : BOOLEAN, changed : BOOLEAN]
           /\ result'.success <=> result'.status = "DONE"
           /\ result'.status = "BLOCKED" => ran' = ran
           /\ result'.status = "APPROVAL_REQUIRED" =>
                request.mode = "write" /\ ~approved
           /\ \/ ran' = ran
              \/ ran' = NotRun
              \/ /\ ran' = [sandbox |-> "read-only", approved |-> approved]
                 /\ request.mode # "absent" => ~Risk(request).approval_required
              \/ /\ ran' = [sandbox |-> "workspace-write", approved |-> TRUE]
                 /\ approved
                 /\ request.prompt # "forbidden"
                 /\ request.allow \notin {"governed", "backslashed", "outside"}
<1> DEFINE r == Sanitized(Arguments(request))
           needs == r.mode = "write" /\ ~approved
<1>1. CASE result' = Raised /\ UNCHANGED ran
    BY <1>1 DEF Raised, Refusal
<1>2. CASE /\ ArgumentsAccepted(r)
           /\ Risk(r).blocked \/ needs
           /\ result' = Refusal(IF Risk(r).blocked THEN "BLOCKED" ELSE "APPROVAL_REQUIRED")
           /\ UNCHANGED ran
  <2>1. result'.status = "APPROVAL_REQUIRED" => request.mode = "write" /\ ~approved
    BY <1>2, WritesAsSent DEF Refusal
  <2>2. QED
    BY <1>2, <2>1 DEF Refusal
<1>3. CASE /\ ArgumentsAccepted(r) /\ ~Risk(r).blocked /\ ~needs
           /\ \E o \in Outcome :
                /\ \/ result' = Raised
                   \/ /\ r.verify # "disallowed" \/ Broken(r, o)
                      /\ result' = Returned(r, o)
                /\ ran' = Started(r, approved, o)
  <2>1. PICK o \in Outcome :
            /\ result' = Raised \/ result' = Returned(r, o)
            /\ ran' = Started(r, approved, o)
    BY <1>3
  <2>2. Error(r, o) \in BOOLEAN
    BY DEF Error, Broken
  <2>3. Returned(r, o) \in [status : FINAL_STATUSES, success : BOOLEAN,
                            error : BOOLEAN, changed : BOOLEAN]
    BY <2>2 DEF Returned, ResultStatus, Outcome, FINAL_STATUSES
  <2>4. Returned(r, o).success <=> Returned(r, o).status = "DONE"
    BY <2>2 DEF Returned, ResultStatus
  <2>5. ran' = NotRun \/ ran' = [sandbox |-> Sandbox(r), approved |-> approved]
    BY <2>1 DEF Started
  <2>6. /\ result' \in [status : {"raised"} \cup FINAL_STATUSES, success : BOOLEAN,
                        error : BOOLEAN, changed : BOOLEAN]
        /\ result'.success <=> result'.status = "DONE"
    <3>1. CASE result' = Raised
      BY <3>1 DEF Raised, Refusal, FINAL_STATUSES
    <3>2. CASE result' = Returned(r, o)
      BY <2>3, <2>4, <3>2
    <3>3. QED
      BY <2>1, <3>1, <3>2
  <2>7. CASE r.mode = "write"
    <3>1. approved /\ Sandbox(r) = "workspace-write"
      BY <1>3, <2>7 DEF Sandbox
    <3>2. /\ request.prompt # "forbidden"
          /\ request.allow \notin {"governed", "backslashed", "outside"}
      BY <1>3, <2>7, WritesAsSent
    <3>3. QED
      BY <2>5, <2>6, <3>1, <3>2 DEF FINAL_STATUSES
  <2>8. CASE r.mode # "write"
    <3>1. /\ Sandbox(r) = "read-only"
          /\ request.mode # "absent" => ~Risk(request).approval_required
      BY <1>3, <2>8, ReadsAsSent
    <3>2. QED
      BY <2>5, <2>6, <3>1 DEF FINAL_STATUSES
  <2>9. QED
    BY <2>7, <2>8
<1>4. QED
    BY <1>1, <1>2, <1>3 DEF Execute

-----------------------------------------------------------------------------
(* The invariant is inductive. *)

\* The variables start as the invariant says.
LEMMA InitInv ==
    ASSUME Init
    PROVE  IInv
<1>1. message \in Message
    BY MessageAssumption DEF Init
<1>2. message.request \in Request /\ payload.request = message.request
    BY <1>1 DEF Message, Init, Unqueued
<1>3. TypeOK
    BY <1>1, <1>2 DEF Init, TypeOK, Unqueued, NoRisk, NoDelivery, ChannelText,
                      ChatText, NoResult, NotRun
<1>4. Unanswered /\ PayloadInv
    BY <1>2 DEF Init, Unanswered, PayloadInv, Unqueued
<1>5. RecordInv /\ ResultInv /\ DeliveringInv
    BY DEF Init, RecordInv, ResultInv, DeliveringInv, NoResult
<1>6. RanAsApproved /\ ForbiddenNeverRuns /\ AnswerGoesBack
    BY DEF Init, RanAsApproved, ForbiddenNeverRuns, AnswerGoesBack, NotRun
<1>7. QED
    BY <1>3, <1>4, <1>5, <1>6 DEF IInv

\* An answer without a task changes nothing else.
LEMMA IgnoreInv ==
    ASSUME IInv, NEW entry \in Entry,
           NEW a \in {"allow", "skip", "result", "raises"},
           Answer(entry, a), Ignore
    PROVE  IInv'
<1>1. /\ UNCHANGED <<message, payload, record, result, ran, delivering>>
      /\ answer' = a
    BY DEF Answer, Ignore
<1>2. QED
    BY <1>1 DEF IInv, TypeOK, Unanswered, PayloadInv, RecordInv, ResultInv,
       DeliveringInv, RanAsApproved, ForbiddenNeverRuns, AnswerGoesBack

\* The risk policy's verdict on a request.
LEMMA RiskType ==
    ASSUME NEW r \in Request
    PROVE  /\ Risk(r) \in [approval_required : BOOLEAN, blocked : BOOLEAN]
           /\ NoRisk \in [approval_required : BOOLEAN, blocked : BOOLEAN]
    BY DEF Risk, NoRisk

\* enqueue() of what the message asks for, with its verdict or none.
LEMMA EnqueueInv ==
    ASSUME IInv,
           NEW entry \in Entry, NEW a \in {"skip", "result"}, Answer(entry, a),
           NEW request \in Request,
           request.prompt = message.request.prompt,
           request.allow = message.request.allow,
           NEW risk,
           risk = NoRisk \/ (risk = Risk(request) /\ request.mode # "absent"),
           NEW delivery \in [channel : ChannelText, chat : ChatText],
           Readable(delivery) <=> message.entry = "chat" /\ message.chat = "chat",
           Enqueue(request, risk, delivery)
    PROVE  IInv'
<1> DEFINE new == EnqueuedRecord(1, [mode |-> request.mode, blocked |-> risk.blocked,
                                    target |-> Readable(delivery)])
<1>1. /\ UNCHANGED <<message, result, ran, delivering>>
      /\ answer' = a
      /\ payload' = [request |-> request, risk |-> risk, delivery |-> delivery]
      /\ record' = new
    BY DEF Answer, Enqueue
<1>2. result = NoResult /\ ran = NotRun /\ ~delivering
    BY DEF IInv, Unanswered, Answer
<1>3. risk \in [approval_required : BOOLEAN, blocked : BOOLEAN]
    BY RiskType
<1>4. /\ new \in QueueRecord
      /\ new.mode = request.mode
      /\ new.status \in {"BLOCKED", "APPROVAL_REQUIRED", "QUEUED"}
      /\ risk.blocked => new.status = "BLOCKED"
      /\ request.mode = "write" => new.status # "QUEUED"
      /\ new.target <=> Readable(delivery)
  <2>1. request.mode \in ModeText
    BY DEF Request
  <2>2. Readable(delivery) \in BOOLEAN
    BY DEF Readable, EnabledChannel
  <2>3. QED
    BY <1>3, <2>1, <2>2, OneTask
    DEF EnqueuedRecord, EnqueuedStatus, QueueRecord, Status, DeliveryStatus
<1>5. TypeOK'
    BY <1>1, <1>3, <1>4 DEF IInv, TypeOK
<1>6. Unanswered'
    BY <1>1 DEF Unanswered
<1>7. PayloadInv'
    BY <1>1 DEF PayloadInv
<1>8. RecordInv'
    BY <1>1, <1>4 DEF RecordInv, Ran, FINAL_STATUSES
<1>9. ResultInv'
    BY <1>1, <1>2, <1>4 DEF ResultInv, NoResult, Ran, FINAL_STATUSES
<1>10. RanAsApproved' /\ ForbiddenNeverRuns'
    BY <1>1, <1>2 DEF RanAsApproved, ForbiddenNeverRuns, NotRun
<1>11. AnswerGoesBack'
    BY <1>1, <1>4 DEF AnswerGoesBack
<1>12. DeliveringInv'
    BY <1>1, <1>2 DEF DeliveringInv
<1>13. QED
    BY <1>5, <1>6, <1>7, <1>8, <1>9, <1>10, <1>11, <1>12 DEF IInv

\* The command of a chat message or of the tool.
LEMMA EnqueueCommandInv ==
    ASSUME IInv,
           NEW entry \in Entry, NEW a \in {"skip", "result"}, Answer(entry, a),
           NEW delivery \in [channel : ChannelText, chat : ChatText],
           Readable(delivery) <=> message.entry = "chat" /\ message.chat = "chat",
           EnqueueCommand(delivery)
    PROVE  IInv'
<1> DEFINE request == Command(message.request)
<1>1. message.request \in Request
    BY DEF IInv, TypeOK, Message
<1>2. /\ request \in Request
      /\ request.prompt = message.request.prompt
      /\ request.allow = message.request.allow
      /\ request.mode # "absent"
    BY <1>1, RequestTypes DEF Command, Request
<1>3. Enqueue(request, Risk(request), delivery)
    BY DEF EnqueueCommand
<1>4. QED
    BY <1>2, <1>3, EnqueueInv

\* What a chat is called decides whether it can be found again.
LEMMA DeliveryTargetReadable ==
    ASSUME NEW channel \in ChannelText, NEW chat \in ChatText, EnabledChannel(channel)
    PROVE  /\ DeliveryTarget(channel, chat) \in [channel : ChannelText, chat : ChatText]
           /\ Readable(DeliveryTarget(channel, chat)) <=> chat = "chat"
           /\ NoDelivery \in [channel : ChannelText, chat : ChatText]
           /\ ~Readable(NoDelivery)
    BY DEF DeliveryTarget, NoDelivery, Readable, EnabledChannel, ChannelText, ChatText

\* Every way in keeps the invariant.
LEMMA WaysInInv ==
    ASSUME IInv, Dispatch \/ SubmitCommand \/ SubmitEnvelope
    PROVE  IInv'
<1> DEFINE channel == message.channel
           chat == message.chat
<1>1. /\ message.request \in Request
      /\ channel \in ChannelText
      /\ chat \in ChatText
    BY DEF IInv, TypeOK, Message
<1>2. CASE Dispatch
  <2>1. CASE Answer("chat", "allow") /\ Ignore
    BY <2>1, IgnoreInv DEF Entry
  <2>2. CASE Answer("chat", "raises") /\ Ignore
    BY <2>2, IgnoreInv DEF Entry
  <2>3. CASE /\ EnabledChannel(channel)
             /\ Answer("chat", "skip")
             /\ EnqueueCommand(DeliveryTarget(channel, chat))
    <3>1. /\ DeliveryTarget(channel, chat) \in [channel : ChannelText, chat : ChatText]
          /\ Readable(DeliveryTarget(channel, chat)) <=> chat = "chat"
      BY <1>1, <2>3, DeliveryTargetReadable
    <3>2. message.entry = "chat"
      BY <2>3 DEF Answer
    <3>3. "chat" \in Entry /\ "skip" \in {"skip", "result"}
      BY DEF Entry
    <3>4. QED
      BY <2>3, <3>1, <3>2, <3>3, EnqueueCommandInv
  <2>4. QED
    BY <1>2, <2>1, <2>2, <2>3 DEF Dispatch
<1>3. CASE SubmitCommand
  <2>1. CASE Answer("command_tool", "raises") /\ Ignore
    BY <2>1, IgnoreInv DEF Entry
  <2>2. CASE Answer("command_tool", "result") /\ EnqueueCommand(NoDelivery)
    <3>1. /\ NoDelivery \in [channel : ChannelText, chat : ChatText]
          /\ ~Readable(NoDelivery)
      BY DEF NoDelivery, Readable, EnabledChannel, ChannelText, ChatText
    <3>2. message.entry # "chat"
      BY <2>2 DEF Answer
    <3>3. "command_tool" \in Entry /\ "result" \in {"skip", "result"}
      BY DEF Entry
    <3>4. QED
      BY <2>2, <3>1, <3>2, <3>3, EnqueueCommandInv
  <2>3. QED
    BY <1>3, <2>1, <2>2 DEF SubmitCommand
<1>4. CASE SubmitEnvelope
  <2>1. CASE Answer("adapter", "raises") /\ Ignore
    BY <2>1, IgnoreInv DEF Entry
  <2>2. CASE /\ EnvelopeAccepted(message.request)
             /\ Answer("adapter", "result")
             /\ Enqueue(Envelope(message.request), NoRisk, NoDelivery)
    <3>1. /\ NoDelivery \in [channel : ChannelText, chat : ChatText]
          /\ ~Readable(NoDelivery)
      BY DEF NoDelivery, Readable, EnabledChannel, ChannelText, ChatText
    <3>2. message.entry # "chat"
      BY <2>2 DEF Answer
    <3>3. "adapter" \in Entry /\ "result" \in {"skip", "result"}
      BY DEF Entry
    <3>4. /\ Envelope(message.request) \in Request
          /\ Envelope(message.request).prompt = message.request.prompt
          /\ Envelope(message.request).allow = message.request.allow
      BY <1>1, <2>2, EnvelopeTypes DEF Envelope, Request
    <3>5. QED
      BY <2>2, <3>1, <3>2, <3>3, <3>4, EnqueueInv
  <2>3. QED
    BY <1>4, <2>1, <2>2 DEF SubmitEnvelope
<1>5. QED
    BY <1>2, <1>3, <1>4

\* A decision or a claim keeps the invariant: nothing has run yet.
LEMMA DecisionInv ==
    ASSUME IInv, Approve \/ Reject \/ Claim
    PROVE  IInv'
<1>1. /\ record \in QueueRecord
      /\ record # Absent
      /\ record.status \notin Ran
      /\ ~payload.risk.blocked
      /\ UNCHANGED <<message, answer, payload, result, ran, delivering>>
    BY DEF IInv, TypeOK, RecordInv, Approve, Reject, Claim, Change, AwaitingApproval,
           Ran, FINAL_STATUSES
<1>2. result = NoResult /\ ran = NotRun /\ ~delivering
    BY <1>1 DEF IInv, ResultInv, DeliveringInv, Ran
<1>3. /\ record' \in QueueRecord
      /\ record'.mode = record.mode
      /\ record'.target = record.target
      /\ record'.status \notin FINAL_STATUSES
      /\ record'.mode = "write" /\ record'.status \in {"QUEUED"} \cup Ran
            => record'.approved
  <2>1. CASE Approve
    BY <1>1, <2>1 DEF Approve, Change, ApprovedRecord, QueueRecord, Status,
                      FINAL_STATUSES
  <2>2. CASE Reject
    BY <1>1, <2>2 DEF Reject, Change, RejectedRecord, QueueRecord, Status,
                      FINAL_STATUSES, Ran
  <2>3. CASE Claim
    <3>1. record.mode = "write" => record.approved
      BY <1>1, <2>3 DEF IInv, RecordInv, Claim
    <3>2. QED
      BY <1>1, <2>3, <3>1 DEF Claim, Change, ClaimedRecord, QueueRecord, Status,
                              FINAL_STATUSES
  <2>4. QED
    BY <2>1, <2>2, <2>3
<1>4. TypeOK'
    BY <1>1, <1>3 DEF IInv, TypeOK
<1>5. Unanswered' /\ PayloadInv'
    BY <1>1 DEF IInv, Unanswered, PayloadInv
<1>6. RecordInv'
    BY <1>1, <1>3 DEF IInv, RecordInv
<1>7. ResultInv'
    BY <1>1, <1>2, <1>3 DEF ResultInv, NoResult, FINAL_STATUSES
<1>8. RanAsApproved' /\ ForbiddenNeverRuns'
    BY <1>1 DEF IInv, RanAsApproved, ForbiddenNeverRuns
<1>9. AnswerGoesBack' /\ DeliveringInv'
    BY <1>1, <1>2, <1>3 DEF IInv, AnswerGoesBack, DeliveringInv
<1>10. QED
    BY <1>4, <1>5, <1>6, <1>7, <1>8, <1>9 DEF IInv

\* How a runner is started, if at all.
LEMMA RanType ==
    ASSUME NEW approved \in BOOLEAN, NEW sandbox \in {"read-only", "workspace-write"}
    PROVE  /\ [sandbox |-> sandbox, approved |-> approved]
                \in [sandbox : {"none", "read-only", "workspace-write"}, approved : BOOLEAN]
           /\ NotRun
                \in [sandbox : {"none", "read-only", "workspace-write"}, approved : BOOLEAN]
    BY DEF NotRun

\* A run by the tool keeps the invariant: without an approval nothing writes.
LEMMA CreateTaskInv ==
    ASSUME IInv, CreateTask
    PROVE  IInv'
<1>1. /\ UNCHANGED <<message, payload, record, delivering>>
      /\ answer' = "result"
      /\ Execute(message.request, FALSE)
    BY DEF CreateTask, Answer
<1>2. /\ payload = Unqueued(message)
      /\ record = Absent
      /\ ran = NotRun
      /\ ~delivering
      /\ message.request \in Request
    BY DEF CreateTask, Answer, IInv, Unanswered, TypeOK, Message
<1>3. /\ result' \in [status : {"raised", "BLOCKED", "APPROVAL_REQUIRED"} \cup FINAL_STATUSES,
                       success : BOOLEAN, error : BOOLEAN, changed : BOOLEAN]
      /\ result'.success <=> result'.status = "DONE"
      /\ result'.status = "BLOCKED" => ran' = ran
      /\ ran' = NotRun \/ ran' = [sandbox |-> "read-only", approved |-> FALSE]
    BY <1>1, <1>2, ExecuteEffect
<1>4. TypeOK'
  <2>1. ran' \in [sandbox : {"none", "read-only", "workspace-write"}, approved : BOOLEAN]
    BY <1>3, RanType
  <2>2. QED
    BY <1>1, <1>3, <2>1 DEF IInv, TypeOK, FINAL_STATUSES
<1>5. Unanswered' /\ PayloadInv'
    BY <1>1 DEF IInv, Unanswered, PayloadInv
<1>6. RecordInv' /\ AnswerGoesBack' /\ DeliveringInv'
    BY <1>1 DEF IInv, RecordInv, AnswerGoesBack, DeliveringInv
<1>7. ResultInv'
    BY <1>1, <1>2, <1>3 DEF ResultInv, NoResult, FINAL_STATUSES
<1>8. RanAsApproved' /\ ForbiddenNeverRuns'
    BY <1>1, <1>2, <1>3 DEF RanAsApproved, ForbiddenNeverRuns, Unqueued, NoRisk, NotRun
<1>9. QED
    BY <1>4, <1>5, <1>6, <1>7, <1>8 DEF IInv

\* A run by a worker keeps the invariant: what it may do was settled before.
LEMMA RunInv ==
    ASSUME IInv, Run
    PROVE  IInv'
<1>1. /\ UNCHANGED <<message, answer, payload, record, delivering>>
      /\ record # Absent
      /\ record.status = "RUNNING"
      /\ result = NoResult
      /\ Execute(payload.request, record.approved)
    BY DEF Run
<1>2. /\ payload.request \in Request
      /\ record \in QueueRecord
      /\ record.approved \in BOOLEAN
      /\ record.mode = payload.request.mode
      /\ record.mode = "write" => record.approved
    BY <1>1 DEF IInv, TypeOK, RecordInv, QueueRecord, Ran
<1>3. /\ result' \in [status : {"raised", "BLOCKED", "APPROVAL_REQUIRED"} \cup FINAL_STATUSES,
                       success : BOOLEAN, error : BOOLEAN, changed : BOOLEAN]
      /\ result'.success <=> result'.status = "DONE"
      /\ result'.status = "BLOCKED" => ran' = ran
      /\ result'.status # "APPROVAL_REQUIRED"
      /\ \/ ran' = ran
         \/ ran' = NotRun
         \/ /\ ran' = [sandbox |-> "read-only", approved |-> record.approved]
            /\ payload.request.mode # "absent" => ~Risk(payload.request).approval_required
         \/ /\ ran' = [sandbox |-> "workspace-write", approved |-> TRUE]
            /\ payload.request.prompt # "forbidden"
            /\ payload.request.allow \notin {"governed", "backslashed", "outside"}
    BY <1>1, <1>2, ExecuteEffect
<1>4. ran = NotRun
    BY <1>1 DEF IInv, ResultInv
<1>5. TypeOK'
  <2>1. ran' \in [sandbox : {"none", "read-only", "workspace-write"}, approved : BOOLEAN]
    BY <1>2, <1>3, <1>4, RanType
  <2>2. QED
    BY <1>1, <1>3, <2>1 DEF IInv, TypeOK, FINAL_STATUSES
<1>6. Unanswered'
    BY <1>1 DEF IInv, Unanswered
<1>7. PayloadInv' /\ RecordInv' /\ AnswerGoesBack' /\ DeliveringInv'
    BY <1>1 DEF IInv, PayloadInv, RecordInv, AnswerGoesBack, DeliveringInv
<1>8. ResultInv'
    BY <1>1, <1>3, <1>4 DEF ResultInv, NoResult, Ran, FINAL_STATUSES
<1>9. RanAsApproved'
    BY <1>1, <1>3, <1>4 DEF IInv, PayloadInv, RanAsApproved, NoRisk, NotRun
<1>10. ForbiddenNeverRuns'
    BY <1>1, <1>3, <1>4 DEF IInv, PayloadInv, ForbiddenNeverRuns, NotRun
<1>11. QED
    BY <1>5, <1>6, <1>7, <1>8, <1>9, <1>10 DEF IInv

\* complete() or fail() keeps the invariant: the record agrees with the result.
LEMMA SettleInv ==
    ASSUME IInv, Settle
    PROVE  IInv'
<1>1. /\ UNCHANGED <<message, answer, payload, result, ran>>
      /\ record # Absent
      /\ record.status = "RUNNING"
      /\ result # NoResult
      /\ record' = CompletedRecord(record, result.success)
      /\ delivering' \in BOOLEAN
    BY DEF Settle
<1>2. record \in QueueRecord /\ result.success \in BOOLEAN
    BY <1>1 DEF IInv, TypeOK
<1>3. /\ record' \in QueueRecord
      /\ record'.mode = record.mode
      /\ record'.target = record.target
      /\ record'.approved = record.approved
      /\ record'.status = IF result.success THEN "DONE" ELSE "FAILED"
    BY <1>1, <1>2 DEF CompletedRecord, QueueRecord, Status
<1>4. TypeOK'
    BY <1>1, <1>3 DEF IInv, TypeOK
<1>5. Unanswered' /\ PayloadInv'
    BY <1>1 DEF IInv, Unanswered, PayloadInv
<1>6. RecordInv'
    BY <1>1, <1>3 DEF IInv, RecordInv, Ran
<1>7. ResultInv'
    BY <1>1, <1>3 DEF IInv, ResultInv, Ran, FINAL_STATUSES
<1>8. RanAsApproved' /\ ForbiddenNeverRuns'
    BY <1>1 DEF IInv, RanAsApproved, ForbiddenNeverRuns
<1>9. AnswerGoesBack' /\ DeliveringInv'
    BY <1>1, <1>3, NoRecordAssumption
    DEF IInv, AnswerGoesBack, DeliveringInv, FINAL_STATUSES
<1>10. QED
    BY <1>4, <1>5, <1>6, <1>7, <1>8, <1>9 DEF IInv

\* The end of a delivery keeps the invariant, also by an exception that takes the
\* result back: record and result are failed together.
LEMMA DeliveryInv ==
    ASSUME IInv, DeliveryEnds \/ DeliveryRaises
    PROVE  IInv'
<1>1. /\ UNCHANGED <<message, answer, payload, ran>>
      /\ delivering = TRUE
      /\ delivering' = FALSE
      /\ \/ UNCHANGED <<record, result>>
         \/ record' = CompletedRecord(record, FALSE) /\ result' = Raised
    BY DEF DeliveryEnds, DeliveryRaises
<1>2. record \in QueueRecord /\ record # Absent /\ record.status \in FINAL_STATUSES
    BY <1>1 DEF IInv, TypeOK, DeliveringInv
<1>3. CASE UNCHANGED <<record, result>>
  <2>1. TypeOK'
    <3>1. record' = record /\ result' = result
      BY <1>3
    <3>2. UNCHANGED <<message, answer, payload, ran>> /\ delivering' \in BOOLEAN
      BY <1>1
    <3>3. QED
      BY <3>1, <3>2 DEF IInv, TypeOK
  <2>2. QED
    BY <2>1, <1>1, <1>2, <1>3 DEF IInv, Unanswered, PayloadInv, RecordInv, ResultInv,
       DeliveringInv, RanAsApproved, ForbiddenNeverRuns, AnswerGoesBack
<1>4. CASE record' = CompletedRecord(record, FALSE) /\ result' = Raised
  <2>1. /\ record' \in QueueRecord
        /\ record'.mode = record.mode
        /\ record'.target = record.target
        /\ record'.approved = record.approved
        /\ record'.status = "FAILED"
    BY <1>2, <1>4 DEF CompletedRecord, QueueRecord, Status
  <2>2. result'.status = "raised" /\ ~result'.success /\ result' # NoResult
    BY <1>4 DEF Raised, Refusal, NoResult
  <2>3. TypeOK'
    <3>1. result' \in [status : {"none", "raised", "BLOCKED", "APPROVAL_REQUIRED"}
                                    \cup FINAL_STATUSES,
                        success : BOOLEAN, error : BOOLEAN, changed : BOOLEAN]
      BY <1>4 DEF Raised, Refusal
    <3>2. QED
      BY <1>1, <2>1, <3>1 DEF IInv, TypeOK
  <2>4. Unanswered' /\ PayloadInv'
    BY <1>1, <1>2 DEF IInv, Unanswered, PayloadInv
  <2>5. RecordInv'
    BY <1>1, <1>2, <2>1 DEF IInv, RecordInv, Ran, FINAL_STATUSES
  <2>6. ResultInv'
    BY <1>1, <2>1, <2>2 DEF ResultInv, Ran, FINAL_STATUSES
  <2>7. RanAsApproved' /\ ForbiddenNeverRuns'
    BY <1>1 DEF IInv, RanAsApproved, ForbiddenNeverRuns
  <2>8. AnswerGoesBack' /\ DeliveringInv'
    BY <1>1, <1>2, <2>1 DEF IInv, AnswerGoesBack, DeliveringInv
  <2>9. QED
    BY <2>3, <2>4, <2>5, <2>6, <2>7, <2>8 DEF IInv
<1>5. QED
    BY <1>1, <1>3, <1>4

\* Every step keeps the invariant.
LEMMA InvStep ==
    ASSUME IInv, [Next]_vars
    PROVE  IInv'
<1>1. CASE UNCHANGED vars
    BY <1>1 DEF vars, IInv, TypeOK, Unanswered, PayloadInv, RecordInv, ResultInv,
       DeliveringInv, RanAsApproved, ForbiddenNeverRuns, AnswerGoesBack
<1>2. QED
    BY <1>1, WaysInInv, DecisionInv, CreateTaskInv, RunInv, SettleInv,
       DeliveryInv DEF Next

\* So it holds in every state of every behaviour.
LEMMA Invariant == Spec => []IInv
<1>1. Init => IInv
    BY InitInv
<1>2. IInv /\ [Next]_vars => IInv'
    BY InvStep
<1>3. QED
    BY <1>1, <1>2, PTL DEF Spec

-----------------------------------------------------------------------------
(* The views. *)

\* Both views show a task that is not over, or was refused, by its status alone
\* (adapter_projection_service.py:231-268, 431-438).
LEMMA ViewsOfStatus ==
    ASSUME NEW status \in Status \ FINAL_STATUSES, NEW res
    PROVE  /\ QueueState(status, res) = TaskState(status, res)
           /\ TaskState(status, res).state # "unknown"
           /\ TaskState(status, res).terminal => status \in {"REJECTED", "BLOCKED"}
<1>1. CASE status = "QUEUED"
  <2> DEFINE view == View("submitted", FALSE, "none")
  <2>1. TaskState(status, res) = view /\ TaskState(status, NoResult) = view
    BY <1>1, Zenon DEF TaskState
  <2>2. QueueState(status, res) = TaskState(status, NoResult)
    BY <1>1, Zenon DEF QueueState
  <2>3. view.state # "unknown" /\ (view.terminal => "QUEUED" \in {"REJECTED", "BLOCKED"})
    BY DEF View
  <2>4. QED
    BY <1>1, <2>1, <2>2, <2>3, Zenon
<1>2. CASE status = "RUNNING"
  <2> DEFINE view == View("working", FALSE, "none")
  <2>1. TaskState(status, res) = view /\ TaskState(status, NoResult) = view
    BY <1>2, Zenon DEF TaskState
  <2>2. QueueState(status, res) = TaskState(status, NoResult)
    BY <1>2, Zenon DEF QueueState
  <2>3. view.state # "unknown" /\ (view.terminal => "RUNNING" \in {"REJECTED", "BLOCKED"})
    BY DEF View
  <2>4. QED
    BY <1>2, <2>1, <2>2, <2>3, Zenon
<1>3. CASE status = "APPROVAL_REQUIRED"
  <2> DEFINE view == View("input-required", FALSE, "approval required")
  <2>1. TaskState(status, res) = view /\ TaskState(status, NoResult) = view
    BY <1>3, Zenon DEF TaskState
  <2>2. QueueState(status, res) = TaskState(status, NoResult)
    BY <1>3, Zenon DEF QueueState
  <2>3. view.state # "unknown" /\ (view.terminal => "APPROVAL_REQUIRED" \in {"REJECTED", "BLOCKED"})
    BY DEF View
  <2>4. QED
    BY <1>3, <2>1, <2>2, <2>3, Zenon
<1>4. CASE status = "REJECTED"
  <2> DEFINE view == View("rejected", TRUE, "approval rejected")
  <2>1. TaskState(status, res) = view /\ TaskState(status, NoResult) = view
    BY <1>4, Zenon DEF TaskState
  <2>2. QueueState(status, res) = TaskState(status, NoResult)
    BY <1>4, Zenon DEF QueueState
  <2>3. view.state # "unknown" /\ (view.terminal => "REJECTED" \in {"REJECTED", "BLOCKED"})
    BY DEF View
  <2>4. QED
    BY <1>4, <2>1, <2>2, <2>3, Zenon
<1>5. CASE status = "BLOCKED"
  <2> DEFINE view == View("blocked", TRUE, "risk")
  <2>1. TaskState(status, res) = view /\ TaskState(status, NoResult) = view
    BY <1>5, Zenon DEF TaskState
  <2>2. QueueState(status, res) = TaskState(status, NoResult)
    BY <1>5, Zenon DEF QueueState
  <2>3. view.state # "unknown" /\ (view.terminal => "BLOCKED" \in {"REJECTED", "BLOCKED"})
    BY DEF View
  <2>4. QED
    BY <1>5, <2>1, <2>2, <2>3, Zenon
<1>6. status \in {"QUEUED", "RUNNING", "APPROVAL_REQUIRED", "REJECTED", "BLOCKED"}
    BY DEF Status, FINAL_STATUSES
<1>7. QED
    BY <1>1, <1>2, <1>3, <1>4, <1>5, <1>6

\* They agree on a task that was settled with its result.
LEMMA ViewsOfResult ==
    ASSUME NEW res, res.success \in BOOLEAN
    PROVE  LET status == IF res.success THEN "DONE" ELSE "FAILED"
           IN  /\ QueueState(status, res) = TaskState(status, res)
               /\ TaskState(status, res).state # "unknown"
<1>1. CASE res.success
  <2>1. /\ QueueState("DONE", res) = View("completed", TRUE, "none")
        /\ TaskState("DONE", res) = View("completed", TRUE, "none")
    BY <1>1, Zenon DEF QueueState, TaskState
  <2>2. View("completed", TRUE, "none").state # "unknown"
    BY DEF View
  <2>3. QED
    BY <1>1, <2>1, <2>2, Zenon
<1>2. CASE ~res.success
  <2>1. /\ QueueState("FAILED", res) = View("failed", TRUE, FailureReason(res))
        /\ TaskState("FAILED", res) = View("failed", TRUE, FailureReason(res))
    BY Zenon DEF QueueState, TaskState
  <2>2. View("failed", TRUE, FailureReason(res)).state # "unknown"
    BY DEF View
  <2>3. QED
    BY <1>2, <2>1, <2>2, Zenon
<1>3. QED
    BY <1>1, <1>2

\* What the invariant says of the views.
LEMMA ViewsInv ==
    ASSUME IInv, record # Absent
    PROVE  /\ Shown = TaskState(record.status, result)
           /\ Shown.state # "unknown"
           /\ Shown.terminal => record.status \in {"REJECTED", "BLOCKED"} \cup FINAL_STATUSES
<1>1. record.status \in Status
    BY DEF IInv, TypeOK, QueueRecord
<1>2. CASE record.status \notin FINAL_STATUSES
    BY <1>1, <1>2, ViewsOfStatus DEF Shown
<1>3. CASE record.status \in FINAL_STATUSES
  <2>1. /\ result.success \in BOOLEAN
        /\ record.status = IF result.success THEN "DONE" ELSE "FAILED"
    BY <1>3 DEF IInv, TypeOK, ResultInv, FINAL_STATUSES
  <2>2. QED
    BY <1>3, <2>1, ViewsOfResult DEF Shown
<1>4. QED
    BY <1>2, <1>3

\* A settled task is shown as completed or failed, ...
LEMMA SettledView ==
    ASSUME NEW status \in FINAL_STATUSES, NEW res
    PROVE  QueueState(status, res).state \in {"completed", "failed"}
<1>1. CASE status = "DONE"
  <2>1. QueueState(status, res) = View("completed", TRUE, "none")
    BY <1>1, Zenon DEF QueueState
  <2>2. QED
    BY <2>1 DEF View
<1>2. CASE status = "FAILED"
  <2>1. QueueState(status, res) = View("failed", TRUE, FailureReason(res))
    BY <1>2, Zenon DEF QueueState
  <2>2. QED
    BY <2>1 DEF View
<1>3. QED
    BY <1>1, <1>2 DEF FINAL_STATUSES

\* ... and an exception as a failure with an error.
LEMMA RaisedView == QueueState("FAILED", Raised) = View("failed", TRUE, "error")
<1>1. QueueState("FAILED", Raised) = View("failed", TRUE, FailureReason(Raised))
    BY Zenon DEF QueueState
<1>2. FailureReason(Raised) = "error"
    BY DEF FailureReason, Raised, Refusal
<1>3. QED
    BY <1>1, <1>2, Zenon

\* In a terminal state only the worker's delivery can take a step, and only its
\* exception changes the record or the result.
LEMMA TerminalStep ==
    ASSUME IInv, [Next]_vars, record # Absent, Shown.terminal
    PROVE  \/ UNCHANGED <<record, result>>
           \/ DeliveryRaises
<1>1. record.status \in {"REJECTED", "BLOCKED"} \cup FINAL_STATUSES
    BY ViewsInv
<1>2. answer # "none"
    BY DEF IInv, Unanswered
<1>3. ~Dispatch /\ ~SubmitCommand /\ ~SubmitEnvelope /\ ~CreateTask
    BY <1>2 DEF Dispatch, SubmitCommand, SubmitEnvelope, CreateTask, Answer
<1>4. ~Approve /\ ~Reject /\ ~Claim /\ ~Run /\ ~Settle
    BY <1>1 DEF Approve, Reject, Claim, Run, Settle, AwaitingApproval, FINAL_STATUSES
<1>5. DeliveryEnds \/ DeliveryRaises \/ UNCHANGED vars
    BY <1>3, <1>4 DEF Next
<1>6. QED
    BY <1>5 DEF vars, DeliveryEnds

\* The exception is shown as a failure of a task that was settled.
LEMMA DeliveryRaisesShown ==
    ASSUME IInv, DeliveryRaises
    PROVE  /\ delivering
           /\ Shown.state \in {"completed", "failed"}
           /\ Shown' = View("failed", TRUE, "error")
<1>1. /\ delivering
      /\ record' = CompletedRecord(record, FALSE)
      /\ result' = Raised
    BY DEF DeliveryRaises
<1>2. record # Absent /\ record.status \in FINAL_STATUSES /\ record \in QueueRecord
    BY <1>1 DEF IInv, TypeOK, DeliveringInv
<1>3. record'.status = "FAILED"
    BY <1>1, <1>2 DEF CompletedRecord, QueueRecord
<1>4. Shown.state \in {"completed", "failed"}
    BY <1>2, SettledView DEF Shown
<1>5. Shown' = QueueState("FAILED", Raised)
    BY <1>1, <1>3, Zenon DEF Shown
<1>6. QED
    BY <1>1, <1>4, <1>5, RaisedView, Zenon

-----------------------------------------------------------------------------
(* The theorems. *)

\* Every variable keeps to the values the code can give it.
THEOREM TypeCorrect == Spec => []TypeOK
<1>1. IInv => TypeOK
    BY DEF IInv
<1>2. QED
    BY <1>1, Invariant, PTL

\* Whatever the messages, nothing writes without an approval, and nothing the
\* policy wanted approved runs without one (queue.py:25, risk_policy.py:34,
\* codex.py:40).
THEOREM RunsAreApproved == Spec => []RanAsApproved
<1>1. IInv => RanAsApproved
    BY DEF IInv
<1>2. QED
    BY <1>1, Invariant, PTL

\* What the policy forbids is not run to write, however it was spelled and
\* whoever approved it (task_service.py:52, 76-95).
THEOREM NothingForbiddenRuns == Spec => []ForbiddenNeverRuns
<1>1. IInv => ForbiddenNeverRuns
    BY DEF IInv
<1>2. QED
    BY <1>1, Invariant, PTL

\* A task has a place to answer to just when it came from a chat that can be
\* named (feishu_router.py:287-296, channel_boundary.py:50-65).
THEOREM AnswersGoBack == Spec => []AnswerGoesBack
<1>1. IInv => AnswerGoesBack
    BY DEF IInv
<1>2. QED
    BY <1>1, Invariant, PTL

\* The two views agree on every record, and neither raises: the status and the
\* result are written together (queue.py:105-112).
THEOREM ViewsAlwaysAgree == Spec => []ViewsAgree
<1>1. IInv => ViewsAgree
    BY ViewsInv DEF ViewsAgree
<1>2. QED
    BY <1>1, Invariant, PTL

\* The one mismatch a view can report is a refusal after the queueing: the
\* result of a run has the status the record is settled with
\* (adapter_projection_service.py:479-492).
THEOREM MismatchesAreRefusals == Spec => []MismatchMeansRefused
<1>1. IInv => MismatchMeansRefused
  <2> SUFFICES ASSUME IInv, record # Absent, Mismatched
               PROVE  /\ result.status = "BLOCKED"
                      /\ ~payload.risk.blocked
                      /\ ran = NotRun
    BY DEF MismatchMeansRefused
  <2>1. record.status \in FINAL_STATUSES /\ result.status \notin {"raised", record.status}
    BY DEF Mismatched
  <2>2. ~payload.risk.blocked
    BY <2>1 DEF IInv, RecordInv, FINAL_STATUSES
  <2>3. result.status = "BLOCKED"
    <3>1. result # NoResult /\ result.status # "APPROVAL_REQUIRED"
      BY <2>1 DEF IInv, ResultInv
    <3>2. result.status \in {"none", "raised", "BLOCKED", "APPROVAL_REQUIRED", "DONE", "FAILED"}
      BY DEF IInv, TypeOK, FINAL_STATUSES
    <3>3. QED
      BY <2>1, <3>1, <3>2 DEF IInv, ResultInv, FINAL_STATUSES
  <2>4. QED
    BY <2>2, <2>3 DEF IInv, ResultInv
<1>2. QED
    BY <1>1, Invariant, PTL

\* A terminal state is followed by another only when the delivery of the worker
\* that ran the task raises, and then by a failure with an error
\* (adapter_projection_service.py:247-266, scheduler.py:85-93).
THEOREM TerminalStatesAreFinal == Spec => FinalUnlessDeliveryRaises
<1>1. IInv /\ [Next]_vars =>
        [record # Absent /\ Shown.terminal =>
            \/ Shown' = Shown
            \/ /\ delivering
               /\ Shown.state \in {"completed", "failed"}
               /\ Shown' = View("failed", TRUE, "error")]_vars
    BY TerminalStep, DeliveryRaisesShown DEF Shown
<1>2. QED
    BY <1>1, Invariant, PTL DEF Spec, FinalUnlessDeliveryRaises
=============================================================================
