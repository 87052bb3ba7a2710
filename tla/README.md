# Hermes Agent Gateway in TLA+

Specifications of the Hermes Agent Gateway plugin (`src/`), the TLC
configurations that check them on small instances, and machine-checked proofs
of every safety property these configurations check.

Contents: [the system](#the-system), [what is hard about it](#what-is-hard-about-it),
[the modules](#the-modules), [the runs](#the-runs), [fairness](#fairness),
[what is proved](#what-is-proved), [where code and text disagree](#where-code-and-text-disagree),
[what is not modelled](#what-is-not-modelled), [plan](#plan).

## The system

A person writes `/agent ...` into a chat. The gateway queues the command, asks
for approval if it writes, and a cron job runs it later in a Git worktree and
sends the result back. The parts, their state and how they meet:

| part | code | state | operations |
|---|---|---|---|
| task queue | `queue.py` | a JSON file per task, a lock file | enqueue, approve, reject, claim_next, complete / fail, mark_delivery, mark_approval_card, mark_card_update, get, list_records |
| queue worker | `scheduler.py:54-119` | local variables of one call | run_next_queue_task |
| result delivery | `delivery.py` | the chat: card, messages | deliver_task_result, update_task_lifecycle_card |
| approval router | `feishu_router.py`, hooks of `__init__.py` | the card, tasks of the event loop | dispatch, card callback, approve / reject / status commands |
| worker cron | `scheduler.py:122-216` | the cron job, the wake script | ensure_worker_cron_job, the wake script at each tick |
| task service | `task_service.py` | an artifact directory per task | create_agent_task |
| worktrees | `worktree.py` | directories under worktree_root | prepare, remove, archive, inspect, quota report |
| sessions | `sessions.py` | a JSON file per workspace | load, save |
| artifacts | `artifacts.py` | - | write_json, fingerprint, git status |
| policies | `policy.py`, `risk_policy.py`, `verify.py`, `verify_templates.py` | none | target, risk, verification commands |
| runners | `runners/` | a child process, two pipes, two copying threads | build_command, run |
| parser, identifiers | `command_parser.py`, `identity.py` | none | parse_agent_command, safe_id |
| configuration | `config.py` | a file it only reads | load_config |
| projection | `adapter_projection_service.py`, `a2a_gateway_contract.py`, `channel_boundary.py` | none | read-only views |

Several processes run at the same time: the gateway with its event loop, one
agent session per cron tick with a worker in it, and sessions in which an agent
calls the plugin's tools. They share the queue directory, the chat, the
worktrees and the session files. Only the queue has a lock.

What makes each part correct:

- queue: a call is atomic; a task is claimed once; a write task is not claimable
  without an approval; a refused one never returns; the lock comes free.
- worker and delivery: a task runs at most once and settles; what is recorded as
  delivered was shown; what was settled is reported.
- approvals: only those allowed decide; two deciders are not both told that they
  won; a rejected task never runs; the card tells the truth.
- task service: no writes outside the worktree, without approval, outside the
  allow-list; a run leaves a record; sessions do not cross trees; the quota.
- worker cron: one job, and it claims what is queued.
- runners: the output is complete, cut at the limit and nowhere else; nobody
  waits for ever on a pipe.
- policies, parser and projection: they agree with each other. Nothing that one
  of them forbids or wants approved runs because another spelled it differently,
  and what is shown of a task is true and stays true.

## What is hard about it

Read-modify-write cycles of several processes on one file; files emptied before
they are written, and processes that die in between; reads without the lock;
exceptions out of the delivery, inside and outside `try`; a click that reaches
the plugin on two ways that nothing orders; edits left to the event loop that
arrive late; checks made before a step somebody else can undo (quota, worktree,
git status); lookups by a name that two projects share; pipes that fill up, and stay open in
the hands of a process nobody waits for; one request read by six parts of the
code, each with its own idea of how a mode or a path is spelled. `PROJECT.json`
lists each of these at its line, with the properties that watch it.

## The modules

```
TaskRecords ── what is in a record, and what each operation makes of it
   ├─ TaskQueue ── the queue as its callers see it: every call one step
   │     ├─ FileTaskQueue ── lock, reads, truncate, write: implements TaskQueue
   │     │     └─ FileTaskQueueProofs
   │     ├─ Worker ── worker calls and delivery calls over TaskQueue
   │     │     ├─ WorkerProofs
   │     │     └─ ApprovalCards ── chat commands, clicks and cards beside Worker
   │     │           └─ ApprovalCardsProofs
   │     └─ WorkerCron ── the cron job and the wake script over TaskQueue
   │           └─ WorkerCronProofs
   └─ RequestPath ── one request from the message to its last view
         ├─ Requests ── what parser, policies, channels and sandbox make of it
         └─ RequestPathProofs
TaskService ── create_agent_task, worktrees, sessions
   └─ TaskServiceProofs
RunnerStreams ── the agent process, its pipes, the copied output
   └─ RunnerStreamsProofs
```

`MC*` modules only add small sets for TLC.

**TaskRecords.** A file is `Absent`, `Torn` (emptied, not yet written) or a
record: status, mode, whether it is approved, has a delivery target, has an
approval card, what its delivery result is, and how often the card was updated.
Each operation's effect on a record is an operator (`ApprovedRecord`,
`CompletedRecord`, ...), and so is each guard (`AwaitingApproval`, `Claimable`).
The prompt and the other texts are left out. `complete`, `fail` and the marks
have no guard in the code, and none here. Task ids are numbers, since file names
sort by the time of enqueueing.

**TaskQueue** is the abstract specification: `records` and one action per call.
`Lose` is the only thing that is not a call: a crash can leave a file torn.

**FileTaskQueue** is `queue.py` step by step. A process issues a call, takes the
lock, reads (or scans the files in name order), gives up or prepares the new
record, empties the file, writes it, and unlocks. `Truncate` and `Write` are the
two halves of `write_text`. `enqueue` prepares its record before it takes the
lock. A process can die at every step; the kernel drops its lock.
`claim_next` parses files up to the first claimable one and raises at a torn
one; the other calls raise if their own file is torn. `Committed` is the
refinement mapping: a file counts as written from the moment it is emptied,
because from then on only the holder of the lock has its contents.

**Worker** is `run_next_queue_task` and `deliver_task_result`, with the control
flow of their `try` blocks: `within` tells whether an exception is caught.
Queue calls are single steps (FileTaskQueue justifies it). `get()` has no lock
and may raise while another worker or call, or the gateway, rewrites the record
(`GetRaises`). `Faults` names which exceptions and deaths occur. A process dies
between two steps or inside `write_json`: then the record is torn for good
(`Crash`, `CrashInClaim`, `GatewayTears`), each later call that reads it raises
(`RewriteRaises`, `GetRaises`), and `claim_next` raises when it meets it before
a queued record. A worker that died is started again by the next tick.

`face` is what the card shows, `shown` are the tasks whose result the chat was
shown. Two more are history variables: `outcomes`, the results that `complete`
and `fail` have written, which tells a DONE that was taken back; and
`abandoned`, the tasks whose worker died or was ended by an exception nothing
catches, which only the liveness properties read.

**ApprovalCards** adds the gateway. Sending a card is shown, then returns, then
is saved. A click is a card callback, which answers with a new card without
asking the queue, and a command, which asks it; each happens once, in any order.
An edit that a handler starts happens any time later, or fails. Workers and calls
of `deliver_agent_task_result` take all the steps of Worker beside it, with the
same `Faults`, and edit the same card. The gateway itself may die: inside a
write (`TearRecord`), or between two handlers, when the sends and edits it had
started are lost (`GatewayDies`). `deciders` and `told` are history variables.

**TaskService** is `create_agent_task` from its argument checks to `task.json`,
for several calls at once, with `manage_agent_workspace` removing worktrees
under them. A tree is the set of paths `git status` reports; paths that `.gitignore`
hides from it (`artifacts.py:106`) are left out: no allow-list applies to them,
and only the fingerprint of a read task notices them. A runner writes paths, may
commit, ends with a return code and perhaps a thread id, or raises. `wrote` and
`context` are history variables. `Behaviours` names what the
surroundings do; `MaxActive` bounds the calls that run at the same time.

**WorkerCron** is `ensure_worker_cron_job`, call by call of the cron API, and
the wake script. Each tick that wakes an agent makes one claim.

**Requests** has no state. A request is a record of classes: how its mode is
spelled, whether its text holds what the risk policy forbids, what its paths,
its verification and its target are to each function that looks at them. Each
function is an operator: `CommandAccepted` and `Command` (parser and templates),
`EnvelopeAccepted` and `Envelope` (adapters), `Risk`, `Resolved`,
`ArgumentsAccepted`, `Sanitized`, `Sandbox`, and `DeliveryTarget` and `Readable`
(a channel's way into the record and out of it). A class exists where two
functions disagree: `"Write"` is a write for the risk policy, no write for the
queue, and no mode at all for `resolve_target`.

**RequestPath** puts them in the order in which a request meets them, on each of
its four ways in: chat message, `submit_agent_command`, `create_agent_task`, an
adapter's envelope. Decisions, the claim and the settling use the operators of
TaskRecords; the run is one step whose outcome is any that TaskService can have,
or an exception before or after the runner. `Settle` completes or fails the
record; the delivery after it ends (`DeliveryEnds`) or, inside the `try` block,
raises, and `fail()` overwrites what `complete()` has written (`DeliveryRaises`).
`TaskState` and `QueueState` are the two views of the projection service,
`Mismatched` is its warning. `ran` is a history variable: the sandbox the runner
was started with, and whether the record was approved at that time.

**RunnerStreams** is `CodexCliRunner.run`. The agent, and what it leaves running
in the background, hold both pipes; a print blocks while its pipe is full
(`BeginPrint`, `EndPrint`). Each thread copies line by line (`Copy`): when a line
does not fit, as many whole characters as do, the mark once, and then nothing
more, although it goes on reading. A thread ends with its pipe, or of bytes that
are no UTF-8. `run` waits for the process, then joins the threads one after the
other, then looks for the thread id in the file (`Extract`). `FinalText` is what
`delivery.py` will find there. A character is its width; a line is its kind and
its characters.

Operators commented "Seeded fault" are not part of any specification. Each is a
plausible slip in the code next to it, and shows that the property it belongs to
would notice.

## The runs

All configurations say `CHECK_DEADLOCK FALSE`: each system really stops when
every task is settled, every process has died or every call has ended.

| run | instance | distinct states | what it shows |
|---|---|---|---|
| queue_files | 1 task, 2 processes, read / write / blocked payloads | 35 502 | `ClaimedOnce`, `ApprovalGate`, `NoTornAtRest`, `Irrevocable`, `LockGivenBack`, and that the files implement TaskQueue |
| worker_faults | 2 tasks, 1 worker (restarted when it dies), the delivery tool, every fault, 2 requests | 400 292 | `RunOnce`, `DoneWasRun`, `QueuedSettles`, `SettledIsReported` |
| cards_clicks | 1 task, 1 worker, the delivery tool, every fault, 2 people (one allowed), 2 commands typed or clicked, 3 requests | 1 473 402 | `DecidedByAllowed`, `OneVerdict`, `RejectedNeverRuns`, `CardTellsTheDecision`, `CardAgrees`, `DeliveredWasShown` |
| service_isolation | 2 calls, a repository and a plain directory, quota 1, all behaviours | 790 209 | `MainCheckoutUntouched`, `ContextStaysInWorktree` |
| service_shared | 2 calls, 1 repository, 2 workspaces, no misbehaviour | 103 415 | `AllowlistKept`, `RunIsRecorded` |
| cron_serial | 2 tasks, 3 ensure calls one after the other, fresh or older installation | 784 | `OneJob`, `QueuedIsClaimed` |
| request_path | every request to an enabled runner on every way in; every head, channel, chat and runner name | 13 965 | `RanAsApproved`, `ForbiddenNeverRuns`, `ViewsAgree`, `MismatchMeansRefused`, `AnswerGoesBack`, `FinalUnlessDeliveryRaises` |
| runner_streams | the agent and 1 background process, 2 lines per pipe, pipes of 1 line, limits 0, 2 and 5 bytes | 10 230 | `KeptIsLongestPrefix`, `OutputIsComplete`, `SessionIsFound`, `RunReturns`, `PrintsEnd` |

Seven of them, all but service_shared, also check their module's `TypeOK`.
Four more runs end in a counterexample; see
[below](#where-code-and-text-disagree).

Why these bounds are enough to meet the hard cases. One record is enough to see
every race on it. Records interact only through the scan: that a torn one hides
those behind it needs two, which queue_torn and worker_faults have. A process
makes any number of calls, so two processes give every pair of overlapping calls
at every pair of steps; the proofs cover any number. In worker_faults one worker
and one tool call are two deliveries and a claim at the same time; that two
workers never have one task is `ClaimedOnce` in queue_files, and `RunsOnce` is
proved for any number of workers and tasks. `MaxRequests` bounds the tasks
submitted, the delivery calls made and, in cards_clicks, the decisions sent,
taken together: with two, worker_faults has two tasks, or one and a delivery
call; with three, cards_clicks has a task and two decisions, or one decision and
a delivery call. Two people with two commands give every pair of contradicting
decisions; cards_clicks is symmetric in the commands, which differ in their names
only. Two calls of the task service share a worktree, a session or the
last place in the quota. request_path enumerates its inputs completely, so its
only bound is that it follows one request. In runner_streams a pipe that holds
one line is full after the first of two; the limits 2 and 5 fall on the end of a
line, behind a whole character, and into the middle of one; the lines are a
thread id, a message with a three-byte character, JSON that is no object, and
bytes that are no UTF-8. `MaxCardUpdates` caps a counter that no decision reads;
the bound lies above what one task needs (1 in queue_files, where one update
already interleaves with everything; 4 or 6 elsewhere).

## Fairness

- FileTaskQueue: weak fairness of a process's steps inside a call. The code
  between lock and unlock waits for nothing; waiting for the lock needs only weak
  fairness of each process, since `LockGivenBack` is about the holder. Nobody has
  to make a call.
- Worker: weak fairness of each worker (cron keeps ticking) and of a delivery
  that has started. Nobody has to submit or approve; faults are never forced.
- TaskService: weak fairness of a call that has begun. This includes the end of
  its runner, which the code does not enforce: it has no timeout. Liveness there
  is under the assumption that runners end.
- WorkerCron: weak fairness of each job's tick and of an ensure call that has
  begun. Nobody has to make an ensure call; `QueuedIsClaimed` assumes one ended.
- RunnerStreams: weak fairness of `run`, of each copying thread, and of a print
  whose pipe has room. No process has to print and none has to exit: `RunReturns`
  assumes they have. A thread that reads a line copies it without waiting for
  anything but the disk.
- ApprovalCards and RequestPath state no fairness and no liveness property.

## What is proved

Every invariant and every action property of the passing runs, and the
refinement, is a theorem of its module's specification. The runs show them on a
small instance; the theorems hold for every value of the constants that
satisfies the module's named assumptions, and TLC evaluates those assumptions
in every run. They say that the sets are what their names say: payloads are
payloads, requests are requests, bounds are numbers, and values that stand for
"nothing" are none of the values they are distinguished from. Two say a little
more. No person is called `approve_agent_task` (ApprovalCards uses that name for
decisions that come from the tool), and the agent leaves finitely many processes
running (RunnerStreams).

None of the properties is inductive as it stands: each speaks of two or three
variables, and a step in the middle of a call can only be trusted to keep it
because of what the caller knows at that place. Each `*Proofs` module therefore
begins with the inductive invariant, one operator per idea, then has the lemmas
on operators, one lemma per conjunct or per action, and the theorems last.

**FileTaskQueueProofs**: any number of tasks and processes.

| theorem | property |
|---|---|
| `TypeCorrect` | `[]TypeOK` |
| `OneWorkerPerTask` | `[]ClaimedOnce` |
| `NoWriteWithoutApproval` | `[]ApprovalGate` |
| `TornOnlyWhileWritten` | `[]NoTornAtRest` |
| `RefusalsStand` | `Irrevocable` |
| `Implements` | `ImplementsTaskQueue` |

- `LockInv`: the process between taking the lock and giving it back is the one
  that holds it, so there is one at most;
- `BufferInv`: a process about to empty a file holds the update of that very
  file as it is now (`Decided`), because nobody else can have changed it since it
  was read; one that is writing finds its file torn; a buffer claimed is RUNNING,
  and its task is in nobody's `claims` before it is returned;
- `RequestInv`: only who claimed a task completes it, delivery marks are made of
  settled tasks, and two `enqueue` calls never have the same id;
- `RecordInv`: the approval rule holds of the committed records, and what was
  claimed stays claimed.

`Implements` maps `files` to `Committed`. Everything before the file is emptied
stutters, emptying it is the step of TaskQueue, writing and unlocking stutter,
and a crash stutters or is `Lose`.

**RequestPathProofs**: any set of messages.

| theorem | property |
|---|---|
| `TypeCorrect` | `[]TypeOK` |
| `RunsAreApproved` | `[]RanAsApproved` |
| `NothingForbiddenRuns` | `[]ForbiddenNeverRuns` |
| `AnswersGoBack` | `[]AnswerGoesBack` |
| `ViewsAlwaysAgree` | `[]ViewsAgree` |
| `MismatchesAreRefusals` | `[]MismatchMeansRefused` |
| `TerminalStatesAreFinal` | `FinalUnlessDeliveryRaises` |

`PayloadInv`: what is queued is what was sent, and was judged as it was queued
or, from an adapter, not at all. `RecordInv`: a record keeps the mode of its
payload, is blocked if the judgement was, and is approved when it writes and may
run. `ResultInv`: record and result are settled together, only a run leaves
a result with a run, and a delivery is under way only of a settled task. Lemmas state what the parser, the policies and the sandbox
of Requests promise each other, which is where a mode spelled in capitals would
slip through.

**WorkerProofs**: any number of tasks, workers and tool calls, and every set of
`Faults`, deaths included.

| theorem | property |
|---|---|
| `TypeCorrect` | `[]TypeOK` |
| `RunsOnce` | `[]RunOnce` |
| `DoneTasksWereRun` | `[]DoneWasRun` |
| `DeliveriesWereShown` | `[]DeliveredWasShown` |

`HoldInv(a)` says what an actor knows of its task at each place in the code, if
its record is not torn: a worker before the run has a RUNNING record and a task
that has not run; who marks a delivery has shown it; who edits a card from a
record read earlier has one of the results the task has had. `OwnTaskInv`: no two
workers have the same task. `TaskInv(t)`: runs, status, approval, outcomes, card
and delivery of a task fit together. The invariant allows the card every phase
the gateway can give it, so that ApprovalCardsProofs can use it as it is; what a
step of an actor does to a task (`RecordsAdvance`, `OthersStay`, `ActorShows`) is
stated once for both modules.

`DeliveriesWereShown` says that the result was shown at least once. What the card
shows afterwards is not part of it: a handler's late edit may cover the result
([below](#where-code-and-text-disagree), `CardMovesOn`). ApprovalCardsProofs
proves the same beside the handlers.

**ApprovalCardsProofs**: any number of workers, tasks, people and commands, and
every set of `Faults`.

| theorem | property |
|---|---|
| `TypeCorrect` | `[]TypeOK` |
| `AllowedPeopleDecide` | `[]DecidedByAllowed` |
| `OneDecisionStands` | `[]OneVerdict` |
| `RejectedStaysUnrun` | `[]RejectedNeverRuns` |
| `CardsTellTheDecision` | `[]CardTellsTheDecision` |
| `CardsAgreeWithTheQueue` | `[]CardAgrees` |
| `DeliveriesWereShown` | `[]DeliveredWasShown` |

The workers, the delivery calls, their faults and deaths are those of Worker, so
the module takes an instance of WorkerProofs: the inductive invariant is that of
WorkerProofs and what the gateway adds. `SameSteps` and `SameGateway` say that
the steps are the same, `ActorKeeps` that no step of a worker, a call or a death
of one disturbs what the gateway relies on, and one lemma for each handler that
it keeps both parts. `CommandInv(c)`: an edit a handler has started was decided
by the queue, and the decision stands as long as the record is not torn.
`TaskInv(t)`: what people were told, who decided, what the card shows and whether
anybody runs the task agree with the record. `CardsAgreeWithTheQueue` has one
exception: the card of a task whose DONE was taken back by `fail()` may go on
showing DONE.

**TaskServiceProofs**: any number of calls, projects, workspaces and requests.

| theorem | property | hypothesis |
|---|---|---|
| `TypeCorrect` | `[]TypeOK` | |
| `CheckoutsStayUntouched` | `[]MainCheckoutUntouched` | |
| `AllowlistIsKept` | `[]AllowlistKept` | `Undisturbed`: `Behaviours` has no commit, no verification that writes and no removal |
| `ContextStays` | `[]ContextStaysInWorktree` | `OneNamePerWorkspace`: two projects that are requested with the same workspace name have the same project name |

Both hypotheses are needed: without them the properties have counterexamples,
listed [below](#where-code-and-text-disagree). `PlaceInv(c)`: once the tree of a
call is chosen, it is the worktree of its workspace, or else the call has failed
or the project is one that is used directly. `WrittenInv(c)`: what a call wrote
is in its tree, then in the status it read, then in its allow-list. `SessionInv`:
a session belongs to the tree of the call that started it.

**WorkerCronProofs**: any number of ensure calls and tasks.

| theorem | property | hypothesis |
|---|---|---|
| `TypeCorrect` | `[]TypeOK` | |
| `SerialCallsKeepOneJob` | `[]OneJob` | `~Overlap` |

`SerialInv`: the job that a call has seen, or missed, is still as it was when it
acts on it. With `Overlap` the property has a counterexample.

**RunnerStreamsProofs**: any lines, limits, pipe capacity, bound on lines, and any
finite set of background processes.

| theorem | property |
|---|---|
| `TypeCorrect` | `[]TypeOK` |
| `OutputComplete` | `[]OutputIsComplete` |
| `KeptPrefix` | `[]KeptIsLongestPrefix` |
| `SessionFound` | `[]SessionIsFound` |

`PipeInv(s)`: what is printed and what is being printed fits the pipe and the
bound. `CopyInv(s)`: file and count are those of the lines read so far. `EndInv`:
a thread has ended because nobody holds its pipe, or of a line it cannot decode.
`RunInv`: `run` is beyond a join only if that thread has ended, and what it has
answered is what the file still says. `CopyInv` is kept by `CopyLine`: a line
added to the longest prefix that fits gives the longest prefix that fits, whether
the line fits, is cut, or comes after the mark. That needs what byte sums
(`Bytes`) and joined texts (`FlattenSeq`) of any length are. The induction
theorems of the library take an operator, which the provers cannot instantiate;
these lemmas are therefore proved with the least element of a set of numbers
(`MinExists`, `Induct`), and that the recursive definitions define anything at
all is proved the same way (`Recursion`).

Only model-checked: liveness, which the prover cannot do under fairness
(`LockGivenBack`, `QueuedSettles`, `SettledIsReported`, `RunIsRecorded`,
`QueuedIsClaimed`, `RunReturns`, `PrintsEnd`), and the four counterexamples. That
single queue calls may stand for their files in Worker, ApprovalCards and
WorkerCron rests on `Implements`.

## Where code and text disagree

Four runs end in a counterexample. `PROJECT.json` has the quotations.

- **queue_torn** (`queue.py:96`). A process that dies inside `write_json` leaves
  an empty file. `claim_next` raises at it on every tick; `list_records` and the
  wake script skip such files.
- **worker_completed** (`scheduler.py:86-93`). Delivery is inside the `try`
  block. If a sender raises, a task that is DONE becomes FAILED. The projection
  service has shown it as completed and terminal until then, and reports no
  mismatch afterwards, since the new result names no artifact
  (`FinalUnlessDeliveryRaises`); the card may go on showing DONE (`CardAgrees`).
- **cards_will_not_run** (`feishu_router.py:467`). After somebody approved, a
  click on Reject still gets the card "This task will not run."; the queue
  refuses the rejection and the task runs.
- **service_context** (`sessions.py:45`). The session file is named after the
  workspace alone. One workspace name in two projects resumes the thread of the
  other project's worktree.

Others were met on the way and have no run of their own. TLC finds each within
seconds when the property is checked with the run or the constants named:

| property | change | what happens |
|---|---|---|
| `ApprovedTaskRuns` (Worker) | `Faults = {"edit_raises"}` | the RUNNING edit raises before the `try` block; the task stays RUNNING for ever (`scheduler.py:65`) |
| `CardMovesOn` (ApprovalCards) | cards_clicks as it is | a late "approved" edit replaces RUNNING or DONE (`feishu_router.py:646`) |
| `AllowlistKept` (TaskService) | service_shared with `Behaviours = {"commit"}` | committed changes are not in git status, and the task is DONE (`task_service.py:195`) |
| `RunIsRecorded` (TaskService) | `Behaviours = {"verify_raises"}` | no session and no `task.json` after a verification command that cannot start (`task_service.py:187`) |
| `QuotaKept` (TaskService) | service_isolation as it is | two calls count before either adds (`worktree.py:54-70`) |
| `TreeOfOneProject` (TaskService) | service_context with `Names <- AppOnly`, `NameOf <- AllApp` | the worktree of another project whose path ends in the same component is taken over (`worktree.py:45`) |
| `OneJob` (WorkerCron) | `Overlap = TRUE` | two ensure calls list before either creates (`scheduler.py:131-162`) |
| `QueuedIsClaimed` (WorkerCron) | `SameRoot = FALSE` | the wake script looks into `HERMES_HOME/agent_queue`, the plugin puts the queue beside `artifact_root`: configured elsewhere, queued tasks never wake a worker (`scheduler.py:35`) |
| `OthersPass` (RequestPath) | request_path as it is | a message without text has no first line, and the hook raises (`feishu_router.py:131`) |
| `RiskIsFinal` (RequestPath) | request_path as it is | a path written with `\`, or anything an adapter submits, is queued and may be approved, and is BLOCKED when it runs (`feishu_router.py:86`, `adapter_projection_service.py:271`) |
| `ReasonIsRight` (RequestPath) | request_path as it is | a write task whose runner failed is shown with the reason "workspace changed" (`adapter_projection_service.py:666`) |
| `ReturnedIsDeliverable` (RunnerStreams) | runner_streams as it is | a line that is JSON but no object, behind the thread id, makes the lookup of the final text raise (`delivery.py:292-300`) |
| `AnyPrintEnds` (RunnerStreams) | runner_streams as it is | a line that is no UTF-8 ends the copying thread, and the agent waits for ever on a full pipe (`codex.py:114`) |
| `ReturnsAfterAgent` (RunnerStreams) | runner_streams as it is | a background process keeps a pipe open, and the join waits for it (`codex.py:92`) |

## What is not modelled

- Wording of cards, messages and prompts; the status command, which changes
  nothing.
- The patterns themselves: which texts and paths the risk policy forbids, which
  commands may verify, how a line is split into options, how a target is looked
  up. Requests takes their verdicts as classes.
- The copy of `CODEX_HOME` a run works with, and cutting off a line in the middle
  of a pipe: a pipe holds whole lines.
- `archive_workspace`'s copy, the quota in bytes, and the inspection reports.
- The fingerprint's blind spots (ignored directories, metadata only for some
  files): in TaskService every write in a tree is seen.
- `agent_session_id` given by the caller instead of the saved one.
- Which exception a runner raises: in TaskService it returns or raises, and the
  call goes on to its checks either way.
- What a runner writes to paths Git ignores; `AllowlistKept` is about the others.
- How often a result is sent: the worker and `deliver_agent_task_result` may both
  find it undelivered and both send it (`delivery.py:30`, `80`).
- Of the projection service the descriptor, the artifact manifest, previews,
  redaction and actor references; the A2A contract's names. They are read-only
  and say nothing of the order of events.
- Configuration, registration, scripts and packaging: declarations, or not part
  of the running system.
- Outside the code: Hermes, its cron service and chat adapters, Git, the agent
  CLI, the operating system. They are modelled by what the code relies on.

## Plan

Written: TaskRecords, TaskQueue, FileTaskQueue and its proofs; then Worker,
ApprovalCards, TaskService, WorkerCron, in the order of what a mistake costs;
then RunnerStreams, Requests and RequestPath.

Proved since: the safety properties of all of them.

Next proofs:

1. Requests: that `Sanitized`, `Command` and `Envelope` change nothing when they
   are applied again, as retries and edits of a payload would.
2. Worker and WorkerCron: that their steps on `records` are steps of TaskQueue,
   as a refinement of their own.
3. FileTaskQueue: that only the holder of the lock can keep the others waiting,
   the safety half of `LockGivenBack`.

Next modules: TaskService with archives, and with the death of a call between
its records; delivery calls without a task id over several undelivered tasks; the
copy of `CODEX_HOME` by two runs at once.
