--------------------------- MODULE WorkerCronProofs ---------------------------
(***************************************************************************)
(* Proofs about WorkerCron, for every number of ensure calls and tasks.    *)
(***************************************************************************)
EXTENDS WorkerCron, TLAPS

\* An ensure call is between its first and its last step.
Active(e) == ensurer[e] \in {"list", "create", "update"}

\* What calls that do not overlap keep: the job that one of them saw, or missed,
\* is still as it was when it acts on it.
SerialInv ==
    /\ \A e, f \in Ensurers : Active(e) /\ Active(f) => e = f
    /\ \A e \in Ensurers :
        /\ ensurer[e] = "create" => Existing = {}
        /\ ensurer[e] = "update" => target[e] \in Existing

IInv == TypeOK /\ (~Overlap => SerialInv /\ OneJob)

-----------------------------------------------------------------------------
(* Types. *)

\* Every record the queue writes here is a record (queue.py:19-38, 93-103).
LEMMA QueueStep ==
    ASSUME Queue!TypeOK, NEW t \in Task,
           Queue!ClaimNext(t) \/ \E payload \in Payloads : Queue!Enqueue(t, payload)
    PROVE  Queue!TypeOK'
<1>1. CASE Queue!ClaimNext(t)
  <2>1. records[t] \in Queue!TaskRecord
    BY <1>1 DEF Queue!TypeOK, Queue!ClaimNext, Queue!Claimable, Queue!Whole
  <2>2. Queue!ClaimedRecord(records[t]) \in Queue!TaskRecord
    BY <2>1 DEF Queue!ClaimedRecord, Queue!TaskRecord, Queue!Status
  <2>3. QED
    BY <1>1, <2>2 DEF Queue!ClaimNext, Queue!Put, Queue!TypeOK
<1>2. ASSUME NEW payload \in Payloads, Queue!Enqueue(t, payload)
      PROVE  Queue!TypeOK'
  <2>1. payload \in Payload
    BY PayloadAssumption
  <2>2. Queue!EnqueuedRecord(t, payload) \in Queue!TaskRecord
    BY <2>1 DEF Payload, Mode, Queue!EnqueuedRecord, Queue!EnqueuedStatus,
                Queue!TaskRecord, Queue!Mode, Queue!Status, Queue!DeliveryStatus
  <2>3. QED
    BY <1>2, <2>2 DEF Queue!Enqueue, Queue!Put, Queue!TypeOK
<1>3. QED
    BY <1>1, <1>2

\* The cron API is asked for well-formed jobs (scheduler.py:131-171).
LEMMA TypeStep ==
    ASSUME TypeOK, [Next]_vars
    PROVE  TypeOK'
<1>1. CASE UNCHANGED vars
    BY <1>1 DEF TypeOK, Queue!TypeOK, vars
<1>2. ASSUME NEW e \in Ensurers, Ensure(e)
      PROVE  TypeOK'
  <2>1. UNCHANGED records
    BY <1>2 DEF Ensure, EnsureScript, List, Update, Create
  <2>2. Queue!TypeOK'
    BY <2>1 DEF TypeOK, Queue!TypeOK
  <2>3. CASE EnsureScript(e)
    BY <2>2, <2>3 DEF EnsureScript, Goto, TypeOK, Version
  <2>4. CASE List(e)
    BY <2>2, <2>4 DEF List, Reuse, Goto, TypeOK
  <2>5. CASE Update(e)
    BY <2>2, <2>5 DEF Update, Goto, TypeOK, Version
  <2>6. CASE Create(e)
    BY <2>2, <2>6 DEF Create, Goto, TypeOK, Version
  <2>7. QED
    BY <1>2, <2>3, <2>4, <2>5, <2>6 DEF Ensure
<1>3. ASSUME NEW t \in Task,
             \/ \E payload \in Payloads : Submit(t, payload)
             \/ \E j \in JobNumber : Tick(j, t)
      PROVE  TypeOK'
  <2>1. UNCHANGED <<jobs, script, ensurer, target>>
    BY <1>3 DEF Submit, Tick
  <2>2. Queue!TypeOK'
    BY <1>3, QueueStep DEF Submit, Tick, TypeOK
  <2>3. QED
    BY <2>1, <2>2 DEF TypeOK
<1>4. QED
    BY <1>1, <1>2, <1>3 DEF Next

-----------------------------------------------------------------------------
(* Calls that do not overlap. *)

\* The first step of a call: no other has begun.
LEMMA ScriptSerial ==
    ASSUME TypeOK, ~Overlap, SerialInv, OneJob, NEW e \in Ensurers, EnsureScript(e)
    PROVE  SerialInv' /\ OneJob'
<1>1. /\ \A f \in Ensurers : ~Active(f)
      /\ UNCHANGED <<jobs, target>>
      /\ ensurer' = [ensurer EXCEPT ![e] = "list"]
    BY DEF EnsureScript, Goto, Active
<1>2. \A f \in Ensurers : ensurer'[f] = IF f = e THEN "list" ELSE ensurer[f]
    BY <1>1 DEF TypeOK
<1>3. SerialInv'
    BY <1>1, <1>2 DEF SerialInv, Active, Existing
<1>4. QED
    BY <1>1, <1>3 DEF OneJob, Existing

\* The listing decides on what the call does, and nobody is in between.
LEMMA ListSerial ==
    ASSUME TypeOK, SerialInv, OneJob, NEW e \in Ensurers, List(e)
    PROVE  SerialInv' /\ OneJob'
<1>1. \A f \in Ensurers \ {e} : ~Active(f)
    BY DEF List, SerialInv, Active
<1>2. /\ UNCHANGED jobs
      /\ \A f \in Ensurers \ {e} : ensurer'[f] = ensurer[f] /\ target'[f] = target[f]
    BY DEF List, Reuse, Goto, TypeOK
<1>3. /\ ensurer'[e] \in {"ended", "update", "create"}
      /\ ensurer'[e] = "create" => Existing = {}
      /\ ensurer'[e] = "update" => target'[e] \in Existing
    BY DEF List, Reuse, First, Goto, TypeOK
<1>4. SerialInv'
    BY <1>1, <1>2, <1>3 DEF SerialInv, Active, Existing
<1>5. QED
    BY <1>2, <1>4 DEF OneJob, Existing

\* The call repairs a job there is, or creates one where there is none.
LEMMA LastSerial ==
    ASSUME TypeOK, SerialInv, OneJob, NEW e \in Ensurers, Update(e) \/ Create(e)
    PROVE  SerialInv' /\ OneJob'
<1>1. \A f \in Ensurers \ {e} : ~Active(f)
    BY DEF Update, Create, SerialInv, Active
<1>2. /\ ensurer'[e] = "ended"
      /\ \A f \in Ensurers \ {e} : ensurer'[f] = ensurer[f]
    BY DEF Update, Create, Goto, TypeOK
<1>3. \A f \in Ensurers : ~Active(f)'
    BY <1>1, <1>2 DEF Active
<1>4. SerialInv'
    BY <1>3 DEF SerialInv, Active
<1>5. CASE Update(e)
  <2>1. target[e] \in Existing
    BY <1>5 DEF Update, SerialInv
  <2>2. Existing' = Existing
    BY <1>5, <2>1 DEF Update, Existing, TypeOK
  <2>3. QED
    BY <1>4, <2>2 DEF OneJob
<1>6. CASE Create(e)
  <2>1. Existing = {}
    BY <1>6 DEF Create, SerialInv
  <2>2. PICK j \in JobNumber : jobs' = [jobs EXCEPT ![j] = "current"]
    BY <1>6 DEF Create
  <2>3. Existing' = {j}
    BY <2>1, <2>2 DEF Existing, TypeOK
  <2>4. QED
    BY <1>4, <2>3 DEF OneJob
<1>7. QED
    BY <1>5, <1>6

\* Every step keeps the invariant.
LEMMA InvStep ==
    ASSUME IInv, [Next]_vars
    PROVE  IInv'
<1>1. TypeOK'
    BY TypeStep DEF IInv
<1>2. ASSUME ~Overlap
      PROVE  SerialInv' /\ OneJob'
  <2>1. SerialInv /\ OneJob /\ TypeOK
    BY <1>2 DEF IInv
  <2>2. CASE UNCHANGED <<jobs, ensurer, target>>
    BY <2>1, <2>2 DEF SerialInv, OneJob, Active, Existing
  <2>3. ASSUME NEW e \in Ensurers, Ensure(e)
        PROVE  SerialInv' /\ OneJob'
    BY <1>2, <2>1, <2>3, ScriptSerial, ListSerial, LastSerial DEF Ensure
  <2>4. QED
    BY <2>2, <2>3 DEF Next, Submit, Tick, vars
<1>3. QED
    BY <1>1, <1>2, CronAssumption DEF IInv

\* A fresh installation, and one that an older version has left, are so.
LEMMA InitInv ==
    ASSUME Init
    PROVE  IInv
<1>1. Queue!TypeOK
    BY DEF Init, Queue!Init, Queue!TypeOK
<1>2. jobs \in [JobNumber -> Version \cup {"none"}]
    BY DEF Init, Version
<1>3. TypeOK
    BY <1>1, <1>2 DEF Init, TypeOK, Version
<1>4. Existing \subseteq {1}
    BY DEF Init, Existing
<1>5. SerialInv /\ OneJob
    BY <1>4 DEF Init, SerialInv, OneJob, Active
<1>6. QED
    BY <1>3, <1>5 DEF IInv

\* The invariant holds in every state of every behaviour.
LEMMA Invariant == Spec => []IInv
<1>1. Init => IInv
    BY InitInv
<1>2. IInv /\ [Next]_vars => IInv'
    BY InvStep
<1>3. QED
    BY <1>1, <1>2, PTL DEF Spec

-----------------------------------------------------------------------------
(* The theorems. *)

\* Queue, jobs and ensure calls keep to the values the code can give them.
THEOREM TypeCorrect == Spec => []TypeOK
<1>1. IInv => TypeOK
    BY DEF IInv
<1>2. QED
    BY <1>1, Invariant, PTL

\* There is never a second job of the worker's name, as long as ensure calls do
\* not overlap: nothing else than the listing keeps a call from creating one
\* (scheduler.py:131-171).
THEOREM SerialCallsKeepOneJob ==
    ASSUME ~Overlap
    PROVE  Spec => []OneJob
<1>1. IInv => OneJob
    BY DEF IInv
<1>2. QED
    BY <1>1, Invariant, PTL
=============================================================================
