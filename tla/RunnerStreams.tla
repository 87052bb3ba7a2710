------------------------------ MODULE RunnerStreams ------------------------------
(***************************************************************************)
(* CodexCliRunner.run (runners/codex.py): the agent process, the two pipes *)
(* it prints to, the two threads that copy the pipes into the artifact     *)
(* files up to a limit, and the end of the run, when the thread id is      *)
(* looked up in the copied output; and what delivery.py finds there.       *)
(*                                                                         *)
(* A process the agent starts in the background inherits both pipes.  A    *)
(* print blocks while its pipe is full.  Abstracted: a line is its kind    *)
(* and the widths of its characters in UTF-8, the last one the newline; a  *)
(* pipe holds whole lines.                                                 *)
(***************************************************************************)
EXTENDS Naturals, SequencesExt, FiniteSetsExt

CONSTANTS
    Lines,          \* Lines[s]: what may be printed to stream s
    Limits,         \* values of max_output_bytes; 0 means no limit
    Capacity,       \* lines a pipe holds
    Background,     \* processes the agent may leave running
    MaxLines        \* bound: lines printed to a pipe

Stream == {"stdout", "stderr"}

Process == {"agent"} \cup Background

\* A thread.started event, a message of the agent, something else that is no
\* concern of ours, JSON that is no object, and bytes that are no UTF-8.
Kind == {"thread", "message", "other", "scalar", "bytes"}

ASSUME LineAssumption ==
    \A s \in Stream : \A line \in Lines[s] :
        line.kind \in Kind /\ line.chars \in Seq(1 .. 4) \ {<<>>}
ASSUME StreamBounds ==
    Limits \subseteq Nat /\ Capacity \in Nat \ {0} /\ MaxLines \in Nat
ASSUME BackgroundAssumption == IsFiniteSet(Background)

VARIABLES
    limit,      \* max_output_bytes
    alive,      \* the processes that hold the write ends of the pipes
    printing,   \* printing[p]: the print p is inside of, or Idle
    printed,    \* printed[s]: the lines that went into pipe s
    read,       \* read[s]: how many of them the thread has taken out
    file,       \* file[s]: characters <<line, place>> copied, and Mark
    written,    \* written[s]: the thread's count of bytes
    ended,      \* the threads that have ended
    run         \* where run() is, and the line its thread id is from

vars == <<limit, alive, printing, printed, read, file, written, ended, run>>

Idle == [stream |-> "none", line |-> [kind |-> "none", chars |-> <<>>]]

\* "\n[output truncated by hermes-agent-gateway]\n"
Mark == <<0, 0>>

TypeOK ==
    /\ limit \in Limits
    /\ alive \subseteq Process
    /\ \A p \in Process : printing[p] # Idle => printing[p].line \in Lines[printing[p].stream]
    /\ \A s \in Stream :
        /\ printed[s] \in Seq(Lines[s])
        /\ read[s] \in 0 .. Len(printed[s])
        /\ Len(printed[s]) - read[s] <= Capacity
        /\ file[s] \in Seq((0 .. MaxLines) \X Nat)
        /\ limit # 0 => written[s] <= limit
    /\ ended \subseteq Stream
    /\ run \in [pc : {"wait", "join_stdout", "join_stderr", "extract", "returned",
                      "raised"}, thread : 0 .. MaxLines]

\* Popen with both pipes, and the threads started.
Init ==
    /\ limit \in Limits
    /\ alive = {"agent"}
    /\ printing = [p \in Process |-> Idle]
    /\ printed = [s \in Stream |-> <<>>]
    /\ read = [s \in Stream |-> 0]
    /\ file = [s \in Stream |-> <<>>]
    /\ written = [s \in Stream |-> 0]
    /\ ended = {}
    /\ run = [pc |-> "wait", thread |-> 0]

-----------------------------------------------------------------------------
(* The agent and what it leaves running. *)

StartBackground(p) ==
    /\ "agent" \in alive
    /\ printing["agent"] = Idle
    /\ p \notin alive
    /\ alive' = alive \cup {p}
    /\ UNCHANGED <<limit, printing, printed, read, file, written, ended, run>>

BeginPrint(p, s, line) ==
    /\ p \in alive
    /\ printing[p] = Idle
    /\ Len(printed[s]) + Cardinality({q \in Process : printing[q].stream = s}) < MaxLines
    /\ printing' = [printing EXCEPT ![p] = [stream |-> s, line |-> line]]
    /\ UNCHANGED <<limit, alive, printed, read, file, written, ended, run>>

EndPrint(p) ==
    LET s == printing[p].stream
    IN  /\ printing[p] # Idle
        /\ Len(printed[s]) - read[s] < Capacity
        /\ printed' = [printed EXCEPT ![s] = Append(@, printing[p].line)]
        /\ printing' = [printing EXCEPT ![p] = Idle]
        /\ UNCHANGED <<limit, alive, read, file, written, ended, run>>

Exit(p) ==
    /\ p \in alive
    /\ printing[p] = Idle
    /\ alive' = alive \ {p}
    /\ UNCHANGED <<limit, printing, printed, read, file, written, ended, run>>

-----------------------------------------------------------------------------
(* _copy_limited_stream *)

\* Bytes(chars)[n]: the bytes of the first n characters.
Bytes(chars) ==
    LET bytes[n \in 0 .. Len(chars)] == IF n = 0 THEN 0 ELSE bytes[n - 1] + chars[n]
    IN  bytes

Total(chars) == Bytes(chars)[Len(chars)]

\* How many of the characters, from the first, have room in so many bytes.
Fitting(chars, room) == Max({n \in 0 .. Len(chars) : Bytes(chars)[n] <= room})

Chars(i, n) == [place \in 1 .. n |-> <<i, place>>]

Marked(s) == Contains(file[s], Mark)

\* Seeded faults: when n characters of a line are kept they alone are counted, ...
CountKept(s, chars, n) == written[s] + Bytes(chars)[n]

\* ... or the line is counted as if it had been written whole.
CountWhole(s, chars, n) == written[s] + Total(chars)

CountCut(s, chars, n) == limit

\* Seeded fault: stderr is copied after stdout, by the same thread.
MayCopyInTurn(s) == s = "stderr" => "stdout" \in ended

MayCopy(s) == s \notin ended

Copy(s) ==
    LET i == read[s] + 1
        chars == printed[s][i].chars
        room == IF limit = 0 THEN Total(chars) ELSE limit - written[s]
        n == Fitting(chars, room)
        whole == n = Len(chars)
    IN  /\ MayCopy(s)
        /\ s \notin ended
        /\ i <= Len(printed[s])
        /\ printed[s][i].kind # "bytes"
        /\ read' = [read EXCEPT ![s] = i]
        /\ file' = [file EXCEPT ![s] =
                        @ \o Chars(i, n) \o (IF whole \/ Marked(s) THEN <<>> ELSE <<Mark>>)]
        /\ written' = [written EXCEPT ![s] =
                        IF whole THEN @ + Total(chars) ELSE CountCut(s, chars, n)]
        /\ UNCHANGED <<limit, alive, printing, printed, ended, run>>

\* Seeded fault: the parent keeps the write ends open for itself.
WithParent == alive \cup {"parent"}

Holders == alive

Undecodable(s) ==
    \E i \in read[s] + 1 .. Len(printed[s]) : printed[s][i].kind = "bytes"

\* The end of the file, once nobody holds the other end; or UnicodeDecodeError,
\* which may also come before the last lines in front of the bytes are copied.
EndCopy(s) ==
    /\ s \notin ended
    /\ \/ read[s] = Len(printed[s]) /\ Holders = {}
       \/ Undecodable(s)
    /\ ended' = ended \cup {s}
    /\ UNCHANGED <<limit, alive, printing, printed, read, file, written, run>>

-----------------------------------------------------------------------------
(* run *)

Proceed(from, to) ==
    /\ run.pc = from
    /\ run' = [run EXCEPT !.pc = to]
    /\ UNCHANGED <<limit, alive, printing, printed, read, file, written, ended>>

\* Seeded fault: the threads are not joined.
WaitOnly == "agent" \notin alive /\ Proceed("wait", "extract")

Wait == "agent" \notin alive /\ Proceed("wait", "join_stdout")

JoinStdout == "stdout" \in ended /\ Proceed("join_stdout", "join_stderr")

JoinStderr == "stderr" \in ended /\ Proceed("join_stderr", "extract")

\* json.loads needs every character but the newline.
Readable(i) ==
    \A place \in 1 .. Len(printed["stdout"][i].chars) - 1 :
        Contains(file["stdout"], <<i, place>>)

\* The lines of the given kinds that can be read back from the file.
Found(kinds) ==
    {i \in 1 .. read["stdout"] : printed["stdout"][i].kind \in kinds /\ Readable(i)}

\* _extract_thread_id stops at the first thread.started; JSON that is no object
\* has no get() and raises.
Extract ==
    LET stops == Found({"thread", "scalar"})
    IN  /\ run.pc = "extract"
        /\ run' = IF stops = {} THEN [pc |-> "returned", thread |-> 0]
                  ELSE IF printed["stdout"][Min(stops)].kind = "scalar"
                  THEN [pc |-> "raised", thread |-> 0]
                  ELSE [pc |-> "returned", thread |-> Min(stops)]
        /\ UNCHANGED <<limit, alive, printing, printed, read, file, written, ended>>

\* _extract_final_text: the messages, in order; it reads every line and raises
\* at any that is JSON but no object.
FinalText ==
    IF Found({"scalar"}) # {} THEN "raises"
    ELSE IF Found({"message"}) # {} THEN "messages" ELSE "none"

-----------------------------------------------------------------------------

RunStep == Wait \/ JoinStdout \/ JoinStderr \/ Extract

ThreadStep(s) == Copy(s) \/ EndCopy(s)

Next ==
    \/ \E p \in Process :
        \/ StartBackground(p)
        \/ \E s \in Stream : \E line \in Lines[s] : BeginPrint(p, s, line)
        \/ EndPrint(p)
        \/ Exit(p)
    \/ \E s \in Stream : ThreadStep(s)
    \/ RunStep

\* The threads and run() go on when they can, and the system lets a print with
\* room end; no process has to print, and none has to exit.
Fairness ==
    /\ WF_vars(RunStep)
    /\ \A s \in Stream : WF_vars(ThreadStep(s))
    /\ \A p \in Process : WF_vars(EndPrint(p))

Spec == Init /\ [][Next]_vars /\ Fairness

-----------------------------------------------------------------------------
(* Properties. *)

Seen(s) == FlattenSeq([i \in 1 .. read[s] |-> Chars(i, Len(printed[s][i].chars))])

Width(s, c) == printed[s][c[1]].chars[c[2]]

\* An artifact file is the longest run of whole characters, from the first on,
\* of what was printed that fits max_output_bytes, and ends with one mark if
\* and only if something was left out (codex.py:108-125).
KeptIsLongestPrefix ==
    \A s \in Stream :
        LET seen == Seen(s)
            widths == [j \in 1 .. Len(seen) |-> Width(s, seen[j])]
            n == IF limit = 0 THEN Len(seen) ELSE Fitting(widths, limit)
        IN  file[s] = SubSeq(seen, 1, n) \o (IF n < Len(seen) THEN <<Mark>> ELSE <<>>)

\* When the output is looked at, nothing is missing from it that the agent, or
\* anything it left running, has printed or is still to print, unless a thread
\* died of bytes that are no UTF-8 (codex.py:91-98).
OutputIsComplete ==
    run.pc \in {"extract", "returned", "raised"} =>
        \A s \in Stream : Undecodable(s) \/ (alive = {} /\ read[s] = Len(printed[s]))

\* A session that is announced within the limit is found, so that the workspace
\* can be resumed, unless JSON that is no object came before it
\* (codex.py:98, 176-189).
SessionIsFound ==
    \A i \in DOMAIN printed["stdout"] :
        LET upTo == SubSeq(printed["stdout"], 1, i)
        IN  /\ run.pc \in {"returned", "raised"}
            /\ upTo[i].kind = "thread"
            /\ limit = 0 \/ Total(FlattenSeq([j \in 1 .. i |-> upTo[j].chars])) <= limit
            /\ \A j \in 1 .. i : upTo[j].kind \notin {"scalar", "bytes"}
            /\ ~Undecodable("stdout")
            => run.pc = "returned" /\ run.thread \in 1 .. i

\* run() returns, or raises, once every process that held a pipe is gone.
RunReturns == (alive = {}) ~> run.pc \in {"returned", "raised"}

\* No process waits for ever in a print: both pipes are read to the end, beyond
\* the limit too and whichever is full first, unless something is printed that
\* is no UTF-8 (codex.py:81-90, 113-125).
PrintsEnd ==
    \A p \in Process, s \in Stream :
        printing[p].stream = s ~> printing[p].stream # s \/ Undecodable(s)

-----------------------------------------------------------------------------
(* What one expects and the code does not keep: it has a counterexample, see *)
(* the README.                                                               *)

\* A run whose thread id was found has a result that can be delivered.
ReturnedIsDeliverable == run.pc = "returned" => FinalText # "raises"

\* An agent that prints what is no UTF-8 gets to its end.
AnyPrintEnds == \A p \in Process : printing[p] # Idle ~> printing[p] = Idle

\* run() returns once the agent itself has exited.
ReturnsAfterAgent == ("agent" \notin alive) ~> run.pc \in {"returned", "raised"}
=============================================================================
