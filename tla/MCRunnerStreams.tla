---------------------------- MODULE MCRunnerStreams ----------------------------
(* RunnerStreams on small instances, for TLC. *)
EXTENDS RunnerStreams

\* On stdout a session's announcement of two bytes, a message with a character
\* of three, a number, as a tool in the background may print it, and bytes that
\* are no text; on stderr a warning.
MCLines ==
    [stdout |-> {[kind |-> "thread", chars |-> <<1, 1>>],
                 [kind |-> "message", chars |-> <<3, 1>>],
                 [kind |-> "scalar", chars |-> <<1, 1>>],
                 [kind |-> "bytes", chars |-> <<1>>]},
     stderr |-> {[kind |-> "other", chars |-> <<3, 1>>]}]
=============================================================================
