---------------------------- MODULE MCJobRunner ----------------------------
(* Small instances of JobRunner for TLC. *)
EXTENDS JobRunner

CONSTANTS nightly, other, monday, tuesday

\* Two dates of one job, and a second job on the first of them.
MCTasks == {[job |-> nightly, date |-> monday],
            [job |-> nightly, date |-> tuesday],
            [job |-> other, date |-> monday]}

\* The race between two executions of one task.
MCOneTask == {[job |-> nightly, date |-> monday]}
=============================================================================
