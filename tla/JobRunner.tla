----------------------------- MODULE JobRunner -----------------------------
(***************************************************************************)
(* services/job_runner: the status control of scheduled jobs.  Every       *)
(* execution of run_job is a process of its own (cron starts it, it runs   *)
(* once and exits); executions share only the job_runs table.  An          *)
(* execution inserts at most one row, so rows are indexed by the execution *)
(* that inserts them (its run_id).                                         *)
(*                                                                         *)
(* A step is one database statement (each is a transaction of its own) or  *)
(* one fault: the work or a database call raises, SIGTERM is delivered, or *)
(* the process is killed without running another line.                     *)
(***************************************************************************)
EXTENDS Naturals, FiniteSets

CONSTANTS Execs,       \* the executions of run_job
          Tasks,       \* what can be asked of one: records [job, date]
          StaleAfter,  \* the age past which an active row is abandoned
          MaxRun,      \* how long a live execution can hold its row
          MaxClock,    \* bound: the last instant of the database clock
          Faults       \* which faults the environment may cause

FaultKinds == {"work", "database", "signal", "kill"}

ASSUME TimesAssumption == StaleAfter \in Nat /\ MaxRun \in Nat /\ MaxClock \in Nat
ASSUME FaultsAssumption == Faults \subseteq FaultKinds

VARIABLES now,          \* the database clock
          task,         \* task[e]: the job and date execution e is asked for
          pc,           \* pc[e]: the line of run_job that e runs next
          rows,         \* rows[e]: the job_runs row e inserted
          outcome,      \* outcome[e]: how e ended
          signalled,    \* executions that received SIGTERM (later ones are ignored)
          worked,       \* executions whose work() returned
          sweptAt,      \* history: when e ran its sweep
          doneAtLaunch  \* history: e started with its date already completed

vars == <<now, task, pc, rows, outcome, signalled, worked, sweptAt, doneAtLaunch>>
history == <<sweptAt, doneAtLaunch>>

Statuses == {"none", "pending", "processing", "completed", "failed"}
ActiveStatuses == {"pending", "processing"}
Errors == {"none", "raised", "abandoned"}
Row == [status : Statuses, created : Nat, error : Errors]
NoRow == [status |-> "none", created |-> 0, error |-> "none"]

\* Inside run_job's second try: an exception leads to mark_failed.
Guarded == {"starting", "work", "completing", "recorded"}
\* Elsewhere an exception leaves run_job at once.
Unguarded == {"sweep", "lock", "duplicate", "claim", "recheck", "claimed", "failing"}
Running == Guarded \cup Unguarded
PCs == Running \cup {"idle", "ended"}
Outcomes == {"none", "completed", "skipped_duplicate", "aborted_locked",
             "failed", "unrecorded", "terminated", "killed"}

-----------------------------------------------------------------------------
(* The table *)

Active(e) == rows[e].status \in ActiveStatuses

\* has_processing_lock, and what job_runs_one_active_idx refuses.
Locked(job) == \E e \in Execs : task[e].job = job /\ Active(e)

\* has_completed_for_date: the job and the date must both match.
CompletedFor(t) == \E e \in Execs : task[e] = t /\ rows[e].status = "completed"

Stale(e) == Active(e) /\ rows[e].created + StaleAfter < now

\* _transition: a conditional UPDATE; no row matches when the status moved on.
Transition(e, from, status, error) ==
    rows' = [rows EXCEPT ![e] =
               IF @.status \in from
               THEN [@ EXCEPT !.status = status, !.error = error]
               ELSE @]

Goto(e, label) == pc' = [pc EXCEPT ![e] = label] /\ UNCHANGED outcome

End(e, result) == /\ pc' = [pc EXCEPT ![e] = "ended"]
                  /\ outcome' = [outcome EXCEPT ![e] = result]

Init == /\ now = 0
        /\ task \in [Execs -> Tasks]
        /\ pc = [e \in Execs |-> "idle"]
        /\ rows = [e \in Execs |-> NoRow]
        /\ outcome = [e \in Execs |-> "none"]
        /\ signalled = {}
        /\ worked = {}
        /\ sweptAt = [e \in Execs |-> 0]
        /\ doneAtLaunch = [e \in Execs |-> FALSE]

-----------------------------------------------------------------------------
(* run_job, one line at a time *)

Launch(e) == /\ pc[e] = "idle"
             /\ Goto(e, "sweep")
             /\ doneAtLaunch' = [doneAtLaunch EXCEPT ![e] = CompletedFor(task[e])]
             /\ UNCHANGED <<now, task, rows, signalled, worked, sweptAt>>

\* Mutant: only processing rows are swept.
SweepProcessing(e) ==
    /\ pc[e] = "sweep"
    /\ rows' = [x \in Execs |->
                  IF task[x].job = task[e].job /\ Stale(x) /\ rows[x].status = "processing"
                  THEN [rows[x] EXCEPT !.status = "failed", !.error = "abandoned"]
                  ELSE rows[x]]
    /\ Goto(e, "lock")
    /\ sweptAt' = [sweptAt EXCEPT ![e] = now]
    /\ UNCHANGED <<now, task, signalled, worked, doneAtLaunch>>

\* sweep_abandoned: the job's stale active rows become failed.
Sweep(e) ==
    /\ pc[e] = "sweep"
    /\ rows' = [x \in Execs |->
                  IF task[x].job = task[e].job /\ Stale(x)
                  THEN [rows[x] EXCEPT !.status = "failed", !.error = "abandoned"]
                  ELSE rows[x]]
    /\ Goto(e, "lock")
    /\ sweptAt' = [sweptAt EXCEPT ![e] = now]
    /\ UNCHANGED <<now, task, signalled, worked, doneAtLaunch>>

CheckLock(e) == /\ pc[e] = "lock"
                /\ IF Locked(task[e].job) THEN End(e, "aborted_locked")
                                          ELSE Goto(e, "duplicate")
                /\ UNCHANGED <<now, task, rows, signalled, worked, history>>

\* Mutant: the duplicate is only logged.
CheckCompletedLogged(e) == /\ pc[e] = "duplicate"
                           /\ Goto(e, "claim")
                           /\ UNCHANGED <<now, task, rows, signalled, worked, history>>

\* has_completed_for_date, a statement of its own before the claim.
CheckCompleted(e) == /\ pc[e] = "duplicate"
                     /\ IF CompletedFor(task[e]) THEN End(e, "skipped_duplicate")
                                                 ELSE Goto(e, "claim")
                     /\ UNCHANGED <<now, task, rows, signalled, worked, history>>

\* Mutant: no partial unique index.
ClaimUnguarded(e) == /\ pc[e] = "claim"
                     /\ rows' = [rows EXCEPT ![e] = [status |-> "pending", created |-> now,
                                                     error |-> "none"]]
                     /\ Goto(e, "claimed")
                     /\ UNCHANGED <<now, task, signalled, worked, history>>

\* create_job_run's INSERT: the partial unique index decides the race.
Claim(e) == /\ pc[e] = "claim"
            /\ ~Locked(task[e].job)
            /\ rows' = [rows EXCEPT ![e] = [status |-> "pending", created |-> now,
                                            error |-> "none"]]
            /\ Goto(e, "claimed")
            /\ UNCHANGED <<now, task, signalled, worked, history>>

ClaimRefused(e) == /\ pc[e] = "claim"
                   /\ Locked(task[e].job)
                   /\ Goto(e, "recheck")
                   /\ UNCHANGED <<now, task, rows, signalled, worked, history>>

\* create_job_run's handler: the IntegrityError means "already running" only
\* if the lock is still held when it looks again; otherwise it propagates.
Recheck(e) == /\ pc[e] = "recheck"
              /\ End(e, IF Locked(task[e].job) THEN "aborted_locked" ELSE "failed")
              /\ UNCHANGED <<now, task, rows, signalled, worked, history>>

\* "Run %s recorded": the row is committed, the second try not yet entered.
EnterTry(e) == /\ pc[e] = "claimed"
               /\ Goto(e, "starting")
               /\ UNCHANGED <<now, task, rows, signalled, worked, history>>

MarkProcessing(e) == /\ pc[e] = "starting"
                     /\ Transition(e, {"pending"}, "processing", "none")
                     /\ Goto(e, IF rows[e].status = "pending" THEN "work" ELSE "failing")
                     /\ UNCHANGED <<now, task, signalled, worked, history>>

WorkReturns(e) == /\ pc[e] = "work"
                  /\ Goto(e, "completing")
                  /\ worked' = worked \cup {e}
                  /\ UNCHANGED <<now, task, rows, signalled, history>>

\* Mutant: the row count of the UPDATE is not looked at.
MarkCompletedUnchecked(e) == /\ pc[e] = "completing"
                             /\ Transition(e, {"processing"}, "completed", "none")
                             /\ Goto(e, "recorded")
                             /\ UNCHANGED <<now, task, signalled, worked, history>>

MarkCompleted(e) == /\ pc[e] = "completing"
                    /\ Transition(e, {"processing"}, "completed", "none")
                    /\ Goto(e, IF rows[e].status = "processing" THEN "recorded" ELSE "failing")
                    /\ UNCHANGED <<now, task, signalled, worked, history>>

Return(e) == /\ pc[e] = "recorded"
             /\ End(e, "completed")
             /\ UNCHANGED <<now, task, rows, signalled, worked, history>>

\* mark_failed; when no row matches its JobRunStateError is only logged, and
\* the original exception is raised again either way.
MarkFailed(e) == /\ pc[e] = "failing"
                 /\ Transition(e, ActiveStatuses, "failed", "raised")
                 /\ End(e, IF e \in signalled THEN "terminated" ELSE "failed")
                 /\ UNCHANGED <<now, task, signalled, worked, history>>

-----------------------------------------------------------------------------
(* Faults *)

\* What an exception does, by the line it is raised at.
Raise(e, result) == IF pc[e] \in Guarded THEN Goto(e, "failing") ELSE End(e, result)

WorkRaises(e) == /\ "work" \in Faults
                 /\ pc[e] = "work"
                 /\ Raise(e, "failed")
                 /\ UNCHANGED <<now, task, rows, signalled, worked, history>>

\* The database fails e.  A statement that commits but is not acknowledged is
\* the statement's own step followed by this one at the next line.
DatabaseRaises(e) == /\ "database" \in Faults
                     /\ pc[e] \in Running
                     /\ Raise(e, "unrecorded")
                     /\ UNCHANGED <<now, task, rows, signalled, worked, history>>

\* The first SIGTERM raises Terminated, a BaseException, wherever the process
\* is, mark_failed included; nightly_export's handler then ignores the signal.
Terminate(e) == /\ "signal" \in Faults
                /\ pc[e] \in Running
                /\ e \notin signalled
                /\ signalled' = signalled \cup {e}
                /\ Raise(e, "terminated")
                /\ UNCHANGED <<now, task, rows, worked, history>>

\* SIGKILL or power loss.
Kill(e) == /\ "kill" \in Faults
           /\ pc[e] \in Running
           /\ End(e, "killed")
           /\ UNCHANGED <<now, task, rows, signalled, worked, history>>

\* Time passes, except that no live execution holds its row past MaxRun.
Tick == /\ now < MaxClock
        /\ \A e \in Execs : pc[e] \in Running /\ Active(e) => now < rows[e].created + MaxRun
        /\ now' = now + 1
        /\ UNCHANGED <<task, pc, rows, outcome, signalled, worked, history>>

\* All executions are over and the clock is at its bound.
Over == /\ \A e \in Execs : pc[e] = "ended"
        /\ now = MaxClock
        /\ UNCHANGED vars

Step(e) == \/ Sweep(e) \/ CheckLock(e) \/ CheckCompleted(e)
           \/ Claim(e) \/ ClaimRefused(e) \/ Recheck(e) \/ EnterTry(e)
           \/ MarkProcessing(e) \/ WorkReturns(e) \/ MarkCompleted(e)
           \/ Return(e) \/ MarkFailed(e)

Fault(e) == WorkRaises(e) \/ DatabaseRaises(e) \/ Terminate(e) \/ Kill(e)

Next == \/ \E e \in Execs : Launch(e) \/ Step(e) \/ Fault(e)
        \/ Tick
        \/ Over

Spec == Init /\ [][Next]_vars

\* The scheduler promises nothing about launches, but a launched process runs
\* on, and work() returns: the export bounds its pipeline by a timeout.
FairSpec == Spec /\ \A e \in Execs : WF_vars(Step(e))

-----------------------------------------------------------------------------
(* Properties *)

TypeOK == /\ now \in Nat
          /\ task \in [Execs -> Tasks]
          /\ pc \in [Execs -> PCs]
          /\ rows \in [Execs -> Row]
          /\ outcome \in [Execs -> Outcomes]
          /\ signalled \subseteq Execs
          /\ worked \subseteq Execs
          /\ sweptAt \in [Execs -> Nat]
          /\ doneAtLaunch \in [Execs -> BOOLEAN]

\* Two executions of a job are inside work() together only if one of them lost
\* its row to another execution's sweep (run_job: "under the lock").
WorkExclusive ==
    \A d, e \in Execs :
        d # e /\ task[d].job = task[e].job /\ pc[d] = "work" /\ pc[e] = "work"
        => \E x \in {d, e} : rows[x].error = "abandoned"

\* What run_job returns is what the table says, even to an execution that was
\* swept while it worked: completed means its own work returned and its row
\* says so, a skip means another execution completed that job and date, and a
\* skip or an abort wrote no row.
OutcomeTruthful ==
    \A e \in Execs :
        /\ outcome[e] = "completed" => e \in worked /\ rows[e].status = "completed"
        /\ outcome[e] = "skipped_duplicate" => CompletedFor(task[e])
        /\ outcome[e] \in {"skipped_duplicate", "aborted_locked"} => rows[e] = NoRow

\* An execution that ended leaves its row active only if it was killed, was
\* terminated outside the guarded lines, or could not reach the database;
\* every other failure is on record (run_job's promise 4).
OnlyLostRunsStayActive ==
    \A e \in Execs : pc[e] = "ended" /\ Active(e)
                     => outcome[e] \in {"killed", "terminated", "unrecorded"}

\* An execution launched after its job and date completed never works again:
\* the per-day idempotency a second crontab line or a manual rerun relies on.
RerunsSkip == \A e \in Execs : doneAtLaunch[e] => rows[e] = NoRow /\ e \notin worked

\* A row that is completed or failed never changes again, whoever sweeps,
\* fails or finishes late.
FinalIsFinal ==
    [][\A e \in Execs : rows[e].status \in {"completed", "failed"} => rows'[e] = rows[e]]_vars

\* No dead execution locks its job for good: one that aborts on the lock found
\* a row that was not yet stale when it swept.
LockIsTemporary ==
    [][\A e \in Execs :
         pc[e] # "ended" /\ outcome'[e] = "aborted_locked"
         => \E x \in Execs : /\ task[x].job = task[e].job
                             /\ Active(x)
                             /\ rows[x].created + StaleAfter >= sweptAt[e]]_vars

\* Once every other execution is over and what it left active is stale, a
\* launched execution gets its job and date completed unless it fails itself.
AloneAfterCrash(e) ==
    /\ pc[e] = "sweep"
    /\ \A x \in Execs \ {e} : pc[x] = "ended" /\ (Active(x) => Stale(x))

Recovers ==
    \A e \in Execs :
        AloneAfterCrash(e) ~> \/ CompletedFor(task[e])
                             \/ outcome[e] \in {"failed", "unrecorded", "terminated", "killed"}

\* run_job: "Run `work` once for `job_name` and `target_date`".
OneCompletionPerDate ==
    \A d, e \in Execs : d # e /\ task[d] = task[e]
                        => ~(rows[d].status = "completed" /\ rows[e].status = "completed")
=============================================================================
