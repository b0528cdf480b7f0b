-------------------------- MODULE JobRunnerProofs --------------------------
(***************************************************************************)
(* What JobRunner guarantees for any number of executions, any tasks, any  *)
(* faults and any length of run.                                           *)
(***************************************************************************)
EXTENDS JobRunner, TLAPS

\* At most one active row per job: what job_runs_one_active_idx decides at the
\* insert and no later update undoes.
OneActiveRow == \A d, e \in Execs :
                    d # e /\ task[d].job = task[e].job => ~(Active(d) /\ Active(e))

Before == {"idle", "sweep", "lock", "duplicate", "claim", "recheck"}

\* How an execution's row and its place in run_job correspond, given that
\* another execution's sweep may have taken the row at any time.
RowInStep(e) ==
    /\ pc[e] \in Before => rows[e] = NoRow /\ e \notin worked
    /\ pc[e] \in {"claimed", "starting"} =>
         rows[e].status = "pending" \/ rows[e].error = "abandoned"
    /\ pc[e] \in {"work", "completing"} =>
         rows[e].status = "processing" \/ rows[e].error = "abandoned"
    /\ pc[e] = "completing" => e \in worked
    /\ pc[e] = "recorded" => e \in worked /\ rows[e].status = "completed"
    /\ pc[e] # "ended" => outcome[e] = "none"

\* A row's error names its end, and a row is never from the future.
RowSane(e) == /\ rows[e].error = "abandoned" => rows[e].status = "failed"
              /\ rows[e].created <= now

\* The strengthening of the safety properties that every step preserves.
IInv == /\ TypeOK
        /\ OneActiveRow
        /\ \A e \in Execs : RowInStep(e) /\ RowSane(e)
        /\ OutcomeTruthful

-----------------------------------------------------------------------------

\* Every reachable state has the types the variables are declared with.
THEOREM TypeInvariant == Spec => []TypeOK
<1> USE DEF Statuses, ActiveStatuses, Errors, Row, NoRow, PCs, Running, Guarded,
            Unguarded, Outcomes
<1>1. Init => TypeOK
  BY DEF Init, TypeOK
<1>2. TypeOK /\ [Next]_vars => TypeOK'
  <2> SUFFICES ASSUME TypeOK, [Next]_vars PROVE TypeOK'
    OBVIOUS
  <2> USE DEF TypeOK
  <2>1. ASSUME NEW e \in Execs, Launch(e) PROVE TypeOK'
    BY <2>1 DEF Launch, Goto, CompletedFor
  <2>2. ASSUME NEW e \in Execs, Sweep(e) PROVE TypeOK'
    BY <2>2 DEF Sweep, Goto
  <2>3. ASSUME NEW e \in Execs, CheckLock(e) PROVE TypeOK'
    BY <2>3 DEF CheckLock, Goto, End, history
  <2>4. ASSUME NEW e \in Execs, CheckCompleted(e) PROVE TypeOK'
    BY <2>4 DEF CheckCompleted, Goto, End, history
  <2>5. ASSUME NEW e \in Execs, Claim(e) PROVE TypeOK'
    BY <2>5 DEF Claim, Goto, history
  <2>6. ASSUME NEW e \in Execs, ClaimRefused(e) PROVE TypeOK'
    BY <2>6 DEF ClaimRefused, Goto, history
  <2>7. ASSUME NEW e \in Execs, Recheck(e) PROVE TypeOK'
    BY <2>7 DEF Recheck, End, history
  <2>8. ASSUME NEW e \in Execs, EnterTry(e) PROVE TypeOK'
    BY <2>8 DEF EnterTry, Goto, history
  <2>9. ASSUME NEW e \in Execs, MarkProcessing(e) PROVE TypeOK'
    BY <2>9 DEF MarkProcessing, Transition, Goto, history
  <2>10. ASSUME NEW e \in Execs, WorkReturns(e) PROVE TypeOK'
    BY <2>10 DEF WorkReturns, Goto, history
  <2>11. ASSUME NEW e \in Execs, MarkCompleted(e) PROVE TypeOK'
    BY <2>11 DEF MarkCompleted, Transition, Goto, history
  <2>12. ASSUME NEW e \in Execs, Return(e) PROVE TypeOK'
    BY <2>12 DEF Return, End, history
  <2>13. ASSUME NEW e \in Execs, MarkFailed(e) PROVE TypeOK'
    BY <2>13 DEF MarkFailed, Transition, End, history
  <2>14. ASSUME NEW e \in Execs, Fault(e) PROVE TypeOK'
    BY <2>14 DEF Fault, WorkRaises, DatabaseRaises, Terminate, Kill, Raise, Goto, End, history
  <2>15. CASE Tick
    BY <2>15 DEF Tick, history
  <2>16. CASE Over \/ UNCHANGED vars
    BY <2>16 DEF Over, vars
  <2> QED
    BY <2>1, <2>2, <2>3, <2>4, <2>5, <2>6, <2>7, <2>8, <2>9, <2>10, <2>11, <2>12,
       <2>13, <2>14, <2>15, <2>16 DEF Next, Step
<1>3. QED
  BY <1>1, <1>2, PTL DEF Spec

\* A sweep preserves the strengthening: it only takes rows that are active and
\* overdue, and leaves every other row as it is.
LEMMA SweepPreserves ==
    ASSUME IInv, TypeOK', NEW e \in Execs, Sweep(e) PROVE IInv'
<1> DEFINE Taken(x) == /\ Active(x) /\ rows[x].created + StaleAfter < now
                       /\ rows'[x].status = "failed" /\ rows'[x].error = "abandoned"
                       /\ rows'[x].created = rows[x].created
<1>1. \A x \in Execs : rows'[x] = rows[x] \/ Taken(x)
  <2> SUFFICES ASSUME NEW x \in Execs PROVE rows'[x] = rows[x] \/ Taken(x)
    OBVIOUS
  <2>1. rows[x] \in Row
    BY DEF IInv, TypeOK
  <2>2. CASE task[x].job = task[e].job /\ Stale(x)
    <3>1. rows'[x] = [rows[x] EXCEPT !.status = "failed", !.error = "abandoned"]
      BY <2>2 DEF Sweep
    <3> QED
      BY <2>1, <2>2, <3>1 DEF Row, Stale
  <2>3. CASE ~(task[x].job = task[e].job /\ Stale(x))
    BY <2>3 DEF Sweep
  <2> QED
    BY <2>2, <2>3
<1>2. /\ pc[e] = "sweep" /\ pc' = [pc EXCEPT ![e] = "lock"]
      /\ pc \in [Execs -> PCs]
      /\ UNCHANGED <<now, task, outcome, worked>>
  BY DEF Sweep, Goto, IInv, TypeOK
<1>3. \A x \in Execs : Active(x)' => Active(x)
  BY <1>1 DEF Active, ActiveStatuses
<1>4. OneActiveRow'
  BY <1>2, <1>3 DEF IInv, OneActiveRow
<1>5. \A x \in Execs : RowInStep(x)' /\ RowSane(x)'
  <2> SUFFICES ASSUME NEW x \in Execs PROVE RowInStep(x)' /\ RowSane(x)'
    OBVIOUS
  <2>1. RowInStep(x) /\ RowSane(x)
    BY DEF IInv
  <2>2. pc'[x] = pc[x] \/ (x = e /\ pc[x] \in Before /\ pc'[x] = "lock")
    BY <1>2 DEF Before
  <2>3. RowSane(x)'
    BY <1>1, <1>2, <2>1 DEF RowSane
  <2>4. RowInStep(x)'
    BY <1>1, <1>2, <2>1, <2>2 DEF RowInStep, Before, NoRow, Active, ActiveStatuses
  <2> QED
    BY <2>3, <2>4
<1>6. OutcomeTruthful'
  <2>1. \A x \in Execs : /\ rows[x].status = "completed" => rows'[x] = rows[x]
                         /\ rows[x] = NoRow => rows'[x] = rows[x]
    BY <1>1 DEF Active, ActiveStatuses, NoRow
  <2>2. \A x \in Execs : CompletedFor(task[x]) => CompletedFor(task[x])'
    BY <1>2, <2>1 DEF CompletedFor
  <2> QED
    BY <1>2, <2>1, <2>2 DEF IInv, OutcomeTruthful
<1> QED
  BY <1>4, <1>5, <1>6 DEF IInv

\* A claim preserves the strengthening: the index lets it in only when the job
\* has no active row.
LEMMA ClaimPreserves ==
    ASSUME IInv, TypeOK', NEW e \in Execs, Claim(e) PROVE IInv'
<1>1. /\ pc[e] = "claim" /\ pc' = [pc EXCEPT ![e] = "claimed"]
      /\ rows' = [rows EXCEPT ![e] = [status |-> "pending", created |-> now, error |-> "none"]]
      /\ pc \in [Execs -> PCs] /\ rows \in [Execs -> Row] /\ now \in Nat
      /\ UNCHANGED <<now, task, outcome, worked>>
  BY DEF Claim, Goto, IInv, TypeOK
<1>2. \A x \in Execs : task[x].job = task[e].job => ~Active(x)
  BY DEF Claim, Locked
<1>3. \A x \in Execs : x # e => rows'[x] = rows[x] /\ pc'[x] = pc[x]
  BY <1>1
<1>4. /\ rows'[e].status = "pending" /\ rows'[e].error = "none" /\ rows'[e].created = now
      /\ pc'[e] = "claimed"
  BY <1>1
<1>5. OneActiveRow'
  BY <1>1, <1>2, <1>3 DEF IInv, OneActiveRow, Active
<1>6. \A x \in Execs : RowInStep(x)' /\ RowSane(x)'
  <2> SUFFICES ASSUME NEW x \in Execs PROVE RowInStep(x)' /\ RowSane(x)'
    OBVIOUS
  <2>1. RowInStep(x) /\ RowSane(x) /\ RowInStep(e)
    BY DEF IInv
  <2>2. CASE x # e
    BY <1>1, <1>3, <2>1, <2>2 DEF RowInStep, RowSane
  <2>3. CASE x = e
    BY <1>1, <1>4, <2>1, <2>3 DEF RowInStep, RowSane, Before
  <2> QED
    BY <2>2, <2>3
<1>7. OutcomeTruthful'
  <2>1. outcome[e] = "none" /\ rows[e] = NoRow
    BY <1>1 DEF IInv, RowInStep, Before
  <2>2. \A x \in Execs : CompletedFor(task[x]) => CompletedFor(task[x])'
    BY <1>1, <1>3, <2>1 DEF CompletedFor, NoRow
  <2> QED
    BY <1>1, <1>3, <2>1, <2>2 DEF IInv, OutcomeTruthful
<1> QED
  BY <1>5, <1>6, <1>7 DEF IInv

\* The initial state and every step keep the strengthening.
LEMMA Inductive == Spec => []IInv
<1> USE DEF ActiveStatuses, Active, NoRow, Before, Running, Guarded, Unguarded
<1>1. Init => IInv
  <2> SUFFICES ASSUME Init PROVE IInv
    OBVIOUS
  <2>1. TypeOK
    BY DEF Init, TypeOK, PCs, Outcomes, Row, Statuses, Errors
  <2> QED
    BY <2>1 DEF Init, IInv, OneActiveRow, RowInStep, RowSane, OutcomeTruthful
<1>2. TypeOK' /\ IInv /\ [Next]_vars => IInv'
  <2> SUFFICES ASSUME TypeOK', IInv, [Next]_vars PROVE IInv'
    OBVIOUS
  <2> USE DEF IInv, OneActiveRow, RowInStep, RowSane, OutcomeTruthful,
              CompletedFor, TypeOK, Row, Statuses
  <2>1. ASSUME NEW e \in Execs, Launch(e) PROVE IInv'
    BY <2>1 DEF Launch, Goto
  <2>2. ASSUME NEW e \in Execs, Sweep(e) PROVE IInv'
    BY <2>2, SweepPreserves
  <2>3. ASSUME NEW e \in Execs, CheckLock(e) PROVE IInv'
    BY <2>3 DEF CheckLock, Goto, End, history
  <2>4. ASSUME NEW e \in Execs, CheckCompleted(e) PROVE IInv'
    BY <2>4 DEF CheckCompleted, Goto, End, history
  <2>5. ASSUME NEW e \in Execs, Claim(e) PROVE IInv'
    BY <2>5, ClaimPreserves
  <2>6. ASSUME NEW e \in Execs, ClaimRefused(e) PROVE IInv'
    BY <2>6 DEF ClaimRefused, Goto, history
  <2>7. ASSUME NEW e \in Execs, Recheck(e) PROVE IInv'
    BY <2>7 DEF Recheck, End, history
  <2>8. ASSUME NEW e \in Execs, EnterTry(e) PROVE IInv'
    BY <2>8 DEF EnterTry, Goto, history
  <2>9. ASSUME NEW e \in Execs, MarkProcessing(e) PROVE IInv'
    BY <2>9 DEF MarkProcessing, Transition, Goto, history
  <2>10. ASSUME NEW e \in Execs, WorkReturns(e) PROVE IInv'
    BY <2>10 DEF WorkReturns, Goto, history
  <2>11. ASSUME NEW e \in Execs, MarkCompleted(e) PROVE IInv'
    BY <2>11 DEF MarkCompleted, Transition, Goto, history
  <2>12. ASSUME NEW e \in Execs, Return(e) PROVE IInv'
    BY <2>12 DEF Return, End, history
  <2>13. ASSUME NEW e \in Execs, MarkFailed(e) PROVE IInv'
    BY <2>13 DEF MarkFailed, Transition, End, history
  <2>14. ASSUME NEW e \in Execs, Fault(e) PROVE IInv'
    BY <2>14 DEF Fault, WorkRaises, DatabaseRaises, Terminate, Kill, Raise, Goto, End, history
  <2>15. CASE Tick
    <3> USE <2>15 DEF Tick, history
    <3>1. now' = now + 1 /\ now \in Nat
      OBVIOUS
    <3>2. \A x \in Execs : rows[x].created \in Nat
      OBVIOUS
    <3>3. \A x \in Execs : RowInStep(x)' /\ RowSane(x)'
      BY <3>1, <3>2
    <3>4. OneActiveRow' /\ OutcomeTruthful'
      OBVIOUS
    <3> QED
      BY <3>3, <3>4
  <2>16. CASE Over \/ UNCHANGED vars
    BY <2>16 DEF Over, vars
  <2> QED
    BY <2>1, <2>2, <2>3, <2>4, <2>5, <2>6, <2>7, <2>8, <2>9, <2>10, <2>11, <2>12,
       <2>13, <2>14, <2>15, <2>16 DEF Next, Step
<1>3. QED
  BY <1>1, <1>2, TypeInvariant, PTL DEF Spec

-----------------------------------------------------------------------------

\* Two executions of a job work at once only if a sweep took one's row: in
\* work() a row is processing or swept, and two processing rows of one job
\* would be two active rows.
THEOREM WorkIsExclusive == Spec => []WorkExclusive
<1>1. IInv => WorkExclusive
  <2> SUFFICES ASSUME IInv, NEW d \in Execs, NEW e \in Execs, d # e,
                      task[d].job = task[e].job, pc[d] = "work", pc[e] = "work",
                      rows[d].error # "abandoned", rows[e].error # "abandoned"
               PROVE  FALSE
    BY DEF WorkExclusive
  <2>1. rows[d].status = "processing" /\ rows[e].status = "processing"
    BY DEF IInv, RowInStep
  <2> QED
    BY <2>1 DEF IInv, OneActiveRow, Active, ActiveStatuses
<1>2. QED
  BY <1>1, Inductive, PTL

\* run_job returns nothing the table does not say.
THEOREM ReturnsAreTruthful == Spec => []OutcomeTruthful
<1>1. IInv => OutcomeTruthful
  BY DEF IInv
<1>2. QED
  BY <1>1, Inductive, PTL

-----------------------------------------------------------------------------

\* A step changes another execution's row only by sweeping it, and a finished
\* row not at all.
LEMMA FinalStep == TypeOK /\ IInv /\ [Next]_vars =>
    \A e \in Execs : rows[e].status \in {"completed", "failed"} => rows'[e] = rows[e]
<1> SUFFICES ASSUME TypeOK, IInv, [Next]_vars,
                    NEW x \in Execs, rows[x].status \in {"completed", "failed"}
             PROVE  rows'[x] = rows[x]
  OBVIOUS
<1>0. rows \in [Execs -> Row] /\ ~Active(x)
  BY DEF TypeOK, Active, ActiveStatuses
<1>1. ASSUME NEW e \in Execs, Sweep(e) PROVE rows'[x] = rows[x]
  BY <1>0, <1>1 DEF Sweep, Stale
<1>2. ASSUME NEW e \in Execs, Claim(e) PROVE rows'[x] = rows[x]
  <2>1. rows[e] = NoRow
    BY <1>2 DEF Claim, IInv, RowInStep, Before
  <2> QED
    BY <1>0, <1>2, <2>1 DEF Claim, NoRow
<1>3. ASSUME NEW e \in Execs, MarkProcessing(e) \/ MarkCompleted(e) \/ MarkFailed(e)
      PROVE  rows'[x] = rows[x]
  BY <1>0, <1>3 DEF MarkProcessing, MarkCompleted, MarkFailed, Transition, ActiveStatuses
<1>4. ASSUME NEW e \in Execs,
             \/ Launch(e) \/ CheckLock(e) \/ CheckCompleted(e) \/ ClaimRefused(e)
             \/ Recheck(e) \/ EnterTry(e) \/ WorkReturns(e) \/ Return(e) \/ Fault(e)
      PROVE  rows'[x] = rows[x]
  BY <1>4 DEF Launch, CheckLock, CheckCompleted, ClaimRefused, Recheck, EnterTry, WorkReturns,
              Return, Fault, WorkRaises, DatabaseRaises, Terminate, Kill
<1>5. CASE Tick \/ Over \/ UNCHANGED vars
  BY <1>5 DEF Tick, Over, vars
<1> QED
  BY <1>1, <1>2, <1>3, <1>4, <1>5 DEF Next, Step

\* A row that is completed or failed never changes again.
THEOREM FinalRowsStay == Spec => FinalIsFinal
<1>1. TypeOK /\ IInv /\ [Next]_vars =>
        [\A e \in Execs : rows[e].status \in {"completed", "failed"} => rows'[e] = rows[e]]_vars
  BY FinalStep
<1>2. QED
  BY <1>1, TypeInvariant, Inductive, PTL DEF Spec, FinalIsFinal

-----------------------------------------------------------------------------

\* What RerunsSkip needs of the steps in between: the completed row that a late
\* execution saw at launch is still there when it reaches the duplicate check.
Rerun(e) == doneAtLaunch[e] =>
              /\ CompletedFor(task[e])
              /\ pc[e] \in {"sweep", "lock", "duplicate", "ended"}
              /\ rows[e] = NoRow /\ e \notin worked

Reruns == \A e \in Execs : Rerun(e) /\ (pc[e] = "idle" => ~doneAtLaunch[e])

\* An execution launched after its job and date completed never works again.
THEOREM RerunsNeverWork == Spec => []RerunsSkip
<1>1. Init => Reruns
  BY DEF Init, Reruns, Rerun
<1>2. TypeOK /\ TypeOK' /\ IInv /\ Reruns /\ [Next]_vars => Reruns'
  <2> SUFFICES ASSUME TypeOK, TypeOK', IInv, Reruns, [Next]_vars PROVE Reruns'
    OBVIOUS
  <2>1. task' = task
    BY DEF Next, Step, Fault, Launch, Sweep, CheckLock, CheckCompleted, Claim, ClaimRefused,
           Recheck, EnterTry, MarkProcessing, WorkReturns, MarkCompleted, Return, MarkFailed,
           WorkRaises, DatabaseRaises, Terminate, Kill, Tick, Over, vars
  <2>2. \A x \in Execs : CompletedFor(task[x]) => CompletedFor(task[x])'
    BY <2>1, FinalStep DEF CompletedFor
  <2> USE DEF Reruns, Rerun, TypeOK
  <2>3. ASSUME NEW e \in Execs, Launch(e) PROVE Reruns'
    <3>1. rows[e] = NoRow /\ e \notin worked
      BY <2>3 DEF Launch, IInv, RowInStep, Before
    <3> QED
      BY <2>1, <2>2, <2>3, <3>1 DEF Launch, Goto
  <2>4. ASSUME NEW e \in Execs, Sweep(e) PROVE Reruns'
    <3>1. \A x \in Execs : rows[x] = NoRow => rows'[x] = NoRow
      <4>1. \A x \in Execs : rows[x] = NoRow => ~Stale(x)
        BY DEF Stale, Active, ActiveStatuses, NoRow
      <4> QED
        BY <2>4, <4>1 DEF Sweep
    <3> QED
      BY <2>1, <2>2, <2>4, <3>1 DEF Sweep, Goto
  <2>5. ASSUME NEW e \in Execs, CheckLock(e) \/ CheckCompleted(e) PROVE Reruns'
    BY <2>1, <2>2, <2>5 DEF CheckLock, CheckCompleted, Goto, End, history
  <2>6. ASSUME NEW e \in Execs, Claim(e) \/ ClaimRefused(e) \/ Recheck(e) PROVE Reruns'
    BY <2>1, <2>2, <2>6 DEF Claim, ClaimRefused, Recheck, Goto, End, history
  <2>7. ASSUME NEW e \in Execs, EnterTry(e) \/ WorkReturns(e) \/ Return(e) PROVE Reruns'
    BY <2>1, <2>2, <2>7 DEF EnterTry, WorkReturns, Return, Goto, End, history
  <2>8. ASSUME NEW e \in Execs, MarkProcessing(e) \/ MarkCompleted(e) \/ MarkFailed(e)
        PROVE Reruns'
    BY <2>1, <2>2, <2>8 DEF MarkProcessing, MarkCompleted, MarkFailed, Transition, Goto, End,
                            history
  <2>9. ASSUME NEW e \in Execs, Fault(e) PROVE Reruns'
    BY <2>1, <2>2, <2>9 DEF Fault, WorkRaises, DatabaseRaises, Terminate, Kill, Raise, Goto, End,
                            history, Guarded, Unguarded, Running
  <2>10. CASE Tick \/ Over \/ UNCHANGED vars
    BY <2>1, <2>2, <2>10 DEF Tick, Over, vars, history
  <2> QED
    BY <2>3, <2>4, <2>5, <2>6, <2>7, <2>8, <2>9, <2>10 DEF Next, Step
<1>3. Reruns => RerunsSkip
  BY DEF Reruns, Rerun, RerunsSkip
<1>4. QED
  BY <1>1, <1>2, <1>3, TypeInvariant, Inductive, PTL DEF Spec

-----------------------------------------------------------------------------

\* The premise of STALE_AFTER: no live execution holds its row longer than the
\* longest run, and no run is longer than STALE_AFTER.
WithinRun(e) == pc[e] \in Running =>
                  /\ rows[e].error # "abandoned"
                  /\ Active(e) => now <= rows[e].created + MaxRun

\* If no run outlives STALE_AFTER, no live execution is ever swept and work() is
\* exclusive without exception: job_runs is a lock.
THEOREM ShortRunsExclude ==
    ASSUME MaxRun <= StaleAfter
    PROVE  Spec => [](\A d, e \in Execs :
                        d # e /\ task[d].job = task[e].job => ~(pc[d] = "work" /\ pc[e] = "work"))
<1> DEFINE Short == \A e \in Execs : WithinRun(e)
           Exclusive == \A d, e \in Execs : d # e /\ task[d].job = task[e].job
                                            => ~(pc[d] = "work" /\ pc[e] = "work")
<1>1. Init => Short
  BY DEF Init, WithinRun, NoRow, Active, ActiveStatuses, Running, Guarded, Unguarded
<1>2. TypeOK /\ IInv /\ Short /\ [Next]_vars => Short'
  <2> SUFFICES ASSUME TypeOK, IInv, Short, [Next]_vars, NEW x \in Execs PROVE WithinRun(x)'
    OBVIOUS
  <2>0. /\ WithinRun(x) /\ RowInStep(x) /\ RowSane(x)
        /\ rows[x] \in Row /\ now \in Nat /\ pc \in [Execs -> PCs] /\ rows \in [Execs -> Row]
    BY DEF IInv, TypeOK
  <2>1. ASSUME NEW e \in Execs, Sweep(e) PROVE WithinRun(x)'
    <3>1. pc[x] \in Running => ~Stale(x)
      BY <2>0, TimesAssumption DEF WithinRun, Stale, Row
    <3>2. pc'[x] \in Running => pc[x] \in Running
      BY <2>0, <2>1 DEF Sweep, Goto, Running, Unguarded
    <3>3. now' = now /\ (pc[x] \in Running => rows'[x] = rows[x])
      BY <2>1, <3>1 DEF Sweep
    <3> QED
      BY <2>0, <3>2, <3>3 DEF WithinRun, Active
  <2>2. ASSUME NEW e \in Execs, Claim(e) PROVE WithinRun(x)'
    BY <2>0, <2>2, TimesAssumption DEF Claim, Goto, WithinRun, Active, Running, Unguarded
  <2>3. ASSUME NEW e \in Execs, MarkProcessing(e) \/ MarkCompleted(e) \/ MarkFailed(e)
        PROVE  WithinRun(x)'
    <3>1. now' = now /\ (pc'[x] \in Running => pc[x] \in Running)
      BY <2>0, <2>3 DEF MarkProcessing, MarkCompleted, MarkFailed, Goto, End, Running, Unguarded,
                        Guarded
    <3>2. PICK from \in {{"pending"}, {"processing"}, ActiveStatuses},
               status \in {"processing", "completed", "failed"}, error \in {"none", "raised"} :
            Transition(e, from, status, error)
      BY <2>3 DEF MarkProcessing, MarkCompleted, MarkFailed
    <3>3. \/ rows'[x] = rows[x]
          \/ /\ Active(x) /\ rows'[x].error # "abandoned"
             /\ rows'[x].created = rows[x].created
      BY <2>0, <3>2 DEF Transition, Active, ActiveStatuses, Row
    <3> QED
      BY <2>0, <3>1, <3>3 DEF WithinRun, Active
  <2>4. ASSUME NEW e \in Execs, Launch(e) PROVE WithinRun(x)'
    BY <2>0, <2>4 DEF Launch, Goto, WithinRun, Active, ActiveStatuses, RowInStep, Before, NoRow
  <2>5. ASSUME NEW e \in Execs,
               \/ CheckLock(e) \/ CheckCompleted(e) \/ ClaimRefused(e)
               \/ Recheck(e) \/ EnterTry(e) \/ WorkReturns(e) \/ Return(e)
        PROVE  WithinRun(x)'
    BY <2>0, <2>5 DEF CheckLock, CheckCompleted, ClaimRefused, Recheck, EnterTry, WorkReturns,
                      Return, Goto, End, WithinRun, Active, Running, Unguarded, Guarded
  <2>6. ASSUME NEW e \in Execs, Fault(e) PROVE WithinRun(x)'
    BY <2>0, <2>6 DEF Fault, WorkRaises, DatabaseRaises, Terminate, Kill, Raise, Goto, End,
                      WithinRun, Active, Running, Unguarded, Guarded
  <2>7. CASE Tick
    BY <2>0, <2>7, TimesAssumption DEF Tick, WithinRun, Active, Row
  <2>8. CASE Over \/ UNCHANGED vars
    BY <2>0, <2>8 DEF Over, vars, WithinRun, Active
  <2> QED
    BY <2>1, <2>2, <2>3, <2>4, <2>5, <2>6, <2>7, <2>8 DEF Next, Step
<1>3. IInv /\ Short => Exclusive
  <2> SUFFICES ASSUME IInv, Short, NEW d \in Execs, NEW e \in Execs, d # e,
                      task[d].job = task[e].job, pc[d] = "work", pc[e] = "work"
               PROVE  FALSE
    OBVIOUS
  <2>1. rows[d].status = "processing" /\ rows[e].status = "processing"
    BY DEF IInv, RowInStep, WithinRun, Running, Guarded
  <2> QED
    BY <2>1 DEF IInv, OneActiveRow, Active, ActiveStatuses
<1>4. QED
  <2> HIDE DEF Short, Exclusive
  <2>1. Spec => []Exclusive
    BY <1>1, <1>2, <1>3, TypeInvariant, Inductive, PTL DEF Spec
  <2> QED
    BY <2>1 DEF Exclusive

-----------------------------------------------------------------------------

\* An execution that ended leaves its row active only if it was killed, was
\* terminated outside the guarded lines, or lost the database.
THEOREM FailuresAreOnRecord == Spec => []OnlyLostRunsStayActive
<1>1. Init => OnlyLostRunsStayActive
  BY DEF Init, OnlyLostRunsStayActive
<1>2. TypeOK /\ IInv /\ OnlyLostRunsStayActive /\ [Next]_vars => OnlyLostRunsStayActive'
  <2> SUFFICES ASSUME TypeOK, IInv, OnlyLostRunsStayActive, [Next]_vars,
                      NEW x \in Execs, pc'[x] = "ended", Active(x)'
               PROVE  outcome'[x] \in {"killed", "terminated", "unrecorded"}
    BY DEF OnlyLostRunsStayActive
  <2>0. /\ RowInStep(x) /\ rows \in [Execs -> Row] /\ pc \in [Execs -> PCs]
        /\ outcome \in [Execs -> Outcomes]
        /\ pc[x] = "ended" /\ Active(x) => outcome[x] \in {"killed", "terminated", "unrecorded"}
    BY DEF IInv, TypeOK, OnlyLostRunsStayActive
  <2>1. ASSUME NEW e \in Execs, Sweep(e) PROVE outcome'[x] \in {"killed", "terminated", "unrecorded"}
    <3>1. Active(x)
      BY <2>0, <2>1 DEF Sweep, Active, ActiveStatuses, Row
    <3> QED
      BY <2>0, <2>1, <3>1 DEF Sweep, Goto
  <2>2. ASSUME NEW e \in Execs, Claim(e) PROVE outcome'[x] \in {"killed", "terminated", "unrecorded"}
    BY <2>0, <2>2 DEF Claim, Goto, Active
  <2>3. ASSUME NEW e \in Execs, MarkProcessing(e) \/ MarkCompleted(e)
        PROVE  outcome'[x] \in {"killed", "terminated", "unrecorded"}
    BY <2>0, <2>3 DEF MarkProcessing, MarkCompleted, Transition, Goto, Active, ActiveStatuses, Row
  <2>4. ASSUME NEW e \in Execs, MarkFailed(e)
        PROVE  outcome'[x] \in {"killed", "terminated", "unrecorded"}
    <3>1. x # e
      BY <2>0, <2>4 DEF MarkFailed, Transition, Active, ActiveStatuses, Row
    <3> QED
      BY <2>0, <2>4, <3>1 DEF MarkFailed, Transition, End, Active
  <2>5. ASSUME NEW e \in Execs,
               \/ Launch(e) \/ CheckLock(e) \/ CheckCompleted(e) \/ ClaimRefused(e) \/ Recheck(e)
               \/ EnterTry(e) \/ WorkReturns(e) \/ Return(e)
        PROVE  outcome'[x] \in {"killed", "terminated", "unrecorded"}
    <3>1. rows' = rows /\ Active(x)
      BY <2>5 DEF Launch, CheckLock, CheckCompleted, ClaimRefused, Recheck, EnterTry, WorkReturns,
                  Return, Active
    <3>2. pc[x] \notin Before \cup {"recorded"}
      BY <2>0, <3>1 DEF RowInStep, Active, ActiveStatuses, NoRow
    <3> QED
      BY <2>0, <2>5, <3>1, <3>2 DEF Launch, CheckLock, CheckCompleted, ClaimRefused, Recheck,
                  EnterTry, WorkReturns, Return, Goto, End, Before
  <2>6. ASSUME NEW e \in Execs, Fault(e) PROVE outcome'[x] \in {"killed", "terminated", "unrecorded"}
    <3>1. Active(x)
      BY <2>6 DEF Fault, WorkRaises, DatabaseRaises, Terminate, Kill, Active
    <3> QED
      BY <2>0, <2>6, <3>1 DEF Fault, WorkRaises, DatabaseRaises, Terminate, Kill, Raise, Goto, End,
                  Guarded
  <2>7. CASE Tick \/ Over \/ UNCHANGED vars
    BY <2>0, <2>7 DEF Tick, Over, vars, Active
  <2> QED
    BY <2>1, <2>2, <2>3, <2>4, <2>5, <2>6, <2>7 DEF Next, Step
<1>3. QED
  BY <1>1, <1>2, TypeInvariant, Inductive, PTL DEF Spec

-----------------------------------------------------------------------------

\* A row is made active by its own claim only, with the time of the claim.
LEMMA ActiveStep == TypeOK /\ IInv /\ [Next]_vars =>
    \A x \in Execs : Active(x)' => \/ Active(x) /\ rows'[x].created = rows[x].created
                                  \/ rows'[x].created = now
<1> SUFFICES ASSUME TypeOK, IInv, [Next]_vars, NEW x \in Execs, Active(x)'
             PROVE  \/ Active(x) /\ rows'[x].created = rows[x].created
                    \/ rows'[x].created = now
  OBVIOUS
<1>0. rows \in [Execs -> Row]
  BY DEF TypeOK
<1>1. ASSUME NEW e \in Execs, Sweep(e) PROVE Active(x) /\ rows'[x].created = rows[x].created
  BY <1>0, <1>1 DEF Sweep, Active, ActiveStatuses, Row
<1>2. ASSUME NEW e \in Execs, Claim(e)
      PROVE  rows'[x].created = now \/ (Active(x) /\ rows'[x].created = rows[x].created)
  BY <1>0, <1>2 DEF Claim, Active
<1>3. ASSUME NEW e \in Execs, MarkProcessing(e) \/ MarkCompleted(e) \/ MarkFailed(e)
      PROVE  Active(x) /\ rows'[x].created = rows[x].created
  <2>1. PICK from \in {{"pending"}, {"processing"}, ActiveStatuses},
             status \in {"processing", "completed", "failed"}, error \in {"none", "raised"} :
          Transition(e, from, status, error)
    BY <1>3 DEF MarkProcessing, MarkCompleted, MarkFailed
  <2>2. rows'[x] = rows[x] \/ (rows[x].status \in from /\ rows'[x].created = rows[x].created)
    BY <1>0, <2>1 DEF Transition, Row
  <2> QED
    BY <2>1, <2>2 DEF Active, ActiveStatuses
<1>4. ASSUME NEW e \in Execs,
             \/ Launch(e) \/ CheckLock(e) \/ CheckCompleted(e) \/ ClaimRefused(e)
             \/ Recheck(e) \/ EnterTry(e) \/ WorkReturns(e) \/ Return(e) \/ Fault(e)
      PROVE  Active(x) /\ rows'[x].created = rows[x].created
  BY <1>4 DEF Launch, CheckLock, CheckCompleted, ClaimRefused, Recheck, EnterTry, WorkReturns,
              Return, Fault, WorkRaises, DatabaseRaises, Terminate, Kill, Active
<1>5. CASE Tick \/ Over \/ UNCHANGED vars
  BY <1>5 DEF Tick, Over, vars, Active
<1> QED
  BY <1>1, <1>2, <1>3, <1>4, <1>5 DEF Next, Step

\* What e's sweep leaves to the lines after it: every active row of its job was
\* fresh at the sweep, or is younger than the sweep.
SweptClean(e) ==
    pc[e] \in {"lock", "duplicate", "claim", "recheck"} =>
        /\ sweptAt[e] <= now
        /\ \A x \in Execs : task[x].job = task[e].job /\ Active(x)
                            => rows[x].created + StaleAfter >= sweptAt[e]

LEMMA NextSweptClean == TypeOK /\ IInv /\ (\A e \in Execs : SweptClean(e)) /\ [Next]_vars
                        => \A e \in Execs : SweptClean(e)'
<1> SUFFICES ASSUME TypeOK, IInv, \A e \in Execs : SweptClean(e), [Next]_vars,
                    NEW d \in Execs, pc'[d] \in {"lock", "duplicate", "claim", "recheck"}
             PROVE  SweptClean(d)'
  BY DEF SweptClean
<1>0. /\ now \in Nat /\ sweptAt \in [Execs -> Nat] /\ rows \in [Execs -> Row] /\ pc \in [Execs -> PCs]
      /\ StaleAfter \in Nat
      /\ \A x \in Execs : rows[x].created \in Nat
  BY TimesAssumption DEF TypeOK, Row
<1>1. task' = task /\ now' \in Nat /\ now' >= now
  <2>1. task' = task /\ now' \in {now, now + 1}
    BY DEF Next, Step, Fault, Launch, Sweep, CheckLock, CheckCompleted, Claim, ClaimRefused,
           Recheck, EnterTry, MarkProcessing, WorkReturns, MarkCompleted, Return, MarkFailed,
           WorkRaises, DatabaseRaises, Terminate, Kill, Tick, Over, vars
  <2> QED
    BY <1>0, <2>1
<1>2. CASE Sweep(d)
  <2>1. now' = now /\ sweptAt'[d] = now
    BY <1>0, <1>2 DEF Sweep
  <2>2. ASSUME NEW x \in Execs, task[x].job = task[d].job, Active(x)'
        PROVE  rows'[x].created + StaleAfter >= now
    <3>1. ~Stale(x) /\ rows'[x] = rows[x]
      BY <1>0, <1>2, <2>2 DEF Sweep, Active, ActiveStatuses, Row
    <3>2. ~(rows[x].created + StaleAfter < now)
      BY <2>2, <3>1 DEF Stale, Active
    <3> QED
      BY <1>0, <3>1, <3>2
  <2> QED
    BY <1>0, <1>1, <2>1, <2>2 DEF SweptClean
<1>3. CASE ~Sweep(d)
  <2>1. pc[d] \in {"lock", "duplicate", "claim", "recheck"} /\ sweptAt'[d] = sweptAt[d]
    <3>1. ASSUME NEW e \in Execs, Sweep(e)
          PROVE  pc'[d] = pc[d] /\ sweptAt'[d] = sweptAt[d]
      BY <1>0, <1>3, <3>1 DEF Sweep, Goto
    <3>2. ASSUME NEW e \in Execs, CheckLock(e) \/ CheckCompleted(e) \/ ClaimRefused(e)
          PROVE  pc[d] \in {"lock", "duplicate", "claim", "recheck"} /\ sweptAt'[d] = sweptAt[d]
      BY <1>0, <3>2 DEF CheckLock, CheckCompleted, ClaimRefused, Goto, End, history
    <3>3. ASSUME NEW e \in Execs,
                 \/ Launch(e) \/ Claim(e) \/ Recheck(e) \/ EnterTry(e) \/ MarkProcessing(e)
                 \/ WorkReturns(e) \/ MarkCompleted(e) \/ Return(e) \/ MarkFailed(e)
          PROVE  pc'[d] = pc[d] /\ sweptAt'[d] = sweptAt[d]
      BY <1>0, <3>3 DEF Launch, Claim, Recheck, EnterTry, MarkProcessing, WorkReturns, MarkCompleted,
                        Return, MarkFailed, Goto, End, history
    <3>4. ASSUME NEW e \in Execs, Fault(e) PROVE pc'[d] = pc[d] /\ sweptAt'[d] = sweptAt[d]
      BY <1>0, <3>4 DEF Fault, WorkRaises, DatabaseRaises, Terminate, Kill, Raise, Goto, End, history
    <3>5. CASE Tick \/ Over \/ UNCHANGED vars
      BY <3>5 DEF Tick, Over, vars, history
    <3> QED
      BY <3>1, <3>2, <3>3, <3>4, <3>5 DEF Next, Step
  <2>2. /\ sweptAt[d] <= now
        /\ \A x \in Execs : task[x].job = task[d].job /\ Active(x)
                            => rows[x].created + StaleAfter >= sweptAt[d]
    BY <2>1 DEF SweptClean
  <2>3. sweptAt'[d] <= now'
    BY <1>0, <1>1, <2>1, <2>2
  <2>4. ASSUME NEW x \in Execs, task[x].job = task[d].job, Active(x)'
        PROVE  rows'[x].created + StaleAfter >= sweptAt[d]
    <3>1. CASE Active(x) /\ rows'[x].created = rows[x].created
      BY <2>2, <2>4, <3>1
    <3>2. CASE rows'[x].created = now
      BY <1>0, <2>2, <3>2
    <3> QED
      BY <2>4, <3>1, <3>2, ActiveStep
  <2> QED
    BY <1>1, <2>1, <2>3, <2>4 DEF SweptClean
<1> QED
  BY <1>2, <1>3

\* No dead execution locks its job for good: an execution is turned away only by
\* a row that its own sweep found fresh, or that was claimed after the sweep.
THEOREM TurnedAwayByTheFresh == Spec => LockIsTemporary
<1> DEFINE Clean == \A e \in Execs : SweptClean(e)
<1>1. Init => Clean
  BY DEF Init, SweptClean
<1>2. TypeOK /\ IInv /\ Clean /\ [Next]_vars => Clean'
  BY NextSweptClean
<1>3. TypeOK /\ IInv /\ Clean /\ [Next]_vars =>
        [\A e \in Execs :
           pc[e] # "ended" /\ outcome'[e] = "aborted_locked"
           => \E x \in Execs : /\ task[x].job = task[e].job
                               /\ Active(x)
                               /\ rows[x].created + StaleAfter >= sweptAt[e]]_vars
  <2> SUFFICES ASSUME TypeOK, IInv, Clean, Next, NEW d \in Execs,
                      pc[d] # "ended", outcome'[d] = "aborted_locked"
               PROVE  \E x \in Execs : /\ task[x].job = task[d].job
                                       /\ Active(x)
                                       /\ rows[x].created + StaleAfter >= sweptAt[d]
    OBVIOUS
  <2>0. outcome[d] = "none" /\ outcome \in [Execs -> Outcomes] /\ pc \in [Execs -> PCs]
    BY DEF IInv, RowInStep, TypeOK
  <2>1. pc[d] \in {"lock", "recheck"} /\ Locked(task[d].job)
    <3>1. ASSUME NEW e \in Execs, CheckLock(e) \/ CheckCompleted(e) \/ Recheck(e)
          PROVE  pc[d] \in {"lock", "recheck"} /\ Locked(task[d].job)
      BY <2>0, <3>1 DEF CheckLock, CheckCompleted, Recheck, Goto, End
    <3>2. ASSUME NEW e \in Execs,
                 \/ Launch(e) \/ Sweep(e) \/ Claim(e) \/ ClaimRefused(e) \/ EnterTry(e)
                 \/ MarkProcessing(e) \/ WorkReturns(e) \/ MarkCompleted(e)
          PROVE  FALSE
      BY <2>0, <3>2 DEF Launch, Sweep, Claim, ClaimRefused, EnterTry, MarkProcessing, WorkReturns,
                        MarkCompleted, Goto
    <3>3. ASSUME NEW e \in Execs, Return(e) \/ MarkFailed(e) \/ Fault(e) PROVE FALSE
      BY <2>0, <3>3 DEF Return, MarkFailed, Fault, WorkRaises, DatabaseRaises, Terminate, Kill, Raise,
                        Goto, End
    <3>4. CASE Tick \/ Over
      BY <2>0, <3>4 DEF Tick, Over, vars
    <3> QED
      BY <3>1, <3>2, <3>3, <3>4 DEF Next, Step
  <2>2. SweptClean(d)
    OBVIOUS
  <2> QED
    BY <2>1, <2>2 DEF Locked, SweptClean
<1>4. QED
  <2> HIDE DEF Clean
  <2> QED
    BY <1>1, <1>2, <1>3, TypeInvariant, Inductive, PTL DEF Spec, LockIsTemporary
=============================================================================
