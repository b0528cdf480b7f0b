---------------------------- MODULE PipelineRuns ----------------------------
(***************************************************************************)
(* Runs of the weekly pipeline (data/pipelines): the flow with its retries *)
(* and hooks, the run log reporting.pipeline_runs (run_log.py) and the     *)
(* load transaction (load.py).  A flow run has at most one row, so rows    *)
(* are indexed by flow run.  Extraction and the KPI computation only read; *)
(* what they read for a week is determined by the row's arrival cutoff, so *)
(* the report holds, per week, the cutoff its figures were read at.        *)
(*                                                                         *)
(* open_run and the load each hold an advisory lock for their whole        *)
(* transaction, so each is one step.                                       *)
(***************************************************************************)
EXTENDS Integers, FiniteSets

CONSTANTS Runs,          \* Prefect flow runs
          WeekLength,    \* week w is the time [(w - 1) * WeekLength, w * WeekLength)
          Lookback,      \* DEFAULT_LOOKBACK_WEEKS
          Attempts,      \* attempts of a flow run: the first and its retries
          AbandonAfter,  \* ABANDON_AFTER
          MaxLife,       \* the longest a flow run lives, by its timeouts and delays
          Asked,         \* the week_start arguments tried; 0 stands for none
          Start, MaxClock \* bound: the clock runs from Start to MaxClock

ASSUME TimesAssumption ==
    /\ WeekLength \in Nat \ {0} /\ Lookback \in Nat \ {0} /\ Attempts \in Nat \ {0}
    /\ AbandonAfter \in Nat /\ MaxLife \in Nat
    /\ Start \in Nat \ {0} /\ MaxClock \in Nat /\ Start <= MaxClock
    /\ Asked \subseteq Nat

VARIABLES now,       \* the clock
          ask,       \* ask[r]: the week_start r is run for, 0 for the last Lookback weeks
          pc,        \* pc[r]: where the flow is; its final places are Prefect's states
          attempt,   \* attempt[r]: which attempt this is
          launched,  \* launched[r]: when the first attempt began
          retried,   \* failed runs an operator retried (at most once each: a bound)
          weeks,     \* weeks[r]: the weeks this attempt computed from the clock
          row,       \* row[r]: the row of reporting.pipeline_runs
          report,    \* report[w]: the cutoff week w's published figures were read at
          published, \* history, published[r]: the weeks r's load wrote
          fallback   \* runs recorded in run_log_fallback.jsonl

flow == <<ask, attempt, launched, retried, weeks>>
vars == <<now, ask, pc, attempt, launched, retried, weeks, row, report, published, fallback>>

Weeks == 1 .. MaxClock \div WeekLength

RowStatuses == {"none", "running", "completed", "skipped", "failed"}
Row == [status : RowStatuses, started : Nat, cutoff : Nat, weeks : SUBSET Weeks]
NoRow == [status |-> "none", started |-> 0, cutoff |-> 0, weeks |-> {}]

Working == {"opening", "loading", "giving_way", "loaded", "waiting"}
\* The flow run is final for Prefect before its hooks have run.
Final == {"hook", "completed", "cancelled", "failed"}
\* A process that died unnoticed: Prefect shows it running forever.
PCs == Working \cup Final \cup {"idle", "dead"}

-----------------------------------------------------------------------------
(* Weeks *)

LastClosedWeek(t) == t \div WeekLength

\* closed_weeks: the asked week, or the last Lookback closed ones.
ClosedWeeks(t, asked) ==
    IF asked = 0
    THEN {w \in Weeks : w <= LastClosedWeek(t) /\ LastClosedWeek(t) < w + Lookback}
    ELSE {asked}

Init == /\ now = Start
        /\ ask = [r \in Runs |-> 0]
        /\ pc = [r \in Runs |-> "idle"]
        /\ attempt = [r \in Runs |-> 0]
        /\ launched = [r \in Runs |-> 0]
        /\ retried = {}
        /\ weeks = [r \in Runs |-> {}]
        /\ row = [r \in Runs |-> NoRow]
        /\ report = [w \in Weeks |-> 0]
        /\ published = [r \in Runs |-> {}]
        /\ fallback = {}

-----------------------------------------------------------------------------
(* The flow *)

Goto(r, label) == pc' = [pc EXCEPT ![r] = label]

\* An attempt that raises: Prefect retries the flow, or calls its hooks.
AttemptFailed(r) == Goto(r, IF attempt[r] < Attempts THEN "waiting" ELSE "hook")

\* The beginning of an attempt: the weeks are computed from the clock, or
\* refused (InvalidWeek) because the asked one has not closed.
Begin(r, asked) ==
    IF asked > LastClosedWeek(now)
    THEN Goto(r, IF attempt'[r] < Attempts THEN "waiting" ELSE "hook") /\ UNCHANGED weeks
    ELSE /\ Goto(r, "opening")
         /\ weeks' = [weeks EXCEPT ![r] = ClosedWeeks(now, asked)]

Launch(r) == /\ pc[r] = "idle"
             /\ \E asked \in Asked :
                  /\ ask' = [ask EXCEPT ![r] = asked]
                  /\ attempt' = [attempt EXCEPT ![r] = 1]
                  /\ Begin(r, asked)
             /\ launched' = [launched EXCEPT ![r] = now]
             /\ UNCHANGED <<now, retried, row, report, published, fallback>>

Retry(r) == /\ pc[r] = "waiting"
            /\ attempt' = [attempt EXCEPT ![r] = @ + 1]
            /\ Begin(r, ask[r])
            /\ UNCHANGED <<now, ask, launched, retried, row, report, published, fallback>>

\* An operator retries a failed flow run in Prefect: same flow run, same row.
ManualRetry(r) == /\ pc[r] = "failed"
                  /\ r \notin retried
                  /\ retried' = retried \cup {r}
                  /\ attempt' = [attempt EXCEPT ![r] = @ + 1]
                  /\ launched' = [launched EXCEPT ![r] = now]
                  /\ Begin(r, ask[r])
                  /\ UNCHANGED <<now, ask, row, report, published, fallback>>

-----------------------------------------------------------------------------
(* The run log *)

\* Mutant: a flow waiting for its retry counts as final.
AbandonedWaiting(r, prefectAnswers) ==
    {x \in Runs \ {r} : /\ row[x].status = "running"
                        /\ \/ now - row[x].started >= AbandonAfter
                           \/ prefectAnswers /\ pc[x] \in Final \cup {"waiting"}}

\* Mutant: age alone condemns no row.
AbandonedByPrefect(r, prefectAnswers) ==
    {x \in Runs \ {r} : row[x].status = "running" /\ prefectAnswers /\ pc[x] \in Final}

\* _sweep_abandoned: of the other running rows, the ones that are too old and,
\* when Prefect answers, the ones whose flow run it calls final.
Abandoned(r, prefectAnswers) ==
    {x \in Runs \ {r} : /\ row[x].status = "running"
                        /\ \/ now - row[x].started >= AbandonAfter
                           \/ prefectAnswers /\ pc[x] \in Final}

SweptRows(r, prefectAnswers) ==
    [x \in Runs |-> IF x \in Abandoned(r, prefectAnswers)
                    THEN [row[x] EXCEPT !.status = "failed"] ELSE row[x]]

\* The slot's holder, after the sweep.
Held(r, swept) == \E x \in Runs \ {r} : swept[x].status = "running"

\* Mutant: a failed row is reopened whether or not the slot is free.
OwnRowReopened(r, swept) ==
    CASE row[r].status = "none" ->
           [status |-> IF Held(r, swept) THEN "skipped" ELSE "running",
            started |-> now, cutoff |-> now, weeks |-> weeks[r]]
      [] row[r].status = "failed" -> [row[r] EXCEPT !.status = "running"]
      [] OTHER -> row[r]

\* What open_run does to r's own row.
OwnRow(r, swept) ==
    CASE row[r].status = "none" ->
           [status |-> IF Held(r, swept) THEN "skipped" ELSE "running",
            started |-> now, cutoff |-> now, weeks |-> weeks[r]]
      [] row[r].status = "failed" /\ ~Held(r, swept) -> [row[r] EXCEPT !.status = "running"]
      [] OTHER -> row[r]

\* Mutant: the window is not compared with the row's cutoff.
NeverEarly(r, cutoff) == FALSE

\* The window this attempt would read ends after the row's snapshot.
TooEarly(r, cutoff) == \E w \in weeks[r] : w * WeekLength > cutoff

\* open_run, and what the flow makes of the handle.  A failed row that is not
\* reopened is reported as skipped; a week the cutoff precedes is refused.
OpenRun(r) ==
    /\ pc[r] = "opening"
    /\ \E prefectAnswers \in BOOLEAN :
         LET swept == SweptRows(r, prefectAnswers)
             own == OwnRow(r, swept)
         IN  /\ row' = [swept EXCEPT ![r] = own]
             /\ \/ own.status \in {"skipped", "failed"} /\ Goto(r, "cancelled")
                \/ own.status = "completed" /\ Goto(r, "completed")
                \/ /\ own.status = "running"
                   /\ IF TooEarly(r, own.cutoff)
                      THEN AttemptFailed(r)
                      ELSE Goto(r, "loading")
    /\ UNCHANGED <<now, flow, report, published, fallback>>

-----------------------------------------------------------------------------
(* The load *)

\* Mutant: only a run of exactly the same weeks makes a snapshot stale.
StaleSameWeeks(r) == \E x \in Runs \ {r} : /\ row[x].status = "completed"
                                           /\ row[x].cutoff > row[r].cutoff
                                           /\ row[x].weeks = weeks[r]

\* _newer_completed_run, by the weeks of the other runs' rows.
StaleSnapshot(r) == \E x \in Runs \ {r} : /\ row[x].status = "completed"
                                          /\ row[x].cutoff > row[r].cutoff
                                          /\ row[x].weeks \cap weeks[r] # {}

\* The committed load: every week of the attempt replaced by what was read
\* (changed rows upserted, keys that are gone deleted) and the run completed.
Publish(r) ==
    /\ pc[r] = "loading"
    /\ ~StaleSnapshot(r)
    /\ row[r].status = "running"
    /\ report' = [w \in Weeks |-> IF w \in weeks[r] THEN row[r].cutoff ELSE report[w]]
    /\ row' = [row EXCEPT ![r].status = "completed"]
    /\ published' = [published EXCEPT ![r] = weeks[r]]
    /\ UNCHANGED <<now, flow, fallback>>

Load(r) == Publish(r) /\ Goto(r, "loaded")

\* The commit's answer is lost: the task runs the load again.
LoadUnacknowledged(r) == Publish(r) /\ UNCHANGED pc

\* complete_run finds the row no longer running: everything is rolled back.
LoadRefused(r) == /\ pc[r] = "loading"
                  /\ ~StaleSnapshot(r)
                  /\ row[r].status # "running"
                  /\ AttemptFailed(r)
                  /\ UNCHANGED <<now, flow, row, report, published, fallback>>

\* StaleSnapshot rolls the load back; skip_run is a transaction of its own.
LoadStale(r) == /\ pc[r] = "loading"
                /\ StaleSnapshot(r)
                /\ Goto(r, "giving_way")
                /\ UNCHANGED <<now, flow, row, report, published, fallback>>

SkipRun(r) == /\ pc[r] = "giving_way"
              /\ row' = [row EXCEPT ![r].status = IF @ = "running" THEN "skipped" ELSE @]
              /\ Goto(r, "cancelled")
              /\ UNCHANGED <<now, flow, report, published, fallback>>

Return(r) == /\ pc[r] = "loaded"
             /\ Goto(r, "completed")
             /\ UNCHANGED <<now, flow, row, report, published, fallback>>

-----------------------------------------------------------------------------
(* Unsuccessful ends *)

\* Mutant: a run that failed before its row existed is not recorded.
HookWithoutFallback(r) ==
    /\ pc[r] = "hook"
    /\ Goto(r, "failed")
    /\ row' = [row EXCEPT ![r].status = IF @ = "running" THEN "failed" ELSE @]
    /\ UNCHANGED <<now, flow, report, published, fallback>>

\* _record_unsuccessful_end: fail_run, or a line in the fallback file when
\* there is no row or the database cannot be reached.
Hook(r) == /\ pc[r] = "hook"
           /\ Goto(r, "failed")
           /\ \/ /\ row[r].status # "none"
                 /\ row' = [row EXCEPT ![r].status = IF @ = "running" THEN "failed" ELSE @]
                 /\ UNCHANGED fallback
              \/ fallback' = fallback \cup {r} /\ UNCHANGED row
           /\ UNCHANGED <<now, flow, report, published>>

\* A lost connection, a timeout, a refused rollup.
Fails(r) == /\ pc[r] \in {"opening", "loading", "giving_way", "loaded"}
            /\ AttemptFailed(r)
            /\ UNCHANGED <<now, flow, row, report, published, fallback>>

\* Prefect sees the process stop (SIGTERM, a cancellation): the hooks run.
Crash(r) == /\ pc[r] \in Working
            /\ Goto(r, "hook")
            /\ UNCHANGED <<now, flow, row, report, published, fallback>>

\* The process is gone before any hook.
Die(r) == /\ pc[r] \in Working \cup {"hook"}
          /\ Goto(r, "dead")
          /\ UNCHANGED <<now, flow, row, report, published, fallback>>

\* Time passes; a flow run that is alive is within its own timeouts.
Tick == /\ now < MaxClock
        /\ \A r \in Runs : pc[r] \in Working \cup {"hook"} => now < launched[r] + MaxLife
        /\ now' = now + 1
        /\ UNCHANGED <<flow, pc, row, report, published, fallback>>

\* Every run is over and the clock is at its bound.
Over == /\ \A r \in Runs : pc[r] \in {"completed", "cancelled", "failed", "dead"}
        /\ now = MaxClock
        /\ UNCHANGED vars

Step(r) == \/ Launch(r) \/ ManualRetry(r) \/ Retry(r) \/ OpenRun(r) \/ Load(r) \/ LoadRefused(r) \/ LoadStale(r)
           \/ SkipRun(r) \/ Return(r) \/ Hook(r)

Fault(r) == LoadUnacknowledged(r) \/ Fails(r) \/ Crash(r) \/ Die(r)

Next == \/ \E r \in Runs : Step(r) \/ Fault(r)
        \/ Tick
        \/ Over

Spec == Init /\ [][Next]_vars

-----------------------------------------------------------------------------
(* Properties *)

TypeOK == /\ now \in Nat
          /\ ask \in [Runs -> Nat]
          /\ pc \in [Runs -> PCs]
          /\ attempt \in [Runs -> Nat]
          /\ launched \in [Runs -> Nat]
          /\ retried \subseteq Runs
          /\ weeks \in [Runs -> SUBSET Weeks]
          /\ row \in [Runs -> Row]
          /\ report \in [Weeks -> Nat]
          /\ published \in [Runs -> SUBSET Weeks]
          /\ fallback \subseteq Runs

\* The slot has one holder (pipeline_runs' partial unique index is never hit):
\* open_run only inserts or reopens when no other row is left running.
OneRunning == \A r, x \in Runs : row[r].status = "running" /\ row[x].status = "running" => r = x

\* The completed runs that wrote week w, and those of them whose row names w:
\* _newer_completed_run looks at what the rows name.
Writers(w) == {r \in Runs : row[r].status = "completed" /\ w \in published[r]}
OnRecord(w) == {r \in Writers(w) : w \in row[r].weeks}

\* Completed means the data is committed: a week shows the snapshot of a
\* completed run that wrote it, and one no older than that of any run on record
\* for it: neither a late load nor a swept, retried or half-dead run overwrites it.
ReportIsNewest ==
    \A w \in Weeks :
        /\ \A r \in OnRecord(w) : row[r].cutoff <= report[w]
        /\ IF Writers(w) = {} THEN report[w] = 0
                              ELSE \E r \in Writers(w) : row[r].cutoff = report[w]

\* However many attempts a run takes, and whatever weeks each computes from the
\* clock, the data it commits is of its row's snapshot: it wrote the weeks its
\* row names, or else the weeks that were closed at the row's cutoff (a week
\* closed between the first attempt's closed_weeks() and its open_run()).
LoadIsOfTheSnapshot ==
    \A r \in Runs : row[r].status = "completed"
                    => published[r] \in {row[r].weeks, ClosedWeeks(row[r].cutoff, ask[r])}

\* A completed run's row names the weeks its load wrote, so "is this week
\* computed" (is_week_computed, latest_completed_week) answers for the data.
SpanMatchesLoad == \A r \in Runs : row[r].status = "completed" => row[r].weeks = published[r]

\* A week shows the newest snapshot any completed run wrote, named by its row or
\* not: _newer_completed_run sees the rows alone, so it does not always hold.
WeeksShowTheNewest ==
    \A w \in Weeks : \A r \in Writers(w) : row[r].cutoff <= report[w]

\* A live run loses its row to another run's sweep only if an operator retried
\* it: its row keeps the age of the first attempt.
OnlyRetriedRunsAreSwept ==
    \A r \in Runs : pc[r] \in {"loading", "giving_way", "waiting"} /\ row[r].status = "failed"
                    => r \in retried

\* No flow run ends without a record: a final row, or a line in the fallback
\* file (_record_unsuccessful_end: "so no run ends without a record").
EveryEndIsRecorded ==
    \A r \in Runs : pc[r] \in {"completed", "cancelled", "failed"}
                    => row[r].status \in {"completed", "skipped", "failed"} \/ r \in fallback

\* The run log and the load implement the promise to the report's readers.
Promise == INSTANCE PublishedReport
             WITH Horizon  <- MaxClock,
                  onRecord <- [w \in Weeks |-> {row[r].cutoff : r \in OnRecord(w)}]
KeepsPromise == Promise!Spec

\* A completed or skipped row is final, and a failed one is reopened only by
\* its own flow run, which keeps its cutoff and weeks.
RowsMoveForward ==
    [][\A r \in Runs :
         /\ row[r].status \in {"completed", "skipped"} => row'[r] = row[r]
         /\ row[r].status = "failed" /\ row'[r] # row[r]
              => pc[r] = "opening" /\ row'[r] = [row[r] EXCEPT !.status = "running"]
         /\ row[r].status # "none" => row'[r].cutoff = row[r].cutoff]_vars

\* A dead run does not hold the slot for good: a new run is turned away only
\* by a row younger than ABANDON_AFTER, whatever Prefect says of its owner.
SlotIsRecovered ==
    [][\A r \in Runs :
         row[r].status = "none" /\ row'[r].status = "skipped"
         => \E x \in Runs \ {r} : /\ row[x].status = "running"
                                  /\ now - row[x].started < AbandonAfter]_vars
=============================================================================
