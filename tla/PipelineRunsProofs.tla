------------------------ MODULE PipelineRunsProofs ------------------------
(***************************************************************************)
(* What PipelineRuns guarantees for any number of flow runs, attempts,     *)
(* weeks and crashes.                                                      *)
(***************************************************************************)
EXTENDS PipelineRuns, TLAPS

\* Which week closed last, said without a division.
LEMMA LastClosed ==
    ASSUME NEW t \in Nat, NEW w \in Nat
    PROVE  LastClosedWeek(t) = w <=> w * WeekLength <= t /\ t < (w + 1) * WeekLength
  BY TimesAssumption, Z3 DEF LastClosedWeek

LEMMA LastType == ASSUME NEW t \in Nat PROVE LastClosedWeek(t) \in Nat
  BY TimesAssumption DEF LastClosedWeek

LEMMA LastMonotone ==
    ASSUME NEW t \in Nat, NEW u \in Nat, t <= u
    PROVE  LastClosedWeek(t) <= LastClosedWeek(u)
  BY TimesAssumption DEF LastClosedWeek

-----------------------------------------------------------------------------
(* How a row may change *)

SweptFrom(x) == row[x].status = "running" /\ row'[x] = [row[x] EXCEPT !.status = "failed"]

Fresh(r, status) == [status |-> status, started |-> now, cutoff |-> now, weeks |-> weeks[r]]

OwnMove(r) == \/ row'[r] = row[r]
              \/ row[r].status = "failed" /\ row'[r] = [row[r] EXCEPT !.status = "running"]
              \/ row[r].status = "none" /\ row'[r] \in {Fresh(r, "running"), Fresh(r, "skipped")}

\* Where open_run leaves the flow.
OpenEnd(r) == \/ pc'[r] = "cancelled" /\ row'[r].status \in {"skipped", "failed"}
              \/ pc'[r] = "completed" /\ row'[r].status = "completed"
              \/ pc'[r] \in {"waiting", "hook"} /\ row'[r].status = "running"
              \/ /\ pc'[r] = "loading" /\ row'[r].status = "running"
                 /\ ~TooEarly(r, row'[r].cutoff)

\* open_run sweeps other running rows, moves its own one step at most, and
\* ends with the slot only when it left no other row running.
LEMMA OpenShape ==
    ASSUME TypeOK, OneRunning, NEW r \in Runs, OpenRun(r)
    PROVE  /\ row' = [x \in Runs |-> row'[x]]
           /\ \A x \in Runs \ {r} : row'[x] = row[x] \/ SweptFrom(x)
           /\ OwnMove(r)
           /\ row'[r].status = "running" => \A x \in Runs \ {r} : row'[x].status # "running"
           /\ pc' = [pc EXCEPT ![r] = pc'[r]]
           /\ pc[r] = "opening" /\ OpenEnd(r)
           /\ UNCHANGED <<now, ask, attempt, launched, retried, weeks, report, published, fallback>>
<1>1. PICK answers \in BOOLEAN :
        LET swept == SweptRows(r, answers)
            own == OwnRow(r, swept)
        IN  /\ row' = [swept EXCEPT ![r] = own]
            /\ \/ own.status \in {"skipped", "failed"} /\ Goto(r, "cancelled")
               \/ own.status = "completed" /\ Goto(r, "completed")
               \/ /\ own.status = "running"
                  /\ IF TooEarly(r, own.cutoff)
                     THEN AttemptFailed(r)
                     ELSE Goto(r, "loading")
  BY DEF OpenRun
<1> DEFINE swept == SweptRows(r, answers)
           own == OwnRow(r, swept)
<1>2. /\ \A x \in Runs : row[x] \in Row
      /\ pc \in [Runs -> PCs]
  BY DEF TypeOK
<1>3. swept = [x \in Runs |-> swept[x]] /\ \A x \in Runs :
        swept[x] = row[x] \/ (row[x].status = "running" /\ swept[x] = [row[x] EXCEPT !.status = "failed"])
  BY DEF SweptRows, Abandoned
<1>4. row' = [swept EXCEPT ![r] = own]
  BY <1>1
<1>5. row'[r] = own /\ \A x \in Runs \ {r} : row'[x] = swept[x]
  BY <1>3, <1>4
<1>6. \A x \in Runs \ {r} : row'[x] = row[x] \/ SweptFrom(x)
  BY <1>3, <1>5 DEF SweptFrom
<1>7. OwnMove(r)
  BY <1>5 DEF OwnMove, OwnRow, Fresh
<1>8. \A x \in Runs \ {r} : swept[x].status = "running" => row[x].status = "running"
  BY <1>2, <1>3 DEF Row
<1>9. own.status = "running" => \A x \in Runs \ {r} : swept[x].status # "running"
  <2>1. CASE row[r].status = "running"
    BY <2>1, <1>8 DEF OneRunning
  <2>2. CASE row[r].status # "running"
    BY <2>2, <1>2 DEF OwnRow, Held, Row
  <2> QED
    BY <2>1, <2>2
<1>10. pc[r] = "opening" /\ UNCHANGED <<now, ask, attempt, launched, retried, weeks, report, published, fallback>>
  BY DEF OpenRun, flow
<1>11. pc' = [pc EXCEPT ![r] = pc'[r]] /\ OpenEnd(r)
  <2>1. CASE own.status \in {"skipped", "failed"} /\ Goto(r, "cancelled")
    BY <2>1, <1>2, <1>5 DEF Goto, OpenEnd
  <2>2. CASE own.status = "completed" /\ Goto(r, "completed")
    BY <2>2, <1>2, <1>5 DEF Goto, OpenEnd
  <2>3. CASE own.status = "running" /\ TooEarly(r, own.cutoff) /\ AttemptFailed(r)
    BY <2>3, <1>2, <1>5 DEF Goto, OpenEnd, AttemptFailed
  <2>4. CASE own.status = "running" /\ ~TooEarly(r, own.cutoff) /\ Goto(r, "loading")
    BY <2>4, <1>2, <1>5 DEF Goto, OpenEnd
  <2> QED
    BY <1>1, <2>1, <2>2, <2>3, <2>4
<1> QED
  BY <1>3, <1>4, <1>5, <1>6, <1>7, <1>9, <1>10, <1>11

\* Changing a row's status leaves a row that differs in nothing else.
LEMMA Restatus ==
    ASSUME NEW x \in Row, NEW status \in RowStatuses
    PROVE  /\ [x EXCEPT !.status = status] \in Row
           /\ [x EXCEPT !.status = status].status = status
           /\ [x EXCEPT !.status = status].cutoff = x.cutoff
           /\ [x EXCEPT !.status = status].started = x.started
           /\ [x EXCEPT !.status = status].weeks = x.weeks
  BY DEF Row

\* The weeks a flow computes exist.
LEMMA ClosedType ==
    ASSUME NEW t \in Nat, t <= MaxClock, NEW asked \in Nat, asked <= LastClosedWeek(t)
    PROVE  ClosedWeeks(t, asked) \in SUBSET Weeks
<1>1. LastClosedWeek(t) <= LastClosedWeek(MaxClock)
  BY TimesAssumption, LastMonotone
<1>2. LastClosedWeek(t) \in Nat /\ LastClosedWeek(MaxClock) \in Nat
  BY TimesAssumption, LastType
<1>3. Weeks = 1 .. LastClosedWeek(MaxClock)
  BY DEF Weeks, LastClosedWeek
<1> QED
  BY <1>1, <1>2, <1>3 DEF ClosedWeeks

\* How an attempt begins.
LEMMA BeginShape ==
    ASSUME TypeOK, now <= MaxClock, NEW r \in Runs, NEW asked \in Nat, Begin(r, asked)
    PROVE  /\ pc' = [pc EXCEPT ![r] = pc'[r]] /\ pc'[r] \in {"opening", "waiting", "hook"}
           /\ weeks' \in [Runs -> SUBSET Weeks]
           /\ \A x \in Runs \ {r} : weeks'[x] = weeks[x]
           /\ pc'[r] = "opening" => weeks'[r] = ClosedWeeks(now, asked)
<1>1. now \in Nat /\ pc \in [Runs -> PCs] /\ weeks \in [Runs -> SUBSET Weeks]
  BY DEF TypeOK
<1>2. LastClosedWeek(now) \in Nat
  BY <1>1, LastType
<1>3. CASE asked > LastClosedWeek(now)
  BY <1>1, <1>3 DEF Begin, Goto
<1>4. CASE ~(asked > LastClosedWeek(now))
  <2>1. asked <= LastClosedWeek(now)
    BY <1>2, <1>4
  <2>2. ClosedWeeks(now, asked) \in SUBSET Weeks
    BY <1>1, <2>1, ClosedType
  <2>3. Goto(r, "opening") /\ weeks' = [weeks EXCEPT ![r] = ClosedWeeks(now, asked)]
    BY <1>4 DEF Begin
  <2> QED
    BY <1>1, <2>2, <2>3 DEF Goto
<1> QED
  BY <1>3, <1>4

-----------------------------------------------------------------------------
(* Types and the slot *)

Slot == TypeOK /\ now <= MaxClock /\ OneRunning

\* Changing the status of one running row to a final one.
LEMMA StatusStep ==
    ASSUME TypeOK, OneRunning, NEW r \in Runs, NEW status \in RowStatuses \ {"running"},
           row' = [row EXCEPT ![r].status = status]
    PROVE  row' \in [Runs -> Row] /\ OneRunning'
<1>1. row \in [Runs -> Row]
  BY DEF TypeOK
<1>2. row'[r] = [row[r] EXCEPT !.status = status] /\ \A x \in Runs \ {r} : row'[x] = row[x]
  BY <1>1
<1>3. row'[r] \in Row /\ row'[r].status = status
  BY <1>1, <1>2, Restatus
<1> QED
  BY <1>1, <1>2, <1>3 DEF OneRunning

LEMMA SlotStep == Slot /\ [Next]_vars => Slot'
<1> SUFFICES ASSUME Slot, [Next]_vars PROVE Slot'
  OBVIOUS
<1> USE DEF Slot
<1> USE TimesAssumption
<1>1. ASSUME NEW r \in Runs, Launch(r) PROVE Slot'
  <2>1. PICK asked \in Asked : /\ ask' = [ask EXCEPT ![r] = asked]
                               /\ attempt' = [attempt EXCEPT ![r] = 1]
                               /\ Begin(r, asked)
    BY <1>1 DEF Launch
  <2>2. asked \in Nat
    OBVIOUS
  <2>3. /\ pc' = [pc EXCEPT ![r] = pc'[r]] /\ pc'[r] \in {"opening", "waiting", "hook"}
        /\ weeks' \in [Runs -> SUBSET Weeks]
    BY <2>1, <2>2, BeginShape
  <2> QED
    BY <1>1, <2>1, <2>2, <2>3 DEF Launch, TypeOK, OneRunning, PCs, Working, Final
<1>2. ASSUME NEW r \in Runs, Retry(r) PROVE Slot'
  <2>1. /\ pc' = [pc EXCEPT ![r] = pc'[r]] /\ pc'[r] \in {"opening", "waiting", "hook"}
        /\ weeks' \in [Runs -> SUBSET Weeks]
    BY <1>2, BeginShape DEF Retry, TypeOK
  <2> QED
    BY <1>2, <2>1 DEF Retry, TypeOK, OneRunning, PCs, Working, Final
<1>3. ASSUME NEW r \in Runs, ManualRetry(r) PROVE Slot'
  <2>1. /\ pc' = [pc EXCEPT ![r] = pc'[r]] /\ pc'[r] \in {"opening", "waiting", "hook"}
        /\ weeks' \in [Runs -> SUBSET Weeks]
    BY <1>3, BeginShape DEF ManualRetry, TypeOK
  <2> QED
    BY <1>3, <2>1 DEF ManualRetry, TypeOK, OneRunning, PCs, Working, Final
<1>4. ASSUME NEW r \in Runs, OpenRun(r) PROVE Slot'
  <2>1. /\ row' = [x \in Runs |-> row'[x]]
        /\ \A x \in Runs \ {r} : row'[x] = row[x] \/ SweptFrom(x)
        /\ OwnMove(r)
        /\ row'[r].status = "running" => \A x \in Runs \ {r} : row'[x].status # "running"
        /\ pc' = [pc EXCEPT ![r] = pc'[r]] /\ OpenEnd(r)
        /\ UNCHANGED <<now, ask, attempt, launched, retried, weeks, report, published, fallback>>
    BY <1>4, OpenShape
  <2>2. \A x \in Runs : row[x] \in Row /\ weeks[x] \in SUBSET Weeks
    BY DEF TypeOK
  <2>3. \A x \in Runs : row'[x] \in Row
    <3> SUFFICES ASSUME NEW x \in Runs PROVE row'[x] \in Row
      OBVIOUS
    <3>1. [row[x] EXCEPT !.status = "failed"] \in Row /\ [row[x] EXCEPT !.status = "running"] \in Row
      BY <2>2, Restatus DEF RowStatuses
    <3>2. Fresh(x, "running") \in Row /\ Fresh(x, "skipped") \in Row
      BY <2>2 DEF Fresh, Row, RowStatuses, TypeOK
    <3> QED
      BY <2>1, <2>2, <3>1, <3>2 DEF SweptFrom, OwnMove
  <2>4. row' \in [Runs -> Row]
    BY <2>1, <2>3
  <2>5. TypeOK'
    BY <2>1, <2>4 DEF TypeOK, OpenEnd, PCs, Working, Final
  <2>6. \A x \in Runs \ {r} : row'[x].status = "running" => row[x].status = "running"
    BY <2>1, <2>2 DEF SweptFrom, Row
  <2> QED
    BY <2>1, <2>5, <2>6 DEF OneRunning
<1>5. ASSUME NEW r \in Runs, Load(r) \/ LoadUnacknowledged(r) PROVE Slot'
  <2>1. row[r].status = "running" /\ row' = [row EXCEPT ![r].status = "completed"]
    BY <1>5 DEF Load, LoadUnacknowledged, Publish
  <2>2. row' \in [Runs -> Row] /\ OneRunning'
    BY <2>1, StatusStep DEF RowStatuses
  <2>3. row[r].cutoff \in Nat
    BY DEF TypeOK, Row
  <2>4. report' \in [Weeks -> Nat]
    BY <1>5, <2>3 DEF Load, LoadUnacknowledged, Publish, TypeOK
  <2>5. published' \in [Runs -> SUBSET Weeks]
    BY <1>5 DEF Load, LoadUnacknowledged, Publish, TypeOK
  <2> QED
    BY <1>5, <2>2, <2>4, <2>5
       DEF Load, LoadUnacknowledged, Publish, Goto, flow, TypeOK, PCs, Working, Final
<1>6. ASSUME NEW r \in Runs, LoadRefused(r) \/ LoadStale(r) \/ Return(r) \/ Fails(r) \/ Crash(r) \/ Die(r)
      PROVE Slot'
  BY <1>6 DEF LoadRefused, LoadStale, Return, Fails, Crash, Die, AttemptFailed, Goto, flow,
              TypeOK, OneRunning, PCs, Working, Final
<1>7. ASSUME NEW r \in Runs, SkipRun(r) PROVE Slot'
  <2>1. row' \in [Runs -> Row] /\ OneRunning'
    <3>1. CASE row[r].status = "running"
      BY <1>7, <3>1, StatusStep DEF SkipRun, RowStatuses
    <3>2. CASE row[r].status # "running"
      BY <1>7, <3>2 DEF SkipRun, TypeOK, OneRunning, Row
    <3> QED
      BY <3>1, <3>2
  <2> QED
    BY <1>7, <2>1 DEF SkipRun, Goto, flow, TypeOK, PCs, Working, Final
<1>8. ASSUME NEW r \in Runs, Hook(r) PROVE Slot'
  <2>1. row' \in [Runs -> Row] /\ OneRunning'
    <3>1. CASE row'[r].status = "failed" /\ row[r].status = "running" /\ UNCHANGED fallback
      BY <1>8, <3>1, StatusStep DEF Hook, RowStatuses
    <3>2. CASE row' = row
      BY <3>2 DEF TypeOK, OneRunning
    <3>3. row' = row \/ (row'[r].status = "failed" /\ row[r].status = "running" /\ UNCHANGED fallback)
      BY <1>8 DEF Hook, TypeOK, Row
    <3> QED
      BY <3>1, <3>2, <3>3
  <2> QED
    BY <1>8, <2>1 DEF Hook, Goto, flow, TypeOK, PCs, Working, Final
<1>9. CASE Tick
  BY <1>9 DEF Tick, flow, TypeOK, OneRunning
<1>10. CASE Over \/ UNCHANGED vars
  BY <1>10 DEF Over, vars, flow, TypeOK, OneRunning
<1> QED
  BY <1>1, <1>2, <1>3, <1>4, <1>5, <1>6, <1>7, <1>8, <1>9, <1>10 DEF Next, Step, Fault

LEMMA SlotInvariant == Spec => []Slot
<1>1. Init => Slot
  BY TimesAssumption
     DEF Init, Slot, TypeOK, OneRunning, Row, RowStatuses, NoRow, PCs
<1>2. QED
  BY <1>1, SlotStep, PTL DEF Spec

\* pipeline_runs never holds two running rows, so its partial unique index
\* never refuses an insert or a reopening: open_run alone decides the slot.
THEOREM SlotIsExclusive == Spec => []OneRunning
<1>1. Slot => OneRunning
  BY DEF Slot
<1>2. QED
  BY <1>1, SlotInvariant, PTL

-----------------------------------------------------------------------------
(* Rows only move forward *)

RowMove(x) ==
    \/ row'[x] = row[x]
    \/ /\ row[x].status = "running"
       /\ \E status \in {"completed", "skipped", "failed"} : row'[x] = [row[x] EXCEPT !.status = status]
    \/ pc[x] = "opening" /\ row[x].status = "failed" /\ row'[x] = [row[x] EXCEPT !.status = "running"]
    \/ pc[x] = "opening" /\ row[x].status = "none" /\ row'[x] \in {Fresh(x, "running"), Fresh(x, "skipped")}

\* Every way a step may change a row.
LEMMA RowStep ==
    ASSUME Slot, [Next]_vars, NEW x \in Runs
    PROVE  RowMove(x)
<1> USE DEF RowMove
<1>1. row \in [Runs -> Row]
  BY DEF Slot, TypeOK
<1>2. ASSUME NEW r \in Runs, Launch(r) \/ Retry(r) \/ ManualRetry(r) PROVE RowMove(x)
  BY <1>2 DEF Launch, Retry, ManualRetry
<1>3. ASSUME NEW r \in Runs, OpenRun(r) PROVE RowMove(x)
  <2>1. /\ \A y \in Runs \ {r} : row'[y] = row[y] \/ SweptFrom(y)
        /\ OwnMove(r) /\ pc[r] = "opening"
    BY <1>3, OpenShape DEF Slot
  <2> QED
    BY <2>1 DEF SweptFrom, OwnMove
<1>4. ASSUME NEW r \in Runs, Load(r) \/ LoadUnacknowledged(r) PROVE RowMove(x)
  <2>1. row[r].status = "running" /\ row' = [row EXCEPT ![r].status = "completed"]
    BY <1>4 DEF Load, LoadUnacknowledged, Publish
  <2> QED
    BY <1>1, <2>1
<1>5. ASSUME NEW r \in Runs, LoadRefused(r) \/ LoadStale(r) \/ Return(r) \/ Fails(r) \/ Crash(r) \/ Die(r)
      PROVE RowMove(x)
  BY <1>5 DEF LoadRefused, LoadStale, Return, Fails, Crash, Die
<1>6. ASSUME NEW r \in Runs, SkipRun(r) PROVE RowMove(x)
  <2>1. CASE row[r].status = "running"
    <3>1. row' = [row EXCEPT ![r].status = "skipped"]
      BY <1>6, <2>1 DEF SkipRun
    <3> QED
      BY <1>1, <2>1, <3>1
  <2>2. CASE row[r].status # "running"
    BY <1>1, <1>6, <2>2 DEF SkipRun, Row
  <2> QED
    BY <2>1, <2>2
<1>7. ASSUME NEW r \in Runs, Hook(r) PROVE RowMove(x)
  <2>1. CASE row[r].status = "running"
    <3>1. row' = row \/ row' = [row EXCEPT ![r].status = "failed"]
      BY <1>7, <2>1 DEF Hook
    <3> QED
      BY <1>1, <2>1, <3>1
  <2>2. CASE row[r].status # "running"
    BY <1>1, <1>7, <2>2 DEF Hook, Row
  <2> QED
    BY <2>1, <2>2
<1>8. CASE Tick \/ Over \/ UNCHANGED vars
  BY <1>8 DEF Tick, Over, vars
<1> QED
  BY <1>2, <1>3, <1>4, <1>5, <1>6, <1>7, <1>8 DEF Next, Step, Fault

\* Whatever runs, sweeps, retries and crashes beside it, a completed or skipped
\* row is final, a failed one comes back only by its own flow run, and a
\* snapshot once fixed is never moved.
THEOREM RowsNeverMoveBack == Spec => RowsMoveForward
<1>1. Slot /\ [Next]_vars =>
        [\A r \in Runs :
           /\ row[r].status \in {"completed", "skipped"} => row'[r] = row[r]
           /\ row[r].status = "failed" /\ row'[r] # row[r]
                => pc[r] = "opening" /\ row'[r] = [row[r] EXCEPT !.status = "running"]
           /\ row[r].status # "none" => row'[r].cutoff = row[r].cutoff]_vars
  <2> SUFFICES ASSUME Slot, [Next]_vars, NEW r \in Runs
               PROVE  /\ row[r].status \in {"completed", "skipped"} => row'[r] = row[r]
                      /\ row[r].status = "failed" /\ row'[r] # row[r]
                           => pc[r] = "opening" /\ row'[r] = [row[r] EXCEPT !.status = "running"]
                      /\ row[r].status # "none" => row'[r].cutoff = row[r].cutoff
    OBVIOUS
  <2>1. RowMove(r)
    BY RowStep
  <2>2. row[r] \in Row
    BY DEF Slot, TypeOK
  <2>3. \A status \in RowStatuses : [row[r] EXCEPT !.status = status].cutoff = row[r].cutoff
    BY <2>2, Restatus
  <2> QED
    BY <2>1, <2>3 DEF RowMove, RowStatuses
<1>2. QED
  BY <1>1, SlotInvariant, PTL DEF Spec, RowsMoveForward

\* The slot is never lost: a new run is turned away only by a running row that
\* is younger than ABANDON_AFTER, whatever became of the process behind it.
THEOREM SlotComesBack == Spec => SlotIsRecovered
<1>1. Slot /\ [Next]_vars =>
        [\A r \in Runs :
           row[r].status = "none" /\ row'[r].status = "skipped"
           => \E x \in Runs \ {r} : /\ row[x].status = "running"
                                    /\ now - row[x].started < AbandonAfter]_vars
  <2> SUFFICES ASSUME Slot, [Next]_vars, NEW r \in Runs,
                      row[r].status = "none", row'[r].status = "skipped"
               PROVE  \E x \in Runs \ {r} : /\ row[x].status = "running"
                                            /\ now - row[x].started < AbandonAfter
    OBVIOUS
  <2>1. row \in [Runs -> Row] /\ now \in Nat
    BY DEF Slot, TypeOK
  <2>2. PICK answers \in BOOLEAN : row'[r] = OwnRow(r, SweptRows(r, answers))
    <3>1. row' # row
      OBVIOUS
    <3>2. ASSUME NEW y \in Runs, OpenRun(y) PROVE y = r
      <4>1. \A x \in Runs \ {y} : row'[x] = row[x] \/ SweptFrom(x)
        BY <3>2, OpenShape DEF Slot
      <4> QED
        BY <2>1, <4>1 DEF SweptFrom
    <3>3. ASSUME NEW y \in Runs, Load(y) \/ LoadUnacknowledged(y) \/ SkipRun(y) \/ Hook(y) PROVE FALSE
      BY <2>1, <3>3 DEF Load, LoadUnacknowledged, Publish, SkipRun, Hook, Row
    <3>4. OpenRun(r)
      BY <3>1, <3>2, <3>3
         DEF Next, Step, Fault, Launch, Retry, ManualRetry, LoadRefused, LoadStale, Return,
             Fails, Crash, Die, Tick, Over, vars
    <3> QED
      BY <2>1, <3>4 DEF OpenRun, SweptRows
  <2>3. Held(r, SweptRows(r, answers))
    BY <2>2 DEF OwnRow
  <2>4. PICK x \in Runs \ {r} : SweptRows(r, answers)[x].status = "running"
    BY <2>3 DEF Held
  <2>5. row[x].status = "running" /\ x \notin Abandoned(r, answers)
    BY <2>1, <2>4 DEF SweptRows, Row
  <2>6. ~(now - row[x].started >= AbandonAfter)
    BY <2>5 DEF Abandoned
  <2>7. now - row[x].started \in Int /\ AbandonAfter \in Int
    BY <2>1, TimesAssumption DEF Row
  <2> QED
    BY <2>5, <2>6, <2>7
<1>2. QED
  BY <1>1, SlotInvariant, PTL DEF Spec, SlotIsRecovered

-----------------------------------------------------------------------------
(* Every end is on record *)

\* How a flow's place and its row correspond.
RowInStep(r) ==
    /\ pc[r] = "idle" => row[r].status = "none"
    /\ pc[r] \in {"loading", "giving_way", "loaded", "completed", "cancelled"} => row[r].status # "none"
    /\ pc[r] \in {"loaded", "completed"} => row[r].status = "completed"
    /\ pc[r] = "cancelled" => row[r].status # "running"
    /\ pc[r] = "failed" => row[r].status \in {"completed", "skipped", "failed"} \/ r \in fallback

Recorded == Slot /\ \A r \in Runs : RowInStep(r)

LEMMA RecordedStep == Recorded /\ [Next]_vars => Recorded'
<1> SUFFICES ASSUME Recorded, [Next]_vars, NEW x \in Runs PROVE RowInStep(x)'
  BY SlotStep DEF Recorded
<1>1. /\ row \in [Runs -> Row] /\ pc \in [Runs -> PCs] /\ fallback \subseteq Runs
      /\ Slot /\ \A r \in Runs : RowInStep(r)
  BY DEF Recorded, Slot, TypeOK
<1>2. \A status \in RowStatuses : [row[x] EXCEPT !.status = status].status = status
  BY <1>1, Restatus
<1>3. RowMove(x)
  BY <1>1, RowStep
<1>4. /\ row[x].status \in {"completed", "skipped", "failed"} /\ pc[x] # "opening" => row'[x] = row[x]
      /\ row[x].status # "none" => row'[x].status # "none"
      /\ row[x].status # "running" /\ pc[x] # "opening" => row'[x] = row[x]
  BY <1>2, <1>3 DEF RowMove, RowStatuses
<1>5. ASSUME NEW r \in Runs, Launch(r) \/ Retry(r) \/ ManualRetry(r) PROVE RowInStep(x)'
  <2>1. pc' = [pc EXCEPT ![r] = pc'[r]] /\ pc'[r] \in {"opening", "waiting", "hook"}
    <3>1. PICK asked \in Nat : Begin(r, asked)
      BY <1>1, <1>5, TimesAssumption DEF Launch, Retry, ManualRetry, Slot, TypeOK
    <3> QED
      BY <1>1, <3>1, BeginShape DEF Slot
  <2>2. row' = row /\ fallback' = fallback
    BY <1>5 DEF Launch, Retry, ManualRetry
  <2> QED
    BY <1>1, <2>1, <2>2 DEF RowInStep
<1>6. ASSUME NEW r \in Runs, OpenRun(r) PROVE RowInStep(x)'
  <2>1. /\ pc' = [pc EXCEPT ![r] = pc'[r]] /\ pc[r] = "opening" /\ OpenEnd(r)
        /\ fallback' = fallback
    BY <1>1, <1>6, OpenShape DEF Slot
  <2>2. CASE x = r
    BY <1>1, <2>1, <2>2 DEF RowInStep, OpenEnd
  <2>3. CASE x # r
    <3>1. row'[x] = row[x] \/ SweptFrom(x)
      BY <1>1, <1>6, <2>3, OpenShape DEF Slot
    <3> QED
      BY <1>1, <1>2, <2>1, <2>3, <3>1 DEF RowInStep, SweptFrom, RowStatuses
  <2> QED
    BY <2>2, <2>3
<1>7. ASSUME NEW r \in Runs, Load(r) \/ LoadUnacknowledged(r) PROVE RowInStep(x)'
  <2>1. /\ pc[r] = "loading" /\ row' = [row EXCEPT ![r].status = "completed"] /\ fallback' = fallback
        /\ pc' = pc \/ pc' = [pc EXCEPT ![r] = "loaded"]
    BY <1>7 DEF Load, LoadUnacknowledged, Publish, Goto
  <2>2. x = r => row'[x].status = "completed"
    BY <1>1, <2>1
  <2> QED
    BY <1>1, <2>1, <2>2 DEF RowInStep
<1>8. ASSUME NEW r \in Runs, LoadRefused(r) \/ LoadStale(r) \/ Return(r) \/ Fails(r) \/ Crash(r) \/ Die(r)
      PROVE RowInStep(x)'
  BY <1>1, <1>8
     DEF LoadRefused, LoadStale, Return, Fails, Crash, Die, AttemptFailed, Goto, RowInStep, Working
<1>9. ASSUME NEW r \in Runs, SkipRun(r) PROVE RowInStep(x)'
  <2>1. /\ pc[r] = "giving_way" /\ pc' = [pc EXCEPT ![r] = "cancelled"] /\ fallback' = fallback
        /\ row' = [row EXCEPT ![r].status = IF @ = "running" THEN "skipped" ELSE @]
    BY <1>9 DEF SkipRun, Goto
  <2>2. x = r => row'[x].status \notin {"none", "running"}
    BY <1>1, <1>4, <2>1 DEF RowInStep, Row
  <2> QED
    BY <1>1, <2>1, <2>2 DEF RowInStep
<1>10. ASSUME NEW r \in Runs, Hook(r) PROVE RowInStep(x)'
  <2>1. pc[r] = "hook" /\ pc' = [pc EXCEPT ![r] = "failed"] /\ fallback \subseteq fallback'
    BY <1>10 DEF Hook, Goto
  <2>2. x = r => row'[x].status \in {"completed", "skipped", "failed"} \/ x \in fallback'
    <3>1. CASE fallback' = fallback \cup {r}
      BY <3>1
    <3>2. CASE /\ row[r].status # "none"
               /\ row' = [row EXCEPT ![r].status = IF @ = "running" THEN "failed" ELSE @]
      <4>1. row'[r].status = IF row[r].status = "running" THEN "failed" ELSE row[r].status
        BY <1>1, <3>2 DEF Row
      <4>2. row[r].status \in RowStatuses
        BY <1>1 DEF Row
      <4> QED
        BY <3>2, <4>1, <4>2 DEF RowStatuses
    <3> QED
      BY <1>10, <3>1, <3>2 DEF Hook
  <2>3. x # r => row'[x] = row[x]
    BY <1>1, <1>10 DEF Hook
  <2> QED
    BY <1>1, <2>1, <2>2, <2>3 DEF RowInStep
<1>11. CASE Tick \/ Over \/ UNCHANGED vars
  BY <1>1, <1>11 DEF Tick, Over, vars, RowInStep, flow
<1> QED
  BY <1>5, <1>6, <1>7, <1>8, <1>9, <1>10, <1>11 DEF Next, Step, Fault

LEMMA RecordedInvariant == Spec => []Recorded
<1>1. Init /\ Slot => Recorded
  BY DEF Init, Recorded, RowInStep, NoRow
<1>2. QED
  BY <1>1, RecordedStep, SlotInvariant, PTL DEF Spec

\* A flow run that ended left a final row or a line in the fallback file,
\* whatever interrupted it short of its process dying.
THEOREM NoEndIsLost == Spec => []EveryEndIsRecorded
<1>1. Recorded => EveryEndIsRecorded
  <2> SUFFICES ASSUME Recorded, NEW r \in Runs, pc[r] \in {"completed", "cancelled", "failed"}
               PROVE  row[r].status \in {"completed", "skipped", "failed"} \/ r \in fallback
    BY DEF EveryEndIsRecorded
  <2>1. RowInStep(r) /\ row[r].status \in RowStatuses
    BY DEF Recorded, Slot, TypeOK, Row
  <2> QED
    BY <2>1 DEF RowInStep, RowStatuses
<1>2. QED
  BY <1>1, RecordedInvariant, PTL

-----------------------------------------------------------------------------
(* A load is of its row's snapshot *)

\* A later attempt whose window ends by the row's cutoff computes the weeks of
\* the row.
LEMMA SameWeeks ==
    ASSUME NEW t \in Nat, NEW u \in Nat, t <= u, u <= MaxClock, NEW asked \in Nat,
           \A w \in ClosedWeeks(u, asked) : w * WeekLength <= t
    PROVE  ClosedWeeks(t, asked) = ClosedWeeks(u, asked)
<1>1. CASE asked # 0
  BY <1>1 DEF ClosedWeeks
<1>2. CASE asked = 0
  <2>1. LastClosedWeek(t) \in Nat /\ LastClosedWeek(u) \in Nat /\ LastClosedWeek(MaxClock) \in Nat
    BY LastType, TimesAssumption
  <2>2. LastClosedWeek(t) <= LastClosedWeek(u) /\ LastClosedWeek(u) <= LastClosedWeek(MaxClock)
    BY LastMonotone, TimesAssumption
  <2>3. LastClosedWeek(t) = LastClosedWeek(u)
    <3>1. CASE LastClosedWeek(u) = 0
      BY <2>1, <2>2, <3>1
    <3>2. CASE LastClosedWeek(u) # 0
      <4>1. LastClosedWeek(u) \in Weeks
        BY <2>1, <2>2, <3>2 DEF Weeks, LastClosedWeek
      <4>2. LastClosedWeek(u) \in ClosedWeeks(u, asked)
        BY <1>2, <2>1, <4>1, TimesAssumption DEF ClosedWeeks
      <4>3. LastClosedWeek(u) * WeekLength <= t
        BY <4>2
      <4> DEFINE last == LastClosedWeek(u)
      <4>4. last * WeekLength <= u /\ u < (last + 1) * WeekLength
        BY <2>1, LastClosed
      <4>5. t < (last + 1) * WeekLength
        <5>1. (last + 1) * WeekLength \in Nat
          BY <2>1, TimesAssumption
        <5> HIDE DEF last
        <5> QED
          BY <4>4, <5>1
      <4> QED
        BY <2>1, <4>3, <4>5, LastClosed
    <3> QED
      BY <3>1, <3>2
  <2> QED
    BY <1>2, <2>3 DEF ClosedWeeks
<1> QED
  BY <1>1, <1>2

\* Weeks computed from the clock at some time from `from` to `to`.
ComputedIn(from, to, asked, span) ==
    \E t \in Nat : from <= t /\ t <= to /\ span = ClosedWeeks(t, asked)

\* An attempt about to open its row computed its weeks no earlier than the row's
\* cutoff, if there is one already; a row's weeks were computed by its cutoff; a
\* load writes its row's weeks or those of its row's cutoff, all closed at it.
SpanInStep(r) ==
    /\ pc[r] = "opening" => ComputedIn(row[r].cutoff, now, ask[r], weeks[r])
    /\ row[r].cutoff <= now
    /\ row[r].status = "none" => row[r].cutoff = 0
    /\ row[r].status # "none" => ComputedIn(0, row[r].cutoff, ask[r], row[r].weeks)
    /\ pc[r] = "loading" => /\ weeks[r] \in {row[r].weeks, ClosedWeeks(row[r].cutoff, ask[r])}
                            /\ ~TooEarly(r, row[r].cutoff)
    /\ row[r].status = "completed" =>
         published[r] \in {row[r].weeks, ClosedWeeks(row[r].cutoff, ask[r])}

Spans == Recorded /\ \A r \in Runs : SpanInStep(r)

LEMMA SpanStep == Spans /\ [Next]_vars => Spans'
<1> SUFFICES ASSUME Spans, [Next]_vars, NEW x \in Runs PROVE SpanInStep(x)'
  BY RecordedStep DEF Spans
<1>1. /\ row \in [Runs -> Row] /\ pc \in [Runs -> PCs] /\ ask \in [Runs -> Nat]
      /\ weeks \in [Runs -> SUBSET Weeks] /\ published \in [Runs -> SUBSET Weeks]
      /\ now \in Nat /\ now <= MaxClock /\ row[x].cutoff \in Nat
      /\ Recorded /\ Slot /\ RowInStep(x) /\ SpanInStep(x)
  BY DEF Spans, Recorded, Slot, TypeOK, Row
<1>2. \A status \in RowStatuses : /\ [row[x] EXCEPT !.status = status].status = status
                                  /\ [row[x] EXCEPT !.status = status].cutoff = row[x].cutoff
                                  /\ [row[x] EXCEPT !.status = status].weeks = row[x].weeks
  BY <1>1, Restatus
<1>3. RowMove(x)
  BY <1>1, RowStep
<1>4. row[x].status # "none" => row'[x].weeks = row[x].weeks /\ row'[x].cutoff = row[x].cutoff
  <2>1. CASE row[x].status # "none" /\ \E status \in RowStatuses : row'[x] = [row[x] EXCEPT !.status = status]
    BY <1>2, <2>1
  <2>2. CASE row[x].status = "none" \/ row'[x] = row[x]
    BY <2>2
  <2> QED
    BY <1>3, <2>1, <2>2 DEF RowMove, RowStatuses
<1>5. ASSUME NEW r \in Runs, Launch(r) \/ Retry(r) \/ ManualRetry(r) PROVE SpanInStep(x)'
  <2>1. row' = row /\ published' = published /\ now' = now
        /\ \A y \in Runs \ {r} : ask'[y] = ask[y]
    BY <1>1, <1>5 DEF Launch, Retry, ManualRetry
  <2>2. /\ pc' = [pc EXCEPT ![r] = pc'[r]] /\ pc'[r] \in {"opening", "waiting", "hook"}
        /\ pc'[r] = "opening" => weeks'[r] = ClosedWeeks(now, ask'[r])
        /\ \A y \in Runs \ {r} : weeks'[y] = weeks[y]
    <3>1. ask'[r] \in Nat /\ Begin(r, ask'[r])
      BY <1>1, <1>5, TimesAssumption DEF Launch, Retry, ManualRetry
    <3> QED
      BY <1>1, <3>1, BeginShape DEF Slot
  <2>3. row[r].status # "none" => ask'[r] = ask[r]
    BY <1>5 DEF Launch, Retry, ManualRetry, Spans, Recorded, RowInStep
  <2>4. CASE x = r
    <3>1. pc'[x] = "opening" => ComputedIn(row'[x].cutoff, now', ask'[x], weeks'[x])
      BY <1>1, <2>1, <2>2, <2>4 DEF ComputedIn, SpanInStep
    <3>2. row[x].status = "completed" => row[x].status # "none"
      OBVIOUS
    <3> QED
      BY <1>1, <2>1, <2>2, <2>3, <2>4, <3>1, <3>2 DEF SpanInStep
  <2>5. CASE x # r
    BY <1>1, <2>1, <2>2, <2>5 DEF SpanInStep, TooEarly
  <2> QED
    BY <2>4, <2>5
<1>6. ASSUME NEW r \in Runs, OpenRun(r) PROVE SpanInStep(x)'
  <2>1. /\ pc' = [pc EXCEPT ![r] = pc'[r]] /\ pc[r] = "opening" /\ OpenEnd(r) /\ OwnMove(r)
        /\ UNCHANGED <<now, ask, weeks, published>>
    BY <1>1, <1>6, OpenShape DEF Slot
  <2>2. CASE x = r
    <3>1. PICK t \in Nat : row[x].cutoff <= t /\ t <= now /\ weeks[x] = ClosedWeeks(t, ask[x])
      BY <1>1, <2>1, <2>2 DEF SpanInStep, ComputedIn
    <3>2. \/ /\ row[x].status = "none"
             /\ row'[x] \in {Fresh(x, "running"), Fresh(x, "skipped")}
          \/ row'[x].weeks = row[x].weeks /\ row'[x].cutoff = row[x].cutoff
      BY <1>4, <2>1, <2>2 DEF OwnMove
    <3>3. row'[x].cutoff \in Nat /\ row'[x].cutoff <= now
      BY <1>1, <3>2 DEF Fresh, SpanInStep
    <3>4. row'[x].status # "none" => ComputedIn(0, row'[x].cutoff, ask[x], row'[x].weeks)
      <4>1. CASE row'[x] \in {Fresh(x, "running"), Fresh(x, "skipped")}
        BY <1>1, <3>1, <4>1 DEF Fresh, ComputedIn
      <4>2. CASE row[x].status # "none"
        BY <1>1, <1>4, <4>2 DEF SpanInStep
      <4>3. CASE row'[x] = row[x]
        BY <1>1, <4>3 DEF SpanInStep
      <4> QED
        BY <2>1, <2>2, <4>1, <4>2, <4>3 DEF OwnMove
    <3>5. row'[x].status = "none" => row'[x].cutoff = 0
      <4>1. Fresh(x, "running").status = "running" /\ Fresh(x, "skipped").status = "skipped"
        BY DEF Fresh
      <4>2. [row[x] EXCEPT !.status = "running"].status = "running"
        BY <1>2 DEF RowStatuses
      <4>3. OwnMove(x)
        BY <2>1, <2>2
      <4>4. \/ row'[x] = row[x] \/ row'[x] = [row[x] EXCEPT !.status = "running"]
            \/ row'[x] = Fresh(x, "running") \/ row'[x] = Fresh(x, "skipped")
        BY <4>3 DEF OwnMove
      <4> QED
        BY <1>1, <4>1, <4>2, <4>4 DEF SpanInStep
    <3>6. pc'[x] = "loading" => /\ weeks[x] \in {row'[x].weeks, ClosedWeeks(row'[x].cutoff, ask[x])}
                                /\ ~TooEarly(x, row'[x].cutoff)
      <4> SUFFICES ASSUME pc'[x] = "loading"
                   PROVE  /\ weeks[x] \in {row'[x].weeks, ClosedWeeks(row'[x].cutoff, ask[x])}
                          /\ ~TooEarly(x, row'[x].cutoff)
        OBVIOUS
      <4>1. ~TooEarly(x, row'[x].cutoff)
        BY <2>1, <2>2 DEF OpenEnd
      <4>2. CASE row'[x] \in {Fresh(x, "running"), Fresh(x, "skipped")}
        BY <4>1, <4>2 DEF Fresh
      <4>3. CASE row'[x].weeks = row[x].weeks /\ row'[x].cutoff = row[x].cutoff
        <5>1. \A w \in weeks[x] : w * WeekLength <= row'[x].cutoff
          <6>1. \A w \in weeks[x] : ~(w * WeekLength > row'[x].cutoff) /\ w \in Nat
            BY <1>1, <4>1 DEF TooEarly, Weeks
          <6>2. WeekLength \in Nat /\ row'[x].cutoff \in Nat
            BY <3>3, TimesAssumption
          <6> QED
            BY <6>1, <6>2
        <5>2. t <= MaxClock /\ ask[x] \in Nat
          BY <1>1, <3>1, TimesAssumption
        <5>3. ClosedWeeks(row'[x].cutoff, ask[x]) = ClosedWeeks(t, ask[x])
          BY <3>1, <3>3, <4>3, <5>1, <5>2, SameWeeks
        <5> QED
          BY <3>1, <4>1, <5>3
      <4> QED
        BY <3>2, <4>2, <4>3
    <3>7. row'[x].status = "completed" => row'[x] = row[x]
      <4>1. [row[x] EXCEPT !.status = "running"].status = "running"
        BY <1>2 DEF RowStatuses
      <4>2. Fresh(x, "running").status = "running" /\ Fresh(x, "skipped").status = "skipped"
        BY DEF Fresh
      <4>3. OwnMove(x)
        BY <2>1, <2>2
      <4>4. \/ row'[x] = row[x] \/ row'[x] = [row[x] EXCEPT !.status = "running"]
            \/ row'[x] = Fresh(x, "running") \/ row'[x] = Fresh(x, "skipped")
        BY <4>3 DEF OwnMove
      <4> QED
        BY <4>1, <4>2, <4>4
    <3>8. pc'[x] # "opening"
      BY <2>1, <2>2 DEF OpenEnd
    <3> QED
      BY <1>1, <2>1, <2>2, <3>3, <3>4, <3>5, <3>6, <3>7, <3>8 DEF SpanInStep, TooEarly
  <2>3. CASE x # r
    <3>1. row'[x] = row[x] \/ SweptFrom(x)
      BY <1>1, <1>6, <2>3, OpenShape DEF Slot
    <3> QED
      BY <1>1, <1>2, <2>1, <2>3, <3>1 DEF SpanInStep, SweptFrom, RowStatuses, TooEarly
  <2> QED
    BY <2>2, <2>3
<1>7. ASSUME NEW r \in Runs, Load(r) \/ LoadUnacknowledged(r) PROVE SpanInStep(x)'
  <2>1. /\ pc[r] = "loading" /\ row' = [row EXCEPT ![r].status = "completed"]
        /\ pc' = pc \/ pc' = [pc EXCEPT ![r] = "loaded"]
        /\ published' = [published EXCEPT ![r] = weeks[r]] /\ UNCHANGED <<now, ask, weeks>>
    BY <1>7 DEF Load, LoadUnacknowledged, Publish, Goto, flow
  <2>2. CASE x = r
    <3>1. row'[x].weeks = row[x].weeks /\ row'[x].cutoff = row[x].cutoff
      BY <1>1, <2>1, <2>2 DEF Row
    <3>2. /\ row[x].status # "none"
          /\ weeks[x] \in {row[x].weeks, ClosedWeeks(row[x].cutoff, ask[x])}
      BY <1>1, <2>1, <2>2 DEF RowInStep, SpanInStep
    <3>3. published'[x] = weeks[x]
      BY <1>1, <2>1, <2>2
    <3> QED
      BY <1>1, <2>1, <2>2, <3>1, <3>2, <3>3 DEF SpanInStep, TooEarly
  <2>3. CASE x # r
    BY <1>1, <2>1, <2>3 DEF SpanInStep, TooEarly
  <2> QED
    BY <2>2, <2>3
<1>8. ASSUME NEW r \in Runs, LoadRefused(r) \/ LoadStale(r) \/ Return(r) \/ Fails(r) \/ Crash(r) \/ Die(r)
      PROVE SpanInStep(x)'
  <2>1. pc'[x] \notin {"opening", "loading"} \/ pc'[x] = pc[x]
    BY <1>1, <1>8 DEF LoadRefused, LoadStale, Return, Fails, Crash, Die, AttemptFailed, Goto, flow
  <2>2. UNCHANGED <<now, ask, weeks, row, published>>
    BY <1>8 DEF LoadRefused, LoadStale, Return, Fails, Crash, Die, flow
  <2> QED
    BY <1>1, <2>1, <2>2 DEF SpanInStep, TooEarly
<1>9. ASSUME NEW r \in Runs, SkipRun(r) \/ Hook(r) PROVE SpanInStep(x)'
  <2>1. /\ UNCHANGED <<now, ask, weeks, published>>
        /\ pc'[x] = pc[x] \/ pc'[x] \in {"cancelled", "failed"}
        /\ pc[r] \in {"giving_way", "hook"}
        /\ \/ row' = row
           \/ row' = [row EXCEPT ![r].status = IF @ = "running" THEN "skipped" ELSE @]
           \/ row' = [row EXCEPT ![r].status = IF @ = "running" THEN "failed" ELSE @]
    BY <1>1, <1>9 DEF SkipRun, Hook, Goto, flow
  <2>2. /\ row'[x].weeks = row[x].weeks /\ row'[x].cutoff = row[x].cutoff
        /\ row'[x].status = "none" <=> row[x].status = "none"
        /\ row'[x].status = "completed" => row[x].status = "completed"
    BY <1>1, <2>1 DEF Row
  <2> QED
    BY <1>1, <2>1, <2>2 DEF SpanInStep, TooEarly
<1>10. CASE Tick
  <2>1. UNCHANGED <<ask, weeks, row, published, pc>> /\ now' = now + 1
    BY <1>10 DEF Tick, flow
  <2>2. row[x].cutoff <= now'
    BY <1>1, <2>1 DEF SpanInStep
  <2>3. pc[x] = "opening" => ComputedIn(row[x].cutoff, now', ask[x], weeks[x])
    <3>1. \A t \in Nat : t <= now => t <= now'
      BY <1>1, <2>1
    <3> QED
      BY <1>1, <3>1 DEF SpanInStep, ComputedIn
  <2> QED
    BY <1>1, <2>1, <2>2, <2>3 DEF SpanInStep, TooEarly
<1>11. CASE Over \/ UNCHANGED vars
  BY <1>1, <1>11 DEF Over, vars, SpanInStep, TooEarly
<1> QED
  BY <1>5, <1>6, <1>7, <1>8, <1>9, <1>10, <1>11 DEF Next, Step, Fault

LEMMA SpanInvariant == Spec => []Spans
<1>1. Init /\ Recorded => Spans
  BY TimesAssumption DEF Init, Spans, SpanInStep, NoRow
<1>2. QED
  BY <1>1, SpanStep, RecordedInvariant, PTL DEF Spec

\* What a run commits is of its row's snapshot: its row's weeks or the weeks
\* closed at its row's cutoff, through any number of retries, task retries and
\* reopenings, however late they run and however many weeks close meanwhile.
THEOREM LoadsAreOfTheSnapshot == Spec => []LoadIsOfTheSnapshot
<1>1. Spans => LoadIsOfTheSnapshot
  BY DEF Spans, SpanInStep, LoadIsOfTheSnapshot
<1>2. QED
  BY <1>1, SpanInvariant, PTL

-----------------------------------------------------------------------------
(* The report shows the newest completed snapshot *)

\* A step that completes no run leaves the report, what was written and the
\* completed rows as they were; only a load completes one.
LEMMA OnlyLoadsComplete ==
    ASSUME Slot, [Next]_vars
    PROVE  \/ \E r \in Runs : Publish(r)
           \/ /\ report' = report /\ published' = published
              /\ \A x \in Runs : row'[x].status = "completed" => row'[x] = row[x]
<1>1. row \in [Runs -> Row]
  BY DEF Slot, TypeOK
<1>2. \A x \in Runs : /\ [row[x] EXCEPT !.status = "failed"].status = "failed"
                      /\ [row[x] EXCEPT !.status = "skipped"].status = "skipped"
                      /\ [row[x] EXCEPT !.status = "running"].status = "running"
  BY <1>1, Restatus DEF RowStatuses
<1> DEFINE NoneCompleted == report' = report /\ published' = published
                            /\ \A x \in Runs : row'[x].status = "completed" => row'[x] = row[x]
<1>3. ASSUME NEW r \in Runs, OpenRun(r) PROVE NoneCompleted
  <2>1. /\ \A x \in Runs \ {r} : row'[x] = row[x] \/ SweptFrom(x)
        /\ OwnMove(r) /\ report' = report /\ published' = published
    BY <1>3, OpenShape DEF Slot
  <2>2. ASSUME NEW x \in Runs, row'[x].status = "completed" PROVE row'[x] = row[x]
    <3>1. CASE x = r
      <4>1. OwnMove(x)
        BY <2>1, <3>1
      <4>2. \/ row'[x] = row[x] \/ row'[x] = [row[x] EXCEPT !.status = "running"]
            \/ row'[x] = Fresh(x, "running") \/ row'[x] = Fresh(x, "skipped")
        BY <4>1 DEF OwnMove
      <4>3. Fresh(x, "running").status # "completed" /\ Fresh(x, "skipped").status # "completed"
        BY DEF Fresh
      <4>4. [row[x] EXCEPT !.status = "running"].status # "completed"
        BY <1>2
      <4> QED
        BY <2>2, <4>2, <4>3, <4>4
    <3>2. CASE x # r
      BY <1>2, <2>1, <2>2, <3>2 DEF SweptFrom
    <3> QED
      BY <3>1, <3>2
  <2> QED
    BY <2>1, <2>2
<1>4. ASSUME NEW r \in Runs, SkipRun(r) \/ Hook(r) PROVE NoneCompleted
  <2>1. /\ report' = report /\ published' = published
        /\ \/ row' = row
           \/ row' = [row EXCEPT ![r].status = IF @ = "running" THEN "skipped" ELSE @]
           \/ row' = [row EXCEPT ![r].status = IF @ = "running" THEN "failed" ELSE @]
    BY <1>4 DEF SkipRun, Hook
  <2> QED
    BY <1>1, <2>1 DEF Row
<1>5. CASE report' = report /\ published' = published /\ row' = row
  BY <1>5
<1> QED
  BY <1>3, <1>4, <1>5
     DEF Next, Step, Fault, Launch, Retry, ManualRetry, Load, LoadUnacknowledged, LoadRefused, LoadStale,
         Return, Fails, Crash, Die, Tick, Over, vars

\* A load adds itself to the writers of its weeks, and to those on record for
\* the weeks its row names; it is refused when one on record is newer.
LEMMA PublishShape ==
    ASSUME Spans, NEW r \in Runs, Publish(r), NEW w \in Weeks
    PROVE  /\ row[r].cutoff \in 0 .. MaxClock
           /\ \A x \in Runs : row'[x].cutoff = row[x].cutoff
           /\ report'[w] = IF w \in weeks[r] THEN row[r].cutoff ELSE report[w]
           /\ r \notin Writers(w)
           /\ Writers(w)' = IF w \in weeks[r] THEN Writers(w) \cup {r} ELSE Writers(w)
           /\ OnRecord(w)' = IF w \in weeks[r] \cap row[r].weeks
                             THEN OnRecord(w) \cup {r} ELSE OnRecord(w)
           /\ w \in weeks[r] => \A x \in OnRecord(w) : row[x].cutoff <= row[r].cutoff
<1>1. /\ row \in [Runs -> Row] /\ row[r].status = "running" /\ ~StaleSnapshot(r)
      /\ published \in [Runs -> SUBSET Weeks] /\ now \in Nat /\ now <= MaxClock
      /\ row' = [row EXCEPT ![r].status = "completed"]
      /\ published' = [published EXCEPT ![r] = weeks[r]]
      /\ report' = [u \in Weeks |-> IF u \in weeks[r] THEN row[r].cutoff ELSE report[u]]
      /\ SpanInStep(r)
  BY DEF Publish, Spans, Recorded, Slot, TypeOK
<1>2. /\ row'[r].status = "completed" /\ row'[r].cutoff = row[r].cutoff
      /\ row'[r].weeks = row[r].weeks /\ published'[r] = weeks[r]
      /\ \A x \in Runs \ {r} : row'[x] = row[x] /\ published'[x] = published[x]
  BY <1>1 DEF Row
<1>3. \A x \in Runs : row[x].cutoff \in Nat
  BY <1>1 DEF Row
<1>4. row[r].cutoff \in 0 .. MaxClock
  BY <1>1, <1>3, TimesAssumption DEF SpanInStep
<1>5. r \notin Writers(w)
  BY <1>1 DEF Writers
<1>6. Writers(w)' = IF w \in weeks[r] THEN Writers(w) \cup {r} ELSE Writers(w)
  BY <1>2, <1>5 DEF Writers
<1>7. OnRecord(w)' = IF w \in weeks[r] \cap row[r].weeks
                     THEN OnRecord(w) \cup {r} ELSE OnRecord(w)
  <2>1. \A x \in Runs : row'[x].weeks = row[x].weeks
    BY <1>2
  <2>2. OnRecord(w)' = {x \in Writers(w)' : w \in row'[x].weeks}
    BY DEF OnRecord
  <2>3. Writers(w) \subseteq Runs
    BY DEF Writers
  <2> QED
    BY <1>6, <2>1, <2>2, <2>3 DEF OnRecord
<1>8. ASSUME w \in weeks[r], NEW x \in OnRecord(w) PROVE row[x].cutoff <= row[r].cutoff
  <2>1. /\ x \in Runs \ {r} /\ row[x].status = "completed"
        /\ w \in row[x].weeks \cap weeks[r]
    BY <1>5, <1>8 DEF OnRecord, Writers
  <2>2. ~(row[x].cutoff > row[r].cutoff)
    BY <1>1, <2>1 DEF StaleSnapshot
  <2> QED
    BY <1>3, <2>1, <2>2
<1>9. \A x \in Runs : row'[x].cutoff = row[x].cutoff
  BY <1>2
<1>10. report'[w] = IF w \in weeks[r] THEN row[r].cutoff ELSE report[w]
  BY <1>1
<1> QED
  BY <1>4, <1>5, <1>6, <1>7, <1>8, <1>9, <1>10

\* A load writes its weeks over nothing newer that is on record.
LEMMA PublishKeepsNewest ==
    ASSUME Spans, ReportIsNewest, NEW r \in Runs, Publish(r)
    PROVE  ReportIsNewest'
<1> SUFFICES ASSUME NEW w \in Weeks
             PROVE  /\ \A x \in OnRecord(w)' : row'[x].cutoff <= report'[w]
                    /\ IF Writers(w)' = {} THEN report'[w] = 0
                       ELSE \E x \in Writers(w)' : row'[x].cutoff = report'[w]
  BY DEF ReportIsNewest
<1>1. /\ row[r].cutoff \in 0 .. MaxClock
      /\ \A x \in Runs : row'[x].cutoff = row[x].cutoff
      /\ report'[w] = IF w \in weeks[r] THEN row[r].cutoff ELSE report[w]
      /\ Writers(w)' = IF w \in weeks[r] THEN Writers(w) \cup {r} ELSE Writers(w)
      /\ OnRecord(w)' = IF w \in weeks[r] \cap row[r].weeks
                        THEN OnRecord(w) \cup {r} ELSE OnRecord(w)
      /\ w \in weeks[r] => \A x \in OnRecord(w) : row[x].cutoff <= row[r].cutoff
  BY PublishShape
<1>2. OnRecord(w) \subseteq Runs /\ Writers(w) \subseteq Runs
  BY DEF OnRecord, Writers
<1>3. CASE w \in weeks[r]
  <2>1. row[r].cutoff <= row[r].cutoff
    BY <1>1
  <2> QED
    BY <1>1, <1>2, <1>3, <2>1
<1>4. CASE w \notin weeks[r]
  <2>1. /\ \A x \in OnRecord(w) : row[x].cutoff <= report[w]
        /\ IF Writers(w) = {} THEN report[w] = 0
           ELSE \E x \in Writers(w) : row[x].cutoff = report[w]
    BY DEF ReportIsNewest
  <2> QED
    BY <1>1, <1>2, <1>4, <2>1
<1> QED
  BY <1>3, <1>4

\* A step that loads nothing leaves the report and its writers as they were.
LEMMA OtherStep ==
    ASSUME Slot, [Next]_vars, report' = report, published' = published,
           \A x \in Runs : row'[x].status = "completed" => row'[x] = row[x],
           NEW w \in Weeks
    PROVE  /\ Writers(w)' = Writers(w) /\ OnRecord(w)' = OnRecord(w)
           /\ \A x \in Writers(w) : row'[x] = row[x]
<1>1. ASSUME NEW x \in Runs, row[x].status = "completed" PROVE row'[x] = row[x]
  BY <1>1, RowStep DEF RowMove
<1>2. Writers(w)' = Writers(w)
  BY <1>1 DEF Writers
<1>3. \A x \in Writers(w) : row'[x] = row[x]
  BY <1>1 DEF Writers
<1>4. OnRecord(w)' = OnRecord(w)
  BY <1>2, <1>3 DEF OnRecord
<1> QED
  BY <1>2, <1>3, <1>4

Fresher == Spans /\ ReportIsNewest

LEMMA NewestStep == Fresher /\ [Next]_vars => Fresher'
<1> SUFFICES ASSUME Fresher, [Next]_vars PROVE ReportIsNewest'
  BY SpanStep DEF Fresher
<1>1. CASE \E r \in Runs : Publish(r)
  BY <1>1, PublishKeepsNewest DEF Fresher
<1>2. CASE /\ report' = report /\ published' = published
           /\ \A x \in Runs : row'[x].status = "completed" => row'[x] = row[x]
  <2> SUFFICES ASSUME NEW w \in Weeks
               PROVE  /\ \A x \in OnRecord(w)' : row'[x].cutoff <= report'[w]
                      /\ IF Writers(w)' = {} THEN report'[w] = 0
                         ELSE \E x \in Writers(w)' : row'[x].cutoff = report'[w]
    BY DEF ReportIsNewest
  <2>1. /\ Writers(w)' = Writers(w) /\ OnRecord(w)' = OnRecord(w)
        /\ \A x \in Writers(w) : row'[x] = row[x]
    BY <1>2, OtherStep DEF Fresher, Spans, Recorded
  <2>2. /\ \A x \in OnRecord(w) : row[x].cutoff <= report[w]
        /\ IF Writers(w) = {} THEN report[w] = 0
           ELSE \E x \in Writers(w) : row[x].cutoff = report[w]
    BY DEF Fresher, ReportIsNewest
  <2>3. OnRecord(w) \subseteq Writers(w)
    BY DEF OnRecord
  <2> QED
    BY <1>2, <2>1, <2>2, <2>3
<1> QED
  BY <1>1, <1>2, OnlyLoadsComplete DEF Fresher, Spans, Recorded

LEMMA NewestInvariant == Spec => []Fresher
<1>1. Init /\ Spans => Fresher
  BY DEF Init, Fresher, ReportIsNewest, Writers, OnRecord, NoRow
<1>2. QED
  BY <1>1, NewestStep, SpanInvariant, PTL DEF Spec

\* Every week of the report shows the snapshot of a completed run that wrote
\* it, none older than that of a run on record for the week, for any number of
\* overlapping, swept, retried and late runs.
THEOREM NewestSnapshotWins == Spec => []ReportIsNewest
<1>1. Fresher => ReportIsNewest
  BY DEF Fresher
<1>2. QED
  BY <1>1, NewestInvariant, PTL

-----------------------------------------------------------------------------
(* The promise to the report's readers *)

\* The snapshots on record for a week, as the promise sees them.
Snapshots(w) == {row[r].cutoff : r \in OnRecord(w)}

\* What a run writes and its row names are the oldest of what it writes.
LEMMA NamedAreOldest ==
    ASSUME Spans, NEW r \in Runs, pc[r] = "loading"
    PROVE  \E last \in 0 .. MaxClock :
             \A w \in weeks[r] : w \in row[r].weeks <=> w <= last
<1>1. /\ weeks[r] \in SUBSET Weeks /\ row[r].cutoff \in Nat /\ row[r].cutoff <= now
      /\ now \in Nat /\ now <= MaxClock /\ MaxClock \in Nat
      /\ SpanInStep(r) /\ row[r].status # "none"
  BY TimesAssumption DEF Spans, SpanInStep, Recorded, RowInStep, Slot, TypeOK, Row
<1>2. LastClosedWeek(MaxClock) \in Nat /\ LastClosedWeek(MaxClock) <= MaxClock
      /\ Weeks = 1 .. LastClosedWeek(MaxClock)
  <2>1. LastClosedWeek(MaxClock) \in Nat
    BY <1>1, LastType
  <2>2. LastClosedWeek(MaxClock) <= MaxClock
    <3> DEFINE last == LastClosedWeek(MaxClock)
    <3>1. last * WeekLength <= MaxClock
      BY <1>1, <2>1, LastClosed
    <3>2. last <= last * WeekLength /\ last * WeekLength \in Nat
      <4> HIDE DEF last
      <4> QED
        BY <2>1, TimesAssumption DEF last
    <3> QED
      BY <1>1, <2>1, <3>1, <3>2
  <2> QED
    BY <2>1, <2>2 DEF Weeks, LastClosedWeek
<1>3. CASE weeks[r] = row[r].weeks
  <2>1. \A w \in weeks[r] : w <= MaxClock
    BY <1>1, <1>2
  <2> QED
    BY <1>1, <1>3, <2>1
<1>4. CASE weeks[r] = ClosedWeeks(row[r].cutoff, ask[r]) /\ weeks[r] # row[r].weeks
  <2>1. PICK t \in Nat : t <= row[r].cutoff /\ row[r].weeks = ClosedWeeks(t, ask[r])
    BY <1>1 DEF SpanInStep, ComputedIn
  <2>2. ask[r] = 0
    BY <1>4, <2>1 DEF ClosedWeeks
  <2> DEFINE last == LastClosedWeek(t)
  <2>3. /\ last \in Nat /\ last <= LastClosedWeek(row[r].cutoff)
        /\ LastClosedWeek(row[r].cutoff) \in Nat
        /\ LastClosedWeek(row[r].cutoff) <= LastClosedWeek(MaxClock)
    BY <1>1, <2>1, LastType, LastMonotone
  <2>4. \A w \in weeks[r] : w \in row[r].weeks <=> w <= last
    <3> HIDE DEF last
    <3> SUFFICES ASSUME NEW w \in weeks[r] PROVE w \in row[r].weeks <=> w <= last
      OBVIOUS
    <3>1. w \in Weeks /\ w \in Nat /\ LastClosedWeek(row[r].cutoff) < w + Lookback
      BY <1>1, <1>4, <2>2, TimesAssumption DEF ClosedWeeks, Weeks
    <3>2. last < w + Lookback
      BY <2>3, <3>1, TimesAssumption
    <3>3. row[r].weeks = {u \in Weeks : u <= last /\ last < u + Lookback}
      BY <2>1, <2>2 DEF ClosedWeeks, last
    <3> QED
      BY <3>1, <3>2, <3>3
  <2>5. last \in 0 .. MaxClock
    <3> HIDE DEF last
    <3> QED
      BY <1>1, <1>2, <2>3
  <2> QED
    BY <2>4, <2>5
<1> QED
  BY <1>1, <1>3, <1>4 DEF SpanInStep

\* A load publishes closed weeks only, at a snapshot no older than any on record
\* for them, and goes on record for the weeks its row names.
LEMMA PublishIsPromised ==
    ASSUME Fresher, NEW r \in Runs, Publish(r)
    PROVE  Promise!Next
<1>1. /\ weeks \in [Runs -> SUBSET Weeks] /\ SpanInStep(r) /\ Spans /\ pc[r] = "loading"
      /\ report' = [w \in Weeks |-> IF w \in weeks[r] THEN row[r].cutoff ELSE report[w]]
  BY DEF Fresher, Spans, Recorded, Slot, TypeOK, Publish
<1>2. \A w \in Weeks :
        /\ row[r].cutoff \in 0 .. MaxClock
        /\ \A x \in Runs : row'[x].cutoff = row[x].cutoff
        /\ OnRecord(w)' = IF w \in weeks[r] \cap row[r].weeks
                          THEN OnRecord(w) \cup {r} ELSE OnRecord(w)
        /\ w \in weeks[r] => \A x \in OnRecord(w) : row[x].cutoff <= row[r].cutoff
  BY <1>1, PublishShape
<1>3. PICK last \in 0 .. MaxClock : \A w \in weeks[r] : w \in row[r].weeks <=> w <= last
  BY <1>1, NamedAreOldest
<1>4. row[r].cutoff \in 0 .. MaxClock
  BY <1>1, TimesAssumption DEF SpanInStep, Fresher, Spans, Recorded, Slot, TypeOK, Row
<1>5. ASSUME NEW w \in weeks[r]
      PROVE  w * WeekLength <= row[r].cutoff /\ \A t \in Snapshots(w) : t <= row[r].cutoff
  <2>1. ~(w * WeekLength > row[r].cutoff)
    BY <1>1, <1>5 DEF SpanInStep, TooEarly
  <2>2. w \in Weeks /\ w \in Nat /\ WeekLength \in Nat /\ row[r].cutoff \in Nat
    BY <1>1, <1>4, <1>5, TimesAssumption DEF Weeks
  <2>3. \A t \in Snapshots(w) : t <= row[r].cutoff
    BY <1>2, <1>5, <2>2 DEF Snapshots
  <2> QED
    BY <2>1, <2>2, <2>3
<1>6. ASSUME NEW w \in Weeks
      PROVE  Snapshots(w)' = IF w \in weeks[r] /\ w <= last
                             THEN Snapshots(w) \cup {row[r].cutoff} ELSE Snapshots(w)
  <2>1. w \in weeks[r] /\ w <= last <=> w \in weeks[r] \cap row[r].weeks
    BY <1>3
  <2>2. OnRecord(w) \subseteq Runs
    BY DEF OnRecord, Writers
  <2> QED
    BY <1>2, <2>1, <2>2 DEF Snapshots
<1>7. Promise!Publish(weeks[r], row[r].cutoff, last)
  <2>1. [w \in Weeks |-> Snapshots(w)]' = [w \in Weeks |->
           IF w \in weeks[r] /\ w <= last
           THEN [u \in Weeks |-> Snapshots(u)][w] \cup {row[r].cutoff}
           ELSE [u \in Weeks |-> Snapshots(u)][w]]
    BY <1>6
  <2>2. \A w \in weeks[r] : /\ w * WeekLength <= row[r].cutoff
                             /\ \A t \in [u \in Weeks |-> Snapshots(u)][w] : t <= row[r].cutoff
    BY <1>1, <1>5
  <2> QED
    BY <1>1, <2>1, <2>2 DEF Promise!Publish, Snapshots
<1> QED
  BY <1>1, <1>3, <1>4, <1>7 DEF Promise!Next

\* The run log, its sweeps and retries and the load together implement the
\* abstract report: readers only ever see whole sets of closed weeks replaced,
\* and never figures on record by older ones.
THEOREM ImplementsPromise == Spec => KeepsPromise
<1>1. Init => Promise!Init
  BY DEF Init, Promise!Init, Writers, OnRecord, NoRow
<1>2. Fresher /\ [Next]_vars
        => [Promise!Next]_<<report, [w \in Weeks |-> Snapshots(w)]>>
  <2> SUFFICES ASSUME Fresher, [Next]_vars
               PROVE  \/ Promise!Next
                      \/ /\ report' = report
                         /\ [w \in Weeks |-> Snapshots(w)]' = [w \in Weeks |-> Snapshots(w)]
    OBVIOUS
  <2>1. Slot
    BY DEF Fresher, Spans, Recorded
  <2>2. CASE \E r \in Runs : Publish(r)
    BY <2>2, PublishIsPromised
  <2>3. CASE /\ report' = report /\ published' = published
             /\ \A x \in Runs : row'[x].status = "completed" => row'[x] = row[x]
    <3>1. ASSUME NEW w \in Weeks PROVE Snapshots(w)' = Snapshots(w)
      <4>1. OnRecord(w)' = OnRecord(w) /\ \A x \in OnRecord(w) : row'[x] = row[x]
        BY <2>1, <2>3, OtherStep DEF OnRecord
      <4> QED
        BY <4>1 DEF Snapshots
    <3> QED
      BY <2>3, <3>1
  <2> QED
    BY <2>1, <2>2, <2>3, OnlyLoadsComplete
<1>3. QED
  BY <1>1, <1>2, NewestInvariant, PTL DEF Spec, KeepsPromise, Promise!Spec, Snapshots

-----------------------------------------------------------------------------
(* Whose row may be swept *)

\* A sweep takes rows that are too old or whose flow run is final.
LEMMA SweepReason ==
    ASSUME Slot, NEW r \in Runs, OpenRun(r), NEW x \in Runs \ {r}, row'[x] # row[x]
    PROVE  now - row[x].started >= AbandonAfter \/ pc[x] \in Final
<1>1. PICK answers \in BOOLEAN : row' = [SweptRows(r, answers) EXCEPT ![r] = OwnRow(r, SweptRows(r, answers))]
  BY DEF OpenRun
<1>2. row'[x] = SweptRows(r, answers)[x]
  BY <1>1 DEF SweptRows
<1>3. x \in Abandoned(r, answers)
  BY <1>2 DEF SweptRows
<1> QED
  BY <1>3 DEF Abandoned

\* A live flow run is within its own timeouts; its row, unless an operator
\* retried it, is no older than its launch and was failed by no one.
Young(r) ==
    /\ launched[r] <= now
    /\ pc[r] \in Working \cup {"hook"} => now <= launched[r] + MaxLife
    /\ r \notin retried /\ row[r].status # "none" => launched[r] <= row[r].started
    /\ r \notin retried /\ pc[r] \in {"opening", "loading", "giving_way", "waiting"}
         => row[r].status # "failed"

Alive == Recorded /\ \A r \in Runs : Young(r)

LEMMA AliveStep ==
    ASSUME MaxLife < AbandonAfter
    PROVE  Alive /\ [Next]_vars => Alive'
<1> SUFFICES ASSUME Alive, [Next]_vars, NEW x \in Runs PROVE Young(x)'
  BY RecordedStep DEF Alive
<1>1. /\ row \in [Runs -> Row] /\ pc \in [Runs -> PCs] /\ launched \in [Runs -> Nat]
      /\ now \in Nat /\ row[x].started \in Nat /\ launched[x] \in Nat
      /\ MaxLife \in Nat /\ AbandonAfter \in Nat /\ retried \subseteq Runs
      /\ Recorded /\ Slot /\ RowInStep(x) /\ Young(x) /\ TypeOK
  BY TimesAssumption DEF Alive, Recorded, Slot, TypeOK, Row
<1>2. \A status \in RowStatuses : /\ [row[x] EXCEPT !.status = status].status = status
                                  /\ [row[x] EXCEPT !.status = status].started = row[x].started
  BY <1>1, Restatus
<1>3. RowMove(x)
  BY <1>1, RowStep
<1>4. row[x].status # "none" => row'[x].started = row[x].started
  <2>1. CASE row[x].status # "none" /\ \E status \in RowStatuses : row'[x] = [row[x] EXCEPT !.status = status]
    BY <1>2, <2>1
  <2>2. CASE row[x].status = "none" \/ row'[x] = row[x]
    BY <2>2
  <2> QED
    BY <1>3, <2>1, <2>2 DEF RowMove, RowStatuses
<1>5. ASSUME NEW r \in Runs, Launch(r) PROVE Young(x)'
  <2>1. /\ launched' = [launched EXCEPT ![r] = now] /\ UNCHANGED <<now, retried, row>>
        /\ pc[r] = "idle"
    BY <1>5 DEF Launch
  <2>2. pc' = [pc EXCEPT ![r] = pc'[r]]
    <3>1. PICK asked \in Nat : Begin(r, asked)
      BY <1>5, TimesAssumption DEF Launch
    <3> QED
      BY <1>1, <3>1, BeginShape DEF Slot
  <2>3. row[r].status = "none"
    BY <2>1 DEF Alive, Recorded, RowInStep
  <2> QED
    BY <1>1, <2>1, <2>2, <2>3 DEF Young
<1>6. ASSUME NEW r \in Runs, Retry(r) PROVE Young(x)'
  <2>1. UNCHANGED <<now, retried, row, launched>> /\ pc[r] = "waiting"
    BY <1>6 DEF Retry
  <2>2. pc' = [pc EXCEPT ![r] = pc'[r]] /\ pc'[r] \in {"opening", "waiting", "hook"}
    <3>1. ask[r] \in Nat /\ Begin(r, ask[r])
      BY <1>1, <1>6 DEF Retry, TypeOK
    <3> QED
      BY <1>1, <3>1, BeginShape DEF Slot
  <2> QED
    BY <1>1, <2>1, <2>2 DEF Young, Working
<1>7. ASSUME NEW r \in Runs, ManualRetry(r) PROVE Young(x)'
  <2>1. /\ launched' = [launched EXCEPT ![r] = now] /\ UNCHANGED <<now, row>>
        /\ retried' = retried \cup {r}
    BY <1>7 DEF ManualRetry
  <2>2. pc' = [pc EXCEPT ![r] = pc'[r]]
    <3>1. ask[r] \in Nat /\ Begin(r, ask[r])
      BY <1>1, <1>7 DEF ManualRetry, TypeOK
    <3> QED
      BY <1>1, <3>1, BeginShape DEF Slot
  <2> QED
    BY <1>1, <2>1, <2>2 DEF Young
<1>8. ASSUME NEW r \in Runs, OpenRun(r) PROVE Young(x)'
  <2>1. /\ pc' = [pc EXCEPT ![r] = pc'[r]] /\ pc[r] = "opening" /\ OpenEnd(r) /\ OwnMove(r)
        /\ UNCHANGED <<now, launched, retried>>
    BY <1>1, <1>8, OpenShape DEF Slot
  <2>2. CASE x = r
    <3>1. row[x].status = "none" /\ row'[x].status # "none" => row'[x].started = now
      <4>1. OwnMove(x)
        BY <2>1, <2>2
      <4> QED
        BY <1>2, <4>1 DEF OwnMove, Fresh
    <3>2. OpenEnd(x) /\ pc[x] = "opening"
      BY <2>1, <2>2
    <3>3. r \notin retried /\ row'[x].status # "none" => launched[x] <= row'[x].started
      BY <1>1, <1>4, <2>2, <3>1 DEF Young
    <3> QED
      BY <1>1, <2>1, <2>2, <3>2, <3>3 DEF Young, OpenEnd, Working
  <2>3. CASE x # r
    <3>1. row'[x] = row[x] \/ SweptFrom(x)
      BY <1>1, <1>8, <2>3, OpenShape DEF Slot
    <3>2. CASE row'[x] = row[x]
      BY <1>1, <2>1, <2>3, <3>2 DEF Young
    <3>3. CASE row'[x] # row[x]
      <4>1. now - row[x].started >= AbandonAfter \/ pc[x] \in Final
        BY <1>1, <1>8, <2>3, <3>3, SweepReason
      <4>2. row[x].status = "running" /\ row'[x].started = row[x].started
        BY <1>4, <3>1, <3>3 DEF SweptFrom
      <4>3. ~(x \notin retried /\ pc[x] \in {"opening", "loading", "giving_way", "waiting"})
        <5> SUFFICES ASSUME x \notin retried, pc[x] \in {"opening", "loading", "giving_way", "waiting"}
                     PROVE  FALSE
          OBVIOUS
        <5>1. now <= launched[x] + MaxLife /\ launched[x] <= row[x].started
          BY <1>1, <4>2 DEF Young, Working
        <5>2. now - row[x].started >= AbandonAfter
          BY <4>1 DEF Final
        <5> QED
          BY <1>1, <5>1, <5>2
      <4> QED
        BY <1>1, <2>1, <2>3, <4>2, <4>3 DEF Young
    <3> QED
      BY <3>2, <3>3
  <2> QED
    BY <2>2, <2>3
<1>9. ASSUME NEW r \in Runs, Load(r) \/ LoadUnacknowledged(r) PROVE Young(x)'
  <2>1. /\ pc[r] = "loading" /\ row[r].status = "running"
        /\ row' = [row EXCEPT ![r].status = "completed"]
        /\ pc' = pc \/ pc' = [pc EXCEPT ![r] = "loaded"]
        /\ UNCHANGED <<now, launched, retried>>
    BY <1>9 DEF Load, LoadUnacknowledged, Publish, Goto, flow
  <2>2. row'[x].status = "failed" => row[x].status = "failed"
    BY <1>1, <2>1 DEF Row
  <2>3. row'[x].status # "none" => row[x].status # "none"
    BY <1>1, <2>1
  <2> QED
    BY <1>1, <1>4, <2>1, <2>2, <2>3 DEF Young, Working
<1>10. ASSUME NEW r \in Runs, LoadRefused(r) \/ LoadStale(r) \/ Return(r) \/ Fails(r) \/ Crash(r) \/ Die(r)
       PROVE Young(x)'
  <2>1. UNCHANGED <<now, row, launched, retried>>
    BY <1>10 DEF LoadRefused, LoadStale, Return, Fails, Crash, Die, flow
  <2>2. pc'[x] \in Working \cup {"hook"} => pc[x] \in Working \cup {"hook"}
    BY <1>1, <1>10 DEF LoadRefused, LoadStale, Return, Fails, Crash, Die, AttemptFailed, Goto, Working
  <2>3. pc'[x] \in {"opening", "loading", "giving_way", "waiting"} /\ pc[x] # "loaded"
          => pc[x] \in {"opening", "loading", "giving_way", "waiting"}
    BY <1>1, <1>10 DEF LoadRefused, LoadStale, Return, Fails, Crash, Die, AttemptFailed, Goto, Working
  <2> QED
    BY <1>1, <2>1, <2>2, <2>3 DEF Young, RowInStep
<1>11. ASSUME NEW r \in Runs, SkipRun(r) \/ Hook(r) PROVE Young(x)'
  <2>1. /\ UNCHANGED <<now, launched, retried>> /\ pc[r] \in {"giving_way", "hook"}
        /\ pc' = [pc EXCEPT ![r] = "cancelled"] \/ pc' = [pc EXCEPT ![r] = "failed"]
    BY <1>11 DEF SkipRun, Hook, Goto, flow
  <2>2. row'[x].status # "none" => row[x].status # "none"
    BY <1>1, <1>11 DEF SkipRun, Hook, Row
  <2>3. x # r => row'[x] = row[x]
    BY <1>1, <1>11 DEF SkipRun, Hook
  <2> QED
    BY <1>1, <1>4, <2>1, <2>2, <2>3 DEF Young, Working
<1>12. CASE Tick
  <2>1. UNCHANGED <<launched, retried, row, pc>> /\ now' = now + 1
        /\ (pc[x] \in Working \cup {"hook"} => now < launched[x] + MaxLife)
    BY <1>12 DEF Tick, flow
  <2> QED
    BY <1>1, <2>1 DEF Young
<1>13. CASE Over \/ UNCHANGED vars
  BY <1>1, <1>13 DEF Over, vars, flow, Young
<1> QED
  BY <1>5, <1>6, <1>7, <1>8, <1>9, <1>10, <1>11, <1>12, <1>13 DEF Next, Step, Fault

\* When a flow run cannot outlive ABANDON_AFTER, a live one loses its row to
\* another run's sweep only if an operator retried it: whatever Prefect
\* answers, no first life is swept.
THEOREM NoFirstLifeIsSwept == ASSUME MaxLife < AbandonAfter PROVE Spec => []OnlyRetriedRunsAreSwept
<1>1. Init /\ Recorded => Alive
  <2> SUFFICES ASSUME Init, Recorded, NEW r \in Runs PROVE Young(r)
    BY DEF Alive
  <2> QED
    BY TimesAssumption DEF Init, Young, NoRow, Working
<1>2. Alive => OnlyRetriedRunsAreSwept
  BY DEF Alive, Young, OnlyRetriedRunsAreSwept
<1>3. QED
  BY <1>1, <1>2, AliveStep, RecordedInvariant, PTL DEF Spec

\* The state of the runs, the run log and the report is always well formed.
THEOREM RunsAreWellFormed == Spec => []TypeOK
<1>1. Slot => TypeOK
  BY DEF Slot
<1>2. QED
  BY <1>1, SlotInvariant, PTL
=============================================================================
