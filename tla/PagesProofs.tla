---------------------------- MODULE PagesProofs ----------------------------
(***************************************************************************)
(* Proofs about the pages of the browser, for any data, any number of      *)
(* requests and any number of changes made elsewhere.  A page is on screen *)
(* alone, so each keeps an invariant of its own: first how a step of all   *)
(* of them is a step of the one on screen, then one section per page.      *)
(***************************************************************************)
EXTENDS Pages, Integers, Sequences, TLAPS

\* The page on screen starts in one of its own initial states ...
LEMMA OpensOnePage ==
    ASSUME Init
    PROVE  /\ screen = "incidents" => IncidentList!Init
           /\ screen = "report" => ReportForm!Init
           /\ screen = "suppliers" => SupplierList!Init
           /\ screen = "order" => OrderForm!Init
           /\ screen = "dashboard" => Dashboard!Init
           /\ screen = "account" => AccountForm!Init
           /\ screen = "candidate" => CandidatePage!Init
  BY DEF Init, OnIncidentList, OnReportForm, OnSupplierList, OnOrderForm, OnInventoryList,
         OnDashboard, OnAccountForm, OnCandidateList, OnCandidatePage

\* ... and takes its own steps, and stays on screen.
LEMMA StepsOfOnePage ==
    ASSUME [Next]_vars
    PROVE  /\ screen' = screen
           /\ screen = "incidents" => [IncidentList!Next]_(IncidentList!vars)
           /\ screen = "report" => [ReportForm!Next]_(ReportForm!vars)
           /\ screen = "suppliers" => [SupplierList!Next]_(SupplierList!vars)
           /\ screen = "order" => [OrderForm!Next]_(OrderForm!vars)
           /\ screen = "dashboard" => [Dashboard!Next]_(Dashboard!vars)
           /\ screen = "account" => [AccountForm!Next]_(AccountForm!vars)
           /\ screen = "candidate" => [CandidatePage!Next]_(CandidatePage!vars)
<1>1. CASE UNCHANGED vars
  BY <1>1
     DEF vars, incidentListOnly, reportFormOnly, supplierListOnly, orderFormOnly,
         inventoryListOnly, dashboardOnly, accountFormOnly, candidateListOnly,
         candidatePageOnly, IncidentList!vars, IncidentList!storeVars, IncidentList!listVars,
         IncidentList!summaryVars, ReportForm!vars, ReportForm!answerVars, SupplierList!vars,
         SupplierList!rowVars, SupplierList!formVars, OrderForm!vars, OrderForm!world,
         OrderForm!listVars, OrderForm!messageVars, OrderForm!stockVars, Dashboard!vars,
         AccountForm!vars, AccountForm!shown, CandidatePage!vars, CandidatePage!recordVars,
         CandidatePage!noteVars
<1>2. CASE Next
  BY <1>2
     DEF Next, IncidentListSteps, ReportFormSteps, SupplierListSteps, OrderFormSteps,
         InventoryListSteps, DashboardSteps, AccountFormSteps, CandidateListSteps,
         CandidatePageSteps, OutsideIncidentList, OutsideReportForm, OutsideSupplierList,
         OutsideOrderForm, OutsideInventoryList, OutsideDashboard, OutsideAccountForm,
         OutsideCandidateList, OutsideCandidatePage
<1> QED
  BY <1>1, <1>2

-----------------------------------------------------------------------------
(* Reads, as every page keeps them: superseded, answered. *)

IsRead(r) == DOMAIN r = {"of", "active", "served", "answer"}
Supersede(r) == [r EXCEPT !.active = FALSE]
Answer(r, answer) == [r EXCEPT !.served = TRUE, !.answer = answer]

LEMMA SupersededRead ==
    ASSUME NEW r, IsRead(r)
    PROVE  /\ IsRead(Supersede(r)) /\ ~Supersede(r).active
           /\ Supersede(r).of = r.of /\ Supersede(r).served = r.served
           /\ Supersede(r).answer = r.answer
  BY DEF IsRead, Supersede

LEMMA AnsweredRead ==
    ASSUME NEW r, IsRead(r), NEW answer
    PROVE  /\ IsRead(Answer(r, answer)) /\ Answer(r, answer).served
           /\ Answer(r, answer).of = r.of /\ Answer(r, answer).active = r.active
           /\ Answer(r, answer).answer = answer
  BY DEF IsRead, Answer

-----------------------------------------------------------------------------
(* The incident list: which filters its rows were read under. *)

\* Only a read under the filters of the page can still be heard.
FiltersInv ==
    /\ \A r \in listReads : IsRead(r) /\ (r.active => r.of = filters)
    /\ listStatus = "success" => shownFor = filters

LEMMA ListReload ==
    ASSUME \A r \in listReads : IsRead(r), NEW f, IncidentList!Reload(f)
    PROVE  /\ \A r \in listReads' : IsRead(r) /\ (r.active => r.of = f)
           /\ listStatus' = "loading"
<1> DEFINE new == IncidentList!Read(f, IncidentList!NoRows)
<1>1. listReads' = {Supersede(r) : r \in listReads} \cup {new} /\ listStatus' = "loading"
  BY DEF IncidentList!Reload, IncidentList!Superseded, Supersede
<1>2. IsRead(new) /\ new.of = f
  BY DEF IncidentList!Read, IsRead
<1> HIDE DEF new
<1> QED
  BY <1>1, <1>2, SupersededRead

LEMMA FiltersStep == FiltersInv /\ [IncidentList!Next]_(IncidentList!vars) => FiltersInv'
<1> SUFFICES ASSUME FiltersInv, [IncidentList!Next]_(IncidentList!vars) PROVE FiltersInv'
  OBVIOUS
<1>1. CASE \/ \E key \in DOMAIN FilterValues : \E v \in FilterValues[key] \cup {""} :
                 IncidentList!UpdateQueryFilter(key, v)
           \/ IncidentList!ClearFilters \/ IncidentList!Retry
  <2>1. IncidentList!Reload(filters')
    BY <1>1 DEF IncidentList!UpdateQueryFilter, IncidentList!ClearFilters, IncidentList!Retry
  <2> QED
    BY <2>1, ListReload DEF FiltersInv
<1>2. ASSUME NEW r \in listReads, IncidentList!ApiLists(r) PROVE FiltersInv'
  <2> DEFINE answered == Answer(r, IncidentList!Listed(r.of))
  <2>1. /\ listReads' = (listReads \ {r}) \cup {answered}
        /\ UNCHANGED <<filters, listStatus, shownFor>>
    BY <1>2 DEF IncidentList!ApiLists, IncidentList!Answered, Answer
  <2>2. IsRead(answered) /\ answered.of = r.of /\ answered.active = r.active
    BY AnsweredRead DEF FiltersInv
  <2> HIDE DEF answered
  <2> QED
    BY <2>1, <2>2 DEF FiltersInv
<1>3. ASSUME NEW r \in listReads, IncidentList!HearList(r) \/ IncidentList!ListFails(r)
      PROVE  FiltersInv'
  BY <1>3 DEF IncidentList!HearList, IncidentList!ShowRows, IncidentList!ListFails, FiltersInv
<1>4. CASE \/ IncidentList!RetrySummary
           \/ \E i \in Incidents : IncidentList!Elsewhere(i)
           \/ \E i \in Incidents : \E s \in IncidentList!Statuses : IncidentList!ChooseStatus(i, s)
           \/ \E r \in summaryReads : \/ IncidentList!ApiCounts(r) \/ IncidentList!HearSummary(r)
                                      \/ IncidentList!SummaryFails(r)
           \/ \E m \in moves : \/ IncidentList!ApiMoves(m) \/ IncidentList!HearDone(m)
                               \/ IncidentList!MoveFails(m)
           \/ UNCHANGED IncidentList!vars
  <2>1. UNCHANGED <<filters, listReads, listStatus, shownFor>>
    BY <1>4
       DEF IncidentList!RetrySummary, IncidentList!Elsewhere, IncidentList!ChooseStatus,
           IncidentList!ApiCounts, IncidentList!HearSummary, IncidentList!SummaryFails,
           IncidentList!ApiMoves, IncidentList!HearDone, IncidentList!MoveFails,
           IncidentList!listVars, IncidentList!vars
  <2> QED
    BY <2>1 DEF FiltersInv
<1> QED
  BY <1>1, <1>2, <1>3, <1>4 DEF IncidentList!Next, IncidentList!Hear

\* However the answers to earlier filters arrive, a settled table was read under the
\* filters it names.
THEOREM RowsAreOfTheFilters == Spec => []ListMatchesFilters
<1> DEFINE Inv == screen = "incidents" => FiltersInv
<1>1. Init => Inv
  <2> SUFFICES ASSUME IncidentList!Init PROVE FiltersInv
    BY OpensOnePage
  <2> DEFINE first == IncidentList!Read(IncidentList!NoFilters, IncidentList!NoRows)
  <2>1. IsRead(first) /\ first.of = IncidentList!NoFilters
    BY DEF IncidentList!Read, IsRead
  <2>2. /\ listReads = {first} /\ listStatus = "loading" /\ filters = IncidentList!NoFilters
    BY DEF IncidentList!Init
  <2> HIDE DEF first
  <2> QED
    BY <2>1, <2>2 DEF FiltersInv
<1>2. Inv /\ [Next]_vars => Inv'
  BY StepsOfOnePage, FiltersStep
<1>3. Inv => ListMatchesFilters
  BY DEF FiltersInv, ListMatchesFilters, IncidentList!ListMatchesFilters
<1> QED
  BY <1>1, <1>2, <1>3, PTL DEF Spec

-----------------------------------------------------------------------------
(* The incident list: its status changes, as all proofs below need them. *)

IsMove(m) ==
    DOMAIN m = {"incident", "from", "to", "answer", "change", "heard", "mounted"}
MoveAnswered(m, answer, change) == [m EXCEPT !.answer = answer, !.change = change]
MoveRefused(m, answer) == [m EXCEPT !.answer = answer]
GivenUp(m) == [m EXCEPT !.heard = FALSE, !.mounted = FALSE]
Remounted(m, here) == [m EXCEPT !.mounted = here]

\* What a step does to a status change that stays under way: who sent it, of what and to
\* what never changes.
SameMove(m, n) ==
    /\ IsMove(n) /\ n.incident = m.incident /\ n.from = m.from /\ n.to = m.to

LEMMA MovesKeep ==
    ASSUME NEW m, IsMove(m)
    PROVE  /\ \A answer, change :
                 /\ SameMove(m, MoveAnswered(m, answer, change))
                 /\ MoveAnswered(m, answer, change).answer = answer
                 /\ MoveAnswered(m, answer, change).change = change
                 /\ MoveAnswered(m, answer, change).heard = m.heard
                 /\ MoveAnswered(m, answer, change).mounted = m.mounted
           /\ \A answer :
                 /\ SameMove(m, MoveRefused(m, answer))
                 /\ MoveRefused(m, answer).answer = answer
                 /\ MoveRefused(m, answer).change = m.change
                 /\ MoveRefused(m, answer).heard = m.heard
                 /\ MoveRefused(m, answer).mounted = m.mounted
           /\ \A here :
                 /\ SameMove(m, Remounted(m, here))
                 /\ Remounted(m, here).answer = m.answer
                 /\ Remounted(m, here).change = m.change
                 /\ Remounted(m, here).heard = m.heard
           /\ SameMove(m, GivenUp(m)) /\ ~GivenUp(m).heard
           /\ GivenUp(m).answer = m.answer /\ GivenUp(m).change = m.change
  BY DEF IsMove, MoveAnswered, MoveRefused, GivenUp, Remounted, SameMove

\* The three things the API makes of a status change, by what is left of it.
LEMMA ApiMovesCases ==
    ASSUME NEW m \in moves, IncidentList!ApiMoves(m)
    PROVE  \/ /\ IncidentList!Stores(m.incident, m.to) /\ m.heard
              /\ moves' = (moves \ {m}) \cup {MoveAnswered(m, "done", changes')}
           \/ IncidentList!Stores(m.incident, m.to) /\ ~m.heard /\ moves' = moves \ {m}
           \/ /\ UNCHANGED <<stored, changes, had>>
              /\ \/ ~m.heard /\ moves' = moves \ {m}
                 \/ /\ m.heard
                    /\ \E answer \in {"gone", "refused"} :
                          moves' = (moves \ {m}) \cup {MoveRefused(m, answer)}
  BY DEF IncidentList!ApiMoves, IncidentList!storeVars, MoveAnswered, MoveRefused

-----------------------------------------------------------------------------
(* The incident list: its figures. *)

\* A count that can still be heard, or is shown, was made after the last change that this
\* tab heard of: hearing of a change supersedes the counts under way.
ChangesCounted ==
    /\ changes \in Nat /\ confirmed \in 0 .. changes
    /\ \A m \in moves : IsMove(m) /\ (m.answer = "done" => m.change \in 0 .. changes)
CountsCover ==
    \A r \in summaryReads :
       IsRead(r) /\ (r.served => r.answer \in Nat /\ (r.active => confirmed <= r.answer))
FiguresCover == summaryStatus = "success" => summary \in Nat /\ confirmed <= summary
SummaryInv == ChangesCounted /\ CountsCover /\ FiguresCover

LEMMA SummaryIsRead ==
    ASSUME CountsCover, IncidentList!ReadSummary
    PROVE  CountsCover' /\ FiguresCover'
<1> DEFINE new == IncidentList!Read("summary", 0)
<1>1. summaryReads' = {Supersede(r) : r \in summaryReads} \cup {new} /\ summaryStatus' = "loading"
  BY DEF IncidentList!ReadSummary, IncidentList!Superseded, Supersede
<1>2. IsRead(new) /\ ~new.served
  BY DEF IncidentList!Read, IsRead
<1>3. ASSUME NEW r \in summaryReads
      PROVE  /\ IsRead(Supersede(r)) /\ ~Supersede(r).active
             /\ Supersede(r).served => Supersede(r).answer \in Nat
  BY SupersededRead DEF CountsCover
<1> HIDE DEF new
<1> QED
  BY <1>1, <1>2, <1>3 DEF CountsCover, FiguresCover

LEMMA SummaryStep == SummaryInv /\ [IncidentList!Next]_(IncidentList!vars) => SummaryInv'
<1> SUFFICES ASSUME SummaryInv, [IncidentList!Next]_(IncidentList!vars) PROVE SummaryInv'
  OBVIOUS
<1> USE DEF SummaryInv
<1>1. ASSUME UNCHANGED <<summaryReads, summaryStatus, summary, confirmed>>
      PROVE  CountsCover' /\ FiguresCover'
  BY <1>1 DEF CountsCover, FiguresCover
<1>2. ASSUME UNCHANGED <<changes, moves, confirmed>> PROVE ChangesCounted'
  BY <1>2 DEF ChangesCounted
<1>3. CASE \/ IncidentList!ClearFilters \/ IncidentList!Retry
           \/ \E key \in DOMAIN FilterValues : \E v \in FilterValues[key] \cup {""} :
                 IncidentList!UpdateQueryFilter(key, v)
           \/ \E r \in listReads : IncidentList!ApiLists(r) \/ IncidentList!ListFails(r)
           \/ UNCHANGED IncidentList!vars
  <2>1. UNCHANGED <<changes, moves, confirmed, summaryReads, summaryStatus, summary>>
    BY <1>3
       DEF IncidentList!ClearFilters, IncidentList!Retry, IncidentList!UpdateQueryFilter,
           IncidentList!Reload, IncidentList!ApiLists, IncidentList!ListFails,
           IncidentList!storeVars, IncidentList!listVars, IncidentList!summaryVars,
           IncidentList!vars
  <2> QED
    BY <2>1, <1>1, <1>2
<1>4. ASSUME NEW r \in listReads, IncidentList!HearList(r) PROVE SummaryInv'
  <2>1. UNCHANGED <<changes, confirmed, summaryReads, summaryStatus, summary>>
    BY <1>4 DEF IncidentList!HearList, IncidentList!storeVars, IncidentList!summaryVars
  <2>2. \/ UNCHANGED moves
        \/ moves' = {Remounted(m, m.mounted /\ r.answer[m.incident] # "absent") : m \in moves}
    BY <1>4 DEF IncidentList!HearList, IncidentList!ShowRows, Remounted
  <2>3. ASSUME NEW m \in moves, NEW here
        PROVE  /\ IsMove(Remounted(m, here))
               /\ Remounted(m, here).answer = "done" => Remounted(m, here).change \in 0 .. changes
    BY MovesKeep DEF ChangesCounted, SameMove
  <2>4. ChangesCounted'
    BY <2>1, <2>2, <2>3 DEF ChangesCounted
  <2> QED
    BY <2>1, <2>4, <1>1
<1>5. ASSUME NEW i, NEW s, IncidentList!ChooseStatus(i, s) PROVE SummaryInv'
  <2> DEFINE new == [incident |-> i, from |-> rows[i], to |-> s, answer |-> "none",
                     change |-> 0, heard |-> TRUE, mounted |-> TRUE]
  <2>1. /\ moves' = moves \cup {new}
        /\ UNCHANGED <<changes, confirmed, summaryReads, summaryStatus, summary>>
    BY <1>5 DEF IncidentList!ChooseStatus, IncidentList!storeVars, IncidentList!summaryVars
  <2>2. IsMove(new) /\ new.answer = "none"
    BY DEF IsMove
  <2> HIDE DEF new
  <2>3. ChangesCounted'
    BY <2>1, <2>2 DEF ChangesCounted
  <2> QED
    BY <2>1, <2>3, <1>1
<1>6. ASSUME NEW m \in moves, IncidentList!ApiMoves(m) PROVE SummaryInv'
  <2>1. UNCHANGED <<confirmed, summaryReads, summaryStatus, summary>>
    BY <1>6 DEF IncidentList!ApiMoves, IncidentList!summaryVars
  <2>2. \/ changes' = changes + 1 /\ moves' \subseteq moves \cup {MoveAnswered(m, "done", changes')}
        \/ /\ changes' = changes
           /\ \E answer \in {"gone", "refused"} :
                 moves' \subseteq moves \cup {MoveRefused(m, answer)}
    BY <1>6, ApiMovesCases DEF IncidentList!Stores
  <2>3. IsMove(m)
    BY DEF ChangesCounted
  <2>4. /\ IsMove(MoveAnswered(m, "done", changes'))
        /\ MoveAnswered(m, "done", changes').change = changes'
        /\ \A answer : IsMove(MoveRefused(m, answer)) /\ MoveRefused(m, answer).answer = answer
    BY <2>3, MovesKeep DEF SameMove
  <2>5. ChangesCounted'
    BY <2>1, <2>2, <2>4 DEF ChangesCounted
  <2> QED
    BY <2>1, <2>5, <1>1
<1>7. ASSUME NEW m \in moves, IncidentList!HearDone(m) PROVE SummaryInv'
  <2>1. CountsCover' /\ FiguresCover'
    BY <1>7, SummaryIsRead DEF IncidentList!HearDone
  <2>2. /\ moves' = moves \ {m} /\ changes' = changes /\ m.answer = "done"
        /\ confirmed' = IF confirmed < m.change THEN m.change ELSE confirmed
    BY <1>7 DEF IncidentList!HearDone, IncidentList!storeVars
  <2>3. ChangesCounted'
    BY <2>2 DEF ChangesCounted
  <2> QED
    BY <2>1, <2>3
<1>8. ASSUME NEW m \in moves, IncidentList!MoveFails(m) PROVE SummaryInv'
  <2>1. /\ UNCHANGED <<changes, confirmed, summaryReads, summaryStatus, summary>>
        /\ moves' \subseteq moves \cup (IF m.answer = "none" THEN {GivenUp(m)} ELSE {})
    BY <1>8 DEF IncidentList!MoveFails, IncidentList!storeVars, IncidentList!summaryVars, GivenUp
  <2>2. IsMove(GivenUp(m)) /\ GivenUp(m).answer = m.answer
    BY MovesKeep DEF ChangesCounted, SameMove
  <2>3. ChangesCounted'
    BY <2>1, <2>2 DEF ChangesCounted
  <2> QED
    BY <2>1, <2>3, <1>1
<1>9. CASE IncidentList!RetrySummary
  <2>1. IncidentList!ReadSummary /\ UNCHANGED <<changes, moves, confirmed>>
    BY <1>9 DEF IncidentList!RetrySummary, IncidentList!storeVars, IncidentList!listVars
  <2> QED
    BY <2>1, <1>2, SummaryIsRead
<1>10. ASSUME NEW r \in summaryReads, IncidentList!ApiCounts(r) PROVE SummaryInv'
  <2> DEFINE answered == Answer(r, changes)
  <2>1. /\ summaryReads' = (summaryReads \ {r}) \cup {answered}
        /\ UNCHANGED <<changes, moves, confirmed, summary, summaryStatus>>
    BY <1>10
       DEF IncidentList!ApiCounts, IncidentList!Answered, IncidentList!storeVars,
           IncidentList!listVars, Answer
  <2>2. IsRead(answered) /\ answered.answer = changes
    BY AnsweredRead DEF CountsCover
  <2>3. changes \in Nat /\ confirmed <= changes
    BY DEF ChangesCounted
  <2> HIDE DEF answered
  <2>4. CountsCover' /\ FiguresCover'
    BY <2>1, <2>2, <2>3 DEF CountsCover, FiguresCover
  <2> QED
    BY <2>1, <2>4, <1>2
<1>11. ASSUME NEW r \in summaryReads, IncidentList!HearSummary(r) \/ IncidentList!SummaryFails(r)
       PROVE  SummaryInv'
  <2>1. summaryReads' = summaryReads \ {r} /\ UNCHANGED <<changes, moves, confirmed>>
    BY <1>11 DEF IncidentList!HearSummary, IncidentList!SummaryFails, IncidentList!storeVars,
                 IncidentList!listVars
  <2>2. CountsCover'
    BY <2>1 DEF CountsCover
  <2>3. FiguresCover'
    BY <1>11, <2>1 DEF IncidentList!HearSummary, IncidentList!SummaryFails, CountsCover,
                       FiguresCover
  <2> QED
    BY <2>1, <2>2, <2>3, <1>2
<1>12. ASSUME NEW i, IncidentList!Elsewhere(i) PROVE SummaryInv'
  <2>1. /\ changes' = changes + 1
        /\ UNCHANGED <<moves, confirmed, summaryReads, summaryStatus, summary>>
    BY <1>12 DEF IncidentList!Elsewhere, IncidentList!Stores, IncidentList!listVars,
                 IncidentList!summaryVars
  <2>2. ChangesCounted'
    BY <2>1 DEF ChangesCounted
  <2> QED
    BY <2>1, <2>2, <1>1
<1> QED
  BY <1>3, <1>4, <1>5, <1>6, <1>7, <1>8, <1>9, <1>10, <1>11, <1>12
     DEF IncidentList!Next, IncidentList!Hear

\* However counts and confirmations cross, the figures at rest count every change this tab
\* was told had succeeded.
THEOREM FiguresCountConfirmed == Spec => []SummaryCoversConfirmed
<1> DEFINE Inv == screen = "incidents" => SummaryInv
<1>1. Init => Inv
  <2> SUFFICES ASSUME IncidentList!Init PROVE SummaryInv
    BY OpensOnePage
  <2> DEFINE first == IncidentList!Read("summary", 0)
  <2>1. IsRead(first) /\ ~first.served
    BY DEF IncidentList!Read, IsRead
  <2>2. /\ summaryReads = {first} /\ summaryStatus = "loading" /\ moves = {}
        /\ changes = 0 /\ confirmed = 0
    BY DEF IncidentList!Init
  <2> HIDE DEF first
  <2> QED
    BY <2>1, <2>2 DEF SummaryInv, ChangesCounted, CountsCover, FiguresCover
<1>2. Inv /\ [Next]_vars => Inv'
  BY StepsOfOnePage, SummaryStep
<1>3. Inv => SummaryCoversConfirmed
  BY DEF SummaryInv, FiguresCover, ChangesCounted, SummaryCoversConfirmed,
         IncidentList!SummaryCoversConfirmed
<1> QED
  BY <1>1, <1>2, <1>3, PTL DEF Spec

-----------------------------------------------------------------------------
(* The incident list: the statuses its rows show. *)

\* What the API holds, what it answers, and what a row goes back to or is confirmed with,
\* are statuses the incident really held.
StoreInv ==
    /\ DOMAIN stored = Incidents /\ DOMAIN had = Incidents /\ DOMAIN rows = Incidents
    /\ \A i \in Incidents : stored[i] \in had[i]
AnswersHeld ==
    \A r \in listReads :
       IsRead(r) /\ \A i \in Incidents : r.answer[i] \in had[i] \cup {"absent"}
AnswersWhole == \A r \in listReads : IsRead(r) /\ DOMAIN r.answer = Incidents
MovesHeld ==
    \A m \in moves :
       /\ IsMove(m) /\ m.incident \in Incidents
       /\ m.heard => m.from \in had[m.incident]
       /\ m.answer = "done" => m.to \in had[m.incident]

\* Only the change that a row's own control sent can be on screen ahead of the API.
RowsHeld ==
    \A i \in Incidents :
       \/ rows[i] \in had[i] \cup {"absent"}
       \/ \E m \in moves : m.incident = i /\ m.heard /\ m.mounted

RowsInv == StoreInv /\ AnswersWhole /\ AnswersHeld /\ MovesHeld /\ RowsHeld

\* A status once held stays held, so statuses that arrive later only add to what holds.
LEMMA StoresKeep ==
    ASSUME RowsInv, NEW i \in Incidents, NEW s, IncidentList!Stores(i, s), UNCHANGED rows
    PROVE  /\ StoreInv' /\ s \in had'[i]
           /\ \A j \in Incidents : had[j] \subseteq had'[j]
<1>1. /\ stored' = [stored EXCEPT ![i] = s]
      /\ had' = [had EXCEPT ![i] = had[i] \cup {s}]
  BY DEF IncidentList!Stores
<1> QED
  BY <1>1 DEF RowsInv, StoreInv

LEMMA ListReloadWhole ==
    ASSUME RowsInv, NEW f, IncidentList!Reload(f)
    PROVE  RowsInv'
<1> DEFINE new == IncidentList!Read(f, IncidentList!NoRows)
<1>1. /\ listReads' = {Supersede(r) : r \in listReads} \cup {new}
      /\ UNCHANGED <<stored, had, rows, moves>>
  BY DEF IncidentList!Reload, IncidentList!Superseded, IncidentList!storeVars, Supersede
<1>2. IsRead(new) /\ new.answer = [i \in Incidents |-> "absent"]
  BY DEF IncidentList!Read, IncidentList!NoRows, IsRead
<1>3. \A r \in listReads : IsRead(Supersede(r)) /\ Supersede(r).answer = r.answer
  BY SupersededRead DEF RowsInv, AnswersWhole
<1> HIDE DEF new
<1>4. AnswersWhole' /\ AnswersHeld'
  BY <1>1, <1>2, <1>3 DEF RowsInv, AnswersWhole, AnswersHeld
<1> QED
  BY <1>1, <1>4 DEF RowsInv, StoreInv, MovesHeld, RowsHeld

\* The rows are replaced by an answer: whatever its controls were doing, they hold.
LEMMA RowsReplaced ==
    ASSUME RowsInv, NEW r \in listReads, IncidentList!HearList(r)
    PROVE  RowsInv'
<1>1. listReads' = listReads \ {r} /\ UNCHANGED <<stored, had>>
  BY DEF IncidentList!HearList, IncidentList!storeVars
<1>2. AnswersWhole' /\ AnswersHeld'
  BY <1>1 DEF RowsInv, AnswersWhole, AnswersHeld
<1>3. CASE r.active
  <2>1. /\ rows' = r.answer
        /\ moves' = {Remounted(m, m.mounted /\ r.answer[m.incident] # "absent") : m \in moves}
    BY <1>3 DEF IncidentList!HearList, IncidentList!ShowRows, Remounted
  <2>2. StoreInv' /\ RowsHeld'
    BY <1>1, <2>1 DEF RowsInv, StoreInv, AnswersWhole, AnswersHeld, RowsHeld
  <2>3. ASSUME NEW m \in moves, NEW here
        PROVE  /\ IsMove(Remounted(m, here)) /\ Remounted(m, here).incident \in Incidents
               /\ Remounted(m, here).heard =>
                     Remounted(m, here).from \in had[Remounted(m, here).incident]
               /\ Remounted(m, here).answer = "done" =>
                     Remounted(m, here).to \in had[Remounted(m, here).incident]
    BY MovesKeep DEF RowsInv, MovesHeld, SameMove
  <2>4. MovesHeld'
    BY <1>1, <2>1, <2>3 DEF MovesHeld
  <2> QED
    BY <1>2, <2>2, <2>4 DEF RowsInv
<1>4. CASE ~r.active
  <2>1. UNCHANGED <<rows, moves>>
    BY <1>4 DEF IncidentList!HearList
  <2> QED
    BY <1>1, <1>2, <2>1 DEF RowsInv, StoreInv, MovesHeld, RowsHeld
<1> QED
  BY <1>3, <1>4

\* A row moves ahead of the API only when no change of its own control is under way, so
\* what it would go back to was really held.
LEMMA RowMoves ==
    ASSUME RowsInv, NEW i \in Incidents, NEW s, IncidentList!ChooseStatus(i, s)
    PROVE  RowsInv'
<1> DEFINE new == [incident |-> i, from |-> rows[i], to |-> s, answer |-> "none",
                   change |-> 0, heard |-> TRUE, mounted |-> TRUE]
<1>1. /\ moves' = moves \cup {new} /\ rows' = [rows EXCEPT ![i] = s]
      /\ UNCHANGED <<stored, had, listReads>>
      /\ i \in IncidentList!InTable /\ s \in IncidentList!Offered(i)
  BY DEF IncidentList!ChooseStatus, IncidentList!storeVars
<1>2. /\ IsMove(new) /\ new.incident = i /\ new.from = rows[i] /\ new.answer = "none"
      /\ new.heard /\ new.mounted
  BY DEF IsMove
<1> HIDE DEF new
<1>3. rows[i] \in had[i]
  <2>1. ~IncidentList!Saving(i) /\ rows[i] # "absent"
    BY <1>1 DEF IncidentList!Offered, IncidentList!InTable
  <2> QED
    BY <2>1 DEF RowsInv, RowsHeld, IncidentList!Saving
<1>4. MovesHeld'
  BY <1>1, <1>2, <1>3 DEF RowsInv, MovesHeld
<1>5. RowsHeld'
  BY <1>1, <1>2 DEF RowsInv, StoreInv, RowsHeld
<1> QED
  BY <1>1, <1>4, <1>5 DEF RowsInv, StoreInv, AnswersWhole, AnswersHeld

\* The row of a change that ended, with whichever status it ends on.
LEMMA RowEnds ==
    ASSUME RowsInv, NEW m \in moves, NEW s \in had[m.incident],
           IncidentList!RowIs(m.incident, s), moves \ {m} \subseteq moves', UNCHANGED had
    PROVE  RowsHeld' /\ DOMAIN rows' = Incidents
<1>1. DOMAIN rows' = Incidents
  BY DEF IncidentList!RowIs, RowsInv, StoreInv
<1>2. ASSUME NEW i \in Incidents
      PROVE  \/ rows'[i] \in had'[i] \cup {"absent"}
             \/ \E n \in moves' : n.incident = i /\ n.heard /\ n.mounted
  <2>1. CASE i = m.incident
    BY <2>1 DEF IncidentList!RowIs, IncidentList!InTable, RowsInv, StoreInv
  <2>2. CASE i # m.incident
    BY <2>2 DEF IncidentList!RowIs, RowsInv, StoreInv, RowsHeld
  <2> QED
    BY <2>1, <2>2
<1> QED
  BY <1>1, <1>2 DEF RowsHeld

LEMMA MoveEnds ==
    ASSUME RowsInv, NEW m \in moves, IncidentList!HearDone(m) \/ IncidentList!MoveFails(m)
    PROVE  RowsInv'
<1>1. /\ UNCHANGED <<stored, had, listReads>>
      /\ moves' \in {moves \ {m}, (moves \ {m}) \cup {GivenUp(m)}}
  BY DEF IncidentList!HearDone, IncidentList!MoveFails, IncidentList!storeVars, GivenUp
<1>2. /\ IsMove(GivenUp(m)) /\ ~GivenUp(m).heard /\ GivenUp(m).incident = m.incident
      /\ GivenUp(m).answer = m.answer /\ GivenUp(m).to = m.to
  BY MovesKeep DEF RowsInv, MovesHeld, SameMove
<1>3. MovesHeld'
  BY <1>1, <1>2 DEF RowsInv, MovesHeld
<1>4. \E s \in had[m.incident] : IncidentList!RowIs(m.incident, s)
  BY DEF IncidentList!HearDone, IncidentList!MoveFails, RowsInv, MovesHeld
<1>5. RowsHeld' /\ DOMAIN rows' = Incidents
  BY <1>1, <1>4, RowEnds
<1> QED
  BY <1>1, <1>3, <1>5 DEF RowsInv, StoreInv, AnswersWhole, AnswersHeld

\* The API answered a change, or another operator made one: what was held still is.
LEMMA HeldGrows ==
    ASSUME RowsInv, StoreInv', UNCHANGED <<rows, listReads>>,
           \A i \in Incidents : had[i] \subseteq had'[i]
    PROVE  /\ AnswersWhole' /\ AnswersHeld'
           /\ moves' = moves => RowsInv'
<1>1. AnswersWhole' /\ AnswersHeld'
  BY DEF RowsInv, AnswersWhole, AnswersHeld
<1>2. ASSUME moves' = moves PROVE MovesHeld' /\ RowsHeld'
  BY <1>2 DEF RowsInv, MovesHeld, RowsHeld
<1> QED
  BY <1>1, <1>2 DEF RowsInv

LEMMA MoveGoesOn ==
    ASSUME RowsInv, StoreInv', UNCHANGED <<rows, listReads>>,
           \A i \in Incidents : had[i] \subseteq had'[i],
           NEW m \in moves, NEW n, SameMove(m, n), n.heard = m.heard, n.mounted = m.mounted,
           n.answer = "done" => m.to \in had'[m.incident],
           \/ m.heard /\ moves' = (moves \ {m}) \cup {n}
           \/ ~m.heard /\ moves' = moves \ {m}
    PROVE  RowsInv'
<1>1. IsMove(n) /\ n.incident = m.incident /\ n.from = m.from /\ n.to = m.to
  BY DEF SameMove
<1>2. MovesHeld'
  BY <1>1 DEF RowsInv, MovesHeld
<1>3. RowsHeld'
  <2>1. \A other \in moves : other.heard =>
           \E kept \in moves' : /\ kept.incident = other.incident /\ kept.heard
                               /\ kept.mounted = other.mounted
    BY <1>1
  <2> QED
    BY <2>1 DEF RowsInv, RowsHeld
<1> QED
  BY <1>2, <1>3, HeldGrows DEF RowsInv

LEMMA ApiMovesRows ==
    ASSUME RowsInv, NEW m \in moves, IncidentList!ApiMoves(m)
    PROVE  RowsInv'
<1>1. UNCHANGED <<rows, listReads>>
  BY DEF IncidentList!ApiMoves
<1>2. IsMove(m) /\ m.incident \in Incidents
  BY DEF RowsInv, MovesHeld
<1>3. CASE /\ IncidentList!Stores(m.incident, m.to)
           /\ \/ m.heard /\ moves' = (moves \ {m}) \cup {MoveAnswered(m, "done", changes')}
              \/ ~m.heard /\ moves' = moves \ {m}
  <2>1. /\ StoreInv' /\ m.to \in had'[m.incident]
        /\ \A j \in Incidents : had[j] \subseteq had'[j]
    BY <1>1, <1>2, <1>3, StoresKeep
  <2> DEFINE n == MoveAnswered(m, "done", changes')
  <2>2. SameMove(m, n) /\ n.heard = m.heard /\ n.mounted = m.mounted
    BY <1>2, MovesKeep
  <2>3. \/ m.heard /\ moves' = (moves \ {m}) \cup {n}
        \/ ~m.heard /\ moves' = moves \ {m}
    BY <1>3
  <2> HIDE DEF n
  <2> QED
    BY <1>1, <2>1, <2>2, <2>3, MoveGoesOn
<1>4. ASSUME NEW answer \in {"gone", "refused"}, UNCHANGED <<stored, had>>,
             \/ m.heard /\ moves' = (moves \ {m}) \cup {MoveRefused(m, answer)}
             \/ ~m.heard /\ moves' = moves \ {m}
      PROVE  RowsInv'
  <2>1. StoreInv' /\ \A j \in Incidents : had[j] \subseteq had'[j]
    BY <1>1, <1>4 DEF RowsInv, StoreInv
  <2> DEFINE n == MoveRefused(m, answer)
  <2>2. SameMove(m, n) /\ n.heard = m.heard /\ n.mounted = m.mounted /\ n.answer # "done"
    BY <1>2, MovesKeep
  <2>3. \/ m.heard /\ moves' = (moves \ {m}) \cup {n}
        \/ ~m.heard /\ moves' = moves \ {m}
    BY <1>4
  <2> HIDE DEF n
  <2> QED
    BY <1>1, <2>1, <2>2, <2>3, MoveGoesOn
<1> QED
  BY <1>3, <1>4, ApiMovesCases

LEMMA RowsStep == RowsInv /\ [IncidentList!Next]_(IncidentList!vars) => RowsInv'
<1> SUFFICES ASSUME RowsInv, [IncidentList!Next]_(IncidentList!vars) PROVE RowsInv'
  OBVIOUS
<1>1. CASE \/ \E key \in DOMAIN FilterValues : \E v \in FilterValues[key] \cup {""} :
                 IncidentList!UpdateQueryFilter(key, v)
           \/ IncidentList!ClearFilters \/ IncidentList!Retry
  <2>1. IncidentList!Reload(filters')
    BY <1>1 DEF IncidentList!UpdateQueryFilter, IncidentList!ClearFilters, IncidentList!Retry
  <2> QED
    BY <2>1, ListReloadWhole
<1>2. ASSUME NEW r \in listReads, IncidentList!ApiLists(r) PROVE RowsInv'
  <2> DEFINE answered == Answer(r, IncidentList!Listed(r.of))
  <2>1. /\ listReads' = (listReads \ {r}) \cup {answered}
        /\ UNCHANGED <<stored, had, rows, moves>>
    BY <1>2 DEF IncidentList!ApiLists, IncidentList!Answered, IncidentList!storeVars, Answer
  <2>2. IsRead(answered) /\ answered.answer = IncidentList!Listed(r.of)
    BY AnsweredRead DEF RowsInv, AnswersWhole
  <2>3. /\ DOMAIN IncidentList!Listed(r.of) = Incidents
        /\ \A i \in Incidents : IncidentList!Listed(r.of)[i] \in {stored[i], "absent"}
    BY DEF IncidentList!Listed
  <2> HIDE DEF answered
  <2>4. AnswersWhole' /\ AnswersHeld'
    BY <2>1, <2>2, <2>3 DEF RowsInv, StoreInv, AnswersWhole, AnswersHeld
  <2> QED
    BY <2>1, <2>4 DEF RowsInv, StoreInv, MovesHeld, RowsHeld
<1>3. ASSUME NEW r \in listReads, IncidentList!ListFails(r) PROVE RowsInv'
  <2>1. listReads' = listReads \ {r} /\ UNCHANGED <<stored, had, rows, moves>>
    BY <1>3 DEF IncidentList!ListFails, IncidentList!storeVars
  <2> QED
    BY <2>1 DEF RowsInv, StoreInv, AnswersWhole, AnswersHeld, MovesHeld, RowsHeld
<1>4. ASSUME NEW i \in Incidents, IncidentList!Elsewhere(i) PROVE RowsInv'
  <2>1. UNCHANGED <<rows, listReads, moves>> /\ \E s : IncidentList!Stores(i, s)
    BY <1>4 DEF IncidentList!Elsewhere, IncidentList!listVars
  <2> QED
    BY <2>1, StoresKeep, HeldGrows
<1>5. CASE \/ IncidentList!RetrySummary
           \/ \E r \in summaryReads : \/ IncidentList!ApiCounts(r) \/ IncidentList!HearSummary(r)
                                      \/ IncidentList!SummaryFails(r)
           \/ UNCHANGED IncidentList!vars
  <2>1. UNCHANGED <<stored, had, rows, listReads, moves>>
    BY <1>5
       DEF IncidentList!RetrySummary, IncidentList!ApiCounts, IncidentList!HearSummary,
           IncidentList!SummaryFails, IncidentList!storeVars, IncidentList!listVars,
           IncidentList!vars
  <2> QED
    BY <2>1 DEF RowsInv, StoreInv, AnswersWhole, AnswersHeld, MovesHeld, RowsHeld
<1> QED
  BY <1>1, <1>2, <1>3, <1>4, <1>5, RowsReplaced, RowMoves, MoveEnds, ApiMovesRows
     DEF IncidentList!Next, IncidentList!Hear

\* Whatever was chosen, refused, lost or changed elsewhere, a row that no control is saving
\* shows a status the incident really held.
THEOREM RowsShowRealStatuses == Spec => []NoPhantomStatus
<1> DEFINE Inv == screen = "incidents" => RowsInv
<1>1. Init => Inv
  <2> SUFFICES ASSUME IncidentList!Init PROVE RowsInv
    BY OpensOnePage
  <2> DEFINE first == IncidentList!Read(IncidentList!NoFilters, IncidentList!NoRows)
  <2>1. IsRead(first) /\ first.answer = [i \in Incidents |-> "absent"]
    BY DEF IncidentList!Read, IncidentList!NoRows, IsRead
  <2>2. /\ listReads = {first} /\ moves = {} /\ rows = [i \in Incidents |-> "absent"]
        /\ stored = [i \in Incidents |-> "open"] /\ had = [i \in Incidents |-> {"open"}]
    BY DEF IncidentList!Init, IncidentList!NoRows
  <2> HIDE DEF first
  <2> QED
    BY <2>1, <2>2 DEF RowsInv, StoreInv, AnswersWhole, AnswersHeld, MovesHeld, RowsHeld
<1>2. Inv /\ [Next]_vars => Inv'
  BY StepsOfOnePage, RowsStep
<1>3. Inv => NoPhantomStatus
  BY DEF RowsInv, RowsHeld, NoPhantomStatus, IncidentList!NoPhantomStatus, IncidentList!InTable
<1> QED
  BY <1>1, <1>2, <1>3, PTL DEF Spec

-----------------------------------------------------------------------------
(* The incident form, and the flow it reports. *)

\* A flow that is well formed and has reported one beginning more than ends while it
\* lasts, as many otherwise.
Balanced(f) == f \in ReportForm!Flow /\ f.balance = IF f.started THEN 1 ELSE 0

\* The two writes to a flow that its balance depends on.
Counts(f, balance) == [f EXCEPT !.balance = balance]
Starts(f) == [f EXCEPT !.started = TRUE]

LEMMA FlowFields ==
    ASSUME NEW f \in ReportForm!Flow, NEW balance \in Int
    PROVE  /\ f.started \in BOOLEAN /\ f.balance \in Int
           /\ Starts(f) \in ReportForm!Flow /\ Starts(f).started /\ Starts(f).balance = f.balance
           /\ Counts(f, balance) \in ReportForm!Flow
           /\ Counts(f, balance).balance = balance
           /\ Counts(f, balance).started = f.started
  BY DEF ReportForm!Flow, Starts, Counts

LEMMA FreshFlow ==
    ASSUME NEW f \in ReportForm!Flow
    PROVE  /\ ReportForm!Fresh(f) \in ReportForm!Flow
           /\ ~ReportForm!Fresh(f).started /\ ReportForm!Fresh(f).balance = f.balance
  BY DEF ReportForm!Fresh, ReportForm!Flow, ReportForm!Step

LEMMA EndedBalanced ==
    ASSUME NEW f, Balanced(f), f.started
    PROVE  Balanced(ReportForm!Ended(f))
<1>1. ReportForm!Ended(f) = Counts(ReportForm!Fresh(f), ReportForm!Fresh(f).balance - 1)
  BY DEF ReportForm!Ended, Counts
<1>2. f \in ReportForm!Flow /\ f.balance = 1
  BY DEF Balanced
<1>3. /\ ReportForm!Fresh(f) \in ReportForm!Flow /\ ~ReportForm!Fresh(f).started
      /\ ReportForm!Fresh(f).balance - 1 = 0
  BY <1>2, FreshFlow
<1> QED
  BY <1>1, <1>3, FlowFields DEF Balanced

LEMMA BeginBalanced ==
    ASSUME NEW f, Balanced(f)
    PROVE  Balanced(ReportForm!Begin(f))
<1>1. CASE f.started
  BY <1>1 DEF ReportForm!Begin
<1>2. CASE ~f.started
  <2>1. f \in ReportForm!Flow /\ f.balance = 0
    BY <1>2 DEF Balanced
  <2>2. ReportForm!Begin(f) = Counts(Starts(ReportForm!Fresh(f)), ReportForm!Fresh(f).balance + 1)
    BY <1>2, <2>1, FreshFlow DEF ReportForm!Begin, Counts, Starts
  <2>3. ReportForm!Fresh(f) \in ReportForm!Flow /\ ReportForm!Fresh(f).balance + 1 = 1
    BY <2>1, FreshFlow
  <2>4. Starts(ReportForm!Fresh(f)) \in ReportForm!Flow /\ Starts(ReportForm!Fresh(f)).started
    BY <2>3, FlowFields
  <2> QED
    BY <2>2, <2>3, <2>4, FlowFields DEF Balanced
<1> QED
  BY <1>1, <1>2

\* Neither the step nor the timer counts.
LEMMA StepBalanced ==
    ASSUME NEW f, Balanced(f), NEW step \in ReportForm!Step, NEW armed \in BOOLEAN
    PROVE  /\ Balanced([f EXCEPT !.step = step])
           /\ Balanced([f EXCEPT !.leaving = armed])
           /\ [f EXCEPT !.leaving = armed].started = f.started
  BY DEF Balanced, ReportForm!Flow

LEMMA AbandonBalanced ==
    ASSUME NEW f, Balanced(f)
    PROVE  Balanced(ReportForm!Abandon(f))
<1>1. /\ Balanced([f EXCEPT !.leaving = FALSE])
      /\ [f EXCEPT !.leaving = FALSE].started = f.started
  BY StepBalanced DEF ReportForm!Step
<1> QED
  BY <1>1, EndedBalanced DEF ReportForm!Abandon

LEMMA CompletedBalanced ==
    ASSUME NEW f, Balanced(f)
    PROVE  Balanced(ReportForm!Completed(f))
  BY EndedBalanced DEF ReportForm!Completed

LEMMA EditedBalanced ==
    ASSUME NEW f, Balanced(f)
    PROVE  /\ Balanced(ReportForm!FieldEdited(f)) /\ Balanced(ReportForm!SubmitAttempted(f))
           /\ Balanced(ReportForm!SubmitFailed(f)) /\ Balanced(ReportForm!ValidationFailedFields(f))
           /\ Balanced(ReportForm!Unmounted(f))
  BY BeginBalanced, StepBalanced
     DEF ReportForm!FieldEdited, ReportForm!SubmitAttempted, ReportForm!SubmitFailed,
         ReportForm!ValidationFailedFields, ReportForm!Unmounted, ReportForm!Step

LEMMA NewBalanced == Balanced(ReportForm!NewFlow)
<1> DEFINE first == [started |-> FALSE, step |-> "opened", leaving |-> FALSE, balance |-> 0]
<1>1. Balanced(first)
  BY DEF Balanced, ReportForm!Flow, ReportForm!Step
<1>2. Balanced([first EXCEPT !.leaving = FALSE])
  BY <1>1, StepBalanced DEF ReportForm!Step
<1> QED
  BY <1>2, BeginBalanced DEF ReportForm!NewFlow, ReportForm!Mounted

LEMMA ReportStep == Balanced(flow) /\ [ReportForm!Next]_(ReportForm!vars) => Balanced(flow)'
<1> SUFFICES ASSUME Balanced(flow), [ReportForm!Next]_(ReportForm!vars) PROVE Balanced(flow')
  BY DEF Balanced
<1>1. ASSUME NEW field \in Fields, ReportForm!UpdateValues(field) PROVE Balanced(flow')
  BY <1>1, EditedBalanced DEF ReportForm!UpdateValues
<1>2. CASE \/ ReportForm!RejectSubmit \/ ReportForm!Submit
           \/ ReportForm!HearFailure \/ ReportForm!Leave
  BY <1>2, EditedBalanced
     DEF ReportForm!RejectSubmit, ReportForm!Submit, ReportForm!HearFailure, ReportForm!Leave
<1>3. CASE ReportForm!HearStored
  BY <1>3, CompletedBalanced DEF ReportForm!HearStored
<1>4. CASE ReportForm!AbandonLater \/ ReportForm!PageHide
  BY <1>4, AbandonBalanced DEF ReportForm!AbandonLater, ReportForm!PageHide
<1>5. CASE ReportForm!ApiAnswers \/ UNCHANGED ReportForm!vars
  BY <1>5 DEF ReportForm!ApiAnswers, ReportForm!vars
<1> QED
  BY <1>1, <1>2, <1>3, <1>4, <1>5 DEF ReportForm!Next, ReportForm!Hear

\* Whatever the operator edits, sends, sends again, leaves or hides, and whatever the
\* answers and the timer do in between, each flow_started is followed by one end.
THEOREM EveryFlowEndsOnce == Spec => []FlowsEndOnce
<1> DEFINE Inv == screen = "report" => Balanced(flow)
<1>1. Init => Inv
  BY OpensOnePage, NewBalanced DEF ReportForm!Init
<1>2. Inv /\ [Next]_vars => Inv'
  BY StepsOfOnePage, ReportStep
<1>3. Inv => FlowsEndOnce
  BY DEF Balanced, FlowsEndOnce, ReportForm!FlowsEndOnce
<1> QED
  BY <1>1, <1>2, <1>3, PTL DEF Spec

-----------------------------------------------------------------------------
(* The supplier screens. *)

\* A row whose editor, if it holds a rate, holds it over the rate of the row.
IsRow(row) == DOMAIN row = {"id", "record", "draft"}
DraftFits(row) ==
    IsRow(row) /\ (row.draft # SupplierList!NoDraft => row.draft.on = row.record.rate)

\* The rows of every answer under way have no editor open.
SupplierInv ==
    /\ \A r \in reads :
          IsRead(r) /\ \A k \in DOMAIN r.answer :
                          IsRow(r.answer[k]) /\ r.answer[k].draft = SupplierList!NoDraft
    /\ \A k \in DOMAIN rows : DraftFits(rows[k])

Drafted(row, rate) == [row EXCEPT !.draft = rate]

LEMMA RowsFit ==
    /\ \A s, record : /\ IsRow(SupplierList!Row(s, record))
                      /\ SupplierList!Row(s, record).draft = SupplierList!NoDraft
    /\ \A row, new : IsRow(row) =>
          /\ IsRow(Drafted(row, new)) /\ Drafted(row, new).draft = new
          /\ Drafted(row, new).record = row.record
  BY DEF IsRow, Drafted, SupplierList!Row

LEMMA UpdatedFits ==
    ASSUME NEW row, NEW record, DraftFits(row)
    PROVE  DraftFits(SupplierList!Updated(row, record))
<1> DEFINE kept == IF record.rate = row.record.rate THEN row.draft ELSE SupplierList!NoDraft
           updated == [row EXCEPT !.record = record, !.draft = kept]
<1>1. updated.record = record /\ updated.draft = kept /\ IsRow(updated)
  BY DEF DraftFits, IsRow
<1>2. SupplierList!Updated(row, record) = updated
  BY DEF SupplierList!Updated, DraftFits, IsRow
<1> HIDE DEF updated
<1>3. kept # SupplierList!NoDraft => kept.on = record.rate
  BY DEF DraftFits
<1> QED
  BY <1>1, <1>2, <1>3 DEF DraftFits

LEMMA SupplierReload ==
    ASSUME SupplierInv, NEW f, SupplierList!Reload(f)
    PROVE  SupplierInv'
<1> DEFINE new == SupplierList!Read(f)
<1>1. /\ reads' = {Supersede(r) : r \in reads} \cup {new}
      /\ rows' = [k \in DOMAIN rows |-> Drafted(rows[k], SupplierList!NoDraft)]
  BY DEF SupplierList!Reload, SupplierList!Superseded, Supersede, Drafted
<1>2. IsRead(new) /\ new.answer = <<>>
  BY DEF SupplierList!Read, IsRead
<1>3. \A r \in reads : IsRead(Supersede(r)) /\ Supersede(r).answer = r.answer
  BY SupersededRead DEF SupplierInv
<1> HIDE DEF new
<1>4. \A k \in DOMAIN rows : DraftFits(Drafted(rows[k], SupplierList!NoDraft))
  BY RowsFit DEF SupplierInv, DraftFits
<1> QED
  BY <1>1, <1>2, <1>3, <1>4 DEF SupplierInv

LEMMA SupplierStep == SupplierInv /\ [SupplierList!Next]_(SupplierList!vars) => SupplierInv'
<1> SUFFICES ASSUME SupplierInv, [SupplierList!Next]_(SupplierList!vars) PROVE SupplierInv'
  OBVIOUS
<1>1. CASE SupplierList!Retry \/ \E f \in Countries \cup {""} : SupplierList!UpdateQueryFilter(f)
  BY <1>1, SupplierReload DEF SupplierList!Retry, SupplierList!UpdateQueryFilter
<1>2. ASSUME NEW r \in reads, SupplierList!ApiReads(r) PROVE SupplierInv'
  <2>1. PICK ids : /\ reads' = (reads \ {r}) \cup
                        {Answer(r, [i \in DOMAIN ids |-> SupplierList!Row(ids[i], stored[ids[i]])])}
                   /\ UNCHANGED rows
    BY <1>2 DEF SupplierList!ApiReads, Answer
  <2> DEFINE table == [i \in DOMAIN ids |-> SupplierList!Row(ids[i], stored[ids[i]])]
  <2>2. \A k \in DOMAIN table : IsRow(table[k]) /\ table[k].draft = SupplierList!NoDraft
    BY RowsFit
  <2>3. IsRead(Answer(r, table)) /\ Answer(r, table).answer = table
    BY AnsweredRead DEF SupplierInv
  <2> HIDE DEF table
  <2> QED
    BY <2>1, <2>2, <2>3 DEF SupplierInv, table
<1>3. ASSUME NEW r \in reads, SupplierList!HearRead(r) \/ SupplierList!ReadFails(r)
      PROVE  SupplierInv'
  <2>1. reads' = reads \ {r} /\ (UNCHANGED rows \/ rows' = r.answer)
    BY <1>3 DEF SupplierList!HearRead, SupplierList!ReadFails
  <2> QED
    BY <2>1 DEF SupplierInv, DraftFits
<1>4. ASSUME NEW k, NEW rate, SupplierList!TypeRate(k, rate) PROVE SupplierInv'
  <2> DEFINE typing == [text |-> rate, on |-> rows[k].record.rate]
  <2>1. /\ rows' = [rows EXCEPT ![k] = Drafted(rows[k], typing)] /\ UNCHANGED reads
        /\ k \in DOMAIN rows
    BY <1>4 DEF SupplierList!TypeRate, Drafted
  <2>2. typing.on = rows[k].record.rate
    OBVIOUS
  <2> HIDE DEF typing
  <2>3. DraftFits(Drafted(rows[k], typing))
    BY <2>1, <2>2, RowsFit DEF SupplierInv, DraftFits
  <2> QED
    BY <2>1, <2>3 DEF SupplierInv
<1>5. ASSUME NEW p \in patches, SupplierList!HearPatch(p) PROVE SupplierInv'
  <2>1. /\ rows' = [k \in DOMAIN rows |-> IF rows[k].id = p.id
                       THEN SupplierList!Updated(rows[k], p.answer) ELSE rows[k]]
        /\ UNCHANGED reads
    BY <1>5 DEF SupplierList!HearPatch
  <2> QED
    BY <2>1, UpdatedFits DEF SupplierInv
<1>6. ASSUME NEW q \in posts, SupplierList!HearCreated(q) PROVE SupplierInv'
  <2> DEFINE row == SupplierList!Row(q.id, [rate |-> 1, status |-> "active"])
  <2>1. UNCHANGED reads /\ (rows' = Append(rows, row) \/ UNCHANGED rows)
    BY <1>6 DEF SupplierList!HearCreated
  <2>2. DraftFits(row)
    BY RowsFit DEF DraftFits
  <2> HIDE DEF row
  <2>3. \A k \in DOMAIN Append(rows, row) :
           Append(rows, row)[k] = row \/ (k \in DOMAIN rows /\ Append(rows, row)[k] = rows[k])
    OBVIOUS
  <2> QED
    BY <2>1, <2>2, <2>3 DEF SupplierInv
<1>7. CASE \/ \E k \in DOMAIN rows : SupplierList!ToggleStatus(k) \/ SupplierList!SaveRate(k)
           \/ SupplierList!ToggleCreateForm \/ SupplierList!FillIn
           \/ SupplierList!SubmitSupplier \/ SupplierList!AbandonLater
           \/ \E s \in SupplierList!Suppliers : SupplierList!Elsewhere(s)
           \/ \E p \in patches : SupplierList!ApiPatches(p) \/ SupplierList!PatchFails(p)
           \/ \E q \in posts : SupplierList!ApiCreates(q) \/ SupplierList!CreateFails(q)
           \/ UNCHANGED SupplierList!vars
  <2>1. UNCHANGED <<reads, rows>>
    BY <1>7
       DEF SupplierList!ToggleStatus, SupplierList!SaveRate, SupplierList!Patch,
           SupplierList!ToggleCreateForm, SupplierList!FillIn, SupplierList!SubmitSupplier,
           SupplierList!AbandonLater, SupplierList!Elsewhere, SupplierList!ApiPatches,
           SupplierList!PatchFails, SupplierList!ApiCreates, SupplierList!CreateFails,
           SupplierList!rowVars, SupplierList!vars
  <2> QED
    BY <2>1 DEF SupplierInv
<1> QED
  BY <1>1, <1>2, <1>3, <1>4, <1>5, <1>6, <1>7 DEF SupplierList!Next, SupplierList!Hear

\* Whatever is read, patched, created or changed elsewhere while a rate is being typed, the
\* editor holds it over the rate its row shows.
THEOREM RatesAreTypedOverShown == Spec => []DraftOnShownRate
<1> DEFINE Inv == screen = "suppliers" => SupplierInv
<1>1. Init => Inv
  <2> SUFFICES ASSUME SupplierList!Init PROVE SupplierInv
    BY OpensOnePage
  <2> DEFINE first == SupplierList!Read("")
  <2>1. IsRead(first) /\ first.answer = <<>>
    BY DEF SupplierList!Read, IsRead
  <2>2. reads = {first} /\ rows = <<>>
    BY DEF SupplierList!Init
  <2> HIDE DEF first
  <2> QED
    BY <2>1, <2>2 DEF SupplierInv
<1>2. Inv /\ [Next]_vars => Inv'
  BY StepsOfOnePage, SupplierStep
<1>3. Inv => DraftOnShownRate
  BY DEF SupplierInv, DraftFits, DraftOnShownRate, SupplierList!DraftOnShownRate
<1> QED
  BY <1>1, <1>2, <1>3, PTL DEF Spec

-----------------------------------------------------------------------------
(* The order form. *)

IsStockRead(r) == DOMAIN r = {"of", "attempt", "active", "served", "value"}

\* A refusal for lack of stock moves stockAttempt on: the stock held, and every read of it,
\* is of no later attempt, and of an earlier one as long as the refusal stands, unless its
\* read failed.
HeldIsOf == stockAttempt \in Nat /\ stock.attempt \in 0 .. stockAttempt
ReadsAreOf == \A r \in stockReads : IsStockRead(r) /\ r.attempt \in 0 .. stockAttempt
DoubtStands == doubted \in BOOLEAN /\ (doubted /\ stock.known => stock.attempt < stockAttempt)
OrderFormInv == HeldIsOf /\ ReadsAreOf /\ DoubtStands

\* What the stock effect leaves of the reads, for the attempt it runs for.
LEMMA StockIsRead ==
    ASSUME HeldIsOf, ReadsAreOf, stockAttempt' \in {stockAttempt, stockAttempt + 1},
           NEW product, OrderForm!ReadStock(product, stockAttempt')
    PROVE  ReadsAreOf'
<1> DEFINE new == OrderForm!StockRead(product, stockAttempt')
<1>1. stockReads' \subseteq {Supersede(r) : r \in stockReads} \cup {new}
  BY DEF OrderForm!ReadStock, Supersede
<1>2. IsStockRead(new) /\ new.attempt = stockAttempt'
  BY DEF OrderForm!StockRead, IsStockRead
<1>3. ASSUME NEW r \in stockReads
      PROVE  IsStockRead(Supersede(r)) /\ Supersede(r).attempt = r.attempt
  BY DEF ReadsAreOf, IsStockRead, Supersede
<1>4. \A r \in stockReads : r.attempt \in 0 .. stockAttempt'
  BY DEF HeldIsOf, ReadsAreOf
<1>5. stockAttempt' \in 0 .. stockAttempt'
  BY DEF HeldIsOf
<1> HIDE DEF new
<1> QED
  BY <1>1, <1>2, <1>3, <1>4, <1>5 DEF ReadsAreOf

LEMMA OrderFormStep == OrderFormInv /\ [OrderForm!Next]_(OrderForm!vars) => OrderFormInv'
<1> SUFFICES ASSUME OrderFormInv, [OrderForm!Next]_(OrderForm!vars) PROVE OrderFormInv'
  OBVIOUS
<1>1. CASE OrderForm!HearProducts
  <2>1. UNCHANGED <<stockAttempt, stock, doubted>>
    BY <1>1 DEF OrderForm!HearProducts
  <2>2. \/ UNCHANGED stockReads
        \/ OrderForm!ReadStock(initialProduct, stockAttempt')
    BY <1>1, <2>1 DEF OrderForm!HearProducts
  <2>3. ReadsAreOf'
    BY <2>1, <2>2, StockIsRead DEF OrderFormInv, ReadsAreOf
  <2> QED
    BY <2>1, <2>3 DEF OrderFormInv, HeldIsOf, DoubtStands
<1>2. ASSUME NEW product, OrderForm!SelectProduct(product) \/ OrderForm!HearOrdered
      PROVE  OrderFormInv'
  <2>1. /\ UNCHANGED stockAttempt
        /\ stock' = OrderForm!NoStock /\ doubted' = FALSE
        /\ \E read : OrderForm!ReadStock(read, stockAttempt')
    BY <1>2 DEF OrderForm!SelectProduct, OrderForm!HearOrdered
  <2>2. ReadsAreOf'
    BY <2>1, StockIsRead DEF OrderFormInv
  <2>3. OrderForm!NoStock.attempt = 0
    BY DEF OrderForm!NoStock
  <2>4. HeldIsOf'
    BY <2>1, <2>3 DEF OrderFormInv, HeldIsOf
  <2> QED
    BY <2>1, <2>2, <2>4 DEF OrderFormInv, DoubtStands
<1>3. CASE OrderForm!HearInsufficient \/ OrderForm!RetryStock
  <2>1. /\ stockAttempt' = stockAttempt + 1 /\ UNCHANGED stock
        /\ doubted' = doubted \/ doubted' = TRUE
        /\ OrderForm!ReadStock(productId, stockAttempt')
    BY <1>3 DEF OrderForm!HearInsufficient, OrderForm!RetryStock
  <2>2. ReadsAreOf'
    BY <2>1, StockIsRead DEF OrderFormInv
  <2>3. HeldIsOf'
    BY <2>1 DEF OrderFormInv, HeldIsOf
  <2>4. DoubtStands'
    <3>1. doubted' \in BOOLEAN
      BY <2>1 DEF OrderFormInv, DoubtStands
    <3>2. stock.attempt < stockAttempt + 1
      BY DEF OrderFormInv, HeldIsOf
    <3> QED
      BY <2>1, <3>1, <3>2 DEF DoubtStands
  <2> QED
    BY <2>2, <2>3, <2>4 DEF OrderFormInv
<1>4. ASSUME NEW r \in stockReads, OrderForm!ApiReadsStock(r) PROVE OrderFormInv'
  <2> DEFINE answered == [r EXCEPT !.served = TRUE, !.value = current[r.of]]
  <2>1. /\ stockReads' = (stockReads \ {r}) \cup {answered}
        /\ UNCHANGED <<stockAttempt, stock, doubted>>
    BY <1>4 DEF OrderForm!ApiReadsStock
  <2>2. IsStockRead(answered) /\ answered.attempt = r.attempt
    BY DEF OrderFormInv, ReadsAreOf, IsStockRead
  <2> HIDE DEF answered
  <2> QED
    BY <2>1, <2>2 DEF OrderFormInv, HeldIsOf, ReadsAreOf, DoubtStands
<1>5. ASSUME NEW r \in stockReads, OrderForm!HearStock(r) PROVE OrderFormInv'
  <2>1. stockReads' = stockReads \ {r} /\ UNCHANGED stockAttempt
    BY <1>5 DEF OrderForm!HearStock
  <2>2. ReadsAreOf'
    BY <2>1 DEF OrderFormInv, ReadsAreOf
  <2>3. CASE r.active
    <3>1. PICK heard \in {r.served, FALSE} :
            /\ stock' = [of |-> r.of, attempt |-> r.attempt, known |-> heard,
                         value |-> IF heard THEN r.value ELSE 0]
            /\ doubted' = (doubted /\ ~heard)
      BY <1>5, <2>3 DEF OrderForm!HearStock
    <3>2. stock'.attempt = r.attempt /\ stock'.known = heard
      BY <3>1
    <3>3. HeldIsOf'
      BY <2>1, <3>2 DEF OrderFormInv, HeldIsOf, ReadsAreOf
    <3>4. DoubtStands'
      BY <3>1, <3>2 DEF DoubtStands
    <3> QED
      BY <2>2, <3>3, <3>4 DEF OrderFormInv
  <2>4. CASE ~r.active
    <3>1. UNCHANGED <<stock, doubted>>
      BY <1>5, <2>4 DEF OrderForm!HearStock
    <3> QED
      BY <2>1, <2>2, <3>1 DEF OrderFormInv, HeldIsOf, DoubtStands
  <2> QED
    BY <2>3, <2>4
<1>6. CASE \/ OrderForm!RetryProducts \/ OrderForm!RejectSubmit \/ OrderForm!Submit
           \/ \E quantity_ \in 0 .. MaxQuantity : OrderForm!TypeQuantity(quantity_)
           \/ OrderForm!ProductsFail \/ OrderForm!ApiOrders \/ OrderForm!OrderFails
           \/ OrderForm!Elsewhere \/ UNCHANGED OrderForm!vars
  <2>1. UNCHANGED <<stockAttempt, stock, stockReads, doubted>>
    BY <1>6
       DEF OrderForm!RetryProducts, OrderForm!RejectSubmit, OrderForm!Submit,
           OrderForm!TypeQuantity, OrderForm!ProductsFail, OrderForm!ApiOrders,
           OrderForm!OrderFails, OrderForm!Elsewhere, OrderForm!stockVars, OrderForm!vars
  <2> QED
    BY <2>1 DEF OrderFormInv, HeldIsOf, ReadsAreOf, DoubtStands
<1> QED
  BY <1>1, <1>2, <1>3, <1>4, <1>5, <1>6 DEF OrderForm!Next, OrderForm!Hear

\* Whatever is selected, read, lost or ordered in between, a form the API refused for lack
\* of stock is open again only after it heard a stock that was read since.
THEOREM RefusedOrdersReadAgain == Spec => []RefusalReadsStockAgain
<1> DEFINE Inv == screen = "order" => OrderFormInv
<1>1. Init => Inv
  <2> SUFFICES ASSUME OrderForm!Init PROVE OrderFormInv
    BY OpensOnePage
  <2>1. OrderForm!NoStock.attempt = 0
    BY DEF OrderForm!NoStock
  <2>2. stock = OrderForm!NoStock /\ stockAttempt = 0
    BY DEF OrderForm!Init
  <2>3. ReadsAreOf /\ DoubtStands
    BY DEF OrderForm!Init, ReadsAreOf, DoubtStands
  <2>4. HeldIsOf
    BY <2>1, <2>2 DEF HeldIsOf
  <2> QED
    BY <2>3, <2>4 DEF OrderFormInv
<1>2. Inv /\ [Next]_vars => Inv'
  BY StepsOfOnePage, OrderFormStep
<1>3. Inv => RefusalReadsStockAgain
  <2> SUFFICES ASSUME OrderFormInv, doubted, OrderForm!SubmitEnabled PROVE ~outbound
    BY DEF RefusalReadsStockAgain, OrderForm!RefusalReadsStockAgain
  <2>1. outbound => stock.known /\ stock.attempt = stockAttempt
    BY DEF OrderForm!SubmitEnabled, OrderForm!Available, OrderForm!Shown, OrderForm!CurrentStock
  <2> QED
    BY <2>1 DEF OrderFormInv, HeldIsOf, DoubtStands
<1> QED
  BY <1>1, <1>2, <1>3, PTL DEF Spec

-----------------------------------------------------------------------------
(* The weekly dashboard. *)

\* Only the read of the week asked for can still be heard, and it is answered with that
\* week, or with some published one when none was asked for; so at rest without an error
\* the figures held are those of the heading.
Fitting(r, week) ==
    /\ IsRead(r)
    /\ r.active => r.of = week
    /\ r.served => r.answer # Dashboard!None /\ r.of \in {Dashboard!None, r.answer}
DashboardInv ==
    /\ published \subseteq Weeks
    /\ \A r \in reads : Fitting(r, requestedWeek)
    /\ ~loading /\ ~error => report # Dashboard!None /\ requestedWeek \in {Dashboard!None, report}

LEMMA DashboardReads ==
    ASSUME DashboardInv, NEW week
    PROVE  \A r \in Dashboard!Superseded \cup {Dashboard!Read(week)} : Fitting(r, week)
<1>1. Dashboard!Superseded = {Supersede(r) : r \in reads}
  BY DEF Dashboard!Superseded, Supersede
<1>2. IsRead(Dashboard!Read(week))
  BY DEF Dashboard!Read, IsRead
<1>3. Fitting(Dashboard!Read(week), week)
  BY <1>2 DEF Dashboard!Read, Fitting
<1>4. ASSUME NEW r \in reads PROVE Fitting(Supersede(r), week)
  BY SupersededRead DEF DashboardInv, Fitting
<1> QED
  BY <1>1, <1>3, <1>4

LEMMA DashboardStep == DashboardInv /\ [Dashboard!Next]_(Dashboard!vars) => DashboardInv'
<1> SUFFICES ASSUME DashboardInv, [Dashboard!Next]_(Dashboard!vars) PROVE DashboardInv'
  OBVIOUS
<1>1. ASSUME NEW week, Dashboard!ShowWeek(week) PROVE DashboardInv'
  BY <1>1, DashboardReads DEF Dashboard!ShowWeek, DashboardInv
<1>2. CASE Dashboard!Previous \/ Dashboard!NextWeek \/ Dashboard!MostRecent
  BY <1>1, <1>2 DEF Dashboard!Previous, Dashboard!NextWeek, Dashboard!MostRecent
<1>3. CASE Dashboard!Retry
  BY <1>3, DashboardReads DEF Dashboard!Retry, DashboardInv
<1>4. ASSUME NEW r \in reads, Dashboard!ApiReports(r) PROVE DashboardInv'
  <2>1. PICK week \in published :
          /\ r.of \in {Dashboard!None, week}
          /\ reads' = (reads \ {r}) \cup {[r EXCEPT !.served = TRUE, !.answer = week]}
    BY <1>4 DEF Dashboard!ApiReports
  <2>2. week # Dashboard!None
    BY WeeksAreNumbered DEF DashboardInv, Dashboard!None, None
  <2>3. reads' = (reads \ {r}) \cup {Answer(r, week)}
    BY <2>1 DEF Answer
  <2>4. UNCHANGED <<published, requestedWeek, report, error, loading>>
    BY <1>4 DEF Dashboard!ApiReports
  <2>5. IsRead(r) /\ (r.active => r.of = requestedWeek)
    BY DEF DashboardInv, Fitting
  <2> QED
    BY <2>1, <2>2, <2>3, <2>4, <2>5, AnsweredRead DEF DashboardInv, Fitting
<1>5. ASSUME NEW r \in reads, Dashboard!HearReport(r) \/ Dashboard!ReportFails(r)
      PROVE  DashboardInv'
  BY <1>5 DEF Dashboard!HearReport, Dashboard!ReportFails, DashboardInv, Fitting
<1>6. CASE Dashboard!HearRun \/ Dashboard!PipelinePublishes \/ UNCHANGED Dashboard!vars
  BY <1>6 DEF Dashboard!HearRun, Dashboard!PipelinePublishes, Dashboard!vars, DashboardInv, Fitting
<1> QED
  BY <1>2, <1>3, <1>4, <1>5, <1>6 DEF Dashboard!Next, Dashboard!Hear

\* Whatever weeks are asked for and published, and however the answers to them arrive or
\* fail, figures at rest are those of the week in the heading.
THEOREM NoFiguresOfAnotherWeek == Spec => []FiguresAreOfTheShownWeek
<1> DEFINE Inv == screen = "dashboard" => DashboardInv
<1>1. Init => Inv
  <2> SUFFICES ASSUME Dashboard!Init PROVE DashboardInv
    BY OpensOnePage
  <2> QED
    BY WeeksAreNumbered DEF Dashboard!Init, Dashboard!Read, DashboardInv, Fitting, IsRead
<1>2. Inv /\ [Next]_vars => Inv'
  BY StepsOfOnePage, DashboardStep
<1>3. Inv => FiguresAreOfTheShownWeek
  BY DEF DashboardInv, FiguresAreOfTheShownWeek, Dashboard!FiguresAreOfTheShownWeek,
         Dashboard!VisibleReport, Dashboard!ShownWeek
<1> QED
  BY <1>1, <1>2, <1>3, PTL DEF Spec

-----------------------------------------------------------------------------
(* The forms of an account. *)

\* Why a form cannot be sent, apart from a link that is missing or not yet read.
Locked == isSubmitting \/ isSent \/ (form = "reset" /\ rejected)

\* A request is under way only while the form is locked, so its answer finds it locked;
\* only a registration can end signed out.
AccountInv ==
    /\ form \in AccountForm!Forms
    /\ post # "none" => isSubmitting
    /\ post = "signed out" => form = "register"
    /\ settled => Locked

\* What each page does with the answer that settles it keeps its form locked.
LEMMA SettlingLocks ==
    ASSUME AccountInv, AccountForm!Hears, settled'
    PROVE  Locked'
<1>1. isSubmitting
  BY DEF AccountForm!Hears, AccountInv
<1>2. PICK outcome \in {post, "failed"} \ {"sent"} :
        /\ \/ form = "login" /\ AccountForm!LoginPage(outcome)
           \/ form = "register" /\ AccountForm!RegisterPage(outcome)
           \/ form = "forgot" /\ AccountForm!ForgotPasswordPage(outcome)
           \/ form = "reset" /\ AccountForm!ResetPasswordPage(outcome)
           \/ form = "profile" /\ AccountForm!ProfilePage(outcome)
           \/ form = "change" /\ AccountForm!ChangePasswordPage(outcome)
        /\ \/ form \notin {"profile", "change"} /\ outcome \in {"done", "signed out"}
           \/ form = "reset" /\ outcome = "refused"
  BY DEF AccountForm!Hears
<1>3. UNCHANGED <<form, link>>
  BY DEF AccountForm!Hears
<1>4. CASE form = "login" /\ outcome = "done"
  BY <1>1, <1>2, <1>4 DEF AccountForm!LoginPage, AccountForm!Leaves, Locked
<1>5. CASE form = "register"
  BY <1>1, <1>2, <1>5 DEF AccountForm!RegisterPage, AccountForm!Leaves, Locked
<1>6. CASE form = "forgot" /\ outcome = "done"
  BY <1>2, <1>6 DEF AccountForm!ForgotPasswordPage, Locked
<1>7. CASE form = "reset" /\ outcome = "done"
  BY <1>1, <1>2, <1>7 DEF AccountForm!ResetPasswordPage, AccountForm!Leaves, Locked
<1>8. CASE form = "reset" /\ outcome = "refused"
  BY <1>2, <1>3, <1>8 DEF AccountForm!ResetPasswordPage, Locked
<1>9. outcome = "signed out" => form = "register"
  BY DEF AccountInv
<1> QED
  BY <1>2, <1>4, <1>5, <1>6, <1>7, <1>8, <1>9 DEF AccountInv, AccountForm!Forms

LEMMA AccountStep == AccountInv /\ [AccountForm!Next]_(AccountForm!vars) => AccountInv'
<1> SUFFICES ASSUME AccountInv, [AccountForm!Next]_(AccountForm!vars) PROVE AccountInv'
  OBVIOUS
<1>1. CASE \/ AccountForm!UseLocationSearch \/ AccountForm!UpdateValues
           \/ AccountForm!RejectSubmit \/ UNCHANGED AccountForm!vars
  <2>1. UNCHANGED <<form, isSubmitting, isSent, rejected, post, settled>>
    BY <1>1 DEF AccountForm!UseLocationSearch, AccountForm!UpdateValues,
                AccountForm!RejectSubmit, AccountForm!vars, AccountForm!shown
  <2> QED
    BY <2>1 DEF AccountInv, Locked
<1>2. CASE AccountForm!Submit
  BY <1>2 DEF AccountForm!Submit, AccountInv, Locked
<1>3. CASE AccountForm!ApiAnswers
  BY <1>3
     DEF AccountForm!ApiAnswers, AccountForm!ApiOutcomes, AccountForm!shown, AccountInv, Locked
<1>4. CASE AccountForm!Hears
  <2>1. form' = form /\ post' = "none"
    BY <1>4 DEF AccountForm!Hears
  <2> QED
    BY <1>4, <2>1, SettlingLocks DEF AccountInv
<1> QED
  BY <1>1, <1>2, <1>3, <1>4 DEF AccountForm!Next, AccountForm!Hear

\* Whatever is typed, sent and answered, and whichever answers are lost: a form whose
\* purpose the page knows to be served, or beyond it, is not sent again.
THEOREM DoneIsDone == Spec => []SettledIsNotSentAgain
<1> DEFINE Inv == screen = "account" => AccountInv
<1>1. Init => Inv
  BY OpensOnePage DEF AccountForm!Init, AccountInv, AccountForm!Forms
<1>2. Inv /\ [Next]_vars => Inv'
  BY StepsOfOnePage, AccountStep
<1>3. Inv => SettledIsNotSentAgain
  BY DEF AccountInv, Locked, SettledIsNotSentAgain, AccountForm!SettledIsNotSentAgain,
         AccountForm!SubmitEnabled, AccountForm!FormShown, AccountForm!LinkReadable
<1> QED
  BY <1>1, <1>2, <1>3, PTL DEF Spec

-----------------------------------------------------------------------------
(* A candidate's page. *)

\* The forms are on screen only once the one read that can still be heard was heard: there
\* is one such read while the record loads and none afterwards.
CandidatePageInv ==
    /\ \A r \in recordReads : DOMAIN r = {"active", "served", "answer"}
    /\ \A r1, r2 \in recordReads : r1.active /\ r2.active => r1 = r2
    /\ recordStatus # "loading" => \A r \in recordReads : ~r.active
    /\ edited # {} => recordStatus = "success"

\* What RetryCandidate leaves of the reads: the new one alone can be heard.
LEMMA RecordLoads ==
    ASSUME CandidatePageInv, CandidatePage!LoadRecord
    PROVE  /\ \A r \in recordReads' : DOMAIN r = {"active", "served", "answer"}
           /\ \A r1, r2 \in recordReads' : r1.active /\ r2.active => r1 = r2
           /\ recordStatus' = "loading"
<1> DEFINE new == CandidatePage!Read(CandidatePage!NoRecord)
<1>1. recordReads' = {Supersede(r) : r \in recordReads} \cup {new} /\ recordStatus' = "loading"
  BY DEF CandidatePage!LoadRecord, CandidatePage!Superseded, Supersede
<1>2. DOMAIN new = {"active", "served", "answer"}
  BY DEF CandidatePage!Read
<1>3. ASSUME NEW r \in recordReads
      PROVE  DOMAIN Supersede(r) = {"active", "served", "answer"} /\ ~Supersede(r).active
  BY DEF CandidatePageInv, Supersede
<1> HIDE DEF new
<1> QED
  BY <1>1, <1>2, <1>3

LEMMA CandidatePageStep ==
    ASSUME CandidatePageInv, [CandidatePage!Next]_(CandidatePage!vars)
    PROVE  CandidatePageInv' /\ CandidatePage!SavesReplaceEdits
<1>1. CASE CandidatePage!RetryCandidate
  BY <1>1, RecordLoads DEF CandidatePage!RetryCandidate, CandidatePageInv,
                           CandidatePage!SavesReplaceEdits
<1>2. ASSUME NEW r \in recordReads, CandidatePage!ApiReadsRecord(r)
      PROVE  CandidatePageInv' /\ CandidatePage!SavesReplaceEdits
  <2> DEFINE answered == Answer(r, stored)
  <2>1. /\ recordReads' = (recordReads \ {r}) \cup {answered}
        /\ UNCHANGED <<recordStatus, edited>>
    BY <1>2 DEF CandidatePage!ApiReadsRecord, CandidatePage!Answered, Answer
  <2>2. DOMAIN answered = {"active", "served", "answer"} /\ answered.active = r.active
    BY DEF CandidatePageInv, Answer
  <2> HIDE DEF answered
  <2> QED
    BY <2>1, <2>2 DEF CandidatePageInv, CandidatePage!SavesReplaceEdits
<1>3. ASSUME NEW r \in recordReads, CandidatePage!HearRecord(r)
      PROVE  CandidatePageInv' /\ CandidatePage!SavesReplaceEdits
  <2>1. recordReads' = recordReads \ {r}
    BY <1>3 DEF CandidatePage!HearRecord
  <2>2. CASE r.active
    <3>1. edited = {} /\ \A other \in recordReads' : ~other.active
      BY <2>1, <2>2 DEF CandidatePageInv
    <3>2. edited' = {}
      BY <1>3, <2>2, <3>1 DEF CandidatePage!HearRecord, CandidatePage!Fill
    <3> QED
      BY <2>1, <3>1, <3>2 DEF CandidatePageInv, CandidatePage!SavesReplaceEdits
  <2>3. CASE ~r.active
    <3>1. UNCHANGED <<recordStatus, edited>>
      BY <1>3, <2>3 DEF CandidatePage!HearRecord
    <3> QED
      BY <2>1, <3>1 DEF CandidatePageInv, CandidatePage!SavesReplaceEdits
  <2> QED
    BY <2>2, <2>3
<1>4. ASSUME NEW s \in saves, CandidatePage!HearSaved(s)
      PROVE  CandidatePageInv' /\ CandidatePage!SavesReplaceEdits
  <2>1. /\ s \in saves \ saves' /\ s.served
        /\ form' = s.answer /\ pipeline' = s.answer.pipeline /\ edited' = {}
        /\ UNCHANGED <<recordReads, recordStatus>>
    BY <1>4 DEF CandidatePage!HearSaved, CandidatePage!Fill
  <2> QED
    BY <2>1 DEF CandidatePageInv, CandidatePage!SavesReplaceEdits
<1>5. ASSUME NEW value, \/ CandidatePage!TypePipeline(value)
                        \/ \E field \in {"pipeline", "details"} :
                              CandidatePage!TypeDetails(field, value)
      PROVE  CandidatePageInv' /\ CandidatePage!SavesReplaceEdits
  <2>1. /\ recordStatus = "success" /\ edited \subseteq edited'
        /\ UNCHANGED <<recordReads, recordStatus>>
    BY <1>5 DEF CandidatePage!TypePipeline, CandidatePage!TypeDetails,
                CandidatePage!FormsShown
  <2> QED
    BY <2>1 DEF CandidatePageInv, CandidatePage!SavesReplaceEdits
<1>6. ASSUME UNCHANGED <<recordReads, recordStatus, edited>>
      PROVE  CandidatePageInv' /\ CandidatePage!SavesReplaceEdits
  BY <1>6 DEF CandidatePageInv, CandidatePage!SavesReplaceEdits
<1>7. CASE \/ CandidatePage!HandleRecordUpdate \/ CandidatePage!HandleCandidateSave
           \/ \E s \in saves : CandidatePage!ApiSaves(s) \/ CandidatePage!SaveFails(s)
           \/ UNCHANGED CandidatePage!vars
  BY <1>6, <1>7
     DEF CandidatePage!HandleRecordUpdate, CandidatePage!HandleCandidateSave, CandidatePage!Save, CandidatePage!ApiSaves,
         CandidatePage!SaveFails, CandidatePage!vars, CandidatePage!recordVars
<1>8. CASE \/ CandidatePage!RetryNotes \/ CandidatePage!TypeNote \/ CandidatePage!AddNote
           \/ \E n \in Notes : CandidatePage!DeleteNote(n)
           \/ \E r \in notesReads : CandidatePage!ApiReadsNotes(r) \/ CandidatePage!HearNotes(r)
           \/ \E d \in deletes : CandidatePage!ApiDeletesNote(d) \/ CandidatePage!HearDeleted(d)
           \/ CandidatePage!ApiAddsNote \/ CandidatePage!HearAdded \/ CandidatePage!AddFails
  BY <1>6, <1>8
     DEF CandidatePage!RetryNotes, CandidatePage!TypeNote, CandidatePage!AddNote,
         CandidatePage!DeleteNote, CandidatePage!ApiReadsNotes, CandidatePage!HearNotes,
         CandidatePage!ApiDeletesNote, CandidatePage!HearDeleted, CandidatePage!ApiAddsNote,
         CandidatePage!HearAdded, CandidatePage!AddFails, CandidatePage!recordVars
<1> QED
  BY <1>1, <1>2, <1>3, <1>4, <1>5, <1>7, <1>8 DEF CandidatePage!Next, CandidatePage!Hear

\* What is typed in either form is replaced by nothing but the record a save came back
\* with, which then fills both: a save that fails, and whatever loads, fails, is retried,
\* added or removed around it, leave it alone.
THEOREM EditsAreKept == Spec => OnlySavesReplaceEdits
<1> DEFINE Inv == screen = "candidate" => CandidatePageInv
<1>1. Init => Inv
  <2> SUFFICES ASSUME CandidatePage!Init PROVE CandidatePageInv
    BY OpensOnePage
  <2> DEFINE first == CandidatePage!Read(CandidatePage!NoRecord)
  <2>1. DOMAIN first = {"active", "served", "answer"}
    BY DEF CandidatePage!Read
  <2>2. recordReads = {first} /\ recordStatus = "loading" /\ edited = {}
    BY DEF CandidatePage!Init
  <2> HIDE DEF first
  <2> QED
    BY <2>1, <2>2 DEF CandidatePageInv
<1>2. Inv /\ [Next]_vars => Inv' /\ [screen = "candidate" => CandidatePage!SavesReplaceEdits]_vars
  BY StepsOfOnePage, CandidatePageStep
<1> QED
  BY <1>1, <1>2, PTL DEF Spec, OnlySavesReplaceEdits
=============================================================================
