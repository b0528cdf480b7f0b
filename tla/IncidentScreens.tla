-------------------------- MODULE IncidentScreens --------------------------
(***************************************************************************)
(* The incident list of the back office: components/incidents/             *)
(* IncidentsListPage, with an IncidentStatusControl in every row and the   *)
(* IncidentSummaryPanel above the table, one tab of them, over             *)
(* services/incidents-service and the API that other operators use too.    *)
(*                                                                         *)
(* A request is a step of the API (it may run before or after the browser  *)
(* gives up on it) and a later step of the page that hears the answer, so  *)
(* answers arrive in any order.  An incident is its status and its origin; *)
(* a summary is the number of changes the API had stored when it counted.  *)
(***************************************************************************)
EXTENDS Naturals, FiniteSets

CONSTANTS Incidents,    \* incidents on record
          Origin,       \* Origin[i]: where i was reported from
          FilterValues, \* FilterValues[key]: values offered for a filter, besides ""
          MaxRequests,  \* bound: requests the page sends after it opened
          MaxChanges    \* bound: status changes that reach the API

VARIABLES
    sent,          \* bound: the requests sent so far
    stored,        \* stored[i]: the status the API holds
    changes,       \* how many status changes the API has stored
    filters,       \* the filters in the page's query string
    rows,          \* rows[i]: the status the table shows, "absent" outside it
    listStatus, listReads,
    moves,         \* status changes sent by a row's control
    problem,       \* problem[i]: what the control of row i says went wrong
    summary,       \* the figures on the panel (0 before the first ones)
    summaryStatus, summaryReads,
    shownFor,      \* history: the filters the rows were last read under
    had,           \* history, had[i]: every status i ever held
    confirmed      \* history: the last change whose success this tab heard of

listVars == <<filters, rows, listStatus, listReads, moves, problem, shownFor>>
summaryVars == <<summary, summaryStatus, summaryReads>>
storeVars == <<stored, changes, had>>
vars == <<sent, storeVars, listVars, summaryVars, confirmed>>

Statuses == {"open", "in_progress", "resolved", "discarded"}
AsyncStatus == {"loading", "success", "error"}

AllowedTransitionsFrom(s) ==
    CASE s = "open" -> {"in_progress", "discarded"}
      [] s = "in_progress" -> {"resolved", "discarded"}
      [] OTHER -> {}

IsFinalStatus(s) == AllowedTransitionsFrom(s) = {}

NoFilters == [key \in DOMAIN FilterValues |-> ""]
CountActiveFilters(f) == Cardinality({key \in DOMAIN f : f[key] # ""})

\* What the API lists under filters f: only set filters constrain the rows.
Listed(f) == [i \in Incidents |->
    IF /\ f["status"] \in {"", stored[i]}
       /\ f["origin"] \in {"", Origin[i]}
    THEN stored[i] ELSE "absent"]

(* A read is what it asks for, whether its effect is still the current one
   (the `active` flag its cleanup clears) and the API's answer, if any yet. *)
Read(of, nothing) == [of |-> of, active |-> TRUE, served |-> FALSE, answer |-> nothing]
Superseded(reads) == {[r EXCEPT !.active = FALSE] : r \in reads}
NoRows == [i \in Incidents |-> "absent"]
Answered(reads, r, answer) ==
    (reads \ {r}) \cup {[r EXCEPT !.served = TRUE, !.answer = answer]}

InTable == {i \in Incidents : rows[i] # "absent"}
\* A control is busy while the change it sent is under way; a control whose
\* row left the table is gone, and a row that returns has a fresh one.
Saving(i) == \E m \in moves : m.incident = i /\ m.heard /\ m.mounted

(* What the list offers, as its JSX decides it. *)
FirstLoadShown == listStatus = "loading" /\ InTable = {}
RetryShown == listStatus = "error"
ClearShown == CountActiveFilters(filters) > 0
EmptyShown == listStatus = "success" /\ InTable = {}
TableShown == InTable # {}

\* The options of a row's select, which is disabled while it saves and gives
\* way to a plain label once the status is final.
Offered(i) == IF Saving(i) \/ IsFinalStatus(rows[i]) THEN {}
              ELSE AllowedTransitionsFrom(rows[i])
RefreshShown(i) ==
    problem[i] = "gone" /\ i \in InTable /\ ~Saving(i) /\ ~IsFinalStatus(rows[i])

Init ==
    /\ stored = [i \in Incidents |-> "open"] /\ changes = 0
    /\ had = [i \in Incidents |-> {"open"}]
    /\ filters = NoFilters /\ shownFor = NoFilters
    /\ rows = NoRows
    /\ listStatus = "loading" /\ listReads = {Read(NoFilters, NoRows)}
    /\ moves = {} /\ problem = [i \in Incidents |-> "none"]
    /\ summary = 0 /\ summaryStatus = "loading"
    /\ summaryReads = {Read("summary", 0)}
    /\ confirmed = 0 /\ sent = 0

Sends == sent < MaxRequests /\ sent' = sent + 1

-----------------------------------------------------------------------------
(* The list: its effect reads again whenever a filter or `attempt` changes. *)

Reload(f) ==
    /\ Sends
    /\ listReads' = Superseded(listReads) \cup {Read(f, NoRows)}
    /\ listStatus' = "loading"
    /\ UNCHANGED <<storeVars, rows, moves, problem, shownFor, summaryVars, confirmed>>

UpdateQueryFilter(key, value) ==
    /\ value # filters[key]
    /\ filters' = [filters EXCEPT ![key] = value]
    /\ Reload(filters')

ClearFilters ==
    /\ ClearShown
    /\ filters' = NoFilters
    /\ Reload(filters')

Retry ==
    /\ RetryShown \/ \E i \in Incidents : RefreshShown(i)
    /\ Reload(filters)
    /\ UNCHANGED filters

ApiLists(r) ==
    /\ ~r.served
    /\ listReads' = Answered(listReads, r, Listed(r.of))
    /\ UNCHANGED <<sent, storeVars, filters, rows, listStatus, moves, problem, shownFor,
                   summaryVars, confirmed>>

\* The rows are replaced; controls of rows that left are unmounted.
ShowRows(r) ==
    /\ rows' = r.answer /\ shownFor' = r.of
    /\ listStatus' = "success"
    /\ moves' = {[m EXCEPT !.mounted = @ /\ r.answer[m.incident] # "absent"] : m \in moves}
    /\ problem' = [i \in Incidents |-> IF r.answer[i] = "absent" THEN "none" ELSE problem[i]]

\* Mutant: the effect has no `active` flag.
HearListUnguarded(r) ==
    /\ r.served
    /\ listReads' = listReads \ {r}
    /\ ShowRows(r)
    /\ UNCHANGED <<sent, storeVars, filters, summaryVars, confirmed>>

HearList(r) ==
    /\ r.served
    /\ listReads' = listReads \ {r}
    /\ IF r.active THEN ShowRows(r)
       ELSE UNCHANGED <<rows, listStatus, moves, problem, shownFor>>
    /\ UNCHANGED <<sent, storeVars, filters, summaryVars, confirmed>>

\* A read that fails keeps the rows already listed.
ListFails(r) ==
    /\ listReads' = listReads \ {r}
    /\ listStatus' = IF r.active THEN "error" ELSE listStatus
    /\ UNCHANGED <<sent, storeVars, filters, rows, moves, problem, shownFor, summaryVars,
                   confirmed>>

-----------------------------------------------------------------------------
(* A row's status control. *)

\* handleChange up to its await: the row moves before the API has agreed.
ChooseStatus(i, next) ==
    /\ i \in InTable /\ next \in Offered(i)
    /\ Sends
    /\ moves' = moves \cup {[incident |-> i, from |-> rows[i], to |-> next,
                             answer |-> "none", change |-> 0,
                             heard |-> TRUE, mounted |-> TRUE]}
    /\ rows' = [rows EXCEPT ![i] = next]
    /\ problem' = [problem EXCEPT ![i] = "none"]
    /\ UNCHANGED <<storeVars, filters, listStatus, listReads, shownFor, summaryVars,
                   confirmed>>

Stores(i, next) ==
    /\ changes < MaxChanges
    /\ stored' = [stored EXCEPT ![i] = next]
    /\ had' = [had EXCEPT ![i] = @ \cup {next}]
    /\ changes' = changes + 1

\* The API checks the transition itself: a move that is no longer legal is a
\* 400, and one of an incident it does not hold a 404.
ApiMoves(m) ==
    /\ m.answer = "none"
    /\ \/ /\ m.to \in AllowedTransitionsFrom(stored[m.incident])
          /\ Stores(m.incident, m.to)
          /\ moves' = (moves \ {m}) \cup
                (IF m.heard THEN {[m EXCEPT !.answer = "done", !.change = changes']}
                 ELSE {})
       \/ /\ m.to \notin AllowedTransitionsFrom(stored[m.incident])
          /\ moves' = (moves \ {m}) \cup
                (IF m.heard THEN {[m EXCEPT !.answer =
                    IF stored[m.incident] = "absent" THEN "gone" ELSE "refused"]}
                 ELSE {})
          /\ UNCHANGED storeVars
    /\ UNCHANGED <<sent, filters, rows, listStatus, listReads, problem, shownFor, summaryVars,
                   confirmed>>

RowIs(i, status) ==
    rows' = IF i \in InTable THEN [rows EXCEPT ![i] = status] ELSE rows

ReadSummary ==
    /\ summaryReads' = Superseded(summaryReads) \cup {Read("summary", 0)}
    /\ summaryStatus' = "loading"
    /\ UNCHANGED summary

\* Mutant: replaceIncident does not bump summaryToken.
HearDoneQuietly(m) ==
    /\ m.answer = "done"
    /\ moves' = moves \ {m}
    /\ RowIs(m.incident, m.to)
    /\ confirmed' = IF confirmed < m.change THEN m.change ELSE confirmed
    /\ UNCHANGED <<sent, storeVars, filters, listStatus, listReads, problem, shownFor,
                   summaryVars>>

\* replaceIncident: the confirmed row, and a new summaryToken.
HearDone(m) ==
    /\ m.answer = "done"
    /\ Sends
    /\ moves' = moves \ {m}
    /\ RowIs(m.incident, m.to)
    /\ ReadSummary
    /\ confirmed' = IF confirmed < m.change THEN m.change ELSE confirmed
    /\ UNCHANGED <<storeVars, filters, listStatus, listReads, problem, shownFor>>

\* Mutant: the catch branch reports the failure and leaves the row as moved.
MoveFailsLeftMoved(m) ==
    /\ m.heard /\ m.answer # "done"
    /\ moves' = moves \ {m}
    /\ problem' = [problem EXCEPT ![m.incident] = IF m.mounted THEN "said" ELSE @]
    /\ UNCHANGED <<sent, storeVars, filters, rows, listStatus, listReads, shownFor, summaryVars,
                   confirmed>>

\* The catch branch: the row goes back to the status it had, and the control
\* says why.  A request given up on may still reach the API.
MoveFails(m) ==
    /\ m.heard
    /\ moves' = (moves \ {m}) \cup
                (IF m.answer = "none" THEN {[m EXCEPT !.heard = FALSE, !.mounted = FALSE]}
                 ELSE {})
    /\ RowIs(m.incident, m.from)
    /\ problem' = [problem EXCEPT ![m.incident] =
                     IF ~m.mounted THEN @ ELSE IF m.answer = "gone" THEN "gone" ELSE "said"]
    /\ UNCHANGED <<sent, storeVars, filters, listStatus, listReads, shownFor, summaryVars,
                   confirmed>>

-----------------------------------------------------------------------------
(* The panel: numbers stay on screen while it reads again, and after an error. *)

RetrySummary ==
    /\ summaryStatus = "error"
    /\ Sends
    /\ ReadSummary
    /\ UNCHANGED <<storeVars, listVars, confirmed>>

ApiCounts(r) ==
    /\ ~r.served
    /\ summaryReads' = Answered(summaryReads, r, changes)
    /\ UNCHANGED <<sent, storeVars, listVars, summary, summaryStatus, confirmed>>

HearSummary(r) ==
    /\ r.served
    /\ summaryReads' = summaryReads \ {r}
    /\ IF r.active THEN summary' = r.answer /\ summaryStatus' = "success"
       ELSE UNCHANGED <<summary, summaryStatus>>
    /\ UNCHANGED <<sent, storeVars, listVars, confirmed>>

SummaryFails(r) ==
    /\ summaryReads' = summaryReads \ {r}
    /\ summaryStatus' = IF r.active THEN "error" ELSE summaryStatus
    /\ UNCHANGED <<sent, storeVars, listVars, summary, confirmed>>

-----------------------------------------------------------------------------
\* Another operator moves an incident, or a lost update of the shared file
\* (module Incidents) takes its row.
Elsewhere(i) ==
    /\ stored[i] # "absent"
    /\ \E s \in AllowedTransitionsFrom(stored[i]) \cup {"absent"} : Stores(i, s)
    /\ UNCHANGED <<sent, listVars, summaryVars, confirmed>>

Hear ==
    \/ \E r \in listReads : ApiLists(r) \/ HearList(r) \/ ListFails(r)
    \/ \E r \in summaryReads : ApiCounts(r) \/ HearSummary(r) \/ SummaryFails(r)
    \/ \E m \in moves : ApiMoves(m) \/ HearDone(m) \/ MoveFails(m)

Next ==
    \/ \E key \in DOMAIN FilterValues : \E v \in FilterValues[key] \cup {""} :
            UpdateQueryFilter(key, v)
    \/ ClearFilters \/ Retry \/ RetrySummary
    \/ \E i \in Incidents : \E s \in Statuses : ChooseStatus(i, s)
    \/ \E i \in Incidents : Elsewhere(i)
    \/ Hear

Spec == Init /\ [][Next]_vars

-----------------------------------------------------------------------------
\* A settled table holds rows that were read under the filters it names, however
\* the answers to earlier filters arrive (IncidentsListPage.tsx:69-108).
ListMatchesFilters == listStatus = "success" => shownFor = filters

\* A refused or failed change does not stay on screen: a row no control is
\* saving shows a status the incident really held (IncidentStatusControl.tsx:24-29).
NoPhantomStatus ==
    \A i \in InTable : (\A m \in moves : m.incident = i => ~m.heard) => rows[i] \in had[i]

\* Figures at rest count every change this tab was told had succeeded, also when
\* two changes are confirmed while a count is under way (IncidentsListPage.tsx:57).
SummaryCoversConfirmed == summaryStatus = "success" => summary >= confirmed
=============================================================================
