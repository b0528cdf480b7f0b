-------------------------- MODULE WeeklyDashboard --------------------------
(***************************************************************************)
(* components/reporting/WeeklyPerformanceDashboard of the back office over *)
(* the requests of lib/reporting: one week's figures at a time, the week   *)
(* asked for (none asks for the most recent one), and the notices of the   *)
(* latest pipeline run.  The reporting API is external here: it holds the  *)
(* calculated weeks, which only grow.                                      *)
(*                                                                         *)
(* A week is its number; a report is the week its figures are about.       *)
(***************************************************************************)
EXTENDS Naturals, FiniteSets, FiniteSetsExt

CONSTANTS Weeks,        \* numbers of the weeks that can be asked for, consecutive
          Calculated,   \* those the pipeline has published when the page opens
          MaxRequests   \* bound: requests for figures after the first

None == 0

VARIABLES
    sent,               \* bound: requests sent
    published,          \* the weeks the API can answer
    requestedWeek,      \* None asks for the most recent week
    report,             \* the week of the figures held, None before the first
    latestWeek,         \* the most recent week, as last answered
    error,              \* an error is shown
    loading,
    reads,              \* requests of the figures' effect: one may be superseded
    run                 \* the pipeline run read once: the weeks it covers, {} until heard

vars == <<sent, published, requestedWeek, report, latestWeek, error, loading, reads, run>>

Read(week) == [of |-> week, active |-> TRUE, served |-> FALSE, answer |-> None]
Superseded == {[r EXCEPT !.active = FALSE] : r \in reads}

\* The week of the heading: the one asked for, else the one of the figures held.
ShownWeek == IF requestedWeek # None THEN requestedWeek ELSE report
CanGoForward == ShownWeek # None /\ latestWeek # None /\ ShownWeek < latestWeek

\* Figures are shown while another week loads; afterwards, only the heading's week.
VisibleReport == report # None /\ (loading \/ report = ShownWeek)

\* RunNotices: what the latest run says of the week shown.
RunCoversShown == VisibleReport /\ report \in run

\* What the page offers: the two buttons, and those of the error panel.
PreviousEnabled == ShownWeek # None /\ ~loading
NextEnabled == CanGoForward /\ ~loading
MostRecentShown == error /\ latestWeek # None /\ ShownWeek # latestWeek

Init ==
    /\ published = Calculated /\ requestedWeek = None /\ report = None /\ latestWeek = None
    /\ error = FALSE /\ loading = TRUE /\ reads = {Read(None)} /\ run = {} /\ sent = 0

-----------------------------------------------------------------------------
\* showWeek: the effect depends on requestedWeek, so it runs again only if that
\* value changes.
ShowWeek(week) ==
    LET requested == IF week = latestWeek THEN None ELSE week IN
    /\ loading' = TRUE /\ error' = FALSE
    /\ requestedWeek' = requested
    /\ IF requested = requestedWeek THEN UNCHANGED <<sent, reads>>
       ELSE /\ sent < MaxRequests /\ sent' = sent + 1
            /\ reads' = Superseded \cup {Read(requested)}
    /\ UNCHANGED <<published, report, latestWeek, run>>

Previous == PreviousEnabled /\ ShownWeek - 1 \in Weeks /\ ShowWeek(ShownWeek - 1)
NextWeek == NextEnabled /\ ShowWeek(ShownWeek + 1)
MostRecent == MostRecentShown /\ ShowWeek(latestWeek)

\* retry: the attempt number is a dependency too.
Retry ==
    /\ error
    /\ loading' = TRUE /\ error' = FALSE
    /\ sent < MaxRequests /\ sent' = sent + 1
    /\ reads' = Superseded \cup {Read(requestedWeek)}
    /\ UNCHANGED <<published, requestedWeek, report, latestWeek, run>>

-----------------------------------------------------------------------------
\* GET /reporting/weekly-warehouse-client-performance, 404 for a week that was
\* not calculated: a request left unserved is refused or lost.
ApiReports(r) ==
    /\ ~r.served
    /\ LET week == IF r.of = None THEN Max(published \cup {None}) ELSE r.of IN
       /\ week \in published
       /\ reads' = (reads \ {r}) \cup {[r EXCEPT !.served = TRUE, !.answer = week]}
    /\ UNCHANGED <<sent, published, requestedWeek, report, latestWeek, error, loading, run>>

HearReport(r) ==
    /\ r.served
    /\ reads' = reads \ {r}
    /\ IF r.active
       THEN /\ report' = r.answer /\ error' = FALSE /\ loading' = FALSE
            /\ latestWeek' = IF r.of = None THEN r.answer ELSE latestWeek
       ELSE UNCHANGED <<report, error, loading, latestWeek>>
    /\ UNCHANGED <<sent, published, requestedWeek, run>>

\* Mutant: the failure is ignored, as the status effect does.
ReportFailsSilently(r) ==
    /\ reads' = reads \ {r}
    /\ loading' = IF r.active THEN FALSE ELSE loading
    /\ UNCHANGED <<sent, published, requestedWeek, report, latestWeek, error, run>>

ReportFails(r) ==
    /\ reads' = reads \ {r}
    /\ IF r.active THEN error' = TRUE /\ loading' = FALSE ELSE UNCHANGED <<error, loading>>
    /\ UNCHANGED <<sent, published, requestedWeek, report, latestWeek, run>>

\* The status effect: read once, and its failure is ignored.
HearRun ==
    /\ run = {} /\ published # {}
    /\ run' \in {{w \in Weeks : w >= from /\ w <= Max(published)} : from \in published}
    /\ UNCHANGED <<sent, published, requestedWeek, report, latestWeek, error, loading, reads>>

\* Elsewhere: the pipeline publishes the next week.
PipelinePublishes ==
    /\ \E w \in Weeks \ published : published' = published \cup {w}
    /\ UNCHANGED <<sent, requestedWeek, report, latestWeek, error, loading, reads, run>>

Hear == \E r \in reads : ApiReports(r) \/ HearReport(r) \/ ReportFails(r)

Next ==
    \/ Previous \/ NextWeek \/ MostRecent \/ Retry
    \/ Hear \/ HearRun \/ PipelinePublishes

Spec == Init /\ [][Next]_vars /\ WF_vars(Hear)

-----------------------------------------------------------------------------
\* At rest without an error, the page shows figures, and they are those of the week the
\* heading names: neither a week that was never calculated nor the weeks published since
\* leave another week's figures, or none, under it (WeeklyPerformanceDashboard.tsx:294-296).
FiguresAreOfTheShownWeek == ~loading /\ ~error => VisibleReport

\* A page that says it is loading comes to rest: the week it waits for is answered,
\* or the failure is shown (WeeklyPerformanceDashboard.tsx:258-260, 294-295).
LoadingEnds == loading ~> ~loading
=============================================================================
