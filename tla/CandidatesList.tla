--------------------------- MODULE CandidatesList --------------------------
(***************************************************************************)
(* components/candidates/CandidatesListPage of the website with its        *)
(* CandidateCreateModal, over services/candidates-service.  The records    *)
(* API is another system: here it stores candidates and lists them.        *)
(*                                                                         *)
(* A candidate is an identifier with a pipeline status; the two filters    *)
(* and the search are one filter on it, applied in the browser.            *)
(***************************************************************************)
EXTENDS Naturals, FiniteSets

CONSTANTS Candidates,   \* candidates, the ones to be registered included
          Known,        \* those on record when the page opens
          Status,       \* Status[c]: the status c is listed with
          MaxRequests   \* bound: requests the page sends after it opened

VARIABLES
    sent,               \* bound: requests sent
    stored,             \* the candidates the records API holds
    candidates,         \* the rows the page holds
    listStatus,         \* with listError: "blank" is an error without its message
    loads,              \* reads of the mount effect: one may be superseded
    refreshes,          \* reads of refreshCandidates, which nothing supersedes
    filter,             \* what the rows shown are filtered by, "" when unset
    modalOpen,          \* the create modal is shown
    filled,             \* its form is complete
    isCreating,         \* isCreatingCandidate
    posts,              \* registrations under way
    message             \* what the modal says: "none", "error", "success"

listVars == <<candidates, listStatus, loads, refreshes, filter>>
modalVars == <<modalOpen, filled, isCreating, posts, message>>
vars == <<sent, stored, listVars, modalVars>>

Read == [active |-> TRUE, served |-> FALSE, answer |-> {}]
Sends(n) == sent + n <= MaxRequests /\ sent' = sent + n

\* Only statuses of rows held are offered; the rows shown match the filter set.
StatusOptions == {Status[c] : c \in candidates}
FilteredCandidates == {c \in candidates : filter \in {"", Status[c]}}

\* What the page shows under its header, in its JSX's order of conditions.
ListShows ==
    CASE listStatus = "loading" -> "loading"
      [] listStatus = "error" -> "error"
      [] listStatus = "blank" -> "nothing"
      [] candidates = {} -> "none registered"
      [] FilteredCandidates = {} -> "none match"
      [] OTHER -> "table"

\* The modal disables its submit button only: Close, Reset and the inputs stay.
SubmitEnabled == modalOpen /\ ~isCreating

Init ==
    /\ stored = Known /\ candidates = {} /\ listStatus = "loading" /\ loads = {Read}
    /\ refreshes = {} /\ filter = "" /\ modalOpen = FALSE /\ filled = FALSE
    /\ isCreating = FALSE /\ posts = {} /\ message = "none" /\ sent = 0

-----------------------------------------------------------------------------
Retry ==
    /\ ListShows = "error"
    /\ Sends(1)
    /\ loads' = {[r EXCEPT !.active = FALSE] : r \in loads} \cup {Read}
    /\ listStatus' = "loading"
    /\ UNCHANGED <<stored, candidates, refreshes, filter, modalVars>>

UpdateFilter(value) ==
    /\ value # filter /\ value \in StatusOptions \cup {""}
    /\ filter' = value
    /\ UNCHANGED <<sent, stored, candidates, listStatus, loads, refreshes, modalVars>>

\* GET /records, for either kind of read.
ApiLists(r) ==
    /\ ~r.served
    /\ LET answered == [r EXCEPT !.served = TRUE, !.answer = stored]
       IN \/ r \in loads /\ loads' = (loads \ {r}) \cup {answered} /\ UNCHANGED refreshes
          \/ /\ r \in refreshes /\ refreshes' = (refreshes \ {r}) \cup {answered}
             /\ UNCHANGED loads
    /\ UNCHANGED <<sent, stored, candidates, listStatus, filter, modalVars>>

HearLoad(r) ==
    /\ r \in loads
    /\ loads' = loads \ {r}
    /\ \/ r.served /\ r.active /\ candidates' = r.answer /\ listStatus' = "success"
       \/ r.active /\ listStatus' = "error" /\ UNCHANGED candidates
       \/ ~r.active /\ UNCHANGED <<candidates, listStatus>>
    /\ UNCHANGED <<sent, stored, refreshes, filter, modalVars>>

\* refreshCandidates never throws: it reports its own failure on the list.
HearRefresh(r) ==
    /\ r \in refreshes
    /\ refreshes' = refreshes \ {r}
    /\ \/ r.served /\ candidates' = r.answer /\ listStatus' = "success"
       \/ listStatus' = "error" /\ UNCHANGED candidates
    /\ UNCHANGED <<sent, stored, loads, filter, modalVars>>

-----------------------------------------------------------------------------
OpenModal ==
    /\ ~modalOpen
    /\ modalOpen' = TRUE /\ message' = "none"
    /\ UNCHANGED <<sent, stored, listVars, filled, isCreating, posts>>

CloseModal ==
    /\ modalOpen /\ modalOpen' = FALSE
    /\ UNCHANGED <<sent, stored, listVars, filled, isCreating, posts, message>>

FieldChange ==
    /\ modalOpen
    /\ filled' \in BOOLEAN /\ message' = "none"
    /\ UNCHANGED <<sent, stored, listVars, modalOpen, isCreating, posts>>

ResetForm ==
    /\ modalOpen
    /\ filled' = FALSE /\ message' = "none"
    /\ UNCHANGED <<sent, stored, listVars, modalOpen, isCreating, posts>>

\* handleCreateCandidate up to its await.
Create ==
    /\ SubmitEnabled
    /\ IF ~filled
       THEN message' = "error" /\ UNCHANGED <<sent, isCreating, posts>>
       ELSE /\ Sends(1)
            /\ isCreating' = TRUE /\ message' = "none"
            /\ posts' = posts \cup {"sent"}
    /\ UNCHANGED <<stored, listVars, modalOpen, filled>>

ApiCreates ==
    /\ "sent" \in posts
    /\ \E c \in Candidates \ stored : stored' = stored \cup {c}
    /\ posts' = {"stored"}
    /\ UNCHANGED <<sent, listVars, modalOpen, filled, isCreating, message>>

\* Created: the form is cleared and the success said before the list is read again.  The
\* silent refresh takes the list's error away, and its retry with it, before the answer.
HearCreated ==
    /\ "stored" \in posts
    /\ Sends(1)
    /\ posts' = {} /\ isCreating' = FALSE
    /\ filled' = FALSE /\ message' = "success"
    /\ refreshes' = refreshes \cup {Read}
    /\ listStatus' = IF listStatus = "error" THEN "blank" ELSE listStatus
    /\ UNCHANGED <<stored, candidates, loads, filter, modalOpen>>

\* Refused, or the answer is lost: the form keeps its values.
CreateFails ==
    /\ posts # {}
    /\ posts' = {} /\ isCreating' = FALSE /\ message' = "error"
    /\ UNCHANGED <<sent, stored, listVars, modalOpen, filled>>

Hear ==
    \/ \E r \in loads \cup refreshes : ApiLists(r) \/ HearLoad(r) \/ HearRefresh(r)
    \/ ApiCreates \/ HearCreated \/ CreateFails

Next ==
    \/ Retry
    \/ \E value \in StatusOptions \cup {""} : UpdateFilter(value)
    \/ OpenModal \/ CloseModal \/ FieldChange \/ ResetForm \/ Create
    \/ Hear

Spec == Init /\ [][Next]_vars

=============================================================================
