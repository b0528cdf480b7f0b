--------------------------- MODULE IncidentReport --------------------------
(***************************************************************************)
(* components/incidents/IncidentForm on its page: the report an operator   *)
(* fills in, sends with createIncident and may send again, and the flow it *)
(* reports with useFlowTelemetry.                                          *)
(*                                                                         *)
(* A field is empty or filled.  An answer may be lost after the API stored *)
(* the report: the form then offers to send it again.                      *)
(***************************************************************************)
EXTENDS FlowTelemetry, FiniteSets

CONSTANTS Fields,       \* fields of the form that start empty, all of them required
          MaxSubmits    \* bound: reports the operator sends

VARIABLES mounted,      \* the form is on screen
          filled,       \* the fields that hold a value
          fieldErrors,  \* the fields marked wrong
          formError, confirmation, isSubmitting,
          post,         \* the request under way: "none", "sent", "stored", "refused"
          flow,
          submits       \* reports sent so far

vars == <<mounted, filled, fieldErrors, formError, confirmation, isSubmitting, post, flow,
          submits>>
answerVars == <<post, submits>>

ValidateIncidentForm == Fields \ filled

\* What the JSX shows, and offers: the submit button only is disabled while a
\* report is under way, the inputs stay live.
FormShows == [marked |-> fieldErrors, message |-> formError, filed |-> confirmation,
              canSubmit |-> mounted /\ ~isSubmitting, canEdit |-> mounted]

Init ==
    /\ mounted = TRUE /\ filled = {} /\ fieldErrors = {} /\ formError = FALSE
    /\ confirmation = FALSE /\ isSubmitting = FALSE
    /\ post = "none" /\ flow = NewFlow /\ submits = 0

\* updateValues: only the edited field's message is cleared.
UpdateValues(field) ==
    /\ FormShows.canEdit
    /\ flow' = FieldEdited(flow)
    /\ \/ filled' = filled \cup {field}
       \/ filled' = filled \ {field}
    /\ fieldErrors' = fieldErrors \ {field}
    /\ formError' = FALSE /\ confirmation' = FALSE
    /\ UNCHANGED <<mounted, isSubmitting, answerVars>>

\* handleSubmit, when the form is not complete.
RejectSubmit ==
    /\ FormShows.canSubmit /\ ValidateIncidentForm # {}
    /\ flow' = ValidationFailedFields(flow)
    /\ fieldErrors' = ValidateIncidentForm
    /\ formError' = TRUE /\ confirmation' = FALSE
    /\ UNCHANGED <<mounted, filled, isSubmitting, answerVars>>

\* handleSubmit up to its await.
Submit ==
    /\ FormShows.canSubmit /\ ValidateIncidentForm = {} /\ submits < MaxSubmits
    /\ submits' = submits + 1
    /\ post' = "sent"
    /\ isSubmitting' = TRUE
    /\ fieldErrors' = {} /\ formError' = FALSE /\ confirmation' = FALSE
    /\ flow' = SubmitAttempted(flow)
    /\ UNCHANGED <<mounted, filled>>

\* The API stores the report, or refuses it (naming fields of its choice).
ApiAnswers ==
    /\ post = "sent"
    /\ post' \in {"stored", "refused"}
    /\ UNCHANGED <<mounted, filled, fieldErrors, formError, confirmation, isSubmitting, flow,
                   submits>>

\* The answer arrives: the flow is completed, the form cleared for the next
\* report.  State set on a form that is gone is lost, its flow's ref is not.
HearStored ==
    /\ post = "stored"
    /\ post' = "none"
    /\ flow' = Completed(flow)
    /\ IF mounted THEN filled' = {} /\ confirmation' = TRUE /\ isSubmitting' = FALSE
       ELSE UNCHANGED <<filled, confirmation, isSubmitting>>
    /\ UNCHANGED <<mounted, fieldErrors, formError, submits>>

\* The catch branch: a refusal, or an answer that never came.
HearFailure ==
    /\ post # "none"
    /\ post' = "none"
    /\ flow' = SubmitFailed(flow)
    /\ IF mounted
       THEN /\ \E marked \in IF post = "refused" THEN SUBSET Fields ELSE {{}} :
                   fieldErrors' = marked
            /\ formError' = TRUE /\ isSubmitting' = FALSE
       ELSE UNCHANGED <<fieldErrors, formError, isSubmitting>>
    /\ UNCHANGED <<mounted, filled, confirmation, submits>>

\* The operator follows a link: the form is unmounted.
Leave ==
    /\ mounted
    /\ mounted' = FALSE
    /\ flow' = Unmounted(flow)
    /\ UNCHANGED <<filled, fieldErrors, formError, confirmation, isSubmitting, answerVars>>

\* The timer of the cleanup.
AbandonLater ==
    /\ flow.leaving
    /\ flow' = Abandon(flow)
    /\ UNCHANGED <<mounted, filled, fieldErrors, formError, confirmation, isSubmitting,
                   answerVars>>

\* `pagehide`: the tab is closed, or kept to come back to with the Back button.
PageHide ==
    /\ mounted
    /\ flow' = Abandon(flow)
    /\ UNCHANGED <<mounted, filled, fieldErrors, formError, confirmation, isSubmitting,
                   answerVars>>

Hear == ApiAnswers \/ HearStored \/ HearFailure

Next ==
    \/ \E field \in Fields : UpdateValues(field)
    \/ RejectSubmit \/ Submit \/ Hear
    \/ Leave \/ AbandonLater \/ PageHide

Spec == Init /\ [][Next]_vars

-----------------------------------------------------------------------------
\* Every flow_started is followed by exactly one flow_completed or flow_abandoned,
\* whatever order the answer, the timer and `pagehide` come in
\* (useFlowTelemetry.ts:24-28).
FlowsEndOnce == flow.balance = IF flow.started THEN 1 ELSE 0
=============================================================================
