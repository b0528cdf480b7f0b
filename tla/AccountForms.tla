---------------------------- MODULE AccountForms ---------------------------
(***************************************************************************)
(* The six forms of an account in the back office (the website has copies  *)
(* of them): sign in, register, ask for a reset link, set a new password   *)
(* from one, edit the profile, change the password; each with the request  *)
(* of services/auth-service behind it.  The API is external here: it does  *)
(* what is asked, or not, and its answer may be lost either way.           *)
(*                                                                         *)
(* What is typed is valid or not.  A page that has called router.replace   *)
(* is leaving: it stays as it is until the next one replaces it.           *)
(***************************************************************************)
EXTENDS FlowTelemetry

CONSTANT MaxSubmits     \* bound: requests a form sends

Forms == {"login", "register", "forgot", "reset", "profile", "change"}

VARIABLES
    form,               \* the form on screen
    link,               \* reset only: the token of the address, "reading" before it is known
    valid,              \* what is typed passes the form's validation
    errors,             \* messages shown: of fields, of the form
    success,            \* its success message is shown
    isSubmitting,       \* isSaving on the two account pages
    isSent,             \* forgot only
    rejected,           \* reset only: rejectionMessage
    leaving,            \* where the router is going, "" before
    post,               \* the request under way, and what the API made of it
    flow,
    submits,            \* bound
    settled             \* history: the page heard that what it asked for is done, or cannot be

shown == <<errors, success, isSubmitting, isSent, rejected, leaving>>
vars == <<form, link, valid, shown, post, flow, submits, settled>>

Flows == Forms \ {"login", "profile"}
Report(next) == flow' = IF form \in Flows THEN next ELSE flow
LinkReadable == link = "present" /\ ~rejected

\* What the pages show: the reset form only over a link that may still work, the
\* request for a link locked once it was sent.
FormShown == form = "reset" => LinkReadable
SubmitEnabled == FormShown /\ ~isSubmitting /\ ~isSent

Init ==
    /\ form \in Forms /\ link = IF form = "reset" THEN "reading" ELSE "none"
    /\ valid = (form = "profile")
    /\ errors = {} /\ success = FALSE /\ isSubmitting = FALSE /\ isSent = FALSE
    /\ rejected = FALSE /\ leaving = "" /\ post = "none" /\ submits = 0 /\ settled = FALSE
    /\ flow = IF form \in Flows THEN NewFlow
              ELSE [started |-> FALSE, step |-> "opened", leaving |-> FALSE, balance |-> 0]

\* useLocationSearch: the query string is known after the first render only.
UseLocationSearch ==
    /\ link = "reading" /\ link' \in {"present", "missing"}
    /\ UNCHANGED <<form, valid, shown, post, flow, submits, settled>>

UpdateValues ==
    /\ FormShown /\ ~isSent
    /\ Report(FieldEdited(flow))
    /\ valid' \in BOOLEAN /\ errors' = {} /\ success' = FALSE
    /\ UNCHANGED <<form, link, isSubmitting, isSent, rejected, leaving, post, submits, settled>>

RejectSubmit ==
    /\ SubmitEnabled /\ ~valid
    /\ Report(ValidationFailedFields(flow))
    /\ errors' = {"fields"} /\ success' = FALSE
    /\ UNCHANGED <<form, link, valid, isSubmitting, isSent, rejected, leaving, post, submits,
                   settled>>

\* Every handleSubmit up to its await.
Submit ==
    /\ SubmitEnabled /\ valid /\ submits < MaxSubmits
    /\ submits' = submits + 1
    /\ Report(SubmitAttempted(flow))
    /\ isSubmitting' = TRUE /\ errors' = {} /\ success' = FALSE
    /\ post' = "sent"
    /\ UNCHANGED <<form, link, valid, isSent, rejected, leaving, settled>>

\* What the API makes of each request.  register() signs in after it created the
\* account, and says "signed out" when only that failed.
ApiOutcomes ==
    {"failed", "done"}
        \cup (IF form \in {"register", "reset", "change"} THEN {"refused"} ELSE {})
        \cup (IF form = "register" THEN {"signed out"} ELSE {})

ApiAnswers ==
    /\ post = "sent" /\ post' \in ApiOutcomes
    /\ UNCHANGED <<form, link, valid, shown, flow, submits, settled>>

-----------------------------------------------------------------------------
(* The rest of each handleSubmit, once its await has ended with `outcome`. *)

\* The form stays locked while the page leaves; any other outcome hands it back.
Leaves(to) == leaving' = to /\ errors' = {} /\ UNCHANGED <<isSubmitting, rejected>>
HandsBack(messages) == errors' = messages /\ isSubmitting' = FALSE /\ UNCHANGED <<leaving, rejected>>

LoginPage(outcome) ==
    /\ IF outcome = "done" THEN Leaves("next") ELSE HandsBack({"form"})
    /\ UNCHANGED <<valid, success, isSent, flow>>

\* Mutant: a failed automatic sign-in is reported like any other failure.
RegisterPageAsFailed(outcome) ==
    /\ IF outcome = "done"
       THEN flow' = Completed(flow) /\ Leaves("home")
       ELSE /\ flow' = SubmitFailed(flow)
            /\ HandsBack(IF outcome = "refused" THEN {"fields"} ELSE {"form"})
    /\ UNCHANGED <<valid, success, isSent>>

\* The account exists although signing in failed: the sign-in page says so.
RegisterPage(outcome) ==
    /\ IF outcome \in {"done", "signed out"}
       THEN /\ flow' = Completed(flow)
            /\ Leaves(IF outcome = "done" THEN "home" ELSE "login?registered")
       ELSE /\ flow' = SubmitFailed(flow)
            /\ HandsBack(IF outcome = "refused" THEN {"fields"} ELSE {"form"})
    /\ UNCHANGED <<valid, success, isSent>>

ForgotPasswordPage(outcome) ==
    /\ flow' = IF outcome = "done" THEN Completed(flow) ELSE SubmitFailed(flow)
    /\ isSent' = (outcome = "done")
    /\ HandsBack(IF outcome = "done" THEN {} ELSE {"form"})
    /\ UNCHANGED <<valid, success>>

\* A refused link cannot be retried: the form gives way to asking for another.
ResetPasswordPage(outcome) ==
    /\ flow' = IF outcome = "done" THEN Completed(flow) ELSE SubmitFailed(flow)
    /\ CASE outcome = "done" -> Leaves("login?reset")
         [] outcome = "refused" -> /\ rejected' = TRUE /\ isSubmitting' = FALSE
                                   /\ UNCHANGED <<errors, leaving>>
         [] OTHER -> HandsBack({"form"})
    /\ UNCHANGED <<valid, success, isSent>>

ProfilePage(outcome) ==
    /\ HandsBack(IF outcome = "done" THEN {} ELSE {"form"})
    /\ success' = (outcome = "done")
    /\ UNCHANGED <<valid, isSent, flow>>

\* The passwords typed are cleared once they are in force.
ChangePasswordPage(outcome) ==
    /\ flow' = IF outcome = "done" THEN Completed(flow) ELSE SubmitFailed(flow)
    /\ HandsBack(CASE outcome = "done" -> {} [] outcome = "refused" -> {"fields"} [] OTHER -> {"form"})
    /\ success' = (outcome = "done") /\ valid' = (outcome # "done" /\ valid)
    /\ UNCHANGED isSent

\* The answer arrives, or is lost whatever the API did.
Hears ==
    /\ post # "none"
    /\ \E outcome \in {post, "failed"} \ {"sent"} :
          /\ post' = "none"
          /\ \/ form = "login" /\ LoginPage(outcome)
             \/ form = "register" /\ RegisterPage(outcome)
             \/ form = "forgot" /\ ForgotPasswordPage(outcome)
             \/ form = "reset" /\ ResetPasswordPage(outcome)
             \/ form = "profile" /\ ProfilePage(outcome)
             \/ form = "change" /\ ChangePasswordPage(outcome)
          /\ settled' = \/ form \notin {"profile", "change"} /\ outcome \in {"done", "signed out"}
                        \/ form = "reset" /\ outcome = "refused"
    /\ UNCHANGED <<form, link, submits>>

Hear == ApiAnswers \/ Hears

Next == UseLocationSearch \/ UpdateValues \/ RejectSubmit \/ Submit \/ Hear
Spec == Init /\ [][Next]_vars

-----------------------------------------------------------------------------
\* A form whose purpose the page knows to be served, or beyond it, cannot be sent again: a
\* second account, a second e-mail, a second sign-in, a link that is spent
\* (RegisterPage.tsx:60-61, ForgotPasswordPage.tsx:63-64, LoginPage.tsx:73-74,
\* ResetPasswordPage.tsx:87-88).
SettledIsNotSentAgain == settled => ~SubmitEnabled
=============================================================================
