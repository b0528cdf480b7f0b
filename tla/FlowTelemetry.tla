--------------------------- MODULE FlowTelemetry ---------------------------
(***************************************************************************)
(* hooks/useFlowTelemetry: what the back office reports about one use of a *)
(* form.  A flow is the hook's ref, a value; `balance` is the number of    *)
(* flow_started it reported minus the flow_completed and flow_abandoned.   *)
(***************************************************************************)
EXTENDS Integers

Step == {"opened", "field_edited", "submit_failed", "submitted_awaiting_response"}
Flow == [started : BOOLEAN, step : Step, leaving : BOOLEAN, balance : Int]

\* The ref emptied, keeping what was reported and the timer that is pending.
Fresh(flow) == [flow EXCEPT !.started = FALSE, !.step = "opened"]

Begin(flow) ==
    IF flow.started THEN flow
    ELSE [Fresh(flow) EXCEPT !.started = TRUE, !.balance = @ + 1]

Ended(flow) == [Fresh(flow) EXCEPT !.balance = @ - 1]

\* The effect of a mounted form: the flow begins, any deferred abandon is off.
Mounted(flow) == Begin([flow EXCEPT !.leaving = FALSE])
NewFlow == Mounted([started |-> FALSE, step |-> "opened", leaving |-> FALSE, balance |-> 0])

\* Its cleanup: the abandon is left to a timer, which a remount cancels.
Unmounted(flow) == [flow EXCEPT !.leaving = TRUE]

Abandon(flow) ==
    LET timedOut == [flow EXCEPT !.leaving = FALSE]
    IN IF flow.started THEN Ended(timedOut) ELSE timedOut

FieldEdited(flow) == [Begin(flow) EXCEPT !.step = "field_edited"]
SubmitAttempted(flow) == [Begin(flow) EXCEPT !.step = "submitted_awaiting_response"]
SubmitFailed(flow) == [flow EXCEPT !.step = "submit_failed"]
ValidationFailedFields(flow) == SubmitFailed(flow)

\* Mutant: completed() reports without looking whether the flow has ended.
CompletedTwice(flow) == Ended(flow)

Completed(flow) == IF flow.started THEN Ended(flow) ELSE flow
=============================================================================
