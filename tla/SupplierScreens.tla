-------------------------- MODULE SupplierScreens --------------------------
(***************************************************************************)
(* The supplier screens of the back office: the directory                  *)
(* (components/suppliers/SuppliersListPage) and one supplier's page        *)
(* (SupplierDetailPage), with the SupplierRateEditor and the               *)
(* SupplierStatusToggle of every row, and the SupplierCreateForm the       *)
(* directory opens, over services/suppliers-service.                       *)
(*                                                                         *)
(* A supplier is its rate and its status; the detail page is a table of    *)
(* one row without filters.  Requests reach the API and answers reach the  *)
(* page in separate steps.  The API's side is external to this module's    *)
(* screens: other operators change and remove suppliers through it.        *)
(***************************************************************************)
EXTENDS FlowTelemetry, Sequences, FiniteSets, Functions

CONSTANTS Ids,          \* supplier ids in the order of the table, later ones included
          Initial,      \* those stored when the page opens
          Country,      \* Country[s]: attribute the directory filters by
          Countries,    \* values of the filter
          Rates,        \* rates an operator may type
          MaxRequests,  \* bound: requests the page sends after it opened
          MaxElsewhere  \* bound: changes by other operators

VARIABLES
    sent, elsewhere,    \* bounds: requests sent, changes made elsewhere
    stored,             \* stored[s]: the API's record, Absent if none
    page,               \* "list", or the supplier whose page it is
    filter,             \* the country filter, "" when unset
    rows,               \* the table: id, record and what its rate editor holds
    listStatus, reads,
    patches,            \* rate and status changes under way
    createOpen, filledIn, isSubmitting, flow,   \* the create form
    posts               \* registrations under way

rowVars == <<rows, listStatus, reads, patches>>
formVars == <<createOpen, filledIn, isSubmitting, flow, posts>>
vars == <<sent, elsewhere, stored, page, filter, rowVars, formVars>>

Suppliers == Range(Ids)
Absent == [rate |-> 0, status |-> "absent"]
NoDraft == [text |-> 0, on |-> 0]   \* an editor that holds the stored rate
NextStatus(status) == IF status = "active" THEN "suspended" ELSE "active"

Row(s, record) == [id |-> s, record |-> record, draft |-> NoDraft]
Read(of) == [of |-> of, active |-> TRUE, served |-> FALSE, answer |-> <<>>]
Superseded(rs) == {[r EXCEPT !.active = FALSE] : r \in rs}
Detached(ps) == {[p EXCEPT !.row = 0] : p \in ps}

MatchesFilter(s, f) == f \in {"", Country[s]}

\* What the two pages show: rows, and so their controls, after a load only.
TableShown == listStatus = "success" /\ rows # <<>>
RetryShown == listStatus = "error"
FiltersShown == page = "list"
Saving(k, what) == \E p \in patches : p.row = k /\ p.what = what
SaveRateEnabled(k) ==
    /\ TableShown /\ k \in DOMAIN rows /\ ~Saving(k, "rate")
    /\ rows[k].draft # NoDraft /\ rows[k].draft.text # rows[k].record.rate
ToggleEnabled(k) == TableShown /\ k \in DOMAIN rows /\ ~Saving(k, "status")

Init ==
    /\ stored = [s \in Suppliers |->
                    IF s \in Initial THEN [rate |-> 1, status |-> "active"] ELSE Absent]
    /\ page \in {"list"} \cup Initial
    /\ filter = "" /\ rows = <<>> /\ listStatus = "loading" /\ reads = {Read("")}
    /\ patches = {} /\ posts = {}
    /\ createOpen = FALSE /\ filledIn = FALSE /\ isSubmitting = FALSE
    /\ flow = [NewFlow EXCEPT !.started = FALSE, !.balance = 0]
    /\ sent = 0 /\ elsewhere = 0

Sends == sent < MaxRequests /\ sent' = sent + 1

-----------------------------------------------------------------------------
(* Loading, by the directory and by a supplier's page. *)

\* The effect runs again: the table, with every control in it, gives way to the
\* loading message, and the changes under way lose the control they came from.
Reload(f) ==
    /\ Sends
    /\ reads' = Superseded(reads) \cup {Read(f)}
    /\ listStatus' = "loading"
    /\ rows' = [k \in DOMAIN rows |-> [rows[k] EXCEPT !.draft = NoDraft]]
    /\ patches' = Detached(patches)
    /\ UNCHANGED <<elsewhere, stored, page, formVars>>

UpdateQueryFilter(value) ==
    /\ FiltersShown /\ value # filter
    /\ filter' = value
    /\ Reload(value)

Retry ==
    /\ RetryShown
    /\ Reload(filter)
    /\ UNCHANGED filter

\* GET /suppliers and GET /suppliers/{id}: an unknown id is a 404.
ApiReads(r) ==
    /\ ~r.served
    /\ LET Selected(s) == /\ stored[s] # Absent
                          /\ page \in {"list", s} /\ MatchesFilter(s, r.of)
           ids == SelectSeq(Ids, Selected)
       IN reads' = (reads \ {r}) \cup
             {[r EXCEPT !.served = TRUE,
                        !.answer = [i \in DOMAIN ids |-> Row(ids[i], stored[ids[i]])]]}
    /\ UNCHANGED <<sent, elsewhere, stored, page, filter, rows, listStatus, patches, formVars>>

\* The directory shows what it read; a supplier's page that read none is a 404.
HearRead(r) ==
    /\ r.served
    /\ reads' = reads \ {r}
    /\ IF ~r.active THEN UNCHANGED <<rows, listStatus>>
       ELSE IF page # "list" /\ r.answer = <<>> THEN listStatus' = "error" /\ UNCHANGED rows
       ELSE rows' = r.answer /\ listStatus' = "success"
    /\ UNCHANGED <<sent, elsewhere, stored, page, filter, patches, formVars>>

ReadFails(r) ==
    /\ reads' = reads \ {r}
    /\ listStatus' = IF r.active THEN "error" ELSE listStatus
    /\ UNCHANGED <<sent, elsewhere, stored, page, filter, rows, patches, formVars>>

-----------------------------------------------------------------------------
(* The controls of a row. *)

TypeRate(k, rate) ==
    /\ TableShown /\ k \in DOMAIN rows
    /\ rows' = [rows EXCEPT ![k].draft = [text |-> rate, on |-> rows[k].record.rate]]
    /\ UNCHANGED <<sent, elsewhere, stored, page, filter, listStatus, reads, patches, formVars>>

Patch(k, what, to) ==
    /\ Sends
    /\ patches' = patches \cup
          {[id |-> rows[k].id, row |-> k, what |-> what, to |-> to, answer |-> Absent]}
    /\ UNCHANGED <<elsewhere, stored, page, filter, rows, listStatus, reads, formVars>>

SaveRate(k) == SaveRateEnabled(k) /\ Patch(k, "rate", [Absent EXCEPT !.rate = rows[k].draft.text])
ToggleStatus(k) ==
    /\ ToggleEnabled(k)
    /\ Patch(k, "status", [Absent EXCEPT !.status = NextStatus(rows[k].record.status)])

\* PATCH /suppliers/{id}/rate and /status: each changes its own field and
\* answers with the whole record.
ApiPatches(p) ==
    /\ p.answer = Absent /\ stored[p.id] # Absent
    /\ LET record == IF p.what = "rate" THEN [stored[p.id] EXCEPT !.rate = p.to.rate]
                     ELSE [stored[p.id] EXCEPT !.status = p.to.status]
       IN /\ stored' = [stored EXCEPT ![p.id] = record]
          /\ patches' = (patches \ {p}) \cup {[p EXCEPT !.answer = record]}
    /\ UNCHANGED <<sent, elsewhere, page, filter, rows, listStatus, reads, formVars>>

\* Mutant: the editor is not keyed on the rate it edits.
UpdatedUnkeyed(row, record) == [row EXCEPT !.record = record]

\* The row the API returned takes the place of the old one; its rate editor is
\* keyed on the rate, so another rate mounts a fresh one.
Updated(row, record) ==
    [row EXCEPT !.record = record,
                !.draft = IF record.rate = row.record.rate THEN @ ELSE NoDraft]

HearPatch(p) ==
    /\ p.answer # Absent
    /\ rows' = [k \in DOMAIN rows |->
                  IF rows[k].id = p.id THEN Updated(rows[k], p.answer) ELSE rows[k]]
    /\ patches' = {IF q.what = "rate" /\ q.id = p.id /\ q.row # 0
                      /\ rows[q.row].record.rate # p.answer.rate
                   THEN [q EXCEPT !.row = 0] ELSE q : q \in patches \ {p}}
    /\ UNCHANGED <<sent, elsewhere, stored, page, filter, listStatus, reads, formVars>>

\* Refused, or the answer is lost: the row stays as it was.
PatchFails(p) ==
    /\ patches' = patches \ {p}
    /\ UNCHANGED <<sent, elsewhere, stored, page, filter, rows, listStatus, reads, formVars>>

-----------------------------------------------------------------------------
(* The create form of the directory. *)

\* A timer of the form just closed runs before the button is pressed again.
ToggleCreateForm ==
    /\ page = "list" /\ ~flow.leaving
    /\ createOpen' = ~createOpen
    /\ flow' = IF createOpen THEN Unmounted(flow) ELSE Mounted(flow)
    /\ filledIn' = FALSE /\ isSubmitting' = FALSE
    /\ posts' = {[q EXCEPT !.mounted = FALSE] : q \in posts}
    /\ UNCHANGED <<sent, elsewhere, stored, page, filter, rowVars>>

FillIn ==
    /\ createOpen
    /\ filledIn' \in BOOLEAN
    /\ flow' = FieldEdited(flow)
    /\ UNCHANGED <<sent, elsewhere, stored, page, filter, rowVars, createOpen, isSubmitting,
                   posts>>

\* handleSubmit: the answer is handed to the handler of the render it was sent
\* from, which judges by that render's filters.
SubmitSupplier ==
    /\ createOpen /\ ~isSubmitting
    /\ IF ~filledIn
       THEN flow' = SubmitFailed(flow) /\ UNCHANGED <<sent, isSubmitting, posts>>
       ELSE /\ Sends
            /\ flow' = SubmitAttempted(flow)
            /\ isSubmitting' = TRUE
            /\ posts' = posts \cup {[under |-> filter, mounted |-> TRUE, id |-> "none"]}
    /\ UNCHANGED <<elsewhere, stored, page, filter, rowVars, createOpen, filledIn>>

ApiCreates(q) ==
    /\ q.id = "none"
    /\ \E s \in Suppliers \ Initial :
          /\ stored[s] = Absent
          /\ stored' = [stored EXCEPT ![s] = [rate |-> 1, status |-> "active"]]
          /\ posts' = (posts \ {q}) \cup {[q EXCEPT !.id = s]}
    /\ UNCHANGED <<sent, elsewhere, page, filter, rowVars, createOpen, filledIn, isSubmitting,
                   flow>>

\* handleSupplierCreated appends the row; nothing is reloaded.
HearCreated(q) ==
    /\ q.id # "none"
    /\ posts' = posts \ {q}
    /\ rows' = IF MatchesFilter(q.id, q.under)
               THEN Append(rows, Row(q.id, [rate |-> 1, status |-> "active"])) ELSE rows
    /\ flow' = IF q.mounted \/ flow.leaving THEN Completed(flow) ELSE flow
    /\ IF q.mounted THEN filledIn' = FALSE /\ isSubmitting' = FALSE
       ELSE UNCHANGED <<filledIn, isSubmitting>>
    /\ UNCHANGED <<sent, elsewhere, stored, page, filter, listStatus, reads, patches, createOpen>>

CreateFails(q) ==
    /\ posts' = posts \ {q}
    /\ flow' = IF q.mounted \/ flow.leaving THEN SubmitFailed(flow) ELSE flow
    /\ isSubmitting' = (isSubmitting /\ ~q.mounted)
    /\ UNCHANGED <<sent, elsewhere, stored, page, filter, rowVars, createOpen, filledIn>>

AbandonLater ==
    /\ flow.leaving
    /\ flow' = Abandon(flow)
    /\ UNCHANGED <<sent, elsewhere, stored, page, filter, rowVars, createOpen, filledIn,
                   isSubmitting, posts>>

-----------------------------------------------------------------------------
\* Another operator sets a rate or a status, or removes the supplier.
Elsewhere(s) ==
    /\ elsewhere < MaxElsewhere /\ elsewhere' = elsewhere + 1
    /\ stored[s] # Absent
    /\ \E record \in {[stored[s] EXCEPT !.rate = r] : r \in Rates \ {stored[s].rate}}
                        \cup {[stored[s] EXCEPT !.status = NextStatus(@)], Absent} :
          stored' = [stored EXCEPT ![s] = record]
    /\ UNCHANGED <<sent, page, filter, rowVars, formVars>>

Hear ==
    \/ \E r \in reads : ApiReads(r) \/ HearRead(r) \/ ReadFails(r)
    \/ \E p \in patches : ApiPatches(p) \/ HearPatch(p) \/ PatchFails(p)
    \/ \E q \in posts : ApiCreates(q) \/ HearCreated(q) \/ CreateFails(q)

Next ==
    \/ \E f \in Countries \cup {""} : UpdateQueryFilter(f)
    \/ Retry
    \/ \E k \in DOMAIN rows : ToggleStatus(k) \/ SaveRate(k) \/ \E r \in Rates : TypeRate(k, r)
    \/ ToggleCreateForm \/ FillIn \/ SubmitSupplier \/ AbandonLater
    \/ \E s \in Suppliers : Elsewhere(s)
    \/ Hear

Spec == Init /\ [][Next]_vars

-----------------------------------------------------------------------------
\* A rate being typed is typed over the rate the row shows: when another rate
\* arrives (from this row's toggle, or a save) the editor starts again from it
\* (SupplierRateEditor.tsx:14-17).
DraftOnShownRate ==
    \A k \in DOMAIN rows : rows[k].draft # NoDraft => rows[k].draft.on = rows[k].record.rate
=============================================================================
