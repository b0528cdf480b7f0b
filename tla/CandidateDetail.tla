-------------------------- MODULE CandidateDetail --------------------------
(***************************************************************************)
(* components/candidates/CandidateDetailPage of the website: a candidate's *)
(* record with two forms over it (status and stage, sent with PATCH; all   *)
(* the details, sent with PUT), and the candidate's notes, over            *)
(* services/candidates-service and services/notes-service.  The records    *)
(* API is another system: here it stores one record and its notes.         *)
(*                                                                         *)
(* A record is its pipeline fields (status, stage) and its details (name,  *)
(* e-mail, position), each "" when a field of them is blank; the details   *)
(* form has both.  Loads, saves and deletions overlap freely.              *)
(***************************************************************************)
EXTENDS Naturals, FiniteSets

CONSTANTS Values,       \* values of the pipeline fields, and of the details
          Notes,        \* notes, the ones to be written included
          Written,      \* those on record when the page opens
          MaxRequests   \* bound: requests the page sends after it opened

VARIABLES
    sent,               \* bound: requests sent
    stored, storedNotes,        \* what the records API holds
    candidate, recordStatus, recordReads,
    form,               \* candidateFormValues: the details form
    pipeline,           \* statusValue and stageValue: the other form
    saves,              \* PATCH and PUT under way
    notes, notesStatus, notesReads,
    draft,              \* newNote holds text
    posts, deletes,     \* notes being added, and removed
    deletingNoteId,     \* the one note whose Delete button is disabled
    edited              \* history: the forms typed in since they were filled

recordVars == <<candidate, recordStatus, recordReads, form, pipeline, saves, edited>>
noteVars == <<notes, notesStatus, notesReads, draft, posts, deletes, deletingNoteId>>
vars == <<sent, stored, storedNotes, recordVars, noteVars>>

\* The record when the page opens; any of its values does, as they are alike.
First == LET value == CHOOSE v \in Values : TRUE IN [pipeline |-> value, details |-> value]
NoRecord == [pipeline |-> "", details |-> ""]
Read(nothing) == [active |-> TRUE, served |-> FALSE, answer |-> nothing]
Superseded(reads) == {[r EXCEPT !.active = FALSE] : r \in reads}
Answered(reads, r, answer) ==
    (reads \ {r}) \cup {[r EXCEPT !.served = TRUE, !.answer = answer]}

Sends == sent < MaxRequests /\ sent' = sent + 1
Saving(how) == \E s \in saves : s.how = how

\* What the page shows: the forms and the notes come with the record; the notes
\* are listed only after they were loaded.
FormsShown == recordStatus = "success"
SaveEnabled(how) == FormsShown /\ ~Saving(how)
AddEnabled == FormsShown /\ draft /\ posts = {}
NotesListed == FormsShown /\ notesStatus = "success"
DeleteEnabled(n) == NotesListed /\ n \in notes /\ deletingNoteId # n

\* Both forms are filled again from a record.
Fill(record) ==
    /\ candidate' = record /\ form' = record /\ pipeline' = record.pipeline
    /\ edited' = {}

Init ==
    /\ stored = First /\ storedNotes = Written
    /\ candidate = NoRecord /\ recordStatus = "loading" /\ recordReads = {Read(NoRecord)}
    /\ form = NoRecord /\ pipeline = "" /\ saves = {} /\ edited = {}
    /\ notes = {} /\ notesStatus = "loading" /\ notesReads = {Read({})}
    /\ draft = FALSE /\ posts = {} /\ deletes = {} /\ deletingNoteId = "none" /\ sent = 0

-----------------------------------------------------------------------------
(* The record. *)

LoadRecord ==
    /\ recordReads' = Superseded(recordReads) \cup {Read(NoRecord)}
    /\ recordStatus' = "loading"

RetryCandidate ==
    /\ recordStatus = "error"
    /\ Sends /\ LoadRecord
    /\ UNCHANGED <<stored, storedNotes, candidate, form, pipeline, saves, edited, noteVars>>

ApiReadsRecord(r) ==
    /\ ~r.served
    /\ recordReads' = Answered(recordReads, r, stored)
    /\ UNCHANGED <<sent, stored, storedNotes, candidate, recordStatus, form, pipeline, saves,
                   edited, noteVars>>

HearRecord(r) ==
    /\ recordReads' = recordReads \ {r}
    /\ \/ r.served /\ r.active /\ Fill(r.answer) /\ recordStatus' = "success"
       \/ /\ recordStatus' = IF r.active THEN "error" ELSE recordStatus
          /\ UNCHANGED <<candidate, form, pipeline, edited>>
    /\ UNCHANGED <<sent, stored, storedNotes, saves, noteVars>>

TypeDetails(field, value) ==
    /\ FormsShown /\ value # form[field]
    /\ form' = [form EXCEPT ![field] = value] /\ edited' = edited \cup {"details"}
    /\ UNCHANGED <<sent, stored, storedNotes, candidate, recordStatus, recordReads, pipeline,
                   saves, noteVars>>

TypePipeline(value) ==
    /\ FormsShown /\ value # pipeline
    /\ pipeline' = value /\ edited' = edited \cup {"pipeline"}
    /\ UNCHANGED <<sent, stored, storedNotes, candidate, recordStatus, recordReads, form,
                   saves, noteVars>>

Save(how, record) ==
    /\ SaveEnabled(how)
    /\ Sends
    /\ saves' = saves \cup {[how |-> how, to |-> record, served |-> FALSE, answer |-> record]}
    /\ UNCHANGED <<stored, storedNotes, candidate, recordStatus, recordReads, form, pipeline,
                   edited, noteVars>>

\* handleRecordUpdate and handleCandidateSave up to their awaits: the PATCH
\* carries status and stage, the PUT the record of this render with the form
\* applied to it.  `to` is also what is shown if the API does not echo.  The details
\* are refused with a message while a field is blank, the other form is not looked at.
HandleRecordUpdate == Save("patch", [candidate EXCEPT !.pipeline = pipeline])
HandleCandidateSave == "" \notin {form.pipeline, form.details} /\ Save("put", form)

ApiSaves(s) ==
    /\ ~s.served
    /\ stored' = IF s.how = "patch" THEN [stored EXCEPT !.pipeline = s.to.pipeline] ELSE s.to
    /\ \E answer \in {stored', s.to} :
          saves' = (saves \ {s}) \cup {[s EXCEPT !.served = TRUE, !.answer = answer]}
    /\ UNCHANGED <<sent, storedNotes, candidate, recordStatus, recordReads, form, pipeline,
                   edited, noteVars>>

HearSaved(s) ==
    /\ s.served
    /\ saves' = saves \ {s}
    /\ Fill(s.answer)
    /\ UNCHANGED <<sent, stored, storedNotes, recordStatus, recordReads, noteVars>>

SaveFails(s) ==
    /\ saves' = saves \ {s}
    /\ UNCHANGED <<sent, stored, storedNotes, candidate, recordStatus, recordReads, form,
                   pipeline, edited, noteVars>>

-----------------------------------------------------------------------------
(* The notes. *)

LoadNotes ==
    /\ notesReads' = Superseded(notesReads) \cup {Read({})}
    /\ notesStatus' = "loading"

\* Mutant: the record and its notes are loaded by one effect.
RetryBoth ==
    /\ notesStatus = "error" /\ FormsShown
    /\ Sends /\ LoadNotes /\ LoadRecord
    /\ UNCHANGED <<stored, storedNotes, candidate, form, pipeline, saves, edited, notes, draft,
                   posts, deletes, deletingNoteId>>

RetryNotes ==
    /\ notesStatus = "error" /\ FormsShown
    /\ Sends /\ LoadNotes
    /\ UNCHANGED <<stored, storedNotes, recordVars, notes, draft, posts, deletes,
                   deletingNoteId>>

ApiReadsNotes(r) ==
    /\ ~r.served
    /\ notesReads' = Answered(notesReads, r, storedNotes)
    /\ UNCHANGED <<sent, stored, storedNotes, recordVars, notes, notesStatus, draft, posts,
                   deletes, deletingNoteId>>

HearNotes(r) ==
    /\ notesReads' = notesReads \ {r}
    /\ \/ r.served /\ r.active /\ notes' = r.answer /\ notesStatus' = "success"
       \/ /\ notesStatus' = IF r.active THEN "error" ELSE notesStatus
          /\ UNCHANGED notes
    /\ UNCHANGED <<sent, stored, storedNotes, recordVars, draft, posts, deletes,
                   deletingNoteId>>

TypeNote ==
    /\ FormsShown
    /\ draft' = ~draft
    /\ UNCHANGED <<sent, stored, storedNotes, recordVars, notes, notesStatus, notesReads,
                   posts, deletes, deletingNoteId>>

AddNote ==
    /\ AddEnabled
    /\ Sends
    /\ posts' = {"sent"}
    /\ UNCHANGED <<stored, storedNotes, recordVars, notes, notesStatus, notesReads, draft,
                   deletes, deletingNoteId>>

ApiAddsNote ==
    /\ posts = {"sent"}
    /\ \E n \in Notes \ storedNotes : storedNotes' = storedNotes \cup {n} /\ posts' = {n}
    /\ UNCHANGED <<sent, stored, recordVars, notes, notesStatus, notesReads, draft, deletes,
                   deletingNoteId>>

\* Saved: the draft goes first; then the note is shown, or, when the answer
\* names none, the list is loaded again.
HearAdded ==
    /\ posts \notin {{}, {"sent"}}
    /\ posts' = {} /\ draft' = FALSE
    /\ \/ notes' = notes \cup posts /\ UNCHANGED <<sent, notesStatus, notesReads>>
       \/ Sends /\ LoadNotes /\ UNCHANGED notes
    /\ UNCHANGED <<stored, storedNotes, recordVars, deletes, deletingNoteId>>

AddFails ==
    /\ posts # {} /\ posts' = {}
    /\ UNCHANGED <<sent, stored, storedNotes, recordVars, notes, notesStatus, notesReads,
                   draft, deletes, deletingNoteId>>

DeleteNote(n) ==
    /\ DeleteEnabled(n)
    /\ Sends
    /\ deletingNoteId' = n
    /\ deletes' = deletes \cup {[note |-> n, served |-> FALSE]}
    /\ UNCHANGED <<stored, storedNotes, recordVars, notes, notesStatus, notesReads, draft,
                   posts>>

ApiDeletesNote(d) ==
    /\ ~d.served /\ d.note \in storedNotes
    /\ storedNotes' = storedNotes \ {d.note}
    /\ deletes' = (deletes \ {d}) \cup {[d EXCEPT !.served = TRUE]}
    /\ UNCHANGED <<sent, stored, recordVars, notes, notesStatus, notesReads, draft, posts,
                   deletingNoteId>>

\* Mutant: the slot is emptied after a success only, not in a `finally`.
HearDeletedOrStuck(d) ==
    /\ deletes' = deletes \ {d}
    /\ \/ d.served /\ notes' = notes \ {d.note} /\ deletingNoteId' = "none"
       \/ UNCHANGED <<notes, deletingNoteId>>
    /\ UNCHANGED <<sent, stored, storedNotes, recordVars, notesStatus, notesReads, draft,
                   posts>>

\* Answered: the slot of the button is emptied whoever holds it now.
HearDeleted(d) ==
    /\ deletes' = deletes \ {d}
    /\ deletingNoteId' = "none"
    /\ \/ d.served /\ notes' = notes \ {d.note}
       \/ UNCHANGED notes
    /\ UNCHANGED <<sent, stored, storedNotes, recordVars, notesStatus, notesReads, draft,
                   posts>>

Hear ==
    \/ \E r \in recordReads : ApiReadsRecord(r) \/ HearRecord(r)
    \/ \E r \in notesReads : ApiReadsNotes(r) \/ HearNotes(r)
    \/ \E s \in saves : ApiSaves(s) \/ HearSaved(s) \/ SaveFails(s)
    \/ \E d \in deletes : ApiDeletesNote(d) \/ HearDeleted(d)
    \/ ApiAddsNote \/ HearAdded \/ AddFails

Next ==
    \/ RetryCandidate \/ RetryNotes \/ HandleRecordUpdate \/ HandleCandidateSave
    \/ \E v \in Values \cup {""} :
          TypePipeline(v) \/ \E field \in {"pipeline", "details"} : TypeDetails(field, v)
    \/ TypeNote \/ AddNote
    \/ \E n \in Notes : DeleteNote(n)
    \/ Hear

Spec == Init /\ [][Next]_vars

-----------------------------------------------------------------------------
SavesReplaceEdits ==
    edited \ edited' # {} =>
        \E s \in saves \ saves' :
            s.served /\ form' = s.answer /\ pipeline' = s.answer.pipeline

\* Edits in progress give way, in both forms, to the record that a save of either came back
\* with, and to nothing else: the record is not loaded again under them, and a save that
\* fails, the notes that load, fail and are retried do not touch them
\* (CandidateDetailPage.tsx:72-73, 168-174, 208-214).
OnlySavesReplaceEdits == [][SavesReplaceEdits]_vars
=============================================================================
