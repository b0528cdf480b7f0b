----------------------------- MODULE Incidents -----------------------------
(***************************************************************************)
(* services/incidents over services/core/db.py: incidents in one JSON file *)
(* that every domain of the API shares, and the process-local cache of the *)
(* list and the summary.                                                   *)
(*                                                                         *)
(* Handlers run on threads.  TinyDB reads the whole file and writes the    *)
(* whole file; each of the two is a step, and no lock joins them.  A view  *)
(* is abstracted to the version of the file it was computed from.          *)
(***************************************************************************)
EXTENDS Naturals, FiniteSets

CONSTANTS Incidents,   \* incident identifiers
          Stored,      \* those in the file when the API starts
          Requests,    \* requests to the API
          Views,       \* cache keys: the summary, and the list under each filter
          MaxEntries   \* READ_CACHE_MAX_ENTRIES

ASSUME IncidentsAssumption == Stored \subseteq Incidents /\ MaxEntries \in Nat \ {0}

VARIABLES pc,          \* pc[r]: the next line of request r
          ask,         \* ask[r]: what r asks for
          file,        \* the stored status of every incident
          version,     \* how often the file was written
          copy,        \* copy[r]: the file as a write of r read it
          view,        \* view[r]: the version r's view was computed from
          cache,       \* the cached views
          generation,  \* the cache's generation
          gen,         \* gen[r]: the generation r read
          answered,    \* history: the last version of an answered incident write
          floor        \* history, floor[r]: what was answered when r started

vars == <<pc, ask, file, version, copy, view, cache, generation, gen, answered, floor>>

Statuses == {"open", "in_progress", "resolved", "discarded"}
Contents == [Incidents -> Statuses \cup {"absent"}]
NoCopy == [i \in Incidents |-> "absent"]
Entry == [key : Views, version : Nat]
Ask == [kind : {"read"}, key : Views]
         \cup [kind : {"create"}, incident : Incidents]
         \cup [kind : {"move"}, incident : Incidents, status : Statuses]
         \cup [kind : {"other", "none"}]
Lines == {"idle", "cached", "generation", "load", "set", "look", "reread", "write", "clear",
          "served", "done", "refused", "failed"}

ALLOWED_TRANSITIONS == [s \in Statuses |->
    CASE s = "open"        -> {"in_progress", "discarded"}
      [] s = "in_progress" -> {"resolved", "discarded"}
      [] OTHER             -> {}]

Final(s) == s \in Statuses /\ ALLOWED_TRANSITIONS[s] = {}

Init == /\ pc = [r \in Requests |-> "idle"]
        /\ ask = [r \in Requests |-> [kind |-> "none"]]
        /\ file \in {f \in Contents : \A i \in Incidents : f[i] # "absent" <=> i \in Stored}
        /\ version = 0
        /\ copy = [r \in Requests |-> NoCopy]
        /\ view = [r \in Requests |-> 0]
        /\ cache = {}
        /\ generation = 0
        /\ gen = [r \in Requests |-> 0]
        /\ answered = 0
        /\ floor = [r \in Requests |-> 0]

Goes(r, from, to) == pc[r] = from /\ pc' = [pc EXCEPT ![r] = to]

\* A new incident has a new identifier (uuid4).
Unused(i) == i \notin Stored /\ \A q \in Requests : ask[q].kind = "create" => ask[q].incident # i

Start(r) == /\ \E a \in Ask :
                 /\ a.kind = "create" => Unused(a.incident)
                 /\ a.kind # "none"
                 /\ Goes(r, "idle", CASE a.kind = "read" -> "cached"
                                      [] a.kind = "move" -> "look"
                                      [] OTHER           -> "reread")
                 /\ ask' = [ask EXCEPT ![r] = a]
            /\ floor' = [floor EXCEPT ![r] = answered]
            /\ UNCHANGED <<file, version, copy, view, cache, generation, gen, answered>>

\* While another thread writes, a read may find half a file and raise: 500.
Torn(r) == /\ pc[r] \in {"load", "look", "reread"}
           /\ \E q \in Requests \ {r} : pc[q] = "write"
           /\ pc' = [pc EXCEPT ![r] = "failed"]
           /\ UNCHANGED <<ask, file, version, copy, view, cache, generation, gen, answered, floor>>

-----------------------------------------------------------------------------
(* list_incidents and get_summary *)

Cached(r) == {e \in cache : e.key = ask[r].key}

Hit(r) == /\ Goes(r, "cached", "served")
          /\ \E e \in Cached(r) : view' = [view EXCEPT ![r] = e.version]
          /\ UNCHANGED <<ask, file, version, copy, cache, generation, gen, answered, floor>>

Miss(r) == /\ Goes(r, "cached", "generation")
           /\ Cached(r) = {}
           /\ UNCHANGED <<ask, file, version, copy, view, cache, generation, gen, answered, floor>>

ReadGeneration(r) ==
    /\ Goes(r, "generation", "load")
    /\ gen' = [gen EXCEPT ![r] = generation]
    /\ UNCHANGED <<ask, file, version, copy, view, cache, generation, answered, floor>>

Load(r) == /\ Goes(r, "load", "set")
           /\ view' = [view EXCEPT ![r] = version]
           /\ UNCHANGED <<ask, file, version, copy, cache, generation, gen, answered, floor>>

NewEntry(r) == [key |-> ask[r].key, version |-> view[r]]

\* The new entry stays; others go while there are too many (or they are too big).
Kept(r) == {c \in SUBSET ((cache \ Cached(r)) \cup {NewEntry(r)}) :
                NewEntry(r) \in c /\ Cardinality(c) <= MaxEntries}

\* Mutant: the generation is not compared.
SetAlways(r) ==
    /\ Goes(r, "set", "served")
    /\ cache' \in Kept(r) \cup {cache}
    /\ UNCHANGED <<ask, file, version, copy, view, generation, gen, answered, floor>>

\* A payload above the byte limit is not kept either.
Set(r) ==
    /\ Goes(r, "set", "served")
    /\ cache' \in IF gen[r] = generation THEN Kept(r) \cup {cache} ELSE {cache}
    /\ UNCHANGED <<ask, file, version, copy, view, generation, gen, answered, floor>>

\* Time passes: the next get or stats drops an entry.
Expire ==
    /\ \E e \in cache : cache' = cache \ {e}
    /\ UNCHANGED <<pc, ask, file, version, copy, view, generation, gen, answered, floor>>

-----------------------------------------------------------------------------
(* create_incident, update_status, and another domain's write *)

\* get_incident, and the lifecycle checked on what it returned.
Look(r) ==
    /\ Goes(r, "look", IF /\ file[ask[r].incident] # "absent"
                          /\ ask[r].status \in ALLOWED_TRANSITIONS[file[ask[r].incident]]
                       THEN "reread" ELSE "refused")
    /\ UNCHANGED <<ask, file, version, copy, view, cache, generation, gen, answered, floor>>

Reread(r) == /\ Goes(r, "reread", "write")
             /\ copy' = [copy EXCEPT ![r] = file]
             /\ UNCHANGED <<ask, file, version, view, cache, generation, gen, answered, floor>>

\* insert, update where the id matches, or another table's change.
Changed(r) ==
    LET f == copy[r]
        i == ask[r].incident
    IN CASE ask[r].kind = "create"                   -> [f EXCEPT ![i] = "open"]
         [] ask[r].kind = "move" /\ f[i] # "absent"  -> [f EXCEPT ![i] = ask[r].status]
         [] OTHER                                    -> f

\* The request's copy is dead after the write.
WriteFile(r) == /\ Goes(r, "write", IF ask[r].kind = "other" THEN "done" ELSE "clear")
                /\ file' = Changed(r)
                /\ version' = version + 1
                /\ view' = [view EXCEPT ![r] = version + 1]
                /\ copy' = [copy EXCEPT ![r] = NoCopy]
                /\ UNCHANGED <<ask, cache, generation, gen, answered, floor>>

Answer(r) == answered' = IF view[r] > answered THEN view[r] ELSE answered

\* Mutant: the entries are dropped, the generation is kept.
ClearEntries(r) == /\ Goes(r, "clear", "done")
                   /\ cache' = {}
                   /\ Answer(r)
                   /\ UNCHANGED <<ask, file, version, copy, view, generation, gen, floor>>

Clear(r) == /\ Goes(r, "clear", "done")
            /\ cache' = {}
            /\ generation' = generation + 1
            /\ Answer(r)
            /\ UNCHANGED <<ask, file, version, copy, view, gen, floor>>

-----------------------------------------------------------------------------
Read(r) == Hit(r) \/ Miss(r) \/ ReadGeneration(r) \/ Load(r) \/ Set(r)
Change(r) == Look(r) \/ Reread(r) \/ WriteFile(r) \/ Clear(r)

Over == (\A r \in Requests : pc[r] \in {"served", "done", "refused", "failed"}) /\ UNCHANGED vars

Next == \/ \E r \in Requests : Start(r) \/ Torn(r) \/ Read(r) \/ Change(r)
        \/ Expire
        \/ Over

Spec == Init /\ [][Next]_vars

-----------------------------------------------------------------------------
(* Properties *)

\* The state is well formed: a view is cached once, and the cache's limit holds.
TypeOK == /\ pc \in [Requests -> Lines]
          /\ ask \in [Requests -> Ask]
          /\ file \in Contents
          /\ version \in Nat
          /\ copy \in [Requests -> Contents]
          /\ view \in [Requests -> Nat]
          /\ cache \subseteq Entry
          /\ \A e, f \in cache : e.key = f.key => e = f
          /\ Cardinality(cache) <= MaxEntries
          /\ generation \in Nat
          /\ gen \in [Requests -> Nat]
          /\ answered \in Nat
          /\ floor \in [Requests -> Nat]

\* No view computed before a write is served to a read that began after that write's
\* answer, although views are computed and cached without a lock.  (The file itself may
\* have lost the write to another since: FinalIsFinal.)
ServedIsRecent == \A r \in Requests :
                     pc[r] = "served" => view[r] >= floor[r]

\* "`resolved` and `discarded` are final": what the file says of an incident never
\* changes once it says either.
FinalIsFinal == [][\A i \in Incidents : Final(file[i]) => file'[i] = file[i]]_vars
=============================================================================
