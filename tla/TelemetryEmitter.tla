------------------------- MODULE TelemetryEmitter -------------------------
(***************************************************************************)
(* uis/backoffice/services/telemetry-service.ts with the ingest endpoint:  *)
(* the queue of events in one page, its flush and its flush on hide.       *)
(*                                                                         *)
(* JavaScript runs a handler up to its next await undisturbed, so a step   *)
(* is what runs between two awaits.  Of a drop counter this model keeps    *)
(* the events counted, of which the code keeps the number; 0 stands for a  *)
(* drop report.                                                            *)
(***************************************************************************)
EXTENDS Integers, Sequences, FiniteSets, Functions

CONSTANTS Events,     \* calls of track(), numbered in order
          Refused,    \* those the ingest endpoint validates and refuses
          Queue, Batch, Threshold, Retries   \* MAX_QUEUE_SIZE, MAX_BATCH_SIZE, ...

ASSUME EmitterAssumption ==
    /\ Events \in Nat
    /\ Refused \subseteq 1..Events
    /\ {Batch, Threshold} \subseteq Nat \ {0}
    /\ Queue \in Nat /\ Queue >= 3   \* a report of every reason fits
    /\ Retries \in Nat

VARIABLES tracked,    \* calls of track() so far
          queue,      \* this.queue
          flight,     \* the batch flush() awaits; empty: not flushing
          attempt,    \* of the batch in flight
          asleep,     \* flush() waits before it tries again
          timer,      \* the interval has been set
          dropped,    \* this.dropped
          rows,       \* rows[e]: the rows of telemetry_events with the id of e
          known       \* history: events that were handed over, and the losses of reports
                      \* that were: to the endpoint, or to the browser

vars == <<tracked, queue, flight, attempt, asleep, timer, dropped, rows, known>>

Ids == 1..Events
Reasons == {"buffer_full", "schema_rejected", "transport_failed"}
Losses == SUBSET (0..Events)

\* An event has its id and no losses; a report has the id 0.
Item == [id : 0..Events, lost : Losses]
IdsOf(s) == {i.id : i \in Range(s)}
LossesOf(s) == UNION {i.lost : i \in Range(s)}

Init == /\ tracked = 0
        /\ queue = <<>>
        /\ flight = <<>>
        /\ attempt = 0
        /\ asleep = FALSE
        /\ timer = FALSE
        /\ dropped = [w \in Reasons |-> {}]
        /\ rows = [e \in Ids |-> 0]
        /\ known = {}

NextBatch(s) == SubSeq(s, 1, IF Len(s) < Batch THEN Len(s) ELSE Batch)
Without(s, n) == SubSeq(s, n + 1, Len(s))

-----------------------------------------------------------------------------
(* The ingest endpoint *)

\* Valid events only; a known id is ignored.
Stored(b) == [e \in Ids |-> IF e \in IdsOf(b) \ Refused /\ rows[e] = 0 THEN 1 ELSE rows[e]]

Take(b) == /\ rows' = Stored(b)
           /\ known' = known \cup IdsOf(b) \cup LossesOf(b)
Miss == UNCHANGED <<rows, known>>

-----------------------------------------------------------------------------
(* The page *)

Counted(d, why, ids) == [d EXCEPT ![why] = @ \cup ids]
Nothing == [w \in Reasons |-> {}]

Orders(S) == {o \in [1..Cardinality(S) -> S] : \A i, j \in DOMAIN o : o[i] = o[j] => i = j}

\* reportDrops: a report per reason while there is room; only if all fit are the
\* counters reset.
Reported(q, d) ==
    LET due == {w \in Reasons : d[w] # {}}
        n == IF Cardinality(due) <= Queue - Len(q) THEN Cardinality(due) ELSE Queue - Len(q)
    IN {[queue |-> q \o [i \in 1..n |-> [id |-> 0, lost |-> d[o[i]]]],
         dropped |-> IF n = Cardinality(due) THEN Nothing ELSE d] : o \in Orders(due)}

\* flush() goes on with the first batch of q.
Send(q) == /\ queue' = q
           /\ flight' = NextBatch(q)
           /\ attempt' = 0
           /\ asleep' = FALSE

\* flush() ends.
Finish(q, d) == /\ \E r \in Reported(q, d) : queue' = r.queue /\ dropped' = r.dropped
                /\ flight' = <<>>
                /\ attempt' = 0
                /\ asleep' = FALSE

TrackDropped(why) ==
    /\ tracked < Events
    /\ why = "buffer_full" => Len(queue) >= Queue
    /\ tracked' = tracked + 1
    /\ dropped' = Counted(dropped, why, {tracked + 1})
    /\ UNCHANGED <<queue, flight, attempt, asleep, timer, rows, known>>

Track == /\ tracked < Events
         /\ Len(queue) < Queue
         /\ tracked' = tracked + 1
         /\ timer' = TRUE
         /\ LET q == Append(queue, [id |-> tracked + 1, lost |-> {}])
            IN IF flight = <<>> /\ Len(q) >= Threshold
               THEN Send(q)
               ELSE queue' = q /\ UNCHANGED <<flight, attempt, asleep>>
         /\ UNCHANGED <<dropped, rows, known>>

\* The interval fires.
Tick == /\ timer /\ flight = <<>>
        /\ IF queue # <<>> THEN Send(queue) /\ UNCHANGED dropped
                           ELSE dropped # Nothing /\ Finish(queue, dropped)
        /\ UNCHANGED <<tracked, timer, rows, known>>

Awaiting == flight # <<>> /\ ~asleep

Delivered == /\ Awaiting
             /\ Take(flight)
             /\ LET q == Without(queue, Len(flight))
                IN IF q # <<>> THEN Send(q) /\ UNCHANGED dropped
                               ELSE Finish(q, dropped)
             /\ UNCHANGED <<tracked, timer>>

\* No answer, or one that does not settle it; the events may have been stored.
Fails == /\ Awaiting
         /\ attempt < Retries
         /\ Take(flight) \/ Miss
         /\ attempt' = attempt + 1
         /\ asleep' = TRUE
         /\ UNCHANGED <<tracked, queue, flight, timer, dropped>>

Wake == /\ asleep
        /\ asleep' = FALSE
        /\ UNCHANGED <<tracked, queue, flight, attempt, timer, dropped, rows, known>>

\* Mutants: the loss is not counted; the batch is not removed.
GiveUpSilently == /\ Awaiting
                  /\ Miss \/ (attempt = Retries /\ Take(flight))
                  /\ Finish(Without(queue, Len(flight)), dropped)
                  /\ UNCHANGED <<tracked, timer>>
GiveUpKeeping == /\ Awaiting
                 /\ Miss \/ (attempt = Retries /\ Take(flight))
                 /\ Finish(queue, dropped)
                 /\ UNCHANGED <<tracked, timer>>

\* A 4xx, or the last attempt failed.
GiveUp == /\ Awaiting
          /\ Miss \/ (attempt = Retries /\ Take(flight))
          /\ Finish(Without(queue, Len(flight)),
                    Counted(dropped, "transport_failed", IdsOf(flight)))
          /\ UNCHANGED <<tracked, timer>>

\* The browser takes some batches; what it took may arrive or not.
Hide == /\ queue # <<>>
        /\ \E r \in Reported(queue, dropped) :
             /\ dropped' = r.dropped
             /\ \E n \in {k * Batch : k \in 0..Len(r.queue)} :
                  LET took == SubSeq(r.queue, 1, IF n < Len(r.queue) THEN n ELSE Len(r.queue))
                  IN /\ n < Len(r.queue) + Batch
                     /\ queue' = Without(r.queue, n)
                     /\ known' = known \cup IdsOf(took) \cup LossesOf(took)
                     /\ rows' \in {rows, Stored(took)}
        /\ UNCHANGED <<tracked, flight, attempt, asleep, timer>>

-----------------------------------------------------------------------------
Answer == Delivered \/ Fails \/ GiveUp

\* Nothing is left to do.
Idle == /\ tracked = Events /\ queue = <<>> /\ flight = <<>>
        /\ timer => dropped = Nothing
        /\ UNCHANGED vars

Next == \/ \E why \in {"buffer_full", "schema_rejected"} : TrackDropped(why)
        \/ Track
        \/ Tick
        \/ Answer
        \/ Wake
        \/ Hide
        \/ Idle

Spec == Init /\ [][Next]_vars

\* Timers fire, and a request ends: the browser does not let one hang for ever.
FairSpec == Spec /\ WF_vars(Tick) /\ WF_vars(Answer) /\ WF_vars(Wake)

-----------------------------------------------------------------------------
(* Properties *)

\* The state is well formed; the queue keeps its limit, reports included.
TypeOK == /\ tracked \in 0..Events
          /\ queue \in Seq(Item) /\ Len(queue) <= Queue
          /\ flight \in Seq(Item) /\ Len(flight) <= Batch
          /\ attempt \in 0..Retries
          /\ asleep \in BOOLEAN /\ (asleep => flight # <<>>)
          /\ timer \in BOOLEAN
          /\ dropped \in [Reasons -> Losses]
          /\ rows \in [Ids -> Nat]
          /\ known \in Losses

\* However often a batch is sent again, by a retry or by the page's last beacon,
\* an event is stored once.
StoredOnce == \A e \in Ids : rows[e] <= 1

\* The batch in flight is still the first of the queue.
InFront == Len(flight) <= Len(queue) /\ flight = SubSeq(queue, 1, Len(flight))

\* No event vanishes: one that is tracked is queued or counted as dropped, and one
\* that leaves the queue was handed over or is counted.  The exception is a page that
\* hid during a request: its beacons emptied the queue under the batch in flight.
NothingVanishes ==
    [][InFront => (1..tracked' \ 1..tracked) \cup IdsOf(queue)
          \subseteq IdsOf(queue') \cup known' \cup LossesOf(queue') \cup UNION Range(dropped')]_vars

\* The queue never blocks: whatever the endpoint answers, an event leaves it.
EventsLeave == \A e \in Ids : e \in IdsOf(queue) ~> e \notin IdsOf(queue)

\* A counted drop does not stay in the counter: it becomes a report, also when the
\* queue was full or empty.
DropsAreReported == \A w \in Reasons : timer /\ dropped[w] # {} ~> dropped[w] = {}

\* "Anything not delivered is counted and reported as `telemetry_dropped`": what is
\* neither queued nor handed over is in a counter or in a report.
LossesAreTold == 1..tracked \subseteq IdsOf(queue) \cup known
                     \cup LossesOf(queue) \cup UNION Range(dropped)
=============================================================================
