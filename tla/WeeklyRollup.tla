---------------------------- MODULE WeeklyRollup ----------------------------
(***************************************************************************)
(* data/process/weekly_rollup.py and the extraction before it: from the    *)
(* telemetry events to the rows of the weekly report, with the upsert that *)
(* publishes them.  Who may run when is PipelineRuns; here one run at a    *)
(* time is open; Publish is the attempt that succeeds, however late.       *)
(*                                                                         *)
(* Week w is the time [w * WeekLength, (w + 1) * WeekLength).              *)
(***************************************************************************)
EXTENDS Integers, FiniteSets, FiniteSetsExt

CONSTANTS Warehouses,   \* WAREHOUSES
          Clients,      \* the valid client ids
          Products,     \* the products at the start: records of product_id, client_id, warehouse
          NewProducts,  \* bound: what may be stored of a product later
          NoValue,      \* an absent field, or one that is not of its form
          Reports,      \* what emitters say of the business: events without id and times
          Timestamps,   \* bound: the times their clocks show
          History,      \* the events stored at the start
          Ids,          \* bound: the eventIds still to come, in the order of uuids
          WeekLength, Lookback,
          Start, MaxClock, MaxRuns   \* bounds

INBOUND == "inbound_order_created"
OUTBOUND == "outbound_order_created"
THRESHOLD == "stock_threshold_triggered"
DISCREPANCY == "inventory_discrepancy_detected"
EventTypes == {INBOUND, OUTBOUND, THRESHOLD, DISCREPANCY}
ThresholdBands == {"low", "out_of_stock"}

VARIABLES clock,      \* the database's now()
          open,       \* rows of insert transactions that have not committed
          events,     \* telemetry_events
          products,   \* the products table
          run,        \* the open run: its weeks and cutoff, and the cutoff before it
          completed,  \* the completed runs
          report      \* weekly_warehouse_client_performance: a function of its keys

vars == <<clock, open, events, products, run, completed, report>>

NoRun == [weeks |-> {}]
NoCutoff == -1

ASSUME RollupAssumption ==
    /\ NoValue \notin Clients /\ WeekLength \in Nat \ {0} /\ Lookback \in 1 .. 12
    /\ \A p, q \in Products : p.product_id = q.product_id => p = q
    /\ Start \in Nat /\ Start >= Lookback * WeekLength
    /\ MaxClock \in Nat /\ MaxRuns \in Nat

\* Identifiers and times are compared, so numbers stand for them; quantities are numbers,
\* and the identifier is the primary key.
ASSUME EventsAssumption ==
    /\ NoValue \notin Int
    /\ Ids \subseteq Int /\ Timestamps \subseteq Int
    /\ \A r \in Reports \cup History : r.quantity \in Int \cup {NoValue}
    /\ \A e \in History : {e.id, e.timestamp, e.created_at} \subseteq Int
    /\ \A e, f \in History : e.id = f.id => e = f
    /\ IsFiniteSet(History)

-----------------------------------------------------------------------------
(* Weeks *)

WeekOf(t) == t \div WeekLength
LastClosedWeek == WeekOf(clock) - 1
Scheduled == LastClosedWeek - Lookback + 1 .. LastClosedWeek
\* A scheduled run, or one asked for a closed week.
Windows == {Scheduled} \cup {{w} : w \in 0 .. LastClosedWeek}
WindowStart(W) == Min(W) * WeekLength
WindowEnd(W) == (Max(W) + 1) * WeekLength

(* Extraction *)

\* normalize_events and the queries trust an event's time only up to its arrival.
EffectiveTime(e) == IF e.timestamp <= e.created_at THEN e.timestamp ELSE e.created_at
WeekStart(e) == WeekOf(EffectiveTime(e))

\* E is what the table of events holds.
SourceEvents(E, W, cutoff) ==
    {e \in E : /\ e.event_type \in EventTypes
               /\ e.timestamp >= WindowStart(W)
               /\ EffectiveTime(e) >= WindowStart(W)
               /\ EffectiveTime(e) < WindowEnd(W)
               /\ e.created_at <= cutoff}

\* The events a run reports as late_events_outside_window; the first run reports none.
LateOutside(r) == {e \in events : /\ r.previous # NoCutoff
                                  /\ e.event_type \in EventTypes
                                  /\ e.created_at > r.previous /\ e.created_at <= r.cutoff
                                  /\ EffectiveTime(e) < WindowStart(r.weeks)}

(* Which events count *)

Owners(e) == {p \in products : p.product_id = e.product_id /\ p.client_id \in Clients}
ResolvedClient(e) == IF e.client_id \in Clients THEN e.client_id
                     ELSE IF Owners(e) # {} THEN (CHOOSE p \in Owners(e) : TRUE).client_id
                     ELSE NoValue

\* The EXCLUSION_REASONS but the last; which one an event gets is for the run log.
Excluded(e, W) ==
    \/ e.warehouse \notin Warehouses
    \/ e.event_type = INBOUND /\ (e.quantity = NoValue \/ e.quantity < 1)
    \/ ResolvedClient(e) = NoValue
    \/ e.event_type = THRESHOLD /\ e.threshold_band \notin ThresholdBands
    \/ WeekStart(e) \notin W

\* `ref` is the order_id, triggering_order_id or reconciliation_id of the event's type.
BusinessKey(e) ==
    CASE e.event_type \in {INBOUND, OUTBOUND} /\ e.ref # NoValue -> <<e.event_type, e.ref>>
      [] e.event_type = THRESHOLD /\ e.ref # NoValue -> <<e.event_type, e.ref, e.threshold_band>>
      [] e.event_type = DISCREPANCY /\ NoValue \notin {e.ref, e.product_id} ->
             <<e.event_type, e.ref, e.product_id>>
      [] OTHER -> <<"event", e.id>>

\* The order of sort_values(["timestamp", "created_at", "id"]).
Before(e, f) ==
    \/ e.timestamp < f.timestamp
    \/ e.timestamp = f.timestamp /\ e.created_at < f.created_at
    \/ e.timestamp = f.timestamp /\ e.created_at = f.created_at /\ e.id < f.id

\* Mutant: no report of a repeated fact is kept.
SupersededAll(E) == {e \in E : \E f \in E : f # e /\ BusinessKey(f) = BusinessKey(e)}

\* Of one business fact the first report stays, of a discrepancy the latest.
Superseded(E) == {e \in E : \E f \in E : /\ BusinessKey(f) = BusinessKey(e)
                                         /\ IF e.event_type = DISCREPANCY
                                            THEN Before(e, f) ELSE Before(f, e)}

Countable(E, W, cutoff) ==
    LET valid == {e \in SourceEvents(E, W, cutoff) : ~Excluded(e, W)}
    IN valid \ Superseded(valid)

(* The figures *)

Key(e) == <<e.warehouse, ResolvedClient(e), WeekStart(e)>>
\* The units of deliveries, one by one: a sum of quantities is a number of units.
Units(E) == UNION {{e} \X (1 .. e.quantity) : e \in E}
CountOf(E, type, k) == Cardinality({e \in E : e.event_type = type /\ Key(e) = k})
InboundVolume(E, k) == Cardinality(Units({e \in E : e.event_type = INBOUND /\ Key(e) = k}))

\* found / orders in ten-thousandths, half to even; 0 without orders.
Rate(found, orders) ==
    LET q == (10000 * found) \div orders
        twice == 2 * ((10000 * found) % orders)
    IN IF orders = 0 THEN 0
       ELSE IF twice > orders \/ (twice = orders /\ q % 2 = 1) THEN q + 1 ELSE q

Grid(W) == {<<p.warehouse, p.client_id, w>> :
               p \in {x \in products : x.warehouse \in Warehouses /\ x.client_id \in Clients}, w \in W}

Rows(W, cutoff) ==
    LET E == Countable(events, W, cutoff)
    IN [k \in Grid(W) \cup {Key(e) : e \in E} |->
           [inbound |-> InboundVolume(E, k),
            outbound |-> CountOf(E, OUTBOUND, k),
            stockouts |-> CountOf(E, THRESHOLD, k),
            discrepancies |-> CountOf(E, DISCREPANCY, k),
            rate |-> Rate(CountOf(E, DISCREPANCY, k), CountOf(E, OUTBOUND, k))]]

\* `validate`: the gate before the load.
Valid(rows, W) ==
    \A k \in DOMAIN rows :
        /\ k[1] \in Warehouses /\ k[2] \in Clients /\ k[3] \in W /\ k[3] <= LastClosedWeek
        /\ LET row == rows[k]
           IN /\ {row.inbound, row.outbound, row.stockouts, row.discrepancies} \subseteq Nat
              /\ row.rate = Rate(row.discrepancies, row.outbound)

\* Mutant: stale keys stay.
LoadedOver(rows, W) ==
    [k \in DOMAIN report \cup DOMAIN rows |-> IF k \in DOMAIN rows THEN rows[k] ELSE report[k]]

\* Upsert the rows, delete the keys of these weeks that are not among them.
Loaded(rows, W) ==
    LET kept == {k \in DOMAIN report : k[3] \notin W}
    IN [k \in kept \cup DOMAIN rows |-> IF k \in DOMAIN rows THEN rows[k] ELSE report[k]]

-----------------------------------------------------------------------------

Init == /\ clock = Start
        /\ open = {}
        /\ events = History
        /\ products = Products
        /\ run = NoRun
        /\ completed = {}
        /\ report = [k \in {} |-> 0]

\* An insert begins; created_at is the now() of its transaction, which is later
\* than the cutoff of a run opened before.
Insert(r, id, t) ==
    /\ id \notin {e.id : e \in events \cup open}
    /\ run # NoRun => clock > run.cutoff
    /\ open' = open \cup {[id |-> id, timestamp |-> t, created_at |-> clock,
                           event_type |-> r.event_type, warehouse |-> r.warehouse,
                           client_id |-> r.client_id, product_id |-> r.product_id,
                           quantity |-> r.quantity, ref |-> r.ref,
                           threshold_band |-> r.threshold_band]}
    /\ UNCHANGED <<clock, events, products, run, completed, report>>

Commit(e) == /\ open' = open \ {e}
             /\ events' = events \cup {e}
             /\ UNCHANGED <<clock, products, run, completed, report>>

\* A product is created, or the seed claims one that had no owner.
StoreProduct(p) ==
    LET stored == {q \in products : q.product_id = p.product_id}
    IN /\ \A q \in stored : q.client_id = NoValue /\ q.warehouse = p.warehouse
       /\ products' = (products \ stored) \cup {p}
       /\ UNCHANGED <<clock, open, events, run, completed, report>>

\* previous_cutoff is the latest cutoff of any completed run.
PreviousCutoff == IF completed = {} THEN NoCutoff ELSE Max({r.cutoff : r \in completed})

OpenRun(W) == /\ run = NoRun
              /\ Cardinality(completed) < MaxRuns
              /\ WindowEnd(W) <= clock
              /\ run' = [weeks |-> W, cutoff |-> clock, previous |-> PreviousCutoff]
              /\ UNCHANGED <<clock, open, events, products, completed, report>>

\* An attempt that gets as far: extract, transform, validate and load, or the refusal
\* of the gate.  The events are read up to the cutoff, the products as they are; no step
\* needs the two reads apart, since storing a product and committing an event commute.
Publish == /\ run # NoRun
           /\ LET rows == Rows(run.weeks, run.cutoff)
              IN IF Valid(rows, run.weeks)
                 THEN /\ report' = Loaded(rows, run.weeks)
                      /\ completed' = completed \cup {run}
                 ELSE UNCHANGED <<report, completed>>
           /\ run' = NoRun
           /\ UNCHANGED <<clock, open, events, products>>

Tick == /\ clock < MaxClock
        /\ clock' = clock + 1
        /\ UNCHANGED <<open, events, products, run, completed, report>>

\* Nothing is left to happen within the bounds.
Over == /\ clock = MaxClock /\ open = {} /\ run = NoRun /\ Ids \subseteq {e.id : e \in events}
        /\ Cardinality(completed) = MaxRuns
        /\ UNCHANGED vars

Next == \/ \E r \in Reports, id \in Ids, t \in Timestamps : Insert(r, id, t)
        \/ \E e \in open : Commit(e)
        \/ \E p \in NewProducts : StoreProduct(p)
        \/ \E W \in Windows : OpenRun(W)
        \/ Publish
        \/ Tick
        \/ Over

Spec == Init /\ [][Next]_vars

-----------------------------------------------------------------------------
(* What the report owes its readers, in terms of facts instead of events *)

Usable(e, W, cutoff) == /\ e.created_at <= cutoff /\ WeekStart(e) \in W
                        /\ e.event_type \in EventTypes
                        /\ e.warehouse \in Warehouses /\ ResolvedClient(e) \in Clients
                        /\ e.event_type = INBOUND => e.quantity \in Nat \ {0}
                        /\ e.event_type = THRESHOLD => e.threshold_band \in ThresholdBands

\* The report of fact f that decides where and how it counts.
Deciding(f, E) ==
    LET told == {e \in E : BusinessKey(e) = f}
    IN CHOOSE e \in told : \A other \in told \ {e} :
           IF e.event_type = DISCREPANCY THEN Before(other, e) ELSE Before(e, other)

FactRows(W, cutoff) ==
    LET E == {e \in events : Usable(e, W, cutoff)}
        decided == [f \in {BusinessKey(e) : e \in E} |-> Deciding(f, E)]
        Facts(type, k) == {f \in DOMAIN decided : decided[f].event_type = type /\ Key(decided[f]) = k}
        Delivered(k) == UNION {{f} \X (1 .. decided[f].quantity) : f \in Facts(INBOUND, k)}
    IN [k \in Grid(W) \cup {Key(decided[f]) : f \in DOMAIN decided} |->
           [inbound |-> Cardinality(Delivered(k)),
            outbound |-> Cardinality(Facts(OUTBOUND, k)),
            stockouts |-> Cardinality(Facts(THRESHOLD, k)),
            discrepancies |-> Cardinality(Facts(DISCREPANCY, k))]]

\* A run publishes exactly the facts of its weeks as its snapshot has them: every
\* fact once, zeros where an owner had none, no key left behind by an earlier run,
\* and nothing of other weeks touched; and the gate never refuses what the
\* transform makes (PIPELINE_DESIGN.md 2.7, 2.8 and 3.1).
PublishesTheFacts ==
    [][(run # NoRun /\ run' = NoRun) =>
          LET truth == FactRows(run.weeks, run.cutoff)
          IN /\ run \in completed'
             /\ {k \in DOMAIN report' : k[3] \in run.weeks} = DOMAIN truth
             /\ \A k \in DOMAIN truth, figure \in {"inbound", "outbound", "stockouts", "discrepancies"} :
                    report'[k][figure] = truth[k][figure]
             /\ {k \in DOMAIN report' : k[3] \notin run.weeks}
                    = {k \in DOMAIN report : k[3] \notin run.weeks}
             /\ \A k \in DOMAIN report : k[3] \notin run.weeks => report'[k] = report[k]]_vars

CountsByType(E) == [type \in EventTypes |-> Cardinality({e \in E : e.event_type = type})]

\* A late event adds at most itself to what a scheduled run counts of its kind, and
\* changes no other count: it may move what is counted already to another row, and
\* neither inflates the figures nor takes away from them (PIPELINE_DESIGN.md 9.3).
LateEventsInflateNothing ==
    [][\A e \in events' \ events :
          LET before == CountsByType(Countable(events, Scheduled, clock))
              after == CountsByType(Countable(events', Scheduled, clock))
          IN after \in {before, [before EXCEPT ![e.event_type] = @ + 1]}]_vars

\* However long a run takes and however often it is tried, it reads the same events:
\* "the same window and cutoff always read the same rows" (extract.py:18-19).
SnapshotHolds ==
    [][(run # NoRun /\ run' = run) =>
          SourceEvents(events', run.weeks, run.cutoff) = SourceEvents(events, run.weeks, run.cutoff)]_vars

\* An event that is too old for a scheduled run which saw it arrive is in the
\* figures or in the late events of some run, unless it came before there was a run
\* to compare with: "Outside the window: detected, not lost" (PIPELINE_DESIGN.md:859).
LateIsDetected ==
    \A r \in completed : Cardinality(r.weeks) = Lookback =>
        \A e \in events :
            (/\ e.created_at <= r.cutoff /\ EffectiveTime(e) < WindowStart(r.weeks)
             /\ \E q \in completed : q.cutoff < e.created_at) =>
                \E q \in completed : e \in SourceEvents(events, q.weeks, q.cutoff) \cup LateOutside(q)
=============================================================================
