------------------------- MODULE WeeklyRollupProofs -------------------------
(***************************************************************************)
(* Proofs about the rollup, for any events, weeks, owners and number of    *)
(* runs.  First the order of the reports of a fact, then which of them     *)
(* count, then the weeks of a window, then a section per property.         *)
(***************************************************************************)
EXTENDS WeeklyRollup, FiniteSetTheorems, TLAPS

-----------------------------------------------------------------------------
(* The order of reports *)

IsEvent(e) == /\ {e.id, e.timestamp, e.created_at} \subseteq Int
              /\ e.quantity \in Int \cup {NoValue}

\* A table of events: finite, and `id` is its key.
IsTable(E) == /\ IsFiniteSet(E)
              /\ \A e \in E : IsEvent(e)
              /\ \A e, f \in E : e.id = f.id => e = f

LEMMA PartOfTable ==
    ASSUME NEW E, IsTable(E), NEW F \in SUBSET E
    PROVE  IsTable(F)
  BY FS_Subset DEF IsTable

\* The sort of duplicate_mask is a strict total order of the events of a table.
LEMMA BeforeIsTotal ==
    ASSUME NEW E, IsTable(E), NEW e \in E, NEW f \in E, NEW g \in E
    PROVE  /\ ~ Before(e, e)
           /\ Before(e, f) => ~ Before(f, e)
           /\ Before(e, f) /\ Before(f, g) => Before(e, g)
           /\ e = f \/ Before(e, f) \/ Before(f, e)
  BY DEF IsTable, IsEvent, Before

\* A finite set that R orders totally has a first element: a set without one that is
\* as small as possible loses an element and is still without one.
LEMMA HasFirst ==
    ASSUME NEW S, IsFiniteSet(S), S # {}, NEW R,
           \A x, y, z \in S : <<x, y>> \in R /\ <<y, z>> \in R => <<x, z>> \in R,
           \A x, y \in S : x = y \/ <<x, y>> \in R \/ <<y, x>> \in R
    PROVE  \E first \in S : \A x \in S \ {first} : <<first, x>> \in R
<1> DEFINE First(T) == \E first \in T : \A x \in T \ {first} : <<first, x>> \in R
           without == {T \in FiniteSubsetsOf(S) : T # {} /\ ~First(T)}
<1>1. SUFFICES ASSUME without # {} PROVE FALSE
  <2>1. S \in FiniteSubsetsOf(S)
    BY DEF FiniteSubsetsOf
  <2> QED
    BY <2>1
<1>2. PICK T \in without : \A U \in without : <<U, T>> \notin StrictSubsetOrdering(S)
  <2>1. without \subseteq FiniteSubsetsOf(S)
    OBVIOUS
  <2>2. IsWellFoundedOn(StrictSubsetOrdering(S), FiniteSubsetsOf(S))
    BY FS_StrictSubsetOrderingWellFounded
  <2> HIDE DEF without
  <2> QED
    BY <1>1, <2>1, <2>2, WFMin
<1>3. T \in SUBSET S /\ IsFiniteSet(T) /\ T # {} /\ ~First(T)
  BY DEF FiniteSubsetsOf
<1>4. PICK x \in T : TRUE
  BY <1>3
<1> DEFINE U == T \ {x}
<1>5. U \in FiniteSubsetsOf(S) /\ U # T
  BY <1>3, <1>4, FS_Subset DEF FiniteSubsetsOf
<1>6. <<U, T>> \in StrictSubsetOrdering(S)
  BY <1>3, <1>5 DEF StrictSubsetOrdering, FiniteSubsetsOf
<1>7. U # {}
  BY <1>3, <1>4
<1>8. First(U)
  BY <1>2, <1>5, <1>6, <1>7
<1>9. PICK m \in U : \A y \in U \ {m} : <<m, y>> \in R
  BY <1>8
<1>10. CASE <<m, x>> \in R
  BY <1>3, <1>9, <1>10
<1>11. CASE <<x, m>> \in R
  <2>1. \A y \in T \ {x} : <<x, y>> \in R
    BY <1>3, <1>4, <1>9, <1>11
  <2> QED
    BY <1>3, <1>4, <2>1
<1> QED
  BY <1>3, <1>4, <1>9, <1>10, <1>11

-----------------------------------------------------------------------------
(* Which report of a fact counts *)

\* Of two reports of a fact, e and not f decides where and how it counts.
Decides(e, f) == IF e.event_type = DISCREPANCY THEN Before(f, e) ELSE Before(e, f)

\* The key of a fact tells its type, so its reports agree on which of two decides.
LEMMA KeyTellsType ==
    ASSUME NEW E, IsTable(E), NEW e \in E, NEW f \in E, BusinessKey(e) = BusinessKey(f),
           e.event_type \in EventTypes, f.event_type \in EventTypes
    PROVE  e.event_type = f.event_type
  BY DEF IsTable, BusinessKey, EventTypes, INBOUND, OUTBOUND, THRESHOLD, DISCREPANCY

LEMMA DecidesIsTotal ==
    ASSUME NEW E, IsTable(E), \A e \in E : e.event_type \in EventTypes,
           NEW e \in E, NEW f \in E, NEW g \in E,
           BusinessKey(e) = BusinessKey(f), BusinessKey(f) = BusinessKey(g)
    PROVE  /\ ~ Decides(e, e)
           /\ Decides(e, f) => ~ Decides(f, e)
           /\ Decides(e, f) /\ Decides(f, g) => Decides(e, g)
           /\ e = f \/ Decides(e, f) \/ Decides(f, e)
<1>1. e.event_type = f.event_type /\ f.event_type = g.event_type
  BY KeyTellsType
<1> QED
  BY <1>1, BeforeIsTotal DEF Decides

\* An event is superseded by one that decides its fact.
LEMMA SupersededByDeciding ==
    ASSUME NEW E, IsTable(E), \A e \in E : e.event_type \in EventTypes, NEW e
    PROVE  e \in Superseded(E) <=>
               e \in E /\ \E f \in E : BusinessKey(f) = BusinessKey(e) /\ Decides(f, e)
  BY KeyTellsType DEF Superseded, Decides

\* Every fact has a report that decides it.
LEMMA FactIsDecided ==
    ASSUME NEW E, IsTable(E), \A e \in E : e.event_type \in EventTypes,
           NEW one \in E, NEW f, BusinessKey(one) = f
    PROVE  /\ Deciding(f, E) \in E /\ BusinessKey(Deciding(f, E)) = f
           /\ \A e \in E \ {Deciding(f, E)} : BusinessKey(e) = f => Decides(Deciding(f, E), e)
<1> DEFINE told == {e \in E : BusinessKey(e) = f}
           order == {p \in told \X told : Decides(p[1], p[2])}
<1>1. IsFiniteSet(told) /\ told # {}
  BY FS_Subset DEF IsTable
<1>2. \A x, y \in told : <<x, y>> \in order <=> Decides(x, y)
  OBVIOUS
<1>3. \A x, y, z \in told : <<x, y>> \in order /\ <<y, z>> \in order => <<x, z>> \in order
  BY <1>2, DecidesIsTotal
<1>4. \A x, y \in told : x = y \/ <<x, y>> \in order \/ <<y, x>> \in order
  BY <1>2, DecidesIsTotal
<1>5. \E first \in told : \A x \in told \ {first} : <<first, x>> \in order
  <2> HIDE DEF told, order
  <2> QED
    BY <1>1, <1>3, <1>4, HasFirst
<1>6. \E first \in told : \A x \in told \ {first} : Decides(first, x)
  BY <1>2, <1>5
<1>7. Deciding(f, E) = CHOOSE first \in told : \A x \in told \ {first} : Decides(first, x)
  BY DEF Deciding, Decides
<1>8. /\ Deciding(f, E) \in told
      /\ \A x \in told \ {Deciding(f, E)} : Decides(Deciding(f, E), x)
  <2> HIDE DEF told
  <2> QED
    BY <1>6, <1>7
<1> QED
  BY <1>8

\* The reports that are not superseded are those that decide: one of each fact.
LEMMA CountingDecides ==
    ASSUME NEW E, IsTable(E), \A e \in E : e.event_type \in EventTypes, NEW e \in E
    PROVE  e \notin Superseded(E) <=> e = Deciding(BusinessKey(e), E)
<1>1. /\ Deciding(BusinessKey(e), E) \in E
      /\ BusinessKey(Deciding(BusinessKey(e), E)) = BusinessKey(e)
      /\ \A f \in E \ {Deciding(BusinessKey(e), E)} :
            BusinessKey(f) = BusinessKey(e) => Decides(Deciding(BusinessKey(e), E), f)
  BY FactIsDecided
<1>2. CASE e \in Superseded(E)
  <2>1. PICK f \in E : BusinessKey(f) = BusinessKey(e) /\ Decides(f, e)
    BY <1>2, SupersededByDeciding
  <2> QED
    BY <1>1, <1>2, <2>1, DecidesIsTotal
<1>3. CASE e \notin Superseded(E)
  BY <1>1, <1>3, SupersededByDeciding
<1> QED
  BY <1>2, <1>3

-----------------------------------------------------------------------------
(* One event more *)

OfType(E, type) == {e \in E : e.event_type = type}
Survivors(E) == E \ Superseded(E)

\* A report that does not decide its fact changes nothing.
LEMMA IdleReport ==
    ASSUME NEW V, NEW e, e \notin V, IsTable(V \cup {e}),
           \A x \in V \cup {e} : x.event_type \in EventTypes,
           e \in Superseded(V \cup {e})
    PROVE  Survivors(V \cup {e}) = Survivors(V)
<1> DEFINE E == V \cup {e}
<1>1. IsTable(V) /\ \A x \in V : x.event_type \in EventTypes
  BY PartOfTable
<1>2. PICK f \in V : BusinessKey(f) = BusinessKey(e) /\ Decides(f, e)
  <2>1. PICK f \in E : BusinessKey(f) = BusinessKey(e) /\ Decides(f, e)
    BY SupersededByDeciding
  <2> QED
    BY <2>1, DecidesIsTotal
<1>3. ASSUME NEW x \in V PROVE x \in Superseded(E) <=> x \in Superseded(V)
  <2>1. x \in Superseded(V) <=> \E g \in V : BusinessKey(g) = BusinessKey(x) /\ Decides(g, x)
    BY <1>1, SupersededByDeciding
  <2>2. x \in Superseded(E) <=> \E g \in E : BusinessKey(g) = BusinessKey(x) /\ Decides(g, x)
    BY SupersededByDeciding
  <2>3. BusinessKey(e) = BusinessKey(x) /\ Decides(e, x) => Decides(f, x)
    BY <1>2, DecidesIsTotal
  <2> QED
    BY <1>2, <2>1, <2>2, <2>3
<1> QED
  BY <1>3 DEF Survivors

\* One that decides takes the place of the report that did, or adds a fact.
LEMMA DecidingReport ==
    ASSUME NEW V, NEW e, e \notin V, IsTable(V \cup {e}),
           \A x \in V \cup {e} : x.event_type \in EventTypes,
           e \notin Superseded(V \cup {e})
    PROVE  \E S \in SUBSET Survivors(V) :
              /\ \A x \in S : x.event_type = e.event_type
              /\ \A x, y \in S : x = y
              /\ Survivors(V \cup {e}) = (Survivors(V) \ S) \cup {e}
<1> DEFINE E == V \cup {e}
           S == {x \in Survivors(V) : BusinessKey(x) = BusinessKey(e)}
<1>1. IsTable(V) /\ \A x \in V : x.event_type \in EventTypes
  BY PartOfTable
<1>2. Survivors(V) \subseteq V
  BY DEF Survivors
<1>3. \A x \in S : x.event_type = e.event_type
  BY <1>2, KeyTellsType
<1>4. \A x, y \in S : x = y
  BY <1>1, <1>2, CountingDecides DEF Survivors
<1>5. ASSUME NEW x \in V
      PROVE  x \in Survivors(E) <=> x \in Survivors(V) /\ BusinessKey(x) # BusinessKey(e)
  <2>1. x \in Superseded(V) <=> \E g \in V : BusinessKey(g) = BusinessKey(x) /\ Decides(g, x)
    BY <1>1, SupersededByDeciding
  <2>2. x \in Superseded(E) <=> \E g \in E : BusinessKey(g) = BusinessKey(x) /\ Decides(g, x)
    BY SupersededByDeciding
  <2>3. BusinessKey(x) = BusinessKey(e) => Decides(e, x)
    <3>1. BusinessKey(x) = BusinessKey(e) => ~ Decides(x, e)
      BY SupersededByDeciding
    <3> QED
      BY <3>1, DecidesIsTotal
  <2> QED
    BY <2>1, <2>2, <2>3 DEF Survivors
<1>6. Survivors(E) = (Survivors(V) \ S) \cup {e}
  BY <1>2, <1>5 DEF Survivors
<1> QED
  BY <1>3, <1>4, <1>6

\* So the count of its kind grows by one at most, and no other count changes.
LEMMA OneMoreReport ==
    ASSUME NEW V, NEW e, e \notin V, IsTable(V \cup {e}),
           \A x \in V \cup {e} : x.event_type \in EventTypes
    PROVE  LET before == CountsByType(Survivors(V))
               after == CountsByType(Survivors(V \cup {e}))
           IN after \in {before, [before EXCEPT ![e.event_type] = @ + 1]}
<1> DEFINE before == CountsByType(Survivors(V))
           after == CountsByType(Survivors(V \cup {e}))
<1>1. CASE e \in Superseded(V \cup {e})
  BY <1>1, IdleReport
<1>2. CASE e \notin Superseded(V \cup {e})
  <2>1. PICK S \in SUBSET Survivors(V) :
              /\ \A x \in S : x.event_type = e.event_type
              /\ \A x, y \in S : x = y
              /\ Survivors(V \cup {e}) = (Survivors(V) \ S) \cup {e}
    BY <1>2, DecidingReport
  <2> DEFINE kind == OfType(Survivors(V), e.event_type)
  <2>2. ASSUME NEW type \in EventTypes, type # e.event_type
        PROVE  OfType(Survivors(V \cup {e}), type) = OfType(Survivors(V), type)
    BY <2>1, <2>2 DEF OfType
  <2>3. OfType(Survivors(V \cup {e}), e.event_type) = (kind \ S) \cup {e}
    BY <2>1 DEF OfType
  <2>4. IsFiniteSet(kind) /\ e \notin kind /\ S \subseteq kind
    <3>1. IsFiniteSet(V)
      BY FS_Subset DEF IsTable
    <3>2. kind \in SUBSET V /\ S \subseteq kind
      BY <2>1 DEF OfType, Survivors
    <3> QED
      BY <3>1, <3>2, FS_Subset
  <2>5. /\ Cardinality(kind) \in Nat
        /\ Cardinality((kind \ S) \cup {e}) \in {Cardinality(kind), Cardinality(kind) + 1}
    <3> HIDE DEF kind
    <3>1. Cardinality(kind) \in Nat
      BY <2>4, FS_CardinalityType
    <3>2. CASE S = {}
      <4>1. (kind \ S) \cup {e} = kind \cup {e}
        BY <3>2
      <4>2. Cardinality(kind \cup {e}) = Cardinality(kind) + 1
        BY <2>4, FS_AddElement
      <4> QED
        BY <3>1, <4>1, <4>2
    <3>3. ASSUME NEW x \in S PROVE Cardinality((kind \ S) \cup {e}) = Cardinality(kind)
      <4>1. (kind \ S) \cup {e} = (kind \ {x}) \cup {e} /\ x \in kind
        BY <2>1, <2>4
      <4>2. /\ IsFiniteSet(kind \ {x})
            /\ Cardinality(kind \ {x}) = Cardinality(kind) - 1
        BY <2>4, <4>1, FS_RemoveElement
      <4>3. Cardinality((kind \ {x}) \cup {e}) = Cardinality(kind \ {x}) + 1
        BY <2>4, <4>2, FS_AddElement
      <4>4. Cardinality((kind \ S) \cup {e}) = Cardinality((kind \ {x}) \cup {e})
        BY <4>1
      <4>5. Cardinality((kind \ {x}) \cup {e}) = Cardinality(kind)
        BY <3>1, <4>2, <4>3
      <4> QED
        BY <4>4, <4>5
    <3> QED
      BY <3>1, <3>2, <3>3
  <2>6. /\ before = [type \in EventTypes |-> Cardinality(OfType(Survivors(V), type))]
        /\ after = [type \in EventTypes |-> Cardinality(OfType(Survivors(V \cup {e}), type))]
    BY DEF CountsByType, OfType
  <2>7. before[e.event_type] = Cardinality(kind)
    BY <2>6
  <2>8. /\ after[e.event_type] \in {before[e.event_type], before[e.event_type] + 1}
        /\ \A type \in EventTypes \ {e.event_type} : after[type] = before[type]
    BY <2>2, <2>3, <2>5, <2>6, <2>7
  <2> HIDE DEF before, after
  <2>9. after = before \/ after = [before EXCEPT ![e.event_type] = before[e.event_type] + 1]
    BY <2>6, <2>8
  <2> QED
    BY <2>9 DEF before, after
<1> QED
  BY <1>1, <1>2

-----------------------------------------------------------------------------
(* The invariant *)

\* A run's weeks follow one another, and the last of them is over.
IsWindow(W) == /\ \E a, b \in Int : a <= b /\ W = a .. b
               /\ WindowEnd(W) <= clock

\* What is stored, or is about to be, is one table of events.
RollupInv ==
    /\ clock \in Int
    /\ IsTable(events \cup open)
    /\ run # NoRun => IsWindow(run.weeks) /\ run.cutoff \in Int

LEMMA WindowBounds ==
    ASSUME NEW a \in Int, NEW b \in Int, a <= b
    PROVE  Min(a .. b) = a /\ Max(a .. b) = b
  BY DEF Min, Max

LEMMA WindowsAreIntervals ==
    ASSUME clock \in Int, NEW W \in Windows
    PROVE  \E a, b \in Int : a <= b /\ W = a .. b
<1>1. LastClosedWeek \in Int
  BY RollupAssumption DEF LastClosedWeek, WeekOf
<1>2. CASE W = Scheduled
  BY <1>1, <1>2, RollupAssumption DEF Scheduled
<1>3. ASSUME NEW w \in 0 .. LastClosedWeek, W = {w} PROVE \E a, b \in Int : a <= b /\ W = a .. b
  <2>1. w \in Int /\ {w} = w .. w
    BY <1>1
  <2> QED
    BY <1>3, <2>1
<1> QED
  BY <1>2, <1>3 DEF Windows

LEMMA InvStep == RollupInv /\ [Next]_vars => RollupInv'
<1> SUFFICES ASSUME RollupInv, [Next]_vars PROVE RollupInv'
  OBVIOUS
<1>1. ASSUME NEW r \in Reports, NEW id \in Ids, NEW t \in Timestamps, Insert(r, id, t)
      PROVE  RollupInv'
  <2> DEFINE new == [id |-> id, timestamp |-> t, created_at |-> clock,
                     event_type |-> r.event_type, warehouse |-> r.warehouse,
                     client_id |-> r.client_id, product_id |-> r.product_id,
                     quantity |-> r.quantity, ref |-> r.ref, threshold_band |-> r.threshold_band]
  <2>1. /\ events' \cup open' = (events \cup open) \cup {new} /\ UNCHANGED <<clock, run>>
        /\ id \notin {e.id : e \in events \cup open}
    BY <1>1 DEF Insert
  <2>2. IsEvent(new) /\ new.id = id
    BY EventsAssumption DEF RollupInv, IsEvent
  <2> HIDE DEF new
  <2>3. IsFiniteSet((events \cup open) \cup {new})
    BY FS_AddElement DEF RollupInv, IsTable
  <2>4. IsTable(events' \cup open')
    BY <2>1, <2>2, <2>3 DEF RollupInv, IsTable
  <2> QED
    BY <2>1, <2>4 DEF RollupInv, IsWindow
<1>2. ASSUME NEW e \in open, Commit(e) PROVE RollupInv'
  <2>1. events' \cup open' = events \cup open /\ UNCHANGED <<clock, run>>
    BY <1>2 DEF Commit
  <2> QED
    BY <2>1 DEF RollupInv, IsWindow
<1>3. ASSUME NEW W \in Windows, OpenRun(W) PROVE RollupInv'
  <2>1. /\ run' = [weeks |-> W, cutoff |-> clock, previous |-> PreviousCutoff]
        /\ WindowEnd(W) <= clock /\ UNCHANGED <<clock, events, open>>
    BY <1>3 DEF OpenRun
  <2>2. run'.weeks = W /\ run'.cutoff = clock
    BY <2>1
  <2> QED
    BY <2>1, <2>2, WindowsAreIntervals DEF RollupInv, IsWindow
<1>4. CASE Publish
  BY <1>4 DEF Publish, RollupInv
<1>5. CASE Tick
  <2>1. clock' = clock + 1 /\ UNCHANGED <<run, events, open>>
    BY <1>5 DEF Tick
  <2>2. ASSUME run # NoRun PROVE WindowEnd(run.weeks) <= clock + 1
    <3>1. PICK a, b \in Int : a <= b /\ run.weeks = a .. b
      BY <2>2 DEF RollupInv, IsWindow
    <3>2. WindowEnd(run.weeks) = (b + 1) * WeekLength
      BY <3>1, WindowBounds DEF WindowEnd
    <3>3. WindowEnd(run.weeks) \in Int
      BY <3>2, RollupAssumption
    <3> QED
      BY <2>2, <3>3 DEF RollupInv, IsWindow
  <2> QED
    BY <2>1, <2>2 DEF RollupInv, IsWindow
<1>6. ASSUME NEW p \in NewProducts, StoreProduct(p) PROVE RollupInv'
  BY <1>6 DEF StoreProduct, RollupInv, IsWindow
<1>7. CASE Over \/ UNCHANGED vars
  BY <1>7 DEF Over, vars, RollupInv, IsWindow
<1> QED
  BY <1>1, <1>2, <1>3, <1>4, <1>5, <1>6, <1>7 DEF Next

\* The table of events stays one, and the weeks of an open run are over.
THEOREM TablesAreWhole == Spec => []RollupInv
<1>1. Init => RollupInv
  <2>1. ASSUME Init PROVE IsTable(events \cup open)
    <3>1. events \cup open = History
      BY <2>1 DEF Init
    <3> QED
      BY <3>1, EventsAssumption DEF IsTable, IsEvent
  <2> QED
    BY <2>1, RollupAssumption DEF Init, RollupInv
<1> QED
  BY <1>1, InvStep, PTL DEF Spec

-----------------------------------------------------------------------------
(* Late events *)

\* Whatever a table and the weeks, the events that count are its survivors of a kind.
Countables(E, W, cutoff) == {e \in SourceEvents(E, W, cutoff) : ~Excluded(e, W)}

LEMMA CountableSurvives ==
    ASSUME NEW E, NEW W, NEW cutoff
    PROVE  Countable(E, W, cutoff) = Survivors(Countables(E, W, cutoff))
  BY DEF Countable, Survivors, Countables

LEMMA CountablesAreTyped ==
    ASSUME NEW E, IsTable(E), NEW W, NEW cutoff
    PROVE  /\ Countables(E, W, cutoff) \subseteq E /\ IsTable(Countables(E, W, cutoff))
           /\ \A e \in Countables(E, W, cutoff) : e.event_type \in EventTypes
<1>1. Countables(E, W, cutoff) \in SUBSET E
  BY DEF Countables, SourceEvents
<1>2. \A e \in Countables(E, W, cutoff) : e.event_type \in EventTypes
  BY DEF Countables, SourceEvents
<1> QED
  BY <1>1, <1>2, PartOfTable

\* Another event is countable itself or it is not; it makes no other so.
LEMMA OneMoreEvent ==
    ASSUME NEW E, NEW e, NEW W, NEW cutoff
    PROVE  Countables(E \cup {e}, W, cutoff) \in
               {Countables(E, W, cutoff), Countables(E, W, cutoff) \cup {e}}
  BY DEF Countables, SourceEvents

\* A late event adds at most itself to what a scheduled run counts of its kind,
\* whatever else is stored and however events repeat each other.
THEOREM LateEventsCountOnce == Spec => LateEventsInflateNothing
<1> DEFINE before == CountsByType(Countable(events, Scheduled, clock))
           after == CountsByType(Countable(events', Scheduled, clock))
           Grows == \A e \in events' \ events :
                       after \in {before, [before EXCEPT ![e.event_type] = @ + 1]}
<1>1. RollupInv /\ [Next]_vars => Grows
  <2> SUFFICES ASSUME RollupInv, [Next]_vars, NEW e \in events' \ events
               PROVE  after \in {before, [before EXCEPT ![e.event_type] = @ + 1]}
    OBVIOUS
  <2>1. events' = events \cup {e} /\ e \in open
    BY DEF Next, Insert, Commit, StoreProduct, OpenRun, Publish, Tick, Over, vars
  <2> DEFINE V == Countables(events, Scheduled, clock)
  <2>2. IsTable(events \cup {e})
    BY <2>1, PartOfTable DEF RollupInv
  <2>3. CASE Countables(events', Scheduled, clock) = V
    BY <2>3, CountableSurvives
  <2>4. CASE Countables(events', Scheduled, clock) = V \cup {e}
    <3>1. /\ IsTable(V \cup {e}) /\ \A x \in V \cup {e} : x.event_type \in EventTypes
      <4>1. IsTable(events')
        BY <2>1, <2>2
      <4>2. /\ IsTable(Countables(events', Scheduled, clock))
            /\ \A x \in Countables(events', Scheduled, clock) : x.event_type \in EventTypes
        BY <4>1, CountablesAreTyped
      <4> HIDE DEF V
      <4> QED
        BY <2>4, <4>2
    <3>2. e \notin V
      BY DEF Countables, SourceEvents
    <3> HIDE DEF V
    <3>3. /\ before = CountsByType(Survivors(V))
          /\ after = CountsByType(Survivors(V \cup {e}))
      BY <2>4, CountableSurvives DEF V
    <3> QED
      BY <3>1, <3>2, <3>3, OneMoreReport
  <2>5. Countables(events', Scheduled, clock) \in {V, V \cup {e}}
    BY <2>1, OneMoreEvent
  <2> QED
    BY <2>3, <2>4, <2>5
<1> QED
  BY <1>1, TablesAreWhole, PTL DEF Spec, LateEventsInflateNothing

-----------------------------------------------------------------------------
(* Weeks and times *)

LEMMA WeekBounds ==
    ASSUME NEW t \in Int, NEW w \in Int
    PROVE  /\ WeekOf(t) \in Int
           /\ t >= w * WeekLength <=> WeekOf(t) >= w
           /\ t < (w + 1) * WeekLength <=> WeekOf(t) <= w
<1> DEFINE q == t \div WeekLength
           r == t % WeekLength
<1>1. WeekLength \in Int /\ WeekLength > 0
  BY RollupAssumption
<1>2. q \in Int /\ r \in 0 .. WeekLength - 1 /\ t = WeekLength * q + r
  BY <1>1
<1> HIDE DEF q, r
<1>3. \A x, y \in Int : x >= y => WeekLength * x >= WeekLength * y
  BY <1>1
<1>4. ASSUME NEW x \in Int PROVE t >= x * WeekLength <=> q >= x
  <2>1. CASE q >= x
    <3>1. WeekLength * q >= WeekLength * x
      BY <1>2, <1>3, <2>1
    <3> QED
      BY <1>1, <1>2, <2>1, <3>1
  <2>2. CASE ~ (q >= x)
    <3>1. x >= q + 1
      BY <1>2, <2>2
    <3>2. WeekLength * x >= WeekLength * (q + 1)
      BY <1>2, <1>3, <3>1
    <3>3. WeekLength * (q + 1) = WeekLength * q + WeekLength
      BY <1>1, <1>2
    <3>4. WeekLength * x > t
      BY <1>1, <1>2, <3>2, <3>3
    <3> QED
      BY <1>1, <2>2, <3>4
  <2> QED
    BY <2>1, <2>2
<1>5. /\ t >= w * WeekLength <=> q >= w
      /\ t >= (w + 1) * WeekLength <=> q >= w + 1
  BY <1>4
<1>6. WeekOf(t) = q
  BY DEF WeekOf, q
<1>7. (w + 1) * WeekLength \in Int
  BY <1>1
<1> QED
  BY <1>2, <1>5, <1>6, <1>7

-----------------------------------------------------------------------------
(* The report *)

LEMMA ClientsResolve == \A e : ResolvedClient(e) \in Clients \cup {NoValue}
<1> SUFFICES ASSUME NEW e PROVE ResolvedClient(e) \in Clients \cup {NoValue}
  OBVIOUS
<1>1. \A p \in Owners(e) : p.client_id \in Clients
  BY DEF Owners
<1> QED
  BY <1>1 DEF ResolvedClient

\* The query, the exclusions and the window find the events a reader would count.
LEMMA UsableAreCountable ==
    ASSUME RollupInv, run # NoRun
    PROVE  Countables(events, run.weeks, run.cutoff)
               = {e \in events : Usable(e, run.weeks, run.cutoff)}
<1>1. PICK a, b \in Int : a <= b /\ run.weeks = a .. b
  BY DEF RollupInv, IsWindow
<1>2. WindowStart(run.weeks) = a * WeekLength /\ WindowEnd(run.weeks) = (b + 1) * WeekLength
  BY <1>1, WindowBounds DEF WindowStart, WindowEnd
<1> SUFFICES ASSUME NEW e \in events
             PROVE  e \in Countables(events, run.weeks, run.cutoff)
                        <=> Usable(e, run.weeks, run.cutoff)
  BY DEF Countables, SourceEvents
<1>3. IsEvent(e) /\ EffectiveTime(e) \in Int /\ EffectiveTime(e) <= e.timestamp
  BY DEF RollupInv, IsTable, IsEvent, EffectiveTime
<1>4. WeekStart(e) \in run.weeks <=> /\ EffectiveTime(e) >= WindowStart(run.weeks)
                                     /\ EffectiveTime(e) < WindowEnd(run.weeks)
  BY <1>1, <1>2, <1>3, WeekBounds DEF WeekStart
<1>5. WeekStart(e) \in run.weeks => e.timestamp >= WindowStart(run.weeks)
  <2>1. WindowStart(run.weeks) \in Int
    BY <1>1, <1>2, RollupAssumption
  <2> QED
    BY <1>3, <1>4, <2>1 DEF IsEvent
<1>6. (e.quantity = NoValue \/ e.quantity < 1) <=> e.quantity \notin Nat \ {0}
  BY <1>3, EventsAssumption DEF IsEvent
<1>7. ResolvedClient(e) = NoValue <=> ResolvedClient(e) \notin Clients
  BY ClientsResolve, RollupAssumption
<1> QED
  BY <1>4, <1>5, <1>6, <1>7 DEF Countables, SourceEvents, Excluded, Usable

\* A function that takes each element of T once keeps the size.
LEMMA SameSize ==
    ASSUME NEW S, IsFiniteSet(S), NEW T, NEW f \in [S -> T],
           \A x, y \in S : f[x] = f[y] => x = y,
           \A z \in T : \E x \in S : f[x] = z
    PROVE  Cardinality(S) = Cardinality(T)
<1>1. f \in Bijection(S, T)
  BY DEF Bijection, Injection, Surjection, IsInjective
<1> QED
  BY <1>1, FS_Bijection DEF ExistsBijection

LEMMA UnitsAreFinite ==
    ASSUME NEW E, IsFiniteSet(E), \A e \in E : e.quantity \in Int
    PROVE  IsFiniteSet(Units(E))
<1> DEFINE part == [e \in E |-> {e} \X (1 .. e.quantity)]
           parts == {part[e] : e \in E}
<1>1. part \in Surjection(E, parts)
  BY DEF Surjection
<1>2. IsFiniteSet(parts)
  <2> HIDE DEF part, parts
  <2> QED
    BY <1>1, FS_Surjection
<1>3. ASSUME NEW e \in E PROVE IsFiniteSet(part[e])
  <2>1. e.quantity \in Int
    OBVIOUS
  <2>2. IsFiniteSet({e})
    BY FS_Singleton
  <2>3. IsFiniteSet(1 .. e.quantity)
    BY <2>1, FS_Interval
  <2> QED
    BY <2>2, <2>3, FS_Product
<1>4. Units(E) = UNION parts
  BY DEF Units
<1> HIDE DEF parts
<1>5. \A T \in parts : IsFiniteSet(T)
  BY <1>3 DEF parts
<1> QED
  BY <1>2, <1>4, <1>5, FS_UNION

-----------------------------------------------------------------------------
(* Facts and the reports that decide them *)

FactsOf(E) == {BusinessKey(e) : e \in E}

\* A fact and the report that decides it stand for each other.
LEMMA FactsAreDecided ==
    ASSUME NEW E, IsTable(E), \A e \in E : e.event_type \in EventTypes
    PROVE  /\ \A f \in FactsOf(E) : /\ Deciding(f, E) \in Survivors(E)
                                   /\ BusinessKey(Deciding(f, E)) = f
           /\ \A e \in Survivors(E) : /\ BusinessKey(e) \in FactsOf(E)
                                      /\ Deciding(BusinessKey(e), E) = e
<1>1. ASSUME NEW e \in Survivors(E)
      PROVE  BusinessKey(e) \in FactsOf(E) /\ Deciding(BusinessKey(e), E) = e
  BY CountingDecides DEF Survivors, FactsOf
<1>2. ASSUME NEW f \in FactsOf(E)
      PROVE  Deciding(f, E) \in Survivors(E) /\ BusinessKey(Deciding(f, E)) = f
  <2>1. PICK one \in E : BusinessKey(one) = f
    BY DEF FactsOf
  <2>2. Deciding(f, E) \in E /\ BusinessKey(Deciding(f, E)) = f
    BY <2>1, FactIsDecided
  <2> QED
    BY <2>2, CountingDecides DEF Survivors
<1> QED
  BY <1>1, <1>2

\* Counted by their events or by their facts, figures are the same.
LEMMA CountsAgree ==
    ASSUME NEW E, IsTable(E), \A e \in E : e.event_type \in EventTypes, NEW type, NEW k
    PROVE  CountOf(Survivors(E), type, k)
               = Cardinality({f \in FactsOf(E) : /\ Deciding(f, E).event_type = type
                                                /\ Key(Deciding(f, E)) = k})
<1> DEFINE told == {e \in Survivors(E) : e.event_type = type /\ Key(e) = k}
           facts == {f \in FactsOf(E) : /\ Deciding(f, E).event_type = type
                                        /\ Key(Deciding(f, E)) = k}
           fact == [e \in told |-> BusinessKey(e)]
<1>1. IsFiniteSet(told)
  <2>1. told \in SUBSET E /\ IsFiniteSet(E)
    BY DEF Survivors, IsTable
  <2> QED
    BY <2>1, FS_Subset
<1>2. fact \in [told -> facts]
  BY FactsAreDecided
<1>3. \A x, y \in told : fact[x] = fact[y] => x = y
  BY FactsAreDecided
<1>4. ASSUME NEW f \in facts PROVE \E x \in told : fact[x] = f
  <2>1. Deciding(f, E) \in told /\ BusinessKey(Deciding(f, E)) = f
    BY FactsAreDecided
  <2> QED
    BY <2>1
<1>5. Cardinality(told) = Cardinality(facts)
  <2> HIDE DEF told, facts, fact
  <2> QED
    BY <1>1, <1>2, <1>3, <1>4, SameSize
<1> QED
  BY <1>5 DEF CountOf

LEMMA VolumesAgree ==
    ASSUME NEW E, IsTable(E), \A e \in E : e.event_type \in EventTypes,
           \A e \in E : e.event_type = INBOUND => e.quantity \in Nat, NEW k
    PROVE  /\ InboundVolume(Survivors(E), k) \in Nat
           /\ InboundVolume(Survivors(E), k)
                  = Cardinality(UNION {{f} \X (1 .. Deciding(f, E).quantity) :
                        f \in {f \in FactsOf(E) : /\ Deciding(f, E).event_type = INBOUND
                                                 /\ Key(Deciding(f, E)) = k}})
<1> DEFINE told == {e \in Survivors(E) : e.event_type = INBOUND /\ Key(e) = k}
           facts == {f \in FactsOf(E) : /\ Deciding(f, E).event_type = INBOUND
                                        /\ Key(Deciding(f, E)) = k}
           counted == UNION {{f} \X (1 .. Deciding(f, E).quantity) : f \in facts}
           unit == [p \in Units(told) |-> <<BusinessKey(p[1]), p[2]>>]
<1>1. told \in SUBSET E /\ \A e \in told : e.quantity \in Nat
  BY DEF Survivors
<1>2. IsFiniteSet(Units(told))
  <2>1. IsFiniteSet(told) /\ \A e \in told : e.quantity \in Int
    BY <1>1, FS_Subset DEF IsTable
  <2> HIDE DEF told
  <2> QED
    BY <2>1, UnitsAreFinite
<1>3. \A e \in told : BusinessKey(e) \in facts /\ Deciding(BusinessKey(e), E) = e
  BY FactsAreDecided
<1>4. \A f \in facts : Deciding(f, E) \in told /\ BusinessKey(Deciding(f, E)) = f
  BY FactsAreDecided
<1> HIDE DEF told, facts
<1>5. \A p : p \in Units(told) <=> \E e \in told : \E n \in 1 .. e.quantity : p = <<e, n>>
  <2>1. Units(told) = UNION {{e} \X (1 .. e.quantity) : e \in told}
    BY DEF Units
  <2>2. \A e, p : p \in {e} \X (1 .. e.quantity) <=> \E n \in 1 .. e.quantity : p = <<e, n>>
    OBVIOUS
  <2> QED
    BY <2>1, <2>2
<1>6. \A p : p \in counted <=>
              \E f \in facts : \E n \in 1 .. Deciding(f, E).quantity : p = <<f, n>>
  OBVIOUS
<1> HIDE DEF counted
<1>7. \A e \in told : \A n \in 1 .. e.quantity :
          <<e, n>> \in Units(told) /\ unit[<<e, n>>] = <<BusinessKey(e), n>>
  BY <1>5
<1>8. unit \in [Units(told) -> counted]
  BY <1>3, <1>5, <1>6
<1>9. ASSUME NEW p \in Units(told), NEW q \in Units(told), unit[p] = unit[q] PROVE p = q
  BY <1>3, <1>5, <1>9
<1>10. ASSUME NEW z \in counted PROVE \E p \in Units(told) : unit[p] = z
  <2>1. PICK f \in facts : \E n \in 1 .. Deciding(f, E).quantity : z = <<f, n>>
    BY <1>6
  <2>2. PICK n \in 1 .. Deciding(f, E).quantity : z = <<f, n>>
    BY <2>1
  <2> DEFINE e == Deciding(f, E)
  <2>3. e \in told /\ BusinessKey(e) = f
    BY <1>4
  <2>4. n \in 1 .. e.quantity
    OBVIOUS
  <2> HIDE DEF e, unit
  <2>5. <<e, n>> \in Units(told) /\ unit[<<e, n>>] = z
    BY <1>7, <2>2, <2>3, <2>4
  <2> QED
    BY <2>5
<1>11. Cardinality(Units(told)) = Cardinality(counted)
  <2> HIDE DEF unit
  <2> QED
    BY <1>2, <1>8, <1>9, <1>10, SameSize
<1> QED
  BY <1>2, <1>11, FS_CardinalityType DEF InboundVolume, told, facts, counted

-----------------------------------------------------------------------------
(* Publication *)

Usables(W, cutoff) == {e \in events : Usable(e, W, cutoff)}

LEMMA RunCountsUsables ==
    ASSUME RollupInv, run # NoRun
    PROVE  LET U == Usables(run.weeks, run.cutoff)
           IN /\ IsTable(U) /\ \A e \in U : e.event_type \in EventTypes
              /\ \A e \in U : e.event_type = INBOUND => e.quantity \in Nat
              /\ Countable(events, run.weeks, run.cutoff) = Survivors(U)
<1>1. IsTable(Usables(run.weeks, run.cutoff))
  <2>1. Usables(run.weeks, run.cutoff) \in SUBSET (events \cup open)
    BY DEF Usables
  <2> QED
    BY <2>1, PartOfTable DEF RollupInv
<1>2. Countable(events, run.weeks, run.cutoff) = Survivors(Usables(run.weeks, run.cutoff))
  BY UsableAreCountable, CountableSurvives DEF Usables
<1>3. \A e \in Usables(run.weeks, run.cutoff) :
          e.event_type \in EventTypes /\ (e.event_type = INBOUND => e.quantity \in Nat)
  BY DEF Usables, Usable
<1> QED
  BY <1>1, <1>2, <1>3

\* The row of key k, counted by facts.
FactsAt(E, type, k) == {f \in FactsOf(E) : /\ Deciding(f, E).event_type = type
                                           /\ Key(Deciding(f, E)) = k}
UnitsAt(E, k) == UNION {{f} \X (1 .. Deciding(f, E).quantity) : f \in FactsAt(E, INBOUND, k)}
FactRow(E, k) == [inbound |-> Cardinality(UnitsAt(E, k)),
                  outbound |-> Cardinality(FactsAt(E, OUTBOUND, k)),
                  stockouts |-> Cardinality(FactsAt(E, THRESHOLD, k)),
                  discrepancies |-> Cardinality(FactsAt(E, DISCREPANCY, k))]
KeysOf(E, W) == Grid(W) \cup {Key(e) : e \in Survivors(E)}

LEMMA TruthByFacts ==
    ASSUME NEW W, NEW cutoff, IsTable(Usables(W, cutoff)),
           \A e \in Usables(W, cutoff) : e.event_type \in EventTypes
    PROVE  FactRows(W, cutoff) = [k \in KeysOf(Usables(W, cutoff), W) |->
                                      FactRow(Usables(W, cutoff), k)]
<1> DEFINE U == Usables(W, cutoff)
           decided == [f \in FactsOf(U) |-> Deciding(f, U)]
<1> DEFINE Facts(type, k) == {f \in DOMAIN decided : /\ decided[f].event_type = type
                                                   /\ Key(decided[f]) = k}
           Delivered(k) == UNION {{f} \X (1 .. decided[f].quantity) : f \in Facts(INBOUND, k)}
           keys == Grid(W) \cup {Key(decided[f]) : f \in DOMAIN decided}
<1>1. \A type, k : Facts(type, k) = FactsAt(U, type, k)
  BY DEF FactsAt
<1>2. \A k : Delivered(k) = UnitsAt(U, k)
  BY DEF UnitsAt, FactsAt
<1>3. {decided[f] : f \in DOMAIN decided} = Survivors(U)
  BY FactsAreDecided
<1>4. keys = KeysOf(U, W)
  BY <1>3 DEF KeysOf
<1>5. FactRows(W, cutoff) =
        [k \in keys |->
           [inbound |-> Cardinality(Delivered(k)),
            outbound |-> Cardinality(Facts(OUTBOUND, k)),
            stockouts |-> Cardinality(Facts(THRESHOLD, k)),
            discrepancies |-> Cardinality(Facts(DISCREPANCY, k))]]
  BY DEF FactRows, FactsOf, Usables
<1> HIDE DEF U, decided, Facts, Delivered, keys
<1>6. FactRows(W, cutoff) = [k \in KeysOf(U, W) |-> FactRow(U, k)]
  BY <1>1, <1>2, <1>4, <1>5 DEF FactRow
<1> QED
  BY <1>6 DEF U

\* The rows of a run have the keys and the figures of its facts.
LEMMA RowsAreFacts ==
    ASSUME RollupInv, run # NoRun
    PROVE  LET rows == Rows(run.weeks, run.cutoff)
               truth == FactRows(run.weeks, run.cutoff)
           IN /\ DOMAIN rows = DOMAIN truth
              /\ \A k \in DOMAIN truth :
                    /\ rows[k].inbound = truth[k].inbound /\ rows[k].inbound \in Nat
                    /\ rows[k].outbound = truth[k].outbound /\ rows[k].outbound \in Nat
                    /\ rows[k].stockouts = truth[k].stockouts /\ rows[k].stockouts \in Nat
                    /\ rows[k].discrepancies = truth[k].discrepancies
                    /\ rows[k].discrepancies \in Nat
                    /\ rows[k].rate = Rate(rows[k].discrepancies, rows[k].outbound)
<1> DEFINE W == run.weeks
           U == Usables(W, run.cutoff)
           rows == Rows(W, run.cutoff)
           truth == FactRows(W, run.cutoff)
<1>1. /\ IsTable(U) /\ \A e \in U : e.event_type \in EventTypes
      /\ \A e \in U : e.event_type = INBOUND => e.quantity \in Nat
      /\ Countable(events, W, run.cutoff) = Survivors(U)
  BY RunCountsUsables
<1>2. truth = [k \in KeysOf(U, W) |-> FactRow(U, k)]
  BY <1>1, TruthByFacts
<1>3. rows = [k \in KeysOf(U, W) |->
                 [inbound |-> InboundVolume(Survivors(U), k),
                  outbound |-> CountOf(Survivors(U), OUTBOUND, k),
                  stockouts |-> CountOf(Survivors(U), THRESHOLD, k),
                  discrepancies |-> CountOf(Survivors(U), DISCREPANCY, k),
                  rate |-> Rate(CountOf(Survivors(U), DISCREPANCY, k),
                                CountOf(Survivors(U), OUTBOUND, k))]]
  <2> HIDE DEF U
  <2> QED
    BY <1>1 DEF Rows, KeysOf
<1> HIDE DEF W, U, rows, truth
<1>4. \A type, k : /\ CountOf(Survivors(U), type, k) = Cardinality(FactsAt(U, type, k))
                   /\ CountOf(Survivors(U), type, k) \in Nat
  <2> TAKE type, k
  <2>1. CountOf(Survivors(U), type, k) = Cardinality(FactsAt(U, type, k))
    BY <1>1, CountsAgree DEF FactsAt
  <2> DEFINE told == {e \in Survivors(U) : e.event_type = type /\ Key(e) = k}
  <2>2. told \in SUBSET U /\ IsFiniteSet(U)
    BY <1>1 DEF Survivors, IsTable
  <2>3. Cardinality(told) \in Nat
    <3> HIDE DEF told
    <3> QED
      BY <2>2, FS_Subset, FS_CardinalityType
  <2> QED
    BY <2>1, <2>3 DEF CountOf
<1>5. \A k : /\ InboundVolume(Survivors(U), k) = Cardinality(UnitsAt(U, k))
             /\ InboundVolume(Survivors(U), k) \in Nat
  BY <1>1, VolumesAgree DEF UnitsAt, FactsAt
<1>6. DOMAIN rows = KeysOf(U, W) /\ DOMAIN truth = KeysOf(U, W)
  BY <1>2, <1>3
<1>7. ASSUME NEW k \in KeysOf(U, W)
      PROVE  /\ rows[k].inbound = truth[k].inbound /\ rows[k].inbound \in Nat
             /\ rows[k].outbound = truth[k].outbound /\ rows[k].outbound \in Nat
             /\ rows[k].stockouts = truth[k].stockouts /\ rows[k].stockouts \in Nat
             /\ rows[k].discrepancies = truth[k].discrepancies
             /\ rows[k].discrepancies \in Nat
             /\ rows[k].rate = Rate(rows[k].discrepancies, rows[k].outbound)
  <2>1. /\ rows[k].inbound = InboundVolume(Survivors(U), k)
        /\ rows[k].outbound = CountOf(Survivors(U), OUTBOUND, k)
        /\ rows[k].stockouts = CountOf(Survivors(U), THRESHOLD, k)
        /\ rows[k].discrepancies = CountOf(Survivors(U), DISCREPANCY, k)
        /\ rows[k].rate = Rate(CountOf(Survivors(U), DISCREPANCY, k),
                               CountOf(Survivors(U), OUTBOUND, k))
    BY <1>3
  <2>2. truth[k] = FactRow(U, k)
    BY <1>2
  <2>3. /\ truth[k].inbound = Cardinality(UnitsAt(U, k))
        /\ truth[k].outbound = Cardinality(FactsAt(U, OUTBOUND, k))
        /\ truth[k].stockouts = Cardinality(FactsAt(U, THRESHOLD, k))
        /\ truth[k].discrepancies = Cardinality(FactsAt(U, DISCREPANCY, k))
    BY <2>2 DEF FactRow
  <2> QED
    BY <1>4, <1>5, <2>1, <2>3
<1> QED
  BY <1>6, <1>7 DEF rows, truth, W

\* Every key of a run names a client of a warehouse in a closed week of the run.
LEMMA KeysAreOwned ==
    ASSUME RollupInv, run # NoRun, NEW k \in DOMAIN Rows(run.weeks, run.cutoff)
    PROVE  /\ k[1] \in Warehouses /\ k[2] \in Clients
           /\ k[3] \in run.weeks /\ k[3] <= LastClosedWeek
<1>1. k \in Grid(run.weeks)
          \cup {Key(e) : e \in Survivors(Usables(run.weeks, run.cutoff))}
  BY RunCountsUsables DEF Rows
<1>2. k[1] \in Warehouses /\ k[2] \in Clients /\ k[3] \in run.weeks
  <2>1. CASE k \in Grid(run.weeks)
    BY <2>1 DEF Grid
  <2>2. ASSUME NEW e \in Survivors(Usables(run.weeks, run.cutoff)), k = Key(e)
        PROVE  k[1] \in Warehouses /\ k[2] \in Clients /\ k[3] \in run.weeks
    BY <2>2 DEF Survivors, Usables, Usable, Key
  <2> QED
    BY <1>1, <2>1, <2>2
<1>3. PICK a, b \in Int : a <= b /\ run.weeks = a .. b
  BY DEF RollupInv, IsWindow
<1>4. WindowEnd(run.weeks) = (b + 1) * WeekLength
  BY <1>3, WindowBounds DEF WindowEnd
<1>5. WeekOf(clock) \in Int /\ WeekOf(clock) >= b + 1
  BY <1>3, <1>4, WeekBounds DEF RollupInv, IsWindow
<1> QED
  BY <1>2, <1>3, <1>5 DEF LastClosedWeek

\* So the gate lets them through.
LEMMA GateOpens ==
    ASSUME RollupInv, run # NoRun
    PROVE  Valid(Rows(run.weeks, run.cutoff), run.weeks)
  BY RowsAreFacts, KeysAreOwned DEF Valid

\* A run publishes exactly the facts of its weeks, whatever the snapshot holds: the gate
\* refuses nothing, a fact counts once, and rows of other weeks stay.
THEOREM FactsArePublished == Spec => PublishesTheFacts
<1> DEFINE truth == FactRows(run.weeks, run.cutoff)
           Faithful == (run # NoRun /\ run' = NoRun) =>
             /\ run \in completed'
             /\ {k \in DOMAIN report' : k[3] \in run.weeks} = DOMAIN truth
             /\ \A k \in DOMAIN truth,
                   figure \in {"inbound", "outbound", "stockouts", "discrepancies"} :
                       report'[k][figure] = truth[k][figure]
             /\ {k \in DOMAIN report' : k[3] \notin run.weeks}
                    = {k \in DOMAIN report : k[3] \notin run.weeks}
             /\ \A k \in DOMAIN report : k[3] \notin run.weeks => report'[k] = report[k]
<1>1. RollupInv /\ [Next]_vars => Faithful
  <2> SUFFICES ASSUME RollupInv, [Next]_vars, run # NoRun, run' = NoRun PROVE Faithful
    OBVIOUS
  <2> DEFINE W == run.weeks
             rows == Rows(W, run.cutoff)
             kept == {k \in DOMAIN report : k[3] \notin W}
  <2>1. Publish
    BY DEF Next, Insert, Commit, StoreProduct, OpenRun, Tick, Over, vars
  <2>2. report' = Loaded(rows, W) /\ completed' = completed \cup {run}
    BY <2>1, GateOpens DEF Publish
  <2>3. \A k \in DOMAIN rows : k[3] \in W
    BY KeysAreOwned
  <2>4. DOMAIN rows = DOMAIN truth
    BY RowsAreFacts
  <2>5. \A k \in DOMAIN truth : /\ rows[k].inbound = truth[k].inbound
                                /\ rows[k].outbound = truth[k].outbound
                                /\ rows[k].stockouts = truth[k].stockouts
                                /\ rows[k].discrepancies = truth[k].discrepancies
    BY RowsAreFacts
  <2> HIDE DEF rows, truth
  <2>6. /\ DOMAIN report' = kept \cup DOMAIN rows
        /\ \A k \in DOMAIN rows : report'[k] = rows[k]
        /\ \A k \in kept : k \notin DOMAIN rows /\ report'[k] = report[k]
    BY <2>2, <2>3 DEF Loaded
  <2>7. {k \in DOMAIN report' : k[3] \in W} = DOMAIN truth
    BY <2>3, <2>4, <2>6
  <2>8. {k \in DOMAIN report' : k[3] \notin W} = kept
    BY <2>3, <2>6
  <2>9. ASSUME NEW k \in DOMAIN truth,
               NEW figure \in {"inbound", "outbound", "stockouts", "discrepancies"}
        PROVE  report'[k][figure] = truth[k][figure]
    BY <2>4, <2>5, <2>6
  <2> QED
    BY <2>2, <2>6, <2>7, <2>8, <2>9
<1> QED
  BY <1>1, TablesAreWhole, PTL DEF Spec, PublishesTheFacts
=============================================================================
