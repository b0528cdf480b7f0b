-------------------------- MODULE IncidentsProofs --------------------------
(***************************************************************************)
(* Proofs about Incidents, for any number of requests, incidents and views *)
(* and any limit of the cache: the state stays well formed, and a read     *)
(* shows every incident write answered before it began.                    *)
(***************************************************************************)
EXTENDS Incidents, FiniteSetTheorems, TLAPS

Reading == {"cached", "generation", "load", "set", "served"}

\* What the types leave out: the cache is finite, and the line a request is at
\* tells what it asks for.
Fits == /\ IsFiniteSet(cache)
        /\ \A r \in Requests : pc[r] \in Reading => ask[r].kind = "read"

\* What is served is recent because what is cached is, and what is about to be
\* cached is, as long as the generation has not moved.
Recent == /\ answered <= version
          /\ \A e \in cache : answered <= e.version /\ e.version <= version
          /\ \A r \in Requests :
               /\ gen[r] <= generation
               /\ view[r] <= version
               /\ floor[r] <= answered
               /\ pc[r] = "set" /\ gen[r] = generation => answered <= view[r]
               /\ pc[r] \in {"set", "served"} => floor[r] <= view[r]

IInv == TypeOK /\ Fits /\ Recent

LEMMA AskFields ==
    ASSUME NEW a \in Ask
    PROVE  /\ a.kind = "read" => a.key \in Views
           /\ a.kind = "move" => a.incident \in Incidents /\ a.status \in Statuses
<1>1. CASE a \in [kind : {"read"}, key : Views]
  BY <1>1
<1>2. CASE a \in [kind : {"create"}, incident : Incidents]
  BY <1>2
<1>3. CASE a \in [kind : {"move"}, incident : Incidents, status : Statuses]
  BY <1>3
<1>4. CASE a \in [kind : {"other", "none"}]
  BY <1>4
<1> QED
  BY <1>1, <1>2, <1>3, <1>4 DEF Ask

-----------------------------------------------------------------------------
(* Types *)

LEMMA TypesInit == Init => TypeOK /\ Fits
<1> SUFFICES ASSUME Init PROVE TypeOK /\ Fits
  OBVIOUS
<1>1. IsFiniteSet(cache) /\ Cardinality(cache) = 0
  BY FS_EmptySet DEF Init
<1>2. [kind |-> "none"] \in Ask
  BY DEF Ask
<1>3. NoCopy \in Contents
  BY DEF NoCopy, Contents
<1>4. Cardinality(cache) <= MaxEntries
  BY <1>1, IncidentsAssumption
<1> QED
  BY <1>1, <1>2, <1>3, <1>4 DEF Init, TypeOK, Fits, Lines, Reading

\* What a step does to a cache it does not touch is nothing.
LEMMA CacheKept ==
    ASSUME TypeOK, Fits, cache' = cache
    PROVE  /\ IsFiniteSet(cache')
           /\ cache' \subseteq Entry
           /\ \A e, f \in cache' : e.key = f.key => e = f
           /\ Cardinality(cache') <= MaxEntries
  BY DEF TypeOK, Fits

LEMMA TypesStart ==
    ASSUME TypeOK, Fits, NEW r \in Requests, Start(r)
    PROVE  TypeOK' /\ Fits'
<1>1. PICK a \in Ask : /\ ask' = [ask EXCEPT ![r] = a]
                       /\ Goes(r, "idle", CASE a.kind = "read" -> "cached"
                                            [] a.kind = "move" -> "look"
                                            [] OTHER           -> "reread")
  BY DEF Start
<1>2. pc[r] = "idle" /\ \E l \in {"cached", "look", "reread"} :
          /\ pc' = [pc EXCEPT ![r] = l]
          /\ l = "cached" => a.kind = "read"
  BY <1>1 DEF Goes
<1> QED
  BY <1>1, <1>2, CacheKept DEF Start, TypeOK, Fits, Lines, Reading

LEMMA TypesTorn ==
    ASSUME TypeOK, Fits, NEW r \in Requests, Torn(r)
    PROVE  TypeOK' /\ Fits'
  BY CacheKept DEF Torn, TypeOK, Fits, Lines, Reading

LEMMA TypesHit ==
    ASSUME TypeOK, Fits, NEW r \in Requests, Hit(r)
    PROVE  TypeOK' /\ Fits'
<1>1. PICK e \in Cached(r) : view' = [view EXCEPT ![r] = e.version]
  BY DEF Hit
<1>2. e.version \in Nat
  BY <1>1 DEF Cached, TypeOK, Entry
<1> QED
  BY <1>1, <1>2, CacheKept DEF Hit, Goes, TypeOK, Fits, Lines, Reading

LEMMA TypesMiss ==
    ASSUME TypeOK, Fits, NEW r \in Requests, Miss(r)
    PROVE  TypeOK' /\ Fits'
  BY CacheKept DEF Miss, Goes, TypeOK, Fits, Lines, Reading

LEMMA TypesReadGeneration ==
    ASSUME TypeOK, Fits, NEW r \in Requests, ReadGeneration(r)
    PROVE  TypeOK' /\ Fits'
  BY CacheKept DEF ReadGeneration, Goes, TypeOK, Fits, Lines, Reading

LEMMA TypesLoad ==
    ASSUME TypeOK, Fits, NEW r \in Requests, Load(r)
    PROVE  TypeOK' /\ Fits'
  BY CacheKept DEF Load, Goes, TypeOK, Fits, Lines, Reading

\* A set keeps one entry of a view: the one it adds.
LEMMA TypesSet ==
    ASSUME TypeOK, Fits, NEW r \in Requests, Set(r)
    PROVE  TypeOK' /\ Fits'
<1>1. pc[r] = "set" /\ pc' = [pc EXCEPT ![r] = "served"]
  BY DEF Set, Goes
<1>2. NewEntry(r) \in Entry /\ NewEntry(r).key = ask[r].key
  <2>1. ask[r] \in Ask /\ ask[r].kind = "read"
    BY <1>1 DEF TypeOK, Fits, Reading
  <2> QED
    BY <2>1, AskFields DEF NewEntry, Entry, TypeOK
<1>3. CASE cache' = cache
  BY <1>1, <1>3, CacheKept DEF Set, TypeOK, Fits, Lines, Reading
<1>4. CASE cache' \in Kept(r)
  <2>1. /\ cache' \subseteq (cache \ Cached(r)) \cup {NewEntry(r)}
        /\ Cardinality(cache') <= MaxEntries
    BY <1>4 DEF Kept
  <2>2. IsFiniteSet(cache')
    <3>1. IsFiniteSet(cache \cup {NewEntry(r)})
      BY FS_AddElement DEF Fits
    <3> QED
      BY <2>1, <3>1, FS_Subset
  <2>3. cache' \subseteq Entry
    BY <2>1, <1>2 DEF TypeOK
  <2>4. \A e, f \in cache' : e.key = f.key => e = f
    BY <2>1, <1>2 DEF Cached, TypeOK
  <2> QED
    BY <1>1, <2>1, <2>2, <2>3, <2>4 DEF Set, TypeOK, Fits, Lines, Reading
<1> QED
  BY <1>3, <1>4 DEF Set

LEMMA TypesExpire ==
    ASSUME TypeOK, Fits, Expire
    PROVE  TypeOK' /\ Fits'
<1>1. PICK e \in cache : cache' = cache \ {e}
  BY DEF Expire
<1>2. IsFiniteSet(cache') /\ Cardinality(cache') = Cardinality(cache) - 1
  BY <1>1, FS_RemoveElement DEF Fits
<1>3. Cardinality(cache) \in Nat
  BY FS_CardinalityType DEF Fits
<1>4. Cardinality(cache') <= MaxEntries
  BY <1>2, <1>3, IncidentsAssumption DEF TypeOK
<1> QED
  BY <1>1, <1>2, <1>4 DEF Expire, TypeOK, Fits

LEMMA TypesLook ==
    ASSUME TypeOK, Fits, NEW r \in Requests, Look(r)
    PROVE  TypeOK' /\ Fits'
  BY CacheKept DEF Look, Goes, TypeOK, Fits, Lines, Reading

LEMMA TypesReread ==
    ASSUME TypeOK, Fits, NEW r \in Requests, Reread(r)
    PROVE  TypeOK' /\ Fits'
  BY CacheKept DEF Reread, Goes, TypeOK, Fits, Lines, Reading

LEMMA TypesWriteFile ==
    ASSUME TypeOK, Fits, NEW r \in Requests, WriteFile(r)
    PROVE  TypeOK' /\ Fits'
<1>1. Changed(r) \in Contents
  <2>1. copy[r] \in Contents /\ ask[r] \in Ask
    BY DEF TypeOK
  <2>2. ask[r].kind = "move" => ask[r].status \in Statuses
    BY <2>1, AskFields
  <2> QED
    BY <2>1, <2>2 DEF Changed, Contents, Statuses
<1>2. NoCopy \in Contents
  BY DEF NoCopy, Contents
<1> QED
  BY <1>1, <1>2, CacheKept DEF WriteFile, Goes, TypeOK, Fits, Lines, Reading

LEMMA TypesClear ==
    ASSUME TypeOK, Fits, NEW r \in Requests, Clear(r)
    PROVE  TypeOK' /\ Fits'
<1>1. IsFiniteSet(cache') /\ Cardinality(cache') = 0
  BY FS_EmptySet DEF Clear
<1>2. Cardinality(cache') <= MaxEntries
  BY <1>1, IncidentsAssumption
<1> QED
  BY <1>1, <1>2 DEF Clear, Answer, Goes, TypeOK, Fits, Lines, Reading

LEMMA TypesNext == TypeOK /\ Fits /\ [Next]_vars => TypeOK' /\ Fits'
<1> SUFFICES ASSUME TypeOK, Fits, [Next]_vars PROVE TypeOK' /\ Fits'
  OBVIOUS
<1>1. CASE \E r \in Requests : Start(r) \/ Torn(r)
  BY <1>1, TypesStart, TypesTorn
<1>2. CASE \E r \in Requests : Read(r)
  BY <1>2, TypesHit, TypesMiss, TypesReadGeneration, TypesLoad, TypesSet DEF Read
<1>3. CASE \E r \in Requests : Change(r)
  BY <1>3, TypesLook, TypesReread, TypesWriteFile, TypesClear DEF Change
<1>4. CASE Expire
  BY <1>4, TypesExpire
<1>5. CASE UNCHANGED vars
  BY <1>5 DEF vars, TypeOK, Fits
<1> QED
  BY <1>1, <1>2, <1>3, <1>4, <1>5 DEF Next, Over

-----------------------------------------------------------------------------
(* Recent views *)

LEMMA RecentInit == Init => Recent
  BY DEF Init, Recent

\* Time does not matter: what is left of the cache is as recent as it was.
LEMMA RecentExpire ==
    ASSUME TypeOK, Recent, Expire
    PROVE  Recent'
  BY DEF Expire, Recent

LEMMA RecentStart ==
    ASSUME TypeOK, Recent, NEW r \in Requests, Start(r)
    PROVE  Recent'
<1>1. \E l \in {"cached", "look", "reread"} : pc' = [pc EXCEPT ![r] = l]
  BY DEF Start, Goes
<1> QED
  BY <1>1 DEF Start, Recent, TypeOK

LEMMA RecentTorn ==
    ASSUME TypeOK, Recent, NEW r \in Requests, Torn(r)
    PROVE  Recent'
  BY DEF Torn, Recent, TypeOK

LEMMA RecentHit ==
    ASSUME TypeOK, Recent, NEW r \in Requests, Hit(r)
    PROVE  Recent'
<1>1. PICK e \in Cached(r) : view' = [view EXCEPT ![r] = e.version]
  BY DEF Hit
<1>2. answered <= e.version /\ e.version <= version /\ e.version \in Nat
  BY <1>1 DEF Cached, Recent, TypeOK, Entry
<1>3. floor[r] <= e.version
  BY <1>2 DEF Recent, TypeOK
<1> QED
  BY <1>1, <1>2, <1>3 DEF Hit, Goes, Recent, TypeOK

LEMMA RecentLoad ==
    ASSUME TypeOK, Recent, NEW r \in Requests, Load(r)
    PROVE  Recent'
<1>1. floor[r] <= version
  BY DEF Recent, TypeOK
<1> QED
  BY <1>1 DEF Load, Goes, Recent, TypeOK

LEMMA RecentSet ==
    ASSUME TypeOK, Recent, NEW r \in Requests, Set(r)
    PROVE  Recent'
<1>1. pc[r] = "set" /\ pc' = [pc EXCEPT ![r] = "served"]
  BY DEF Set, Goes
<1>2. \A e \in cache' : answered <= e.version /\ e.version <= version
  <2>1. CASE cache' = cache
    BY <2>1 DEF Recent
  <2>2. CASE gen[r] = generation /\ cache' \in Kept(r)
    BY <1>1, <2>2 DEF Kept, NewEntry, Recent
  <2> QED
    BY <2>1, <2>2 DEF Set
<1> QED
  BY <1>1, <1>2 DEF Set, Recent, TypeOK

LEMMA RecentLook ==
    ASSUME TypeOK, Recent, NEW r \in Requests, Look(r)
    PROVE  Recent'
<1>1. \E l \in {"reread", "refused"} : pc' = [pc EXCEPT ![r] = l]
  BY DEF Look, Goes
<1> QED
  BY <1>1 DEF Look, Recent, TypeOK

LEMMA RecentWriteFile ==
    ASSUME TypeOK, Recent, NEW r \in Requests, WriteFile(r)
    PROVE  Recent'
<1>1. \E l \in {"done", "clear"} : pc' = [pc EXCEPT ![r] = l]
  BY DEF WriteFile, Goes
<1>2. \A e \in cache : answered <= e.version /\ e.version <= version + 1
  BY DEF Recent, TypeOK, Entry
<1> QED
  BY <1>1, <1>2 DEF WriteFile, Recent, TypeOK

\* Nothing cached or about to be cached outlives the answer of a write.
LEMMA RecentClear ==
    ASSUME TypeOK, Recent, NEW r \in Requests, Clear(r)
    PROVE  Recent'
<1>1. answered <= answered' /\ answered' <= version /\ answered' \in Nat
  BY DEF Clear, Answer, Recent, TypeOK
<1>2. \A q \in Requests : gen[q] # generation' /\ gen[q] <= generation'
  BY DEF Clear, Recent, TypeOK
<1>3. \A q \in Requests : floor[q] <= answered'
  BY <1>1 DEF Recent, TypeOK
<1> QED
  BY <1>1, <1>2, <1>3 DEF Clear, Goes, Recent, TypeOK

LEMMA RecentNext == TypeOK /\ Recent /\ [Next]_vars => Recent'
<1> SUFFICES ASSUME TypeOK, Recent, [Next]_vars PROVE Recent'
  OBVIOUS
<1>1. CASE \E r \in Requests : Start(r) \/ Torn(r)
  BY <1>1, RecentStart, RecentTorn
<1>2. CASE \E r \in Requests : Read(r)
  <2>1. ASSUME NEW r \in Requests, Miss(r) PROVE Recent'
    BY <2>1 DEF Miss, Goes, Recent, TypeOK
  <2>2. ASSUME NEW r \in Requests, ReadGeneration(r) PROVE Recent'
    BY <2>2 DEF ReadGeneration, Goes, Recent, TypeOK
  <2> QED
    BY <1>2, <2>1, <2>2, RecentHit, RecentLoad, RecentSet DEF Read
<1>3. CASE \E r \in Requests : Change(r)
  <2>1. ASSUME NEW r \in Requests, Reread(r) PROVE Recent'
    BY <2>1 DEF Reread, Goes, Recent, TypeOK
  <2> QED
    BY <1>3, <2>1, RecentLook, RecentWriteFile, RecentClear DEF Change
<1>4. CASE Expire
  BY <1>4, RecentExpire
<1>5. CASE UNCHANGED vars
  BY <1>5 DEF vars, Recent
<1> QED
  BY <1>1, <1>2, <1>3, <1>4, <1>5 DEF Next, Over

-----------------------------------------------------------------------------
LEMMA IInvHolds == Spec => []IInv
<1>1. Init => IInv
  BY TypesInit, RecentInit DEF IInv
<1>2. IInv /\ [Next]_vars => IInv'
  BY TypesNext, RecentNext DEF IInv
<1> QED
  BY <1>1, <1>2, PTL DEF Spec

\* Every reachable state is well formed: the cache never holds a view twice nor
\* more views than its limit.
THEOREM TypesHold == Spec => []TypeOK
<1>1. IInv => TypeOK
  BY DEF IInv
<1> QED
  BY <1>1, IInvHolds, PTL

\* A read never shows less than the writes answered before it began.
THEOREM ReadsAreRecent == Spec => []ServedIsRecent
<1>1. IInv => ServedIsRecent
  BY DEF IInv, Recent, TypeOK, ServedIsRecent
<1> QED
  BY <1>1, IInvHolds, PTL
=============================================================================
