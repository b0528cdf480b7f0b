--------------------------- MODULE BrowserProofs ---------------------------
(***************************************************************************)
(* Proofs about what runs in the browser whatever page is shown: the       *)
(* session, for any number of tabs, of tokens and of requests; and the     *)
(* emitter of a page's telemetry, for any limits of its queue, its batches *)
(* and its retries.                                                        *)
(***************************************************************************)
EXTENDS BrowserSession, FiniteSetTheorems, SequenceTheorems, TLAPS

Calls == [tab : Tabs, kind : {"login", "me", "page"}, token : Nat,
          answer : {"none", "ok", "401"}, current : BOOLEAN, id : Nat]

Types ==
    /\ sent \in Nat /\ issued \in Nat
    /\ calls \subseteq Calls
    /\ storage \in Nat /\ memory \in [Tabs -> Nat]
    /\ blocked \in BOOLEAN /\ signedIn \in [Tabs -> BOOLEAN]

\* A provider that has not left has redirected nobody.
Redirected ==
    /\ hasRedirected \in [Tabs -> BOOLEAN] /\ redirects \in [Tabs -> {0, 1}]
    /\ \A tab \in Tabs : ~hasRedirected[tab] => redirects[tab] = 0

\* Where the token of a tab is: in the shared storage, and in the tab's memory only
\* while the browser refuses to store it.  An answered sign-in carries one.
Kept ==
    /\ ~blocked => \A tab \in Tabs : memory[tab] = None
    /\ \A c \in calls : c.kind = "login" /\ c.answer = "ok" => c.token # None
    /\ SignInIsNotForgotten

-----------------------------------------------------------------------------
(* Types *)

LEMMA CallTyped ==
    ASSUME Types, NEW tab \in Tabs, NEW kind \in {"login", "me", "page"}, NEW token \in Nat
    PROVE  Call(tab, kind, token) \in Calls
  BY DEF Call, Calls, Types

LEMMA TokenTyped ==
    ASSUME Types, NEW tab \in Tabs
    PROVE  ReadToken(tab) \in Nat
  BY DEF ReadToken, Types

LEMMA ClearKeepsTypes ==
    ASSUME Types, NEW tab \in Tabs, ClearToken(tab)
    PROVE  storage' \in Nat /\ memory' \in [Tabs -> Nat] /\ signedIn' \in [Tabs -> BOOLEAN]
  BY DEF ClearToken, Types, None

LEMMA DetachedTyped ==
    ASSUME Types, NEW tab \in Tabs
    PROVE  Detached(tab) \subseteq Calls
  BY DEF Detached, Calls, Types

LEMMA TypesInit == Init => Types
  BY DEF Init, Types, None

LEMMA TypesStep == Types /\ [Next]_vars => Types'
<1> SUFFICES ASSUME Types, [Next]_vars PROVE Types'
  OBVIOUS
<1> USE DEF None
<1>1. ASSUME NEW tab \in Tabs, Open(tab) PROVE Types'
  <2>1. \A token \in Nat : Call(tab, "me", token) \in Calls
    BY CallTyped
  <2>2. (IF blocked THEN None ELSE storage) \in Nat
    BY DEF Types
  <2> QED
    BY <1>1, <2>1, <2>2 DEF Open, Mount, Types, api
<1>2. ASSUME NEW tab \in Tabs, ArriveProtected(tab) PROVE Types'
  <2>1. Call(tab, "me", ReadToken(tab)) \in Calls
    BY CallTyped, TokenTyped
  <2> QED
    BY <1>2, <2>1 DEF ArriveProtected, Mount, Types, Send, browser, api
<1>3. ASSUME NEW tab \in Tabs, ArrivePublic(tab) PROVE Types'
  BY <1>3, DetachedTyped DEF ArrivePublic, Types, browser, api
<1>4. ASSUME NEW tab \in Tabs, SignOut(tab) PROVE Types'
  BY <1>4, ClearKeepsTypes DEF SignOut, Types, api
<1>5. ASSUME NEW tab \in Tabs, Retry(tab) PROVE Types'
  <2>1. Call(tab, "me", ReadToken(tab)) \in Calls
    BY CallTyped, TokenTyped
  <2> QED
    BY <1>5, <2>1 DEF Retry, Types, Send, browser, api
<1>6. ASSUME NEW tab \in Tabs, GoToSignIn(tab) PROVE Types'
  BY <1>6 DEF GoToSignIn, Types, browser, api
<1>7. ASSUME NEW tab \in Tabs, SubmitLogin(tab) PROVE Types'
  <2>1. Call(tab, "login", None) \in Calls
    BY CallTyped
  <2> QED
    BY <1>7, <2>1 DEF SubmitLogin, Types, Send, browser, api
<1>8. ASSUME NEW tab \in Tabs, PageCalls(tab) PROVE Types'
  <2>1. CASE ReadToken(tab) = None
    BY <1>8, <2>1, ClearKeepsTypes DEF PageCalls, HandleUnauthorized, Types, api
  <2>2. CASE ReadToken(tab) # None
    <3>1. Call(tab, "page", ReadToken(tab)) \in Calls
      BY CallTyped, TokenTyped
    <3> QED
      BY <1>8, <2>2, <3>1 DEF PageCalls, Types, Send, browser, api
  <2> QED
    BY <2>1, <2>2
<1>9. ASSUME NEW c \in calls, ApiLogin(c) PROVE Types'
  <2>1. c \in Calls /\ issued + 1 \in Nat
    BY DEF Types
  <2>2. [c EXCEPT !.answer = "ok", !.token = issued + 1] \in Calls
    BY <2>1 DEF Calls
  <2> QED
    BY <1>9, <2>2 DEF ApiLogin, Types, browser
<1>10. ASSUME NEW c \in calls, HearLogin(c) PROVE Types'
  BY <1>10 DEF HearLogin, StoreToken, Types, Calls, api
<1>11. ASSUME NEW c \in calls, LoginFails(c) \/ HearPage(c) \/ HearMe(c) \/ MeFails(c)
       PROVE Types'
  BY <1>11 DEF LoginFails, HearPage, HearMe, MeFails, Types, browser, api
<1>12. ASSUME NEW c \in calls, ApiAnswers(c) PROVE Types'
  BY <1>12 DEF ApiAnswers, Types, Calls, browser, api
<1>13. ASSUME NEW c \in calls, HearUnauthorized(c) PROVE Types'
  <2>1. c.tab \in Tabs
    BY DEF Types, Calls
  <2> QED
    BY <1>13, <2>1, ClearKeepsTypes DEF HearUnauthorized, HandleUnauthorized, Types, api
<1>14. ASSUME TokenDies \/ UNCHANGED vars PROVE Types'
  BY <1>14 DEF TokenDies, Types, vars, browser, api
<1> QED
  BY <1>1, <1>2, <1>3, <1>4, <1>5, <1>6, <1>7, <1>8, <1>9, <1>10, <1>11, <1>12, <1>13, <1>14
     DEF Next, Hear

-----------------------------------------------------------------------------
(* One redirect *)

LEMMA RedirectOnce ==
    ASSUME Redirected, NEW tab \in Tabs, RedirectToLogin(tab)
    PROVE  Redirected'
<1>1. CASE hasRedirected[tab]
  BY <1>1 DEF RedirectToLogin, Redirected
<1>2. CASE ~hasRedirected[tab]
  <2>1. redirects[tab] = 0
    BY <1>2 DEF Redirected
  <2>2. redirects' = [redirects EXCEPT ![tab] = 1]
    BY <1>2, <2>1 DEF RedirectToLogin
  <2> QED
    BY <1>2, <2>2 DEF RedirectToLogin, Redirected
<1> QED
  BY <1>1, <1>2

LEMMA RedirectedKept ==
    ASSUME Redirected, UNCHANGED <<hasRedirected, redirects>>
    PROVE  Redirected'
  BY DEF Redirected

LEMMA MountRedirected ==
    ASSUME Redirected, NEW tab \in Tabs, NEW token, Mount(tab, token)
    PROVE  Redirected'
  BY DEF Redirected, Mount

LEMMA RedirectedStep == Types /\ Redirected /\ [Next]_vars => Redirected'
<1> SUFFICES ASSUME Types, Redirected, [Next]_vars PROVE Redirected'
  OBVIOUS
<1>1. ASSUME NEW tab \in Tabs, Open(tab) \/ ArriveProtected(tab) PROVE Redirected'
  BY <1>1, MountRedirected DEF Open, ArriveProtected
<1>2. ASSUME NEW tab \in Tabs, SignOut(tab) PROVE Redirected'
  BY <1>2 DEF SignOut, Redirected
<1>3. ASSUME NEW tab \in Tabs, Retry(tab) PROVE Redirected'
  BY <1>3, RedirectOnce, RedirectedKept DEF Retry
<1>4. ASSUME NEW tab \in Tabs, PageCalls(tab) PROVE Redirected'
  BY <1>4, RedirectOnce, RedirectedKept DEF PageCalls, HandleUnauthorized
<1>5. ASSUME NEW c \in calls, HearUnauthorized(c) PROVE Redirected'
  <2>1. c.tab \in Tabs
    BY DEF Types, Calls
  <2> QED
    BY <1>5, <2>1, RedirectOnce, RedirectedKept DEF HearUnauthorized, HandleUnauthorized
<1>6. ASSUME NEW tab \in Tabs, ArrivePublic(tab) \/ GoToSignIn(tab) \/ SubmitLogin(tab)
      PROVE Redirected'
  BY <1>6, RedirectedKept DEF ArrivePublic, GoToSignIn, SubmitLogin
<1>7. ASSUME NEW c \in calls,
             \/ ApiLogin(c) \/ HearLogin(c) \/ LoginFails(c)
             \/ ApiAnswers(c) \/ HearPage(c) \/ HearMe(c) \/ MeFails(c)
      PROVE Redirected'
  BY <1>7, RedirectedKept
     DEF ApiLogin, HearLogin, LoginFails, ApiAnswers, HearPage, HearMe, MeFails, tabs
<1>8. ASSUME TokenDies \/ UNCHANGED vars PROVE Redirected'
  BY <1>8, RedirectedKept DEF TokenDies, vars, tabs
<1> QED
  BY <1>1, <1>2, <1>3, <1>4, <1>5, <1>6, <1>7, <1>8 DEF Next, Hear

\* However many tabs, sign-outs, late 401s and requests without a token there are, a
\* provider on its way to the sign-in page starts no second navigation.
THEOREM RedirectsOnce == Spec => []OneRedirect
<1>1. Init => Redirected
  BY DEF Init, Redirected
<1>2. Redirected => OneRedirect
  BY DEF Redirected, OneRedirect
<1> QED
  BY <1>1, <1>2, TypesInit, TypesStep, RedirectedStep, PTL DEF Spec

-----------------------------------------------------------------------------
(* Signed in is kept *)

\* Only an answered sign-in touches both a token and what is remembered of it; a step
\* that touches neither keeps them.
LEMMA KeptWithTokens ==
    ASSUME Types, Kept, UNCHANGED browser,
           \A c \in calls' : c.kind = "login" /\ c.answer = "ok" => c.token # None
    PROVE  Kept'
  BY DEF Kept, SignInIsNotForgotten, ReadToken, browser

LEMMA ClearIsRemembered ==
    ASSUME Types, Kept, NEW tab \in Tabs, ClearToken(tab), UNCHANGED blocked
    PROVE  /\ ~blocked' => \A t \in Tabs : memory'[t] = None
           /\ SignInIsNotForgotten'
  BY DEF Types, Kept, SignInIsNotForgotten, ReadToken, ClearToken

LEMMA KeptStep == Types /\ Kept /\ [Next]_vars => Kept'
<1> SUFFICES ASSUME Types, Kept, [Next]_vars PROVE Kept'
  OBVIOUS
<1> DEFINE Carries(set) == \A c \in set : c.kind = "login" /\ c.answer = "ok" => c.token # None
<1>1. ASSUME NEW tab \in Tabs, Open(tab) PROVE Kept'
  <2>1. Carries(calls')
    BY <1>1 DEF Open, Call, Kept
  <2>2. ~blocked' => \A t \in Tabs : memory'[t] = None
    BY <1>1 DEF Open, Kept, Types
  <2>3. SignInIsNotForgotten'
    BY <1>1 DEF Open, Kept, Types, SignInIsNotForgotten, ReadToken
  <2> QED
    BY <2>1, <2>2, <2>3 DEF Kept
<1>2. ASSUME NEW tab \in Tabs, ArriveProtected(tab) \/ Retry(tab) \/ SubmitLogin(tab)
      PROVE Kept'
  <2>1. Carries(calls')
    BY <1>2 DEF ArriveProtected, Retry, SubmitLogin, Send, Call, Kept
  <2>2. UNCHANGED browser
    BY <1>2 DEF ArriveProtected, Retry, SubmitLogin
  <2> QED
    BY <2>1, <2>2, KeptWithTokens
<1>3. ASSUME NEW tab \in Tabs, ArrivePublic(tab) PROVE Kept'
  <2>1. Carries(calls')
    BY <1>3 DEF ArrivePublic, Detached, Kept, Types, Calls
  <2> QED
    BY <1>3, <2>1, KeptWithTokens DEF ArrivePublic
<1>4. ASSUME NEW tab \in Tabs, SignOut(tab) PROVE Kept'
  BY <1>4, ClearIsRemembered DEF SignOut, Kept
<1>5. ASSUME NEW tab \in Tabs, GoToSignIn(tab) PROVE Kept'
  BY <1>5, KeptWithTokens DEF GoToSignIn, Kept
<1>6. ASSUME NEW tab \in Tabs, PageCalls(tab) PROVE Kept'
  <2>1. CASE ReadToken(tab) = None
    BY <1>6, <2>1, ClearIsRemembered DEF PageCalls, HandleUnauthorized, Kept
  <2>2. CASE ReadToken(tab) # None
    <3>1. Carries(calls') /\ UNCHANGED browser
      BY <1>6, <2>2 DEF PageCalls, Send, Call, Kept
    <3> QED
      BY <3>1, KeptWithTokens
  <2> QED
    BY <2>1, <2>2
<1>7. ASSUME NEW c \in calls, ApiLogin(c) PROVE Kept'
  <2>1. [c EXCEPT !.answer = "ok", !.token = issued + 1].token # None
    BY DEF Types, Calls, None
  <2>2. Carries(calls')
    BY <1>7, <2>1 DEF ApiLogin, Kept
  <2> QED
    BY <1>7, <2>2, KeptWithTokens DEF ApiLogin
<1>8. ASSUME NEW c \in calls, HearLogin(c) PROVE Kept'
  <2>1. c.token # None /\ c.token \in Nat /\ c.tab \in Tabs
    BY <1>8 DEF HearLogin, Kept, Types, Calls
  <2>2. Carries(calls')
    BY <1>8 DEF HearLogin, Kept
  <2>3. ~blocked' => \A t \in Tabs : memory'[t] = None
    BY <1>8, <2>1 DEF HearLogin, StoreToken, Kept, Types
  <2>4. SignInIsNotForgotten'
    BY <1>8, <2>1 DEF HearLogin, StoreToken, Kept, Types, SignInIsNotForgotten, ReadToken
  <2> QED
    BY <2>2, <2>3, <2>4 DEF Kept
<1>9. ASSUME NEW c \in calls, LoginFails(c) \/ HearPage(c) \/ HearMe(c) \/ MeFails(c)
      PROVE Kept'
  BY <1>9, KeptWithTokens DEF LoginFails, HearPage, HearMe, MeFails, Kept
<1>10. ASSUME NEW c \in calls, ApiAnswers(c) PROVE Kept'
  <2>1. Carries(calls')
    BY <1>10 DEF ApiAnswers, Kept, Types, Calls
  <2> QED
    BY <1>10, <2>1, KeptWithTokens DEF ApiAnswers
<1>11. ASSUME NEW c \in calls, HearUnauthorized(c) PROVE Kept'
  <2>1. c.tab \in Tabs
    BY DEF Types, Calls
  <2> QED
    BY <1>11, <2>1, ClearIsRemembered DEF HearUnauthorized, HandleUnauthorized, Kept
<1>12. ASSUME TokenDies \/ UNCHANGED vars PROVE Kept'
  <2>1. UNCHANGED <<browser, calls>>
    BY <1>12 DEF TokenDies, vars
  <2> QED
    BY <2>1, KeptWithTokens DEF Kept
<1> QED
  BY <1>1, <1>2, <1>3, <1>4, <1>5, <1>6, <1>7, <1>8, <1>9, <1>10, <1>11, <1>12 DEF Next, Hear

\* Who signed in has a token to go on with, whatever the other tabs do and whether or not
\* the browser stores anything, until a token is discarded.
THEOREM SignInIsKept == Spec => []SignInIsNotForgotten
<1>1. Init => Kept
  BY DEF Init, Kept, SignInIsNotForgotten
<1>2. Kept => SignInIsNotForgotten
  BY DEF Kept
<1> QED
  BY <1>1, <1>2, TypesInit, TypesStep, KeptStep, PTL DEF Spec

-----------------------------------------------------------------------------
(* The telemetry of a page: each statement names what it assumes of the limits. *)

CONSTANTS Events, Refused, Queue, Batch, Threshold, Retries

VARIABLES tracked, queue, flight, attempt, asleep, timer, dropped, rows, known

Emit == INSTANCE TelemetryEmitter

\* The instance's copies of the library's operators are the library's.
LEMMA SameRange == \A f : Emit!Range(f) = Range(f)
  BY DEF Emit!Range, Range

LEMMA SameCardinality == \A S : Emit!Cardinality(S) = Cardinality(S)
  BY DEF Emit!Cardinality, Cardinality

(* Sequences of events and reports *)

LEMMA ContentsTyped ==
    ASSUME NEW s \in Seq(Emit!Item)
    PROVE  Emit!IdsOf(s) \subseteq 0 .. Events /\ Emit!LossesOf(s) \subseteq 0 .. Events
<1>1. Range(s) \subseteq Emit!Item
  BY RangeOfSeq
<1> QED
  BY <1>1, SameRange DEF Emit!IdsOf, Emit!LossesOf, Emit!Item, Emit!Losses

LEMMA ContentsOfConcat ==
    ASSUME NEW s \in Seq(Emit!Item), NEW t \in Seq(Emit!Item)
    PROVE  /\ Emit!IdsOf(s \o t) = Emit!IdsOf(s) \cup Emit!IdsOf(t)
           /\ Emit!LossesOf(s \o t) = Emit!LossesOf(s) \cup Emit!LossesOf(t)
<1>1. Range(s \o t) = Range(s) \cup Range(t)
  BY RangeConcatenation
<1> QED
  BY <1>1, SameRange DEF Emit!IdsOf, Emit!LossesOf

\* The first n of s, as a beacon or a batch takes them.
First(s, n) == SubSeq(s, 1, IF n < Len(s) THEN n ELSE Len(s))

LEMMA FirstTyped ==
    ASSUME NEW s \in Seq(Emit!Item), NEW n \in Nat
    PROVE  /\ First(s, n) \in Seq(Emit!Item)
           /\ Len(First(s, n)) = IF n < Len(s) THEN n ELSE Len(s)
           /\ \A i \in 1 .. Len(First(s, n)) : First(s, n)[i] = s[i]
<1> DEFINE k == IF n < Len(s) THEN n ELSE Len(s)
<1>1. Len(s) \in Nat /\ \A i \in 1 .. Len(s) : s[i] \in Emit!Item
  BY LenProperties
<1>2. k \in Nat /\ k <= Len(s)
  BY <1>1
<1>3. First(s, n) = SubSeq(s, 1, k)
  BY DEF First
<1> HIDE DEF k
<1>4. \A i \in 1 .. k : s[i] \in Emit!Item
  BY <1>1, <1>2
<1>5. /\ SubSeq(s, 1, k) \in Seq(Emit!Item)
      /\ Len(SubSeq(s, 1, k)) = IF 1 <= k THEN k - 1 + 1 ELSE 0
      /\ \A i \in 1 .. k - 1 + 1 : SubSeq(s, 1, k)[i] = s[1 + i - 1]
  BY <1>2, <1>4, SubSeqProperties
<1>6. Len(SubSeq(s, 1, k)) = k
  BY <1>2, <1>5
<1>7. First(s, n) \in Seq(Emit!Item) /\ Len(First(s, n)) = k
  BY <1>3, <1>5, <1>6
<1>8. \A i \in 1 .. k : First(s, n)[i] = s[i]
  BY <1>2, <1>3, <1>5
<1> QED
  BY <1>7, <1>8 DEF k

LEMMA WithoutTyped ==
    ASSUME NEW s \in Seq(Emit!Item), NEW n \in Nat
    PROVE  /\ Emit!Without(s, n) \in Seq(Emit!Item)
           /\ Len(Emit!Without(s, n)) = IF n < Len(s) THEN Len(s) - n ELSE 0
           /\ \A i \in 1 .. Len(s) - n : Emit!Without(s, n)[i] = s[n + i]
<1>1. Len(s) \in Nat /\ \A i \in 1 .. Len(s) : s[i] \in Emit!Item
  BY LenProperties
<1>2. \A i \in n + 1 .. Len(s) : s[i] \in Emit!Item
  BY <1>1
<1>3. /\ Emit!Without(s, n) \in Seq(Emit!Item)
      /\ Len(Emit!Without(s, n)) = IF n + 1 <= Len(s) THEN Len(s) - (n + 1) + 1 ELSE 0
      /\ \A i \in 1 .. Len(s) - (n + 1) + 1 : Emit!Without(s, n)[i] = s[n + 1 + i - 1]
  BY <1>1, <1>2, SubSeqProperties DEF Emit!Without
<1> QED
  BY <1>1, <1>3

\* What is taken and what is left are all there was.
LEMMA ContentsSplit ==
    ASSUME NEW s \in Seq(Emit!Item), NEW n \in Nat
    PROVE  /\ Emit!IdsOf(s) = Emit!IdsOf(First(s, n)) \cup Emit!IdsOf(Emit!Without(s, n))
           /\ Emit!LossesOf(s) = Emit!LossesOf(First(s, n)) \cup Emit!LossesOf(Emit!Without(s, n))
<1> DEFINE t == First(s, n)
           u == Emit!Without(s, n)
<1>1. Len(s) \in Nat
  BY LenProperties
<1>2. /\ t \in Seq(Emit!Item) /\ Len(t) = IF n < Len(s) THEN n ELSE Len(s)
      /\ \A i \in 1 .. Len(t) : t[i] = s[i]
  BY FirstTyped
<1>3. /\ u \in Seq(Emit!Item) /\ Len(u) = IF n < Len(s) THEN Len(s) - n ELSE 0
      /\ \A i \in 1 .. Len(s) - n : u[i] = s[n + i]
  BY WithoutTyped
<1> HIDE DEF t, u
<1>4. /\ t \o u \in Seq(Emit!Item)
      /\ Len(t \o u) = Len(t) + Len(u)
      /\ \A i \in 1 .. Len(t) + Len(u) : (t \o u)[i] = IF i <= Len(t) THEN t[i] ELSE u[i - Len(t)]
  BY <1>2, <1>3, ConcatProperties
<1>5. Len(t) + Len(u) = Len(s)
  BY <1>1, <1>2, <1>3
<1>6. \A i \in 1 .. Len(s) : (t \o u)[i] = s[i]
  <2> SUFFICES ASSUME NEW i \in 1 .. Len(s) PROVE (t \o u)[i] = s[i]
    OBVIOUS
  <2>1. CASE i <= Len(t)
    BY <1>1, <1>2, <1>4, <1>5, <2>1
  <2>2. CASE i > Len(t)
    <3>1. n < Len(s) /\ Len(t) = n /\ i - n \in 1 .. Len(s) - n
      BY <1>1, <1>2, <2>2
    <3>2. u[i - n] = s[n + (i - n)]
      BY <1>3, <3>1
    <3> QED
      BY <1>1, <1>4, <1>5, <2>2, <3>1, <3>2
  <2>3. i \in Int /\ Len(t) \in Int
    BY <1>1, <1>2
  <2>4. i <= Len(t) \/ i > Len(t)
    BY <2>3
  <2> QED
    BY <2>1, <2>2, <2>4
<1>7. t \o u = s
  BY <1>4, <1>5, <1>6, SeqEqual
<1> QED
  BY <1>2, <1>3, <1>7, ContentsOfConcat DEF t, u

-----------------------------------------------------------------------------
(* reportDrops *)

Due(d) == {w \in Emit!Reasons : d[w] # {}}

\* The reports come in some order, and every reason that is due has its place in it.
LEMMA OrdersAreWhole ==
    ASSUME NEW d, NEW o \in Emit!Orders(Due(d))
    PROVE  /\ Cardinality(Due(d)) \in Nat
           /\ o \in [1 .. Cardinality(Due(d)) -> Due(d)]
           /\ \A w \in Due(d) : \E i \in 1 .. Cardinality(Due(d)) : o[i] = w
<1> DEFINE D == Due(d)
           n == Cardinality(D)
<1>1. IsFiniteSet(Emit!Reasons)
  <2>1. IsFiniteSet({"buffer_full"})
    BY FS_Singleton
  <2>2. IsFiniteSet({"buffer_full"} \cup {"schema_rejected"})
    BY <2>1, FS_AddElement
  <2>3. IsFiniteSet(({"buffer_full"} \cup {"schema_rejected"}) \cup {"transport_failed"})
    BY <2>2, FS_AddElement
  <2>4. Emit!Reasons = ({"buffer_full"} \cup {"schema_rejected"}) \cup {"transport_failed"}
    BY DEF Emit!Reasons
  <2> QED
    BY <2>3, <2>4
<1>2. IsFiniteSet(D)
  BY <1>1, FS_Subset DEF Due
<1>3. n \in Nat
  BY <1>2, FS_CardinalityType
<1>4. o \in [1 .. n -> D] /\ \A i, j \in 1 .. n : o[i] = o[j] => i = j
  BY SameCardinality DEF Emit!Orders
<1> HIDE DEF D, n
<1>5. o \in Injection(1 .. n, D)
  BY <1>4 DEF Injection, IsInjective
<1>6. Cardinality(1 .. n) = n
  <2>1. Cardinality(1 .. n) = IF 1 > n THEN 0 ELSE n - 1 + 1
    BY <1>3, FS_Interval
  <2> QED
    BY <1>3, <2>1
<1>7. Cardinality(1 .. n) = Cardinality(D) <=> o \in Surjection(1 .. n, D)
  BY <1>2, <1>5, FS_Injection
<1>8. o \in Surjection(1 .. n, D)
  BY <1>6, <1>7 DEF n
<1>9. \A w \in D : \E i \in 1 .. n : o[i] = w
  BY <1>8 DEF Surjection
<1> QED
  BY <1>3, <1>4, <1>9 DEF D, n

\* reportDrops keeps the queue as it is and within its limit, and every loss it
\* counted is in a report or still in its counter.
LEMMA ReportedKeeps ==
    ASSUME Emit!EmitterAssumption,
           NEW q \in Seq(Emit!Item), Len(q) <= Queue, NEW d \in [Emit!Reasons -> Emit!Losses],
           NEW r \in Emit!Reported(q, d)
    PROVE  /\ r.queue \in Seq(Emit!Item) /\ Len(r.queue) <= Queue
           /\ r.dropped \in [Emit!Reasons -> Emit!Losses]
           /\ Emit!IdsOf(q) \subseteq Emit!IdsOf(r.queue)
           /\ Emit!LossesOf(q) \subseteq Emit!LossesOf(r.queue)
           /\ UNION Range(d) \subseteq Emit!LossesOf(r.queue) \cup UNION Range(r.dropped)
<1> DEFINE D == Due(d)
           room == Queue - Len(q)
           n == IF Cardinality(D) <= room THEN Cardinality(D) ELSE room
<1>1. PICK o \in Emit!Orders(D) :
        r = [queue |-> q \o [i \in 1 .. n |-> [id |-> 0, lost |-> d[o[i]]]],
             dropped |-> IF n = Cardinality(D) THEN Emit!Nothing ELSE d]
  BY SameCardinality DEF Emit!Reported, Due
<1>2. /\ Cardinality(D) \in Nat
      /\ o \in [1 .. Cardinality(D) -> D]
      /\ \A w \in D : \E i \in 1 .. Cardinality(D) : o[i] = w
  BY OrdersAreWhole
<1>3. Len(q) \in Nat /\ Queue \in Nat /\ Events \in Nat
  BY LenProperties
<1>4. n \in Nat /\ n <= Cardinality(D) /\ n <= room
  BY <1>2, <1>3
<1> DEFINE new == [i \in 1 .. n |-> [id |-> 0, lost |-> d[o[i]]]]
<1>5. r.queue = q \o new /\ r.dropped = IF n = Cardinality(D) THEN Emit!Nothing ELSE d
  BY <1>1
<1> HIDE DEF n
<1>6. \A i \in 1 .. n : o[i] \in Emit!Reasons
  <2>1. D \subseteq Emit!Reasons
    BY DEF Due
  <2>2. \A i \in 1 .. n : i \in 1 .. Cardinality(D)
    BY <1>2, <1>4
  <2> HIDE DEF D
  <2> QED
    BY <1>2, <2>1, <2>2
<1>7. \A i \in 1 .. n : [id |-> 0, lost |-> d[o[i]]] \in Emit!Item
  BY <1>3, <1>6 DEF Emit!Item
<1>8. new \in Seq(Emit!Item) /\ Len(new) = n
  BY <1>4, <1>7, IsASeq
<1>9. \A i \in 1 .. n : d[o[i]] \subseteq Emit!LossesOf(new)
  <2>1. DOMAIN new = 1 .. n /\ \A i \in 1 .. n : new[i].lost = d[o[i]]
    OBVIOUS
  <2> HIDE DEF new
  <2> QED
    BY <2>1 DEF Emit!LossesOf, Emit!Range
<1> HIDE DEF new
<1>10. r.queue \in Seq(Emit!Item) /\ Len(r.queue) <= Queue
  <2>1. q \o new \in Seq(Emit!Item) /\ Len(q \o new) = Len(q) + Len(new)
    BY <1>8, ConcatProperties
  <2> QED
    BY <1>3, <1>4, <1>5, <1>8, <2>1
<1>11. r.dropped \in [Emit!Reasons -> Emit!Losses]
  BY <1>5 DEF Emit!Nothing, Emit!Losses
<1>12. /\ Emit!IdsOf(r.queue) = Emit!IdsOf(q) \cup Emit!IdsOf(new)
       /\ Emit!LossesOf(r.queue) = Emit!LossesOf(q) \cup Emit!LossesOf(new)
  BY <1>5, <1>8, ContentsOfConcat
<1>13. UNION Range(d) \subseteq Emit!LossesOf(new) \cup UNION Range(r.dropped)
  <2>1. CASE n # Cardinality(D)
    BY <1>5, <2>1
  <2>2. CASE n = Cardinality(D)
    <3>1. \A w \in D : d[w] \subseteq Emit!LossesOf(new)
      BY <1>2, <1>9, <2>2
    <3>2. \A w \in Emit!Reasons : w \in D \/ d[w] = {}
      BY DEF Due
    <3> HIDE DEF D
    <3>3. \A w \in Emit!Reasons : d[w] \subseteq Emit!LossesOf(new)
      BY <3>1, <3>2
    <3> QED
      BY <3>3 DEF Range
  <2> QED
    BY <2>1, <2>2
<1> QED
  BY <1>10, <1>11, <1>12, <1>13

-----------------------------------------------------------------------------
(* The state is well formed, and an event is stored once *)

EmitterInv == Emit!TypeOK /\ Emit!StoredOnce

LEMMA SendTyped ==
    ASSUME Emit!EmitterAssumption,
           NEW q \in Seq(Emit!Item), Len(q) <= Queue, Emit!Send(q)
    PROVE  /\ queue' \in Seq(Emit!Item) /\ Len(queue') <= Queue
           /\ flight' \in Seq(Emit!Item) /\ Len(flight') <= Batch
           /\ attempt' \in 0 .. Retries /\ asleep' = FALSE
<1>1. Batch \in Nat /\ Retries \in Nat /\ Len(q) \in Nat
  BY LenProperties
<1>2. (IF Len(q) < Batch THEN Len(q) ELSE Batch) = IF Batch < Len(q) THEN Batch ELSE Len(q)
  BY <1>1
<1>3. flight' = First(q, Batch)
  BY <1>2 DEF Emit!Send, Emit!NextBatch, First
<1>4. flight' \in Seq(Emit!Item) /\ Len(flight') <= Batch
  <2>1. /\ First(q, Batch) \in Seq(Emit!Item)
        /\ Len(First(q, Batch)) = IF Batch < Len(q) THEN Batch ELSE Len(q)
    BY <1>1, FirstTyped
  <2> QED
    BY <1>1, <1>3, <2>1
<1> QED
  BY <1>1, <1>4 DEF Emit!Send

LEMMA FinishTyped ==
    ASSUME Emit!EmitterAssumption,
           NEW q \in Seq(Emit!Item), Len(q) <= Queue,
           NEW d \in [Emit!Reasons -> Emit!Losses], Emit!Finish(q, d)
    PROVE  /\ queue' \in Seq(Emit!Item) /\ Len(queue') <= Queue
           /\ flight' \in Seq(Emit!Item) /\ Len(flight') <= Batch
           /\ attempt' \in 0 .. Retries /\ asleep' = FALSE
           /\ dropped' \in [Emit!Reasons -> Emit!Losses]
<1>1. PICK r \in Emit!Reported(q, d) : queue' = r.queue /\ dropped' = r.dropped
  BY DEF Emit!Finish
<1>2. /\ r.queue \in Seq(Emit!Item) /\ Len(r.queue) <= Queue
      /\ r.dropped \in [Emit!Reasons -> Emit!Losses]
  BY ReportedKeeps
<1>3. Batch \in Nat /\ Retries \in Nat
  OBVIOUS
<1> QED
  BY <1>1, <1>2, <1>3 DEF Emit!Finish

LEMMA TakeTyped ==
    ASSUME EmitterInv, NEW b \in Seq(Emit!Item)
    PROVE  /\ Emit!Stored(b) \in [Emit!Ids -> Nat] /\ \A e \in Emit!Ids : Emit!Stored(b)[e] <= 1
           /\ known \cup Emit!IdsOf(b) \cup Emit!LossesOf(b) \in Emit!Losses
<1>1. \A e \in Emit!Ids : rows[e] \in Nat /\ rows[e] <= 1
  BY DEF EmitterInv, Emit!TypeOK, Emit!StoredOnce
<1>2. Emit!IdsOf(b) \subseteq 0 .. Events /\ Emit!LossesOf(b) \subseteq 0 .. Events
  BY ContentsTyped
<1>3. known \cup Emit!IdsOf(b) \cup Emit!LossesOf(b) \in Emit!Losses
  BY <1>2 DEF EmitterInv, Emit!TypeOK, Emit!Losses
<1> DEFINE now(e) == IF e \in Emit!IdsOf(b) \ Refused /\ rows[e] = 0 THEN 1 ELSE rows[e]
<1>4. \A e \in Emit!Ids : now(e) \in Nat /\ now(e) <= 1
  BY <1>1
<1>5. Emit!Stored(b) = [e \in Emit!Ids |-> now(e)]
  BY DEF Emit!Stored
<1> HIDE DEF now
<1> QED
  BY <1>3, <1>4, <1>5

LEMMA CountedTyped ==
    ASSUME NEW d \in [Emit!Reasons -> Emit!Losses], NEW why \in Emit!Reasons,
           NEW ids \in Emit!Losses
    PROVE  /\ Emit!Counted(d, why, ids) \in [Emit!Reasons -> Emit!Losses]
           /\ UNION Range(d) \subseteq UNION Range(Emit!Counted(d, why, ids))
           /\ ids \subseteq UNION Range(Emit!Counted(d, why, ids))
<1>1. /\ Emit!Counted(d, why, ids) \in [Emit!Reasons -> Emit!Losses]
      /\ \A w \in Emit!Reasons : d[w] \subseteq Emit!Counted(d, why, ids)[w]
      /\ ids \subseteq Emit!Counted(d, why, ids)[why]
  BY DEF Emit!Counted, Emit!Losses
<1> DEFINE c == Emit!Counted(d, why, ids)
<1>2. \A w \in Emit!Reasons : c[w] \in Range(c)
  BY <1>1 DEF Range
<1>3. ids \subseteq UNION Range(c)
  <2>1. c[why] \in Range(c) /\ ids \subseteq c[why]
    BY <1>1, <1>2
  <2> HIDE DEF c
  <2> QED
    BY <2>1
<1>4. ASSUME NEW x \in UNION Range(d) PROVE x \in UNION Range(c)
  <2>1. PICK w \in Emit!Reasons : x \in d[w]
    BY DEF Range
  <2>2. x \in c[w] /\ c[w] \in Range(c)
    BY <1>1, <1>2, <2>1
  <2> HIDE DEF c
  <2> QED
    BY <2>2
<1>5. UNION Range(d) \subseteq UNION Range(c)
  BY <1>4
<1> QED
  BY <1>1, <1>3, <1>5

LEMMA WithoutFits ==
    ASSUME Emit!EmitterAssumption,
           Emit!TypeOK
    PROVE  /\ Emit!Without(queue, Len(flight)) \in Seq(Emit!Item)
           /\ Len(Emit!Without(queue, Len(flight))) <= Queue
<1>1. Len(queue) \in Nat /\ Len(flight) \in Nat /\ Queue \in Nat
  BY LenProperties DEF Emit!TypeOK
<1>2. /\ Emit!Without(queue, Len(flight)) \in Seq(Emit!Item)
      /\ Len(Emit!Without(queue, Len(flight)))
             = IF Len(flight) < Len(queue) THEN Len(queue) - Len(flight) ELSE 0
  BY <1>1, WithoutTyped DEF Emit!TypeOK
<1> QED
  BY <1>1, <1>2 DEF Emit!TypeOK

\* What a beacon takes, and what it leaves, of a queue with its reports.
LEMMA HideTakes ==
    ASSUME Emit!EmitterAssumption,
           NEW q \in Seq(Emit!Item), Len(q) <= Queue, NEW n \in {k * Batch : k \in 0 .. Len(q)}
    PROVE  /\ n \in Nat
           /\ First(q, n) \in Seq(Emit!Item)
           /\ Emit!Without(q, n) \in Seq(Emit!Item) /\ Len(Emit!Without(q, n)) <= Queue
<1>1. Batch \in Nat /\ Queue \in Nat /\ Len(q) \in Nat
  BY LenProperties
<1>2. \A k \in 0 .. Len(q) : k * Batch \in Nat
  BY <1>1
<1>3. n \in Nat
  BY <1>2
<1>4. First(q, n) \in Seq(Emit!Item)
  BY <1>3, FirstTyped
<1>5. /\ Emit!Without(q, n) \in Seq(Emit!Item)
      /\ Len(Emit!Without(q, n)) = IF n < Len(q) THEN Len(q) - n ELSE 0
  BY <1>3, WithoutTyped
<1> QED
  BY <1>1, <1>3, <1>4, <1>5

\* The page hides: its beacons take the first batches of the queue that r leaves.
Beacons(r) ==
    /\ dropped' = r.dropped
    /\ \E n \in {k * Batch : k \in 0 .. Len(r.queue)} :
          /\ queue' = Emit!Without(r.queue, n)
          /\ known' = known \cup Emit!IdsOf(First(r.queue, n)) \cup Emit!LossesOf(First(r.queue, n))
          /\ rows' \in {rows, Emit!Stored(First(r.queue, n))}

LEMMA HideSends ==
    ASSUME Emit!Hide
    PROVE  \E r \in Emit!Reported(queue, dropped) : Beacons(r)
  BY DEF Emit!Hide, Beacons, First

LEMMA EmitterStep ==
    ASSUME Emit!EmitterAssumption, EmitterInv, [Emit!Next]_(Emit!vars)
    PROVE  EmitterInv'
<1> USE DEF EmitterInv
<1>0. Batch \in Nat /\ Retries \in Nat /\ Queue \in Nat /\ Events \in Nat
  OBVIOUS
<1>1. ASSUME NEW why \in {"buffer_full", "schema_rejected"}, Emit!TrackDropped(why)
      PROVE  EmitterInv'
  <2>1. tracked + 1 \in 0 .. Events /\ {tracked + 1} \in Emit!Losses /\ why \in Emit!Reasons
    BY <1>0, <1>1 DEF Emit!TrackDropped, Emit!TypeOK, Emit!Losses, Emit!Reasons
  <2>2. dropped' \in [Emit!Reasons -> Emit!Losses]
    BY <1>1, <2>1, CountedTyped DEF Emit!TrackDropped, Emit!TypeOK
  <2> QED
    BY <1>1, <2>1, <2>2 DEF Emit!TrackDropped, Emit!TypeOK, Emit!StoredOnce
<1>2. CASE Emit!Track
  <2> DEFINE item == [id |-> tracked + 1, lost |-> {}]
             q == Append(queue, item)
  <2>1. item \in Emit!Item
    BY <1>0, <1>2 DEF Emit!Track, Emit!TypeOK, Emit!Item, Emit!Losses
  <2>2. Len(queue) \in Nat
    BY LenProperties DEF Emit!TypeOK
  <2> HIDE DEF item
  <2>3. q \in Seq(Emit!Item) /\ Len(q) = Len(queue) + 1
    BY <2>1, AppendProperties DEF Emit!TypeOK
  <2>4. Len(q) <= Queue
    BY <1>0, <1>2, <2>2, <2>3 DEF Emit!Track
  <2> HIDE DEF q
  <2>5. \/ Emit!Send(q)
        \/ queue' = q /\ UNCHANGED <<flight, attempt, asleep>>
    BY <1>2 DEF Emit!Track, q, item
  <2>6. /\ queue' \in Seq(Emit!Item) /\ Len(queue') <= Queue
        /\ flight' \in Seq(Emit!Item) /\ Len(flight') <= Batch
        /\ attempt' \in 0 .. Retries /\ asleep' \in BOOLEAN /\ (asleep' => flight' # <<>>)
    <3>1. CASE Emit!Send(q)
      BY <2>3, <2>4, <3>1, SendTyped
    <3>2. CASE queue' = q /\ UNCHANGED <<flight, attempt, asleep>>
      BY <2>3, <2>4, <3>2 DEF Emit!TypeOK
    <3> QED
      BY <2>5, <3>1, <3>2
  <2> QED
    BY <1>0, <1>2, <2>6 DEF Emit!Track, Emit!TypeOK, Emit!StoredOnce
<1>3. CASE Emit!Tick
  <2>1. \/ Emit!Send(queue) /\ UNCHANGED dropped
        \/ Emit!Finish(queue, dropped)
    BY <1>3 DEF Emit!Tick
  <2>2. /\ queue' \in Seq(Emit!Item) /\ Len(queue') <= Queue
        /\ flight' \in Seq(Emit!Item) /\ Len(flight') <= Batch
        /\ attempt' \in 0 .. Retries /\ asleep' = FALSE
        /\ dropped' \in [Emit!Reasons -> Emit!Losses]
    BY <2>1, SendTyped, FinishTyped DEF Emit!TypeOK
  <2> QED
    BY <1>3, <2>2 DEF Emit!Tick, Emit!TypeOK, Emit!StoredOnce
<1>4. CASE Emit!Delivered
  <2> DEFINE q == Emit!Without(queue, Len(flight))
  <2>1. q \in Seq(Emit!Item) /\ Len(q) <= Queue
    BY WithoutFits
  <2>2. \/ Emit!Send(q) /\ UNCHANGED dropped
        \/ Emit!Finish(q, dropped)
    BY <1>4 DEF Emit!Delivered
  <2> HIDE DEF q
  <2>3. /\ queue' \in Seq(Emit!Item) /\ Len(queue') <= Queue
        /\ flight' \in Seq(Emit!Item) /\ Len(flight') <= Batch
        /\ attempt' \in 0 .. Retries /\ asleep' = FALSE
        /\ dropped' \in [Emit!Reasons -> Emit!Losses]
    BY <2>1, <2>2, SendTyped, FinishTyped DEF Emit!TypeOK
  <2>4. rows' \in [Emit!Ids -> Nat] /\ (\A e \in Emit!Ids : rows'[e] <= 1) /\ known' \in Emit!Losses
    BY <1>4, TakeTyped DEF Emit!Delivered, Emit!Take, Emit!TypeOK
  <2> QED
    BY <1>4, <2>3, <2>4 DEF Emit!Delivered, Emit!TypeOK, Emit!StoredOnce
<1>5. CASE Emit!Fails
  <2>1. rows' \in [Emit!Ids -> Nat] /\ (\A e \in Emit!Ids : rows'[e] <= 1) /\ known' \in Emit!Losses
    BY <1>5, TakeTyped DEF Emit!Fails, Emit!Take, Emit!Miss, Emit!TypeOK, Emit!StoredOnce
  <2>2. attempt' \in 0 .. Retries
    BY <1>0, <1>5 DEF Emit!Fails, Emit!TypeOK
  <2> QED
    BY <1>5, <2>1, <2>2 DEF Emit!Fails, Emit!Awaiting, Emit!TypeOK, Emit!StoredOnce
<1>6. CASE Emit!GiveUp
  <2> DEFINE q == Emit!Without(queue, Len(flight))
             d == Emit!Counted(dropped, "transport_failed", Emit!IdsOf(flight))
  <2>1. q \in Seq(Emit!Item) /\ Len(q) <= Queue
    BY WithoutFits
  <2>2. d \in [Emit!Reasons -> Emit!Losses]
    BY ContentsTyped, CountedTyped DEF Emit!TypeOK, Emit!Reasons, Emit!Losses
  <2>3. Emit!Finish(q, d)
    BY <1>6 DEF Emit!GiveUp
  <2> HIDE DEF q, d
  <2>4. /\ queue' \in Seq(Emit!Item) /\ Len(queue') <= Queue
        /\ flight' \in Seq(Emit!Item) /\ Len(flight') <= Batch
        /\ attempt' \in 0 .. Retries /\ asleep' = FALSE
        /\ dropped' \in [Emit!Reasons -> Emit!Losses]
    BY <2>1, <2>2, <2>3, FinishTyped
  <2>5. rows' \in [Emit!Ids -> Nat] /\ (\A e \in Emit!Ids : rows'[e] <= 1) /\ known' \in Emit!Losses
    BY <1>6, TakeTyped DEF Emit!GiveUp, Emit!Take, Emit!Miss, Emit!TypeOK, Emit!StoredOnce
  <2> QED
    BY <1>6, <2>4, <2>5 DEF Emit!GiveUp, Emit!TypeOK, Emit!StoredOnce
<1>7. CASE Emit!Wake
  BY <1>7 DEF Emit!Wake, Emit!TypeOK, Emit!StoredOnce
<1>8. CASE Emit!Hide
  <2>1. PICK r \in Emit!Reported(queue, dropped) : Beacons(r)
    BY <1>8, HideSends
  <2>2. /\ r.queue \in Seq(Emit!Item) /\ Len(r.queue) <= Queue
        /\ r.dropped \in [Emit!Reasons -> Emit!Losses]
    BY ReportedKeeps DEF Emit!TypeOK
  <2>3. PICK n \in Nat :
          /\ First(r.queue, n) \in Seq(Emit!Item)
          /\ Emit!Without(r.queue, n) \in Seq(Emit!Item) /\ Len(Emit!Without(r.queue, n)) <= Queue
          /\ dropped' = r.dropped /\ queue' = Emit!Without(r.queue, n)
          /\ known' = known \cup Emit!IdsOf(First(r.queue, n)) \cup Emit!LossesOf(First(r.queue, n))
          /\ rows' \in {rows, Emit!Stored(First(r.queue, n))}
    BY <2>1, <2>2, HideTakes DEF Beacons
  <2>4. rows' \in [Emit!Ids -> Nat] /\ (\A e \in Emit!Ids : rows'[e] <= 1) /\ known' \in Emit!Losses
    BY <2>1, <2>3, TakeTyped DEF Emit!TypeOK, Emit!StoredOnce
  <2> QED
    BY <1>8, <2>1, <2>2, <2>3, <2>4 DEF Emit!Hide, Emit!TypeOK, Emit!StoredOnce
<1>9. CASE Emit!Idle \/ UNCHANGED Emit!vars
  BY <1>9 DEF Emit!Idle, Emit!vars, Emit!TypeOK, Emit!StoredOnce
<1> QED
  BY <1>1, <1>2, <1>3, <1>4, <1>5, <1>6, <1>7, <1>8, <1>9 DEF Emit!Next, Emit!Answer

\* The state is well formed, the queue keeps its limit with its reports, and an event is
\* stored once, whatever is sent again by a retry or by a beacon.
THEOREM StoredAtMostOnce ==
    ASSUME Emit!EmitterAssumption
    PROVE  Emit!Spec => [](Emit!TypeOK /\ Emit!StoredOnce)
<1>1. Emit!Init => EmitterInv
  <2> SUFFICES ASSUME Emit!Init PROVE EmitterInv
    OBVIOUS
  <2>1. <<>> \in Seq(Emit!Item) /\ Len(<<>>) = 0
    BY EmptySeq
  <2>2. Batch \in Nat /\ Retries \in Nat /\ Queue \in Nat /\ Events \in Nat
    OBVIOUS
  <2>3. dropped \in [Emit!Reasons -> Emit!Losses] /\ known \in Emit!Losses
    BY <2>2 DEF Emit!Init, Emit!Losses
  <2>4. rows \in [Emit!Ids -> Nat] /\ \A e \in Emit!Ids : rows[e] <= 1
    BY DEF Emit!Init
  <2>5. tracked \in 0 .. Events /\ attempt \in 0 .. Retries /\ asleep = FALSE
    BY <2>2 DEF Emit!Init
  <2>6. /\ queue \in Seq(Emit!Item) /\ Len(queue) <= Queue
        /\ flight \in Seq(Emit!Item) /\ Len(flight) <= Batch
    BY <2>1, <2>2 DEF Emit!Init
  <2>7. timer \in BOOLEAN /\ asleep \in BOOLEAN /\ (asleep => flight # <<>>)
    BY <2>5 DEF Emit!Init
  <2>8. Emit!TypeOK
    BY <2>3, <2>4, <2>5, <2>6, <2>7 DEF Emit!TypeOK
  <2> QED
    BY <2>4, <2>8 DEF EmitterInv, Emit!StoredOnce
<1>2. EmitterInv <=> Emit!TypeOK /\ Emit!StoredOnce
  BY DEF EmitterInv
<1>3. EmitterInv /\ [Emit!Next]_(Emit!vars) => EmitterInv'
  BY EmitterStep
<1> QED
  BY <1>1, <1>2, <1>3, PTL DEF Emit!Spec

-----------------------------------------------------------------------------
(* No event vanishes *)

\* What of the emitter still tells of an event.
Accounted == Emit!IdsOf(queue) \cup known \cup Emit!LossesOf(queue) \cup UNION Range(dropped)

LEMMA BatchInFront ==
    ASSUME Emit!TypeOK, Emit!InFront
    PROVE  Emit!IdsOf(queue) = Emit!IdsOf(flight) \cup Emit!IdsOf(Emit!Without(queue, Len(flight)))
<1>1. Len(queue) \in Nat /\ Len(flight) \in Nat
  BY LenProperties DEF Emit!TypeOK
<1>2. flight = First(queue, Len(flight))
  BY <1>1 DEF Emit!InFront, First
<1>3. Emit!IdsOf(queue) = Emit!IdsOf(First(queue, Len(flight)))
                              \cup Emit!IdsOf(Emit!Without(queue, Len(flight)))
  BY <1>1, ContentsSplit DEF Emit!TypeOK
<1> QED
  BY <1>2, <1>3

LEMMA FinishKeeps ==
    ASSUME Emit!EmitterAssumption,
           NEW q \in Seq(Emit!Item), Len(q) <= Queue,
           NEW d \in [Emit!Reasons -> Emit!Losses], Emit!Finish(q, d)
    PROVE  /\ Emit!IdsOf(q) \subseteq Emit!IdsOf(queue')
           /\ UNION Range(d) \subseteq Emit!LossesOf(queue') \cup UNION Range(dropped')
<1>1. PICK r \in Emit!Reported(q, d) : queue' = r.queue /\ dropped' = r.dropped
  BY DEF Emit!Finish
<1>2. /\ Emit!IdsOf(q) \subseteq Emit!IdsOf(r.queue)
      /\ UNION Range(d) \subseteq Emit!LossesOf(r.queue) \cup UNION Range(r.dropped)
  BY ReportedKeeps
<1> QED
  BY <1>1, <1>2

LEMMA EventsStay ==
    ASSUME Emit!EmitterAssumption,
           Emit!TypeOK, Emit!InFront, [Emit!Next]_(Emit!vars)
    PROVE  (1 .. tracked' \ 1 .. tracked) \cup Emit!IdsOf(queue) \subseteq Accounted'
<1>0. tracked \in Nat
  BY DEF Emit!TypeOK
<1>1. ASSUME NEW why \in {"buffer_full", "schema_rejected"}, Emit!TrackDropped(why)
      PROVE  (1 .. tracked' \ 1 .. tracked) \cup Emit!IdsOf(queue) \subseteq Accounted'
  <2>1. 1 .. tracked' \ 1 .. tracked \subseteq {tracked + 1}
    BY <1>0, <1>1 DEF Emit!TrackDropped
  <2>2. tracked + 1 \in 0 .. Events /\ {tracked + 1} \in Emit!Losses /\ why \in Emit!Reasons
    BY <1>0, <1>1 DEF Emit!TrackDropped, Emit!Losses, Emit!Reasons
  <2>3. {tracked + 1} \subseteq UNION Range(dropped')
    <3>1. /\ dropped' = Emit!Counted(dropped, why, {tracked + 1})
          /\ dropped \in [Emit!Reasons -> Emit!Losses]
      BY <1>1 DEF Emit!TrackDropped, Emit!TypeOK
    <3>2. {tracked + 1} \subseteq UNION Range(Emit!Counted(dropped, why, {tracked + 1}))
      BY <2>2, <3>1, CountedTyped
    <3> QED
      BY <3>1, <3>2
  <2>4. queue' = queue
    BY <1>1 DEF Emit!TrackDropped
  <2> QED
    BY <2>1, <2>3, <2>4 DEF Accounted
<1>2. CASE Emit!Track
  <2> DEFINE item == [id |-> tracked + 1, lost |-> {}]
  <2>1. 1 .. tracked' \ 1 .. tracked \subseteq {tracked + 1}
    BY <1>0, <1>2 DEF Emit!Track
  <2>2. item \in Emit!Item /\ item.id = tracked + 1
    BY <1>0, <1>2 DEF Emit!Track, Emit!Item, Emit!Losses
  <2>3. queue' = Append(queue, item)
    BY <1>2 DEF Emit!Track, Emit!Send
  <2> HIDE DEF item
  <2>4. queue' = queue \o <<item>> /\ <<item>> \in Seq(Emit!Item)
    BY <2>2, <2>3, AppendIsConcat DEF Emit!TypeOK
  <2>5. Emit!IdsOf(queue') = Emit!IdsOf(queue) \cup Emit!IdsOf(<<item>>)
    BY <2>4, ContentsOfConcat DEF Emit!TypeOK
  <2>6. tracked + 1 \in Emit!IdsOf(<<item>>)
    BY <2>2 DEF Emit!IdsOf, Emit!Range
  <2> QED
    BY <2>1, <2>5, <2>6 DEF Accounted
<1>3. CASE Emit!Tick
  <2>1. queue' = queue \/ Emit!Finish(queue, dropped)
    BY <1>3 DEF Emit!Tick, Emit!Send
  <2>2. Emit!IdsOf(queue) \subseteq Emit!IdsOf(queue')
    BY <2>1, FinishKeeps DEF Emit!TypeOK
  <2>3. tracked' = tracked
    BY <1>3 DEF Emit!Tick
  <2> QED
    BY <2>2, <2>3 DEF Accounted
<1>4. CASE Emit!Delivered
  <2> DEFINE q == Emit!Without(queue, Len(flight))
  <2>1. q \in Seq(Emit!Item) /\ Len(q) <= Queue
    BY WithoutFits
  <2>2. Emit!IdsOf(queue) = Emit!IdsOf(flight) \cup Emit!IdsOf(q)
    BY BatchInFront
  <2>3. queue' = q \/ Emit!Finish(q, dropped)
    BY <1>4 DEF Emit!Delivered, Emit!Send
  <2> HIDE DEF q
  <2>4. Emit!IdsOf(q) \subseteq Emit!IdsOf(queue')
    BY <2>1, <2>3, FinishKeeps DEF Emit!TypeOK
  <2>5. Emit!IdsOf(flight) \subseteq known' /\ tracked' = tracked
    BY <1>4 DEF Emit!Delivered, Emit!Take
  <2> QED
    BY <2>2, <2>4, <2>5 DEF Accounted
<1>5. CASE Emit!GiveUp
  <2> DEFINE q == Emit!Without(queue, Len(flight))
             d == Emit!Counted(dropped, "transport_failed", Emit!IdsOf(flight))
  <2>1. q \in Seq(Emit!Item) /\ Len(q) <= Queue
    BY WithoutFits
  <2>2. Emit!IdsOf(queue) = Emit!IdsOf(flight) \cup Emit!IdsOf(q)
    BY BatchInFront
  <2>3. Emit!IdsOf(flight) \in Emit!Losses /\ "transport_failed" \in Emit!Reasons
    BY ContentsTyped DEF Emit!TypeOK, Emit!Reasons, Emit!Losses
  <2>4. d \in [Emit!Reasons -> Emit!Losses] /\ Emit!IdsOf(flight) \subseteq UNION Range(d)
    <3>1. dropped \in [Emit!Reasons -> Emit!Losses]
      BY DEF Emit!TypeOK
    <3>2. /\ Emit!Counted(dropped, "transport_failed", Emit!IdsOf(flight))
                 \in [Emit!Reasons -> Emit!Losses]
          /\ Emit!IdsOf(flight)
                 \subseteq UNION Range(Emit!Counted(dropped, "transport_failed", Emit!IdsOf(flight)))
      BY <2>3, <3>1, CountedTyped
    <3> QED
      BY <3>2
  <2>5. Emit!Finish(q, d) /\ tracked' = tracked
    BY <1>5 DEF Emit!GiveUp
  <2> HIDE DEF q, d
  <2>6. /\ Emit!IdsOf(q) \subseteq Emit!IdsOf(queue')
        /\ UNION Range(d) \subseteq Emit!LossesOf(queue') \cup UNION Range(dropped')
    BY <2>1, <2>4, <2>5, FinishKeeps
  <2> QED
    BY <2>2, <2>4, <2>5, <2>6 DEF Accounted
<1>6. CASE Emit!Hide
  <2>1. PICK r \in Emit!Reported(queue, dropped) : Beacons(r)
    BY <1>6, HideSends
  <2>2. /\ r.queue \in Seq(Emit!Item) /\ Len(r.queue) <= Queue
        /\ Emit!IdsOf(queue) \subseteq Emit!IdsOf(r.queue)
    BY ReportedKeeps DEF Emit!TypeOK
  <2>3. PICK n \in Nat : /\ queue' = Emit!Without(r.queue, n)
                         /\ Emit!IdsOf(First(r.queue, n)) \subseteq known'
    BY <2>1, <2>2, HideTakes DEF Beacons
  <2>4. Emit!IdsOf(r.queue) = Emit!IdsOf(First(r.queue, n)) \cup Emit!IdsOf(queue')
    BY <2>2, <2>3, ContentsSplit
  <2>5. tracked' = tracked
    BY <1>6 DEF Emit!Hide
  <2> QED
    BY <2>2, <2>3, <2>4, <2>5 DEF Accounted
<1>7. CASE Emit!Fails \/ Emit!Wake \/ Emit!Idle \/ UNCHANGED Emit!vars
  <2>1. queue' = queue /\ tracked' = tracked
    BY <1>7 DEF Emit!Fails, Emit!Wake, Emit!Idle, Emit!vars
  <2> QED
    BY <2>1 DEF Accounted
<1> QED
  BY <1>1, <1>2, <1>3, <1>4, <1>5, <1>6, <1>7 DEF Emit!Next, Emit!Answer

\* An event that is tracked is queued or counted, and one that leaves the queue was handed
\* over or is counted, however answers, retries, a full queue and beacons interleave.
THEOREM NoEventVanishes ==
    ASSUME Emit!EmitterAssumption
    PROVE  Emit!Spec => Emit!NothingVanishes
<1>1. Emit!TypeOK /\ [Emit!Next]_(Emit!vars) =>
        [Emit!InFront => (1 .. tracked' \ 1 .. tracked) \cup Emit!IdsOf(queue)
            \subseteq Emit!IdsOf(queue') \cup known' \cup Emit!LossesOf(queue')
                          \cup UNION Emit!Range(dropped')]_(Emit!vars)
  BY EventsStay, SameRange DEF Accounted
<1>2. Emit!Spec => [](Emit!TypeOK /\ Emit!StoredOnce)
  BY StoredAtMostOnce
<1> QED
  BY <1>1, <1>2, PTL DEF Emit!Spec, Emit!NothingVanishes
=============================================================================
