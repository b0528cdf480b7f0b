--------------------------- MODULE BrowserSession --------------------------
(***************************************************************************)
(* The session of the back office in the tabs of one browser: the token of *)
(* lib/auth-storage, the calls of lib/api-client, the AuthProvider and its *)
(* AuthGuard around the protected pages, and the sign-in page.  (The       *)
(* website has copies of the same files.)                                  *)
(*                                                                         *)
(* Tokens are numbered in the order the API issues them.  A tab is on a    *)
(* protected page or on a public one; `router.replace` only starts a       *)
(* navigation, which ends later.  A page's own requests are the calls of   *)
(* kind "page", whatever they ask for.                                     *)
(***************************************************************************)
EXTENDS Naturals, FiniteSets

CONSTANTS Tabs,
          MaxTokens,    \* bound: sign-ins the API accepts
          MaxCalls      \* bound: requests sent, by all tabs

None == 0

VARIABLES
    sent,               \* bound
    blocked,            \* the browser denies access to localStorage
    storage,            \* the token in localStorage, shared by the tabs
    memory,             \* memoryToken of each tab
    issued, live,       \* tokens the API has issued, and those it still accepts
    place,              \* "public" or "protected": the page the tab is on
    going,              \* where its router is going: "nowhere", "public", "protected"
    status,             \* of the AuthProvider, "none" where there is none
    hasRedirected,
    signingIn,          \* isSubmitting of the sign-in page
    calls,              \* requests under way
    redirects,          \* history: 1 once the mounted provider has started to leave, plus
                        \* the redirects it started after that
    signedIn            \* history: signed in, and no token was discarded since

browser == <<blocked, storage, memory, signedIn>>
api == <<issued, live>>
tabs == <<place, going, status, hasRedirected, signingIn, redirects>>
vars == <<sent, browser, api, tabs, calls>>

Call(tab, kind, token) ==
    [tab |-> tab, kind |-> kind, token |-> token, answer |-> "none", current |-> TRUE, id |-> sent]
Send(call) == sent < MaxCalls /\ sent' = sent + 1 /\ calls' = calls \cup {call}
Detached(tab) == {IF c.tab = tab THEN [c EXCEPT !.current = FALSE] ELSE c : c \in calls}

-----------------------------------------------------------------------------
(* lib/auth-storage *)

ReadToken(tab) == IF ~blocked /\ storage # None THEN storage ELSE memory[tab]

\* Mutant: a token the browser refuses to store is not kept.
StoreTokenOrLose(tab, token) ==
    /\ storage' = IF blocked THEN storage ELSE token
    /\ memory' = [memory EXCEPT ![tab] = None]

StoreToken(tab, token) ==
    /\ storage' = IF blocked THEN storage ELSE token
    /\ memory' = [memory EXCEPT ![tab] = IF blocked THEN token ELSE None]

ClearToken(tab) ==
    /\ storage' = IF blocked THEN storage ELSE None
    /\ memory' = [memory EXCEPT ![tab] = None]
    /\ signedIn' = [t \in Tabs |-> signedIn[t] /\ blocked /\ t # tab]

-----------------------------------------------------------------------------
(* AuthProvider and AuthGuard *)

\* Mutant: redirectToLogin does not look at hasRedirected.
RedirectToLoginAgain(tab) ==
    /\ hasRedirected' = [hasRedirected EXCEPT ![tab] = TRUE]
    /\ status' = [status EXCEPT ![tab] = "unauthenticated"]
    /\ going' = [going EXCEPT ![tab] = "public"]
    /\ redirects' = [redirects EXCEPT ![tab] = @ + 1]

RedirectToLogin(tab) ==
    IF hasRedirected[tab] THEN UNCHANGED <<hasRedirected, status, going, redirects>>
    ELSE /\ hasRedirected' = [hasRedirected EXCEPT ![tab] = TRUE]
         /\ status' = [status EXCEPT ![tab] = "unauthenticated"]
         /\ going' = [going EXCEPT ![tab] = "public"]
         /\ redirects' = [redirects EXCEPT ![tab] = @ + 1]

\* handleUnauthorized: the event reaches the provider of this tab, if one is mounted.
HandleUnauthorized(tab) ==
    /\ ClearToken(tab)
    /\ IF place[tab] = "protected" THEN RedirectToLogin(tab)
       ELSE UNCHANGED <<hasRedirected, status, going, redirects>>

\* What AuthGuard paints: the page, the error with its retry, or a placeholder.
AuthGuard(tab) ==
    CASE place[tab] = "public" -> "public page"
      [] status[tab] = "authenticated" -> "page"
      [] status[tab] = "error" -> "error"
      [] OTHER -> "placeholder"

\* A provider is mounted with the page: a token that is present is checked.
Mount(tab, token) ==
    /\ place' = [place EXCEPT ![tab] = "protected"]
    /\ signingIn' = [signingIn EXCEPT ![tab] = FALSE]
    /\ hasRedirected' = [hasRedirected EXCEPT ![tab] = (token = None)]
    /\ redirects' = [redirects EXCEPT ![tab] = IF token = None THEN 1 ELSE 0]
    /\ status' = [status EXCEPT ![tab] = IF token = None THEN "unauthenticated" ELSE "loading"]
    /\ going' = [going EXCEPT ![tab] = IF token = None THEN "public" ELSE "nowhere"]

Init ==
    /\ blocked \in BOOLEAN /\ storage = None /\ memory = [t \in Tabs |-> None]
    /\ signedIn = [t \in Tabs |-> FALSE] /\ issued = 0 /\ live = {}
    /\ place = [t \in Tabs |-> "public"] /\ going = [t \in Tabs |-> "nowhere"]
    /\ status = [t \in Tabs |-> "none"] /\ hasRedirected = [t \in Tabs |-> FALSE]
    /\ signingIn = [t \in Tabs |-> FALSE] /\ redirects = [t \in Tabs |-> 0]
    /\ calls = {} /\ sent = 0

\* The address of a protected page is opened or reloaded: memory is lost with the page.
Open(tab) ==
    LET token == IF blocked THEN None ELSE storage IN
    /\ sent < MaxCalls /\ sent' = sent + 1
    /\ memory' = [memory EXCEPT ![tab] = None]
    /\ signedIn' = [signedIn EXCEPT ![tab] = @ /\ ~blocked]
    /\ Mount(tab, token)
    /\ calls' = {c \in calls : c.tab # tab}
                  \cup (IF token = None THEN {} ELSE {Call(tab, "me", token)})
    /\ UNCHANGED <<blocked, storage, api>>

\* A navigation of the router ends: the old page is unmounted, this module's memory stays.
ArriveProtected(tab) ==
    /\ going[tab] = "protected"
    /\ Mount(tab, ReadToken(tab))
    /\ IF ReadToken(tab) = None THEN UNCHANGED <<sent, calls>>
       ELSE Send(Call(tab, "me", ReadToken(tab)))
    /\ UNCHANGED <<browser, api>>

ArrivePublic(tab) ==
    /\ going[tab] = "public"
    /\ place' = [place EXCEPT ![tab] = "public"]
    /\ going' = [going EXCEPT ![tab] = "nowhere"]
    /\ status' = [status EXCEPT ![tab] = "none"]
    /\ calls' = Detached(tab)
    /\ UNCHANGED <<sent, browser, api, hasRedirected, signingIn, redirects>>

\* Signing out, from the navigation bar inside the guard.
SignOut(tab) ==
    /\ AuthGuard(tab) = "page"
    /\ ClearToken(tab)
    /\ hasRedirected' = [hasRedirected EXCEPT ![tab] = TRUE]
    /\ status' = [status EXCEPT ![tab] = "unauthenticated"]
    /\ going' = [going EXCEPT ![tab] = "public"]
    /\ redirects' = [redirects EXCEPT ![tab] = 1]
    /\ UNCHANGED <<sent, blocked, api, place, signingIn, calls>>

\* The guard's two ways out of a check that failed.  `retry` sets "loading" and runs the
\* effect again, whose redirect sets the status only if there was none before.
Retry(tab) ==
    /\ AuthGuard(tab) = "error"
    /\ IF ReadToken(tab) = None /\ ~hasRedirected[tab]
       THEN RedirectToLogin(tab)
       ELSE /\ status' = [status EXCEPT ![tab] = "loading"]
            /\ UNCHANGED <<hasRedirected, going, redirects>>
    /\ IF ReadToken(tab) = None THEN UNCHANGED <<sent, calls>>
       ELSE Send(Call(tab, "me", ReadToken(tab)))
    /\ UNCHANGED <<browser, api, place, signingIn>>

GoToSignIn(tab) ==
    /\ AuthGuard(tab) = "error" /\ going[tab] = "nowhere"
    /\ going' = [going EXCEPT ![tab] = "public"]
    /\ UNCHANGED <<sent, browser, api, calls, place, status, hasRedirected, signingIn, redirects>>

-----------------------------------------------------------------------------
(* The sign-in page *)

SubmitLogin(tab) ==
    /\ place[tab] = "public" /\ ~signingIn[tab]
    /\ signingIn' = [signingIn EXCEPT ![tab] = TRUE]
    /\ Send(Call(tab, "login", None))
    /\ UNCHANGED <<browser, api, place, going, status, hasRedirected, redirects>>

\* POST /auth/login: a token is issued, or the credentials are refused.
ApiLogin(c) ==
    /\ c.kind = "login" /\ c.answer = "none" /\ issued < MaxTokens
    /\ issued' = issued + 1 /\ live' = live \cup {issued + 1}
    /\ calls' = (calls \ {c}) \cup {[c EXCEPT !.answer = "ok", !.token = issued + 1]}
    /\ UNCHANGED <<sent, browser, tabs>>

HearLogin(c) ==
    /\ c.kind = "login" /\ c.answer = "ok"
    /\ calls' = calls \ {c}
    /\ StoreToken(c.tab, c.token)
    /\ signedIn' = [signedIn EXCEPT ![c.tab] = TRUE]
    /\ going' = [going EXCEPT ![c.tab] = "protected"]
    /\ UNCHANGED <<sent, blocked, api, place, status, hasRedirected, signingIn, redirects>>

LoginFails(c) ==
    /\ c.kind = "login"
    /\ calls' = calls \ {c}
    /\ signingIn' = [signingIn EXCEPT ![c.tab] = FALSE]
    /\ UNCHANGED <<sent, browser, api, place, going, status, hasRedirected, redirects>>

-----------------------------------------------------------------------------
(* requestAuthenticatedApi *)

\* A page sends a request with the token of now, or none.
PageCalls(tab) ==
    /\ AuthGuard(tab) = "page"
    /\ IF ReadToken(tab) = None
       THEN HandleUnauthorized(tab) /\ UNCHANGED <<sent, blocked, calls>>
       ELSE /\ Send(Call(tab, "page", ReadToken(tab)))
            /\ UNCHANGED <<browser, hasRedirected, status, going, redirects>>
    /\ UNCHANGED <<api, place, signingIn>>

\* The API accepts the token, or answers 401.
ApiAnswers(c) ==
    /\ c.kind # "login" /\ c.answer = "none"
    /\ calls' = (calls \ {c})
                  \cup {[c EXCEPT !.answer = IF c.token \in live THEN "ok" ELSE "401"]}
    /\ UNCHANGED <<sent, browser, api, tabs>>

\* 401: whatever token is stored now is cleared.
HearUnauthorized(c) ==
    /\ c.answer = "401"
    /\ calls' = calls \ {c}
    /\ HandleUnauthorized(c.tab)
    /\ UNCHANGED <<sent, blocked, api, place, signingIn>>

HearPage(c) ==
    /\ c.kind = "page" /\ c.answer # "401"
    /\ calls' = calls \ {c}
    /\ UNCHANGED <<sent, browser, api, tabs>>

\* The session check of the mounted provider is answered.
HearMe(c) ==
    /\ c.kind = "me" /\ c.answer = "ok"
    /\ calls' = calls \ {c}
    /\ status' = IF c.current THEN [status EXCEPT ![c.tab] = "authenticated"] ELSE status
    /\ UNCHANGED <<sent, browser, api, place, going, hasRedirected, signingIn, redirects>>

\* Mutant: only a refused token ends the check.
MeFailsSilently(c) ==
    /\ c.kind = "me" /\ c.answer # "401"
    /\ calls' = calls \ {c}
    /\ UNCHANGED <<sent, browser, api, tabs>>

\* Unreachable, failed or unreadable: nothing of this says that the token is bad.
MeFails(c) ==
    /\ c.kind = "me" /\ c.answer # "401"
    /\ calls' = calls \ {c}
    /\ status' = IF c.current THEN [status EXCEPT ![c.tab] = "error"] ELSE status
    /\ UNCHANGED <<sent, browser, api, place, going, hasRedirected, signingIn, redirects>>

\* Elsewhere: a token expires, or its account is removed.
TokenDies ==
    /\ \E token \in live : live' = live \ {token}
    /\ UNCHANGED <<sent, browser, tabs, calls, issued>>

Hear == \E c \in calls :
    \/ ApiLogin(c) \/ HearLogin(c) \/ LoginFails(c)
    \/ ApiAnswers(c) \/ HearUnauthorized(c) \/ HearPage(c) \/ HearMe(c) \/ MeFails(c)

Next ==
    \/ \E tab \in Tabs :
          \/ Open(tab) \/ ArriveProtected(tab) \/ ArrivePublic(tab)
          \/ SignOut(tab) \/ Retry(tab) \/ GoToSignIn(tab)
          \/ SubmitLogin(tab) \/ PageCalls(tab)
    \/ Hear \/ TokenDies

Spec == Init /\ [][Next]_vars /\ WF_vars(Hear)

-----------------------------------------------------------------------------
\* Once a provider is on its way to the sign-in page, no request without a token and no
\* late 401 starts another navigation: a sign-out is not turned into a redirect that
\* would come back to the page (AuthProvider.tsx:60-69, 136-142).
OneRedirect == \A tab \in Tabs : redirects[tab] <= 1

\* Who just signed in has a token to go on with, also in a browser that refuses storage,
\* until a token is discarded in this tab or, where storage is shared, in another
\* (auth-storage.ts:63-68, 92-101).
SignInIsNotForgotten == \A tab \in Tabs : signedIn[tab] => ReadToken(tab) # None

\* A 401 clears the token that was refused, and no token stored since
\* (api-client.ts:264-266).
OnlyTheRefusedTokenIsCleared ==
    [][\A c \in calls : c \notin calls' /\ c.answer = "401" /\ c.token # storage
          => storage' = storage]_vars

\* "Checking your session" ends: with the page, the redirect, or the error and its retry,
\* also when the API answers nothing readable (AuthProvider.tsx:113-118).  Only a tab that
\* is on its way to the sign-in page already may show it until it is there.
CheckEnds ==
    \A tab \in Tabs :
        status[tab] = "loading" ~> (status[tab] # "loading" \/ going[tab] = "public")
=============================================================================
