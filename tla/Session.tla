------------------------------- MODULE Session -------------------------------
(***************************************************************************)
(* Sessions of the web frontend: AuthProvider of commons/auth/provider.tsx *)
(* with the views that log in (UserLoginView, OAuthAuthorizeView), in all  *)
(* the tabs of one browser.                                                *)
(*                                                                         *)
(* The tabs share the localStorage item "user" and tell each other of      *)
(* changes by storage events.  A tab keeps the session twice: as React     *)
(* state, without its token, and as the Authorization header of axios.     *)
(* Every request is sent and answered in two steps, and an answer runs in  *)
(* the closures of the render that sent the request.                       *)
(***************************************************************************)
EXTENDS Integers, FiniteSets

CONSTANTS
    Tabs, Users,
    Flows,        \* OpenID authorisation flows, by the state the server gives them
    None, Done,
    MaxVersion,   \* bound: changes of an account's passwords
    MaxNow,       \* bound: lifetimes of a token
    MaxRequests   \* bound: requests in flight

Tokens == [user : Users, version : 0..MaxVersion, born : 0..MaxNow]
Sessions == [token : Tokens, admin : BOOLEAN]     \* the item "user"
Views == [user : Users, admin : BOOLEAN]          \* a session without its token

ASSUME SessionAssumption ==
    /\ None \notin Users \cup Tokens \cup Sessions \cup Views
    /\ MaxVersion \in Nat /\ MaxNow \in Nat /\ MaxRequests \in Nat

VARIABLES
    stored,    \* localStorage
    tab,       \* the state of every tab
    requests,  \* sent and not answered
    account,   \* the server's users: version of the password, capabilities
    now,       \* the age of the world in token lifetimes
    flow,      \* sessionStorage: what every flow is for, in which tab
    crossed,   \* history: a refresh was answered that another change had overtaken
    signedOut  \* history: a user has logged out, and nobody has tried to log in since

vars == <<stored, tab, requests, account, now, flow, crossed, signedOut>>

TabStates ==
    [away : BOOLEAN,     \* at the site of an OpenID provider
     session : Views \cup {None},
     header : Tokens \cup {None},
     booted : BOOLEAN,   \* authenticated in the first render, whose closures stay
     event : BOOLEAN]    \* a storage event is on its way

Never == [user |-> None, admin |-> FALSE]   \* a closure equal to no session

Requests ==
    [tab : Tabs, kind : {"login", "refresh", "call", "callback", "bind"},
     token : Tokens \cup {None},
     user : Users \cup {None},           \* who logs in
     seen : Views \cup {None, Never},     \* the session in the closure of the sender
     status : {"ok", "401", "403", "lost"},
     answer : Sessions \cup {None}]

FlowStates ==
    {None, Done} \cup [tab : Tabs, action : {"callback", "bind"}, born : 0..MaxNow]

-----------------------------------------------------------------------------
(* The browser *)

\* What components see: "make sure that the token is not in the session".
ViewOf(s) == [user |-> s.token.user, admin |-> s.admin]
TokenOf(s) == IF s = None THEN None ELSE s.token

\* isSessionValid and getStoredAuthSession: an expired item counts as none.
IsSessionValid(s) == s # None /\ s.token.born = now
StoredAuthSession == IF IsSessionValid(stored) THEN stored ELSE None

\* A change of the item is told to the other tabs.
Told(t, new, tabs) ==
    IF new = stored
    THEN tabs
    ELSE [u \in Tabs |-> IF u = t THEN tabs[u] ELSE [tabs[u] EXCEPT !.event = TRUE]]

\* The session changed, in storage or in the tab, after the refresh q was sent.
Overtaken(q) ==
    q.kind = "refresh" /\ (q.token # TokenOf(stored) \/ q.seen \notin {Never, tab[q.tab].session})

\* Fault: other windows are not told of a change.
UpdateSessionQuietly(t, s, seen, others) ==
    /\ stored' = s
    /\ tab' = [tab EXCEPT ![t].header = TokenOf(s),
                          ![t].session = IF s = None THEN None
                                         ELSE IF ViewOf(s) = seen THEN @ ELSE ViewOf(s)]
    /\ requests' = others

\* updateSession: stores the session (None: removes it), sets the header and hands the
\* session to React, unless it equals the one in the closure of the caller.
UpdateSession(t, s, seen, others) ==
    /\ stored' = s
    /\ tab' = Told(t, s, [tab EXCEPT
                            ![t].header = TokenOf(s),
                            ![t].session = IF s = None THEN None
                                           ELSE IF ViewOf(s) = seen THEN @ ELSE ViewOf(s)])
    /\ requests' = others

Request(t, kind, user, seen) ==
    [tab |-> t, kind |-> kind, token |-> tab[t].header, user |-> user,
     seen |-> seen, status |-> "lost", answer |-> None]

\* A tab is opened, or reloaded: its requests are forgotten, its closures are new.
Boot(t) ==
    /\ stored' = StoredAuthSession
    /\ tab' = Told(t, StoredAuthSession,
                   [tab EXCEPT ![t] =
                      [away |-> FALSE,
                       session |-> IF StoredAuthSession = None THEN None ELSE ViewOf(stored),
                       header |-> TokenOf(StoredAuthSession),
                       booted |-> StoredAuthSession # None,
                       event |-> FALSE]])

ThisTabs(t) == {q \in requests : q.tab = t}

-----------------------------------------------------------------------------
(* The server *)

\* A token the server accepts.
Accepted(token) ==
    token # None /\ token.born = now /\ token.version = account[token.user].version

NewSession(u) ==
    [token |-> [user |-> u, version |-> account[u].version, born |-> now],
     admin |-> account[u].admin]

Answered(q, status) == [q EXCEPT !.status = status]
Granted(q, u) == [q EXCEPT !.status = "ok", !.answer = NewSession(u)]

\* How a request may end.  A 403 to a call tells of a capability the user lacks; the
\* network may lose the request or its answer.
Answers(q) ==
    {Answered(q, "lost")} \cup
    CASE q.kind = "login" -> {Granted(q, q.user), Answered(q, "403")}
      [] q.kind = "refresh" ->
            IF Accepted(q.token) THEN {Granted(q, q.token.user)} ELSE {Answered(q, "401")}
      [] q.kind = "call" ->
            IF ~Accepted(q.token) THEN {Answered(q, "401")}
            ELSE IF account[q.token.user].admin THEN {Answered(q, "ok")}
            ELSE {Answered(q, "ok"), Answered(q, "403")}
      [] q.kind = "callback" ->   \* "ok" alone: the registration waits for an approval
            {Granted(q, u) : u \in Users} \cup {Answered(q, "ok"), Answered(q, "403")}
      [] q.kind = "bind" -> IF Accepted(q.token) THEN {Answered(q, "ok")} ELSE {Answered(q, "401")}

\* Requests are served in the step that sends them: the server does not see the state
\* of the tabs, nor the tabs the moment of the service.
Send(q, others) ==
    /\ Cardinality(others) < MaxRequests
    /\ \E a \in Answers(q) : requests' = others \cup {a}

\* An administrator gives or takes the capability, or disables the user, or the user
\* sets a new password.
ChangeCapabilities(u) ==
    /\ account' = [account EXCEPT ![u].admin = ~@]
    /\ UNCHANGED <<stored, tab, requests, now, flow, crossed, signedOut>>

ChangePassword(u) ==
    /\ account[u].version < MaxVersion
    /\ account' = [account EXCEPT ![u].version = @ + 1]
    /\ UNCHANGED <<stored, tab, requests, now, flow, crossed, signedOut>>

\* All tokens expire, and so do the authorisation flows.
Expire ==
    /\ now < MaxNow
    /\ now' = now + 1
    /\ UNCHANGED <<stored, tab, requests, account, flow, crossed, signedOut>>

-----------------------------------------------------------------------------
(* What users and timers do *)

\* A tab is opened anew or reloaded.
Reload(t) ==
    /\ Boot(t)
    /\ requests' = requests \ ThisTabs(t)
    /\ UNCHANGED <<account, now, flow, crossed, signedOut>>

\* UserLoginView.tryLogin
TryLogin(t, u) ==
    /\ ~tab[t].away
    /\ tab[t].session = None
    /\ Send(Request(t, "login", u, None), requests)
    /\ signedOut' = FALSE
    /\ UNCHANGED <<stored, tab, account, now, flow, crossed>>

\* The timer, which only runs in an authenticated tab.
RefreshSession(t) ==
    /\ ~tab[t].away
    /\ tab[t].session # None
    /\ Send(Request(t, "refresh", None, tab[t].session), requests)
    /\ UNCHANGED <<stored, tab, account, now, flow, crossed, signedOut>>

\* Any other call of the API by a page.
Call(t) ==
    /\ ~tab[t].away
    /\ tab[t].session # None
    /\ Send(Request(t, "call", None, None), requests)
    /\ UNCHANGED <<stored, tab, account, now, flow, crossed, signedOut>>

\* Fault: the item stays in localStorage.
LogoutTabOnly(t) ==
    /\ ~tab[t].away
    /\ tab[t].session # None
    /\ tab' = [tab EXCEPT ![t].session = None, ![t].header = None]
    /\ signedOut' = ~\E q \in requests : q.kind \in {"login", "callback"}
    /\ UNCHANGED <<stored, requests, account, now, flow, crossed>>

\* logout
Logout(t) ==
    /\ ~tab[t].away
    /\ tab[t].session # None
    /\ UpdateSession(t, None, None, requests)
    /\ signedOut' = ~\E q \in requests : q.kind \in {"login", "callback"}
    /\ UNCHANGED <<account, now, flow, crossed>>

\* Fault: the header is not touched.
SynchronizeSessionOnly(t) ==
    /\ tab[t].event
    /\ ~tab[t].away
    /\ stored' = StoredAuthSession
    /\ tab' = Told(t, StoredAuthSession,
                   [tab EXCEPT ![t].event = FALSE,
                               ![t].session = IF StoredAuthSession = None THEN None
                                              ELSE ViewOf(stored)])
    /\ UNCHANGED <<requests, account, now, flow, crossed, signedOut>>

\* synchronizeSessionState, on a storage event.  Its closure is that of the first render.
SynchronizeSession(t) ==
    /\ tab[t].event
    /\ ~tab[t].away
    /\ stored' = StoredAuthSession
    /\ tab' = Told(t, StoredAuthSession,
                   [tab EXCEPT ![t].event = FALSE,
                               ![t].header = TokenOf(StoredAuthSession),
                               ![t].session = IF StoredAuthSession = None THEN None
                                              ELSE ViewOf(stored)])
    /\ UNCHANGED <<requests, account, now, flow, crossed, signedOut>>

-----------------------------------------------------------------------------
(* Answers *)

\* The 401 interceptor logs the tab out, whichever session the request was sent with.
DeliverUnauthorized(q) ==
    /\ q \in requests
    /\ q.status = "401"
    /\ UpdateSession(q.tab, None, None, requests \ {q})
    /\ UNCHANGED <<account, now, flow, crossed, signedOut>>

\* The 403 interceptor refreshes the session, if the first render of the tab was
\* authenticated: the interceptor is never installed again.
DeliverForbidden(q) ==
    /\ q \in requests
    /\ q.status = "403"
    /\ IF tab[q.tab].booted
       THEN Send(Request(q.tab, "refresh", None, Never), requests \ {q})
       ELSE requests' = requests \ {q}
    /\ UNCHANGED <<stored, tab, account, now, flow, crossed, signedOut>>

\* A new session, from a login, a refresh or an authorisation.  One that has expired on
\* its way is thrown away.
DeliverSession(q) ==
    /\ q \in requests
    /\ q.status = "ok"
    /\ q.answer # None
    /\ IF IsSessionValid(q.answer)
       THEN UpdateSession(q.tab, q.answer, q.seen, requests \ {q})
       ELSE requests' = requests \ {q} /\ UNCHANGED <<stored, tab>>
    /\ crossed' = (crossed \/ Overtaken(q))
    /\ UNCHANGED <<account, now, flow, signedOut>>

\* An answer that leaves the session alone; a network error is logged or shown.
DeliverOther(q) ==
    /\ q \in requests
    /\ q.status = "lost" \/ (q.status = "ok" /\ q.answer = None)
    /\ requests' = requests \ {q}
    /\ UNCHANGED <<stored, tab, account, now, flow, crossed, signedOut>>

-----------------------------------------------------------------------------
(* OpenID Connect *)

\* authenticate of the login page or bindProvider of the profile: the purpose of the flow
\* goes to sessionStorage and the tab leaves for the provider.
Authenticate(t, f) ==
    /\ flow[f] = None
    /\ ~tab[t].away
    /\ flow' = [flow EXCEPT ![f] =
                  [tab |-> t, born |-> now,
                   action |-> IF tab[t].session = None THEN "callback" ELSE "bind"]]
    /\ tab' = [tab EXCEPT ![t].away = TRUE]
    /\ requests' = requests \ ThisTabs(t)
    /\ signedOut' = FALSE
    /\ UNCHANGED <<stored, account, now, crossed>>

\* The request that a tab makes of the server once the provider has sent it back.
Callback(f) ==
    [Request(flow[f].tab, flow[f].action, None, Never) EXCEPT !.token = TokenOf(StoredAuthSession)]

\* OAuthAuthorizeView.authorize, in a tab at /oauth/callback.  The purpose is taken out
\* of sessionStorage before anything else, so that a reload finds nothing.
Authorize(f) ==
    /\ flow[f] \notin {None, Done}
    /\ Boot(flow[f].tab)
    /\ LET others == requests \ ThisTabs(flow[f].tab)
       IN  IF flow[f].born < now
           THEN requests' = others
           ELSE Send(Callback(f), others)
    /\ flow' = [flow EXCEPT ![f] = Done]
    /\ signedOut' = (signedOut /\ flow[f].born < now)
    /\ UNCHANGED <<account, now, crossed>>

-----------------------------------------------------------------------------
Init ==
    /\ stored = None
    /\ tab = [t \in Tabs |-> [away |-> FALSE, session |-> None, header |-> None,
                             booted |-> FALSE, event |-> FALSE]]
    /\ requests = {}
    /\ account = [u \in Users |-> [version |-> 0, admin |-> TRUE]]
    /\ now = 0
    /\ flow = [f \in Flows |-> None]
    /\ crossed = FALSE
    /\ signedOut = FALSE

Deliver(q) ==
    DeliverUnauthorized(q) \/ DeliverForbidden(q) \/ DeliverSession(q) \/ DeliverOther(q)

Next ==
    \/ \E t \in Tabs : Reload(t) \/ RefreshSession(t) \/ Call(t) \/ Logout(t) \/ SynchronizeSession(t)
    \/ \E t \in Tabs, u \in Users : TryLogin(t, u)
    \/ \E t \in Tabs, f \in Flows : Authenticate(t, f)
    \/ \E f \in Flows : Authorize(f)
    \/ \E q \in requests : Deliver(q)
    \/ \E u \in Users : ChangeCapabilities(u) \/ ChangePassword(u)
    \/ Expire

Spec == Init /\ [][Next]_vars

-----------------------------------------------------------------------------
(* Properties *)

TypeOK ==
    /\ stored \in Sessions \cup {None}
    /\ tab \in [Tabs -> TabStates]
    /\ requests \subseteq Requests
    /\ account \in [Users -> [version : 0..MaxVersion, admin : BOOLEAN]]
    /\ now \in 0..MaxNow
    /\ flow \in [Flows -> FlowStates]
    /\ {crossed, signedOut} \subseteq BOOLEAN

Settled(t) == ~tab[t].away /\ ~tab[t].event

\* Whatever overlaps, a tab that has heard of all changes sends the token in storage:
\* every call of setTokenForAPI reads it back from there.
HeadersFollowStorage == \A t \in Tabs : Settled(t) => tab[t].header = TokenOf(stored)

\* What a tab shows is the session in storage, and so the one its requests are made
\* with, as long as no change overtakes a refresh.
SessionsAgree ==
    \A t \in Tabs : Settled(t) => tab[t].session = IF stored = None THEN None ELSE ViewOf(stored)
SerialSessionsAgree == ~crossed => SessionsAgree

\* "Clears session state": after a logout nobody is logged in before the next login.
SignedOutStays == signedOut => stored = None
SerialSignedOutStays == ~crossed => SignedOutStays
-----------------------------------------------------------------------------
(* The inductive invariant behind the three *)

\* What the sender's closure holds goes with the kind of the request, and a refresh is
\* answered with a session only if it was sent with a token.
RequestOf(q) ==
    /\ q.kind = "login" => q.seen = None
    /\ q.kind = "callback" => q.seen = Never
    /\ q.answer # None => q.kind \in {"login", "refresh", "callback"}
    /\ q.kind = "refresh" /\ q.answer # None => q.token # None

\* After a logout no login is on its way.
NobodyLogsIn == signedOut => \A q \in requests : q.kind \notin {"login", "callback"}

IInv ==
    /\ TypeOK
    /\ \A q \in requests : RequestOf(q)
    /\ NobodyLogsIn
    /\ HeadersFollowStorage
    /\ SerialSessionsAgree
    /\ SerialSignedOutStays
=============================================================================
