--------------------------- MODULE Session_proofs ---------------------------
(***************************************************************************)
(* Proofs about Session: any number of tabs, users, flows and requests,    *)
(* and any number of changes on the server.                                *)
(***************************************************************************)
EXTENDS Session, TLAPS

-----------------------------------------------------------------------------
(* Sessions and their views *)

LEMMA ViewType ==
    ASSUME NEW s \in Sessions
    PROVE  /\ ViewOf(s) \in Views
           /\ ViewOf(s) # None
           /\ ViewOf(s) # Never
           /\ TokenOf(s) \in Tokens
           /\ TokenOf(s) # None
           /\ s # None
<1>1. s.token \in Tokens /\ s.admin \in BOOLEAN /\ s # None
  BY SessionAssumption DEF Sessions
<1>2. s.token.user \in Users
  BY <1>1 DEF Tokens
<1>3. ViewOf(s) \in Views
  BY <1>1, <1>2 DEF ViewOf, Views
<1>4. ViewOf(s).user = s.token.user /\ Never.user = None
  BY DEF ViewOf, Never
<1>5. ViewOf(s) # Never
  BY <1>2, <1>4, SessionAssumption
<1>6. QED
  BY <1>1, <1>3, <1>5, SessionAssumption DEF TokenOf

\* What a tab shows of the item s.
Shown(s) == IF s = None THEN None ELSE ViewOf(s)

LEMMA StoredType ==
    ASSUME TypeOK
    PROVE  /\ StoredAuthSession \in Sessions \cup {None}
           /\ stored = None => StoredAuthSession = None
           /\ StoredAuthSession # None => stored = StoredAuthSession
           /\ TokenOf(StoredAuthSession) \in Tokens \cup {None}
           /\ Shown(StoredAuthSession) \in Views \cup {None}
<1>1. /\ StoredAuthSession \in Sessions \cup {None}
      /\ stored = None => StoredAuthSession = None
      /\ StoredAuthSession # None => stored = StoredAuthSession
  BY DEF TypeOK, StoredAuthSession, IsSessionValid
<1>2. QED
  BY <1>1, ViewType DEF TokenOf, Shown

-----------------------------------------------------------------------------
(* A change of the item by a tab *)

LEMMA ToldTabs ==
    ASSUME NEW t \in Tabs, NEW new, NEW tabs \in [Tabs -> TabStates]
    PROVE  /\ Told(t, new, tabs) \in [Tabs -> TabStates]
           /\ \A u \in Tabs :
                /\ Told(t, new, tabs)[u].away = tabs[u].away
                /\ Told(t, new, tabs)[u].session = tabs[u].session
                /\ Told(t, new, tabs)[u].header = tabs[u].header
                /\ u = t \/ new = stored => Told(t, new, tabs)[u] = tabs[u]
                /\ u # t /\ new # stored => Told(t, new, tabs)[u].event
<1>1. CASE new = stored
  BY <1>1 DEF Told
<1>2. CASE new # stored
  <2>1. Told(t, new, tabs) =
          [u \in Tabs |-> IF u = t THEN tabs[u] ELSE [tabs[u] EXCEPT !.event = TRUE]]
    BY <1>2 DEF Told
  <2>2. ASSUME NEW u \in Tabs
        PROVE  /\ [tabs[u] EXCEPT !.event = TRUE] \in TabStates
               /\ [tabs[u] EXCEPT !.event = TRUE].away = tabs[u].away
               /\ [tabs[u] EXCEPT !.event = TRUE].session = tabs[u].session
               /\ [tabs[u] EXCEPT !.event = TRUE].header = tabs[u].header
               /\ [tabs[u] EXCEPT !.event = TRUE].event
    BY DEF TabStates
  <2>3. QED
    BY <1>2, <2>1, <2>2
<1>3. QED
  BY <1>1, <1>2

Follows(t) == Settled(t) => tab[t].header = TokenOf(stored)
Agrees(t) == Settled(t) => tab[t].session = Shown(stored)

\* Whoever changes the item holds its token; the others follow once they are told.
LEMMA Changed ==
    ASSUME TypeOK, HeadersFollowStorage,
           NEW t \in Tabs, NEW e \in TabStates, NEW new \in Sessions \cup {None},
           stored' = new, tab' = Told(t, new, [tab EXCEPT ![t] = e]),
           e.header = TokenOf(new)
    PROVE  /\ tab' \in [Tabs -> TabStates]
           /\ HeadersFollowStorage'
           /\ SessionsAgree /\ e.session = Shown(new) => SessionsAgree'
<1> DEFINE tabs == [tab EXCEPT ![t] = e]
<1>1. tabs \in [Tabs -> TabStates] /\ tabs[t] = e /\ \A u \in Tabs : u # t => tabs[u] = tab[u]
  BY DEF TypeOK
<1>2. tab' = Told(t, new, tabs)
  OBVIOUS
<1> HIDE DEF tabs
<1>3. /\ tab' \in [Tabs -> TabStates]
      /\ tab'[t] = e
      /\ \A u \in Tabs : u # t => /\ new = stored => tab'[u] = tab[u]
                                  /\ new # stored => tab'[u].event
  <2>1. /\ Told(t, new, tabs) \in [Tabs -> TabStates]
        /\ \A u \in Tabs :
             /\ u = t \/ new = stored => Told(t, new, tabs)[u] = tabs[u]
             /\ u # t /\ new # stored => Told(t, new, tabs)[u].event
    BY <1>1, ToldTabs
  <2>2. QED
    BY <1>1, <1>2, <2>1
<1>4. ASSUME NEW u \in Tabs, Settled(u)' PROVE tab'[u].header = TokenOf(stored')
  <2>1. CASE u = t
    BY <1>3, <2>1
  <2>2. CASE u # t
    BY <1>3, <1>4, <2>2 DEF Settled, HeadersFollowStorage
  <2>3. QED
    BY <2>1, <2>2
<1>5. ASSUME SessionsAgree, e.session = Shown(new), NEW u \in Tabs, Settled(u)'
      PROVE  tab'[u].session = Shown(stored')
  <2>1. CASE u = t
    BY <1>3, <1>5, <2>1
  <2>2. CASE u # t
    BY <1>3, <1>5, <2>2 DEF Settled, SessionsAgree, Shown
  <2>3. QED
    BY <2>1, <2>2
<1>6. HeadersFollowStorage'
  BY <1>4 DEF HeadersFollowStorage, TokenOf
<1>7. SessionsAgree /\ e.session = Shown(new) => SessionsAgree'
  BY <1>5 DEF SessionsAgree, Shown
<1>8. QED
  BY <1>3, <1>6, <1>7

LEMMA UpdateSessionTabs ==
    ASSUME TypeOK, HeadersFollowStorage,
           NEW t \in Tabs, NEW s \in Sessions \cup {None}, NEW seen, NEW others,
           UpdateSession(t, s, seen, others)
    PROVE  /\ stored' = s
           /\ requests' = others
           /\ tab' \in [Tabs -> TabStates]
           /\ HeadersFollowStorage'
           /\ SessionsAgree /\ (s # None /\ ViewOf(s) = seen => tab[t].session = seen)
                => SessionsAgree'
<1> DEFINE new == IF s = None THEN None
                  ELSE IF ViewOf(s) = seen THEN tab[t].session ELSE ViewOf(s)
           e == [tab[t] EXCEPT !.header = TokenOf(s), !.session = new]
<1>1. tab \in [Tabs -> TabStates] /\ tab[t] \in TabStates
  BY DEF TypeOK
<1>2. new \in Views \cup {None} /\ TokenOf(s) \in Tokens \cup {None}
  BY <1>1, ViewType DEF TabStates, TokenOf
<1>3. [tab EXCEPT ![t].header = TokenOf(s),
                  ![t].session = IF s = None THEN None
                                 ELSE IF ViewOf(s) = seen THEN @ ELSE ViewOf(s)]
        = [tab EXCEPT ![t] = e]
  BY <1>1 DEF TabStates
<1>4. /\ stored' = s
      /\ requests' = others
      /\ tab' = Told(t, s, [tab EXCEPT ![t] = e])
  BY <1>3 DEF UpdateSession
<1>5. new = Shown(s) \/ (s # None /\ ViewOf(s) = seen /\ new = tab[t].session)
  BY DEF Shown
<1> HIDE DEF new
<1>6. e \in TabStates /\ e.header = TokenOf(s) /\ e.session = new
  BY <1>1, <1>2 DEF TabStates
<1> HIDE DEF e
<1>7. (s # None /\ ViewOf(s) = seen => tab[t].session = seen) => e.session = Shown(s)
  BY <1>5, <1>6 DEF Shown
<1>8. QED
  BY <1>4, <1>6, <1>7, Changed

LEMMA BootTabs ==
    ASSUME TypeOK, HeadersFollowStorage, NEW t \in Tabs, Boot(t)
    PROVE  /\ stored' = StoredAuthSession
           /\ tab' \in [Tabs -> TabStates]
           /\ HeadersFollowStorage'
           /\ SessionsAgree => SessionsAgree'
<1> DEFINE e == [away |-> FALSE,
                 session |-> IF StoredAuthSession = None THEN None ELSE ViewOf(stored),
                 header |-> TokenOf(StoredAuthSession),
                 booted |-> StoredAuthSession # None,
                 event |-> FALSE]
<1>1. stored' = StoredAuthSession /\ tab' = Told(t, StoredAuthSession, [tab EXCEPT ![t] = e])
  BY DEF Boot
<1>2. e.session = Shown(StoredAuthSession) /\ e.header = TokenOf(StoredAuthSession)
  BY StoredType DEF Shown
<1>3. (StoredAuthSession # None) \in BOOLEAN
  OBVIOUS
<1>4. e \in TabStates
  BY <1>2, <1>3, StoredType DEF TabStates
<1> HIDE DEF e
<1>5. QED
  BY <1>1, <1>2, <1>4, StoredType, Changed
-----------------------------------------------------------------------------
(* Requests and their answers *)

LEMMA NewSessionType ==
    ASSUME TypeOK, NEW u \in Users
    PROVE  NewSession(u) \in Sessions
<1>1. account[u] \in [version : 0..MaxVersion, admin : BOOLEAN] /\ now \in 0..MaxNow
  BY DEF TypeOK
<1>2. [user |-> u, version |-> account[u].version, born |-> now] \in Tokens
  BY <1>1 DEF Tokens
<1>3. QED
  BY <1>1, <1>2 DEF NewSession, Sessions

LEMMA RequestType ==
    ASSUME TypeOK, NEW t \in Tabs, NEW kind \in {"login", "refresh", "call", "callback", "bind"},
           NEW user \in Users \cup {None}, NEW seen \in Views \cup {None, Never}
    PROVE  /\ Request(t, kind, user, seen) \in Requests
           /\ Request(t, kind, user, seen).kind = kind
           /\ Request(t, kind, user, seen).user = user
           /\ Request(t, kind, user, seen).seen = seen
           /\ Request(t, kind, user, seen).answer = None
<1>1. tab[t].header \in Tokens \cup {None}
  BY DEF TypeOK, TabStates
<1>2. QED
  BY <1>1 DEF Request, Requests

\* An answer is of its request; a session is only granted to who logs in, or has a token.
LEMMA AnswersType ==
    ASSUME TypeOK, NEW q \in Requests, q.answer = None, q.kind = "login" => q.user \in Users,
           NEW a \in Answers(q)
    PROVE  /\ a \in Requests
           /\ a.kind = q.kind
           /\ a.seen = q.seen
           /\ a.token = q.token
           /\ a.answer # None =>
                a.kind \in {"login", "refresh", "callback"} /\ (a.kind = "refresh" => a.token # None)
<1>1. ASSUME NEW st \in {"ok", "401", "403", "lost"}, a = Answered(q, st)
      PROVE  /\ a \in Requests
             /\ a.kind = q.kind
             /\ a.seen = q.seen
             /\ a.token = q.token
             /\ a.answer = None
  BY <1>1 DEF Answered, Requests
<1>2. ASSUME NEW u \in Users, a = Granted(q, u)
      PROVE  /\ a \in Requests
             /\ a.kind = q.kind
             /\ a.seen = q.seen
             /\ a.token = q.token
  <2>1. NewSession(u) \in Sessions
    BY NewSessionType
  <2>2. QED
    BY <1>2, <2>1 DEF Granted, Requests
<1>3. q.kind \in {"login", "refresh", "call", "callback", "bind"} /\ q.token \in Tokens \cup {None}
  BY DEF Requests
<1>4. \/ \E st \in {"ok", "401", "403", "lost"} : a = Answered(q, st)
      \/ q.kind \in {"login", "callback"} /\ \E u \in Users : a = Granted(q, u)
      \/ q.kind = "refresh" /\ q.token # None /\ a = Granted(q, q.token.user)
  <2>1. CASE q.kind = "login"
    BY <2>1 DEF Answers
  <2>2. CASE q.kind = "refresh"
    BY <2>2 DEF Answers, Accepted
  <2>3. CASE q.kind = "call"
    BY <2>3 DEF Answers
  <2>4. CASE q.kind = "callback"
    BY <2>4 DEF Answers
  <2>5. CASE q.kind = "bind"
    BY <2>5 DEF Answers
  <2>6. QED
    BY <1>3, <2>1, <2>2, <2>3, <2>4, <2>5
<1>5. q.token # None => q.token.user \in Users
  BY <1>3 DEF Tokens
<1>6. QED
  BY <1>1, <1>2, <1>3, <1>4, <1>5

LEMMA Sent ==
    ASSUME TypeOK, \A a \in requests : RequestOf(a), NEW others \in SUBSET requests,
           NEW q \in Requests, Send(q, others), q.answer = None,
           q.kind = "login" => q.user \in Users /\ q.seen = None,
           q.kind = "callback" => q.seen = Never
    PROVE  /\ requests' \subseteq Requests
           /\ \A a \in requests' : RequestOf(a)
           /\ \A a \in requests' : a \in requests \/ a.kind = q.kind
<1>1. PICK a \in Answers(q) : requests' = others \cup {a}
  BY DEF Send
<1>2. /\ a \in Requests
      /\ a.kind = q.kind
      /\ a.seen = q.seen
      /\ a.token = q.token
      /\ a.answer # None =>
           a.kind \in {"login", "refresh", "callback"} /\ (a.kind = "refresh" => a.token # None)
  BY <1>1, AnswersType
<1>3. RequestOf(a)
  BY <1>2 DEF RequestOf
<1>4. QED
  BY <1>1, <1>2, <1>3 DEF TypeOK

-----------------------------------------------------------------------------
(* The steps *)

LEMMA InitInv == Init => IInv
<1> SUFFICES ASSUME Init PROVE IInv
  OBVIOUS
<1>1. [away |-> FALSE, session |-> None, header |-> None, booted |-> FALSE, event |-> FALSE]
        \in TabStates
  BY DEF TabStates
<1>2. tab \in [Tabs -> TabStates]
  BY <1>1 DEF Init
<1>3. account \in [Users -> [version : 0..MaxVersion, admin : BOOLEAN]] /\ now \in 0..MaxNow
  BY SessionAssumption DEF Init
<1>4. flow \in [Flows -> FlowStates]
  BY DEF Init, FlowStates
<1>5. TypeOK
  BY <1>2, <1>3, <1>4 DEF Init, TypeOK
<1>6. \A t \in Tabs : tab[t].header = None /\ tab[t].session = None
  BY DEF Init
<1>7. HeadersFollowStorage /\ SerialSessionsAgree
  BY <1>6 DEF Init, HeadersFollowStorage, SerialSessionsAgree, SessionsAgree, TokenOf
<1>8. QED
  BY <1>5, <1>7 DEF Init, IInv, NobodyLogsIn, SerialSignedOutStays, SignedOutStays

\* A step that neither changes the item nor a tab that is there.
LEMMA Untouched ==
    ASSUME IInv, UNCHANGED <<stored, tab, crossed>>,
           requests' \subseteq Requests,
           \A a \in requests' : RequestOf(a),
           signedOut' \in BOOLEAN,
           signedOut' => signedOut /\ \A a \in requests' : a.kind \notin {"login", "callback"},
           account' \in [Users -> [version : 0..MaxVersion, admin : BOOLEAN]],
           now' \in 0..MaxNow,
           flow' \in [Flows -> FlowStates]
    PROVE  IInv'
<1>1. TypeOK'
  BY DEF IInv, TypeOK
<1>2. \A a \in requests' : RequestOf(a)'
  BY DEF RequestOf
<1>3. HeadersFollowStorage' /\ SessionsAgree' = SessionsAgree
  BY DEF IInv, HeadersFollowStorage, SessionsAgree, Settled, TokenOf
<1>4. SerialSessionsAgree'
  BY <1>3 DEF IInv, SerialSessionsAgree
<1>5. NobodyLogsIn' /\ SerialSignedOutStays'
  BY DEF IInv, NobodyLogsIn, SerialSignedOutStays, SignedOutStays
<1>6. QED
  BY <1>1, <1>2, <1>3, <1>4, <1>5 DEF IInv

\* A request of a tab, or of an interceptor in it.
LEMMA SendInv ==
    ASSUME IInv, NEW t \in Tabs, NEW kind \in {"login", "refresh", "call"},
           NEW user \in Users \cup {None}, NEW seen \in Views \cup {None, Never},
           NEW others \in SUBSET requests,
           Send(Request(t, kind, user, seen), others),
           kind = "login" => user \in Users /\ seen = None,
           UNCHANGED <<stored, tab, account, now, flow, crossed>>,
           IF kind = "login" THEN signedOut' = FALSE ELSE signedOut' = signedOut
    PROVE  IInv'
<1> DEFINE q == Request(t, kind, user, seen)
<1>1. q \in Requests /\ q.kind = kind /\ q.user = user /\ q.seen = seen /\ q.answer = None
  BY RequestType DEF IInv
<1>2. Send(q, others)
  OBVIOUS
<1> HIDE DEF q
<1>3. /\ requests' \subseteq Requests
      /\ \A a \in requests' : RequestOf(a)
      /\ \A a \in requests' : a \in requests \/ a.kind = kind
  BY <1>1, <1>2, Sent DEF IInv
<1>4. signedOut' => signedOut /\ \A a \in requests' : a.kind \notin {"login", "callback"}
  BY <1>3 DEF IInv, NobodyLogsIn
<1>5. /\ signedOut' \in BOOLEAN
      /\ account' \in [Users -> [version : 0..MaxVersion, admin : BOOLEAN]]
      /\ now' \in 0..MaxNow
      /\ flow' \in [Flows -> FlowStates]
  BY DEF IInv, TypeOK
<1>6. QED
  BY <1>3, <1>4, <1>5, Untouched

LEMMA ServerInv ==
    ASSUME IInv, (\E u \in Users : ChangeCapabilities(u) \/ ChangePassword(u)) \/ Expire
    PROVE  IInv'
<1>1. ASSUME NEW u \in Users, ChangeCapabilities(u) \/ ChangePassword(u)
      PROVE  account' \in [Users -> [version : 0..MaxVersion, admin : BOOLEAN]]
  <2>1. /\ account \in [Users -> [version : 0..MaxVersion, admin : BOOLEAN]]
        /\ account[u].version \in 0..MaxVersion /\ account[u].admin \in BOOLEAN
    BY DEF IInv, TypeOK
  <2>2. CASE ChangeCapabilities(u)
    <3>1. [account[u] EXCEPT !.admin = ~@] \in [version : 0..MaxVersion, admin : BOOLEAN]
      BY <2>1
    <3>2. account' = [account EXCEPT ![u] = [account[u] EXCEPT !.admin = ~@]]
      BY <2>1, <2>2 DEF ChangeCapabilities
    <3>3. QED
      BY <2>1, <3>1, <3>2
  <2>3. CASE ChangePassword(u)
    <3>1. [account[u] EXCEPT !.version = @ + 1] \in [version : 0..MaxVersion, admin : BOOLEAN]
      BY <2>1, <2>3, SessionAssumption DEF ChangePassword
    <3>2. account' = [account EXCEPT ![u] = [account[u] EXCEPT !.version = @ + 1]]
      BY <2>1, <2>3 DEF ChangePassword
    <3>3. QED
      BY <2>1, <3>1, <3>2
  <2>4. QED
    BY <1>1, <2>2, <2>3
<1>2. Expire => now' \in 0..MaxNow
  BY SessionAssumption DEF IInv, TypeOK, Expire
<1>3. /\ account' \in [Users -> [version : 0..MaxVersion, admin : BOOLEAN]]
      /\ now' \in 0..MaxNow
  BY <1>1, <1>2 DEF IInv, TypeOK, Expire, ChangeCapabilities, ChangePassword
<1>4. UNCHANGED <<stored, tab, requests, flow, crossed, signedOut>>
  BY DEF Expire, ChangeCapabilities, ChangePassword
<1>5. /\ requests' \subseteq Requests
      /\ \A a \in requests' : RequestOf(a)
      /\ signedOut' \in BOOLEAN
      /\ signedOut' => signedOut /\ \A a \in requests' : a.kind \notin {"login", "callback"}
      /\ flow' \in [Flows -> FlowStates]
  BY <1>4 DEF IInv, TypeOK, NobodyLogsIn
<1>6. QED
  BY <1>3, <1>4, <1>5, Untouched

\* A step that changes the item, or stores again what is there.
LEMMA Stored ==
    ASSUME IInv, NEW s \in Sessions \cup {None}, stored' = s,
           tab' \in [Tabs -> TabStates],
           HeadersFollowStorage',
           crossed' \in BOOLEAN, crossed => crossed',
           ~crossed' /\ SessionsAgree => SessionsAgree',
           requests' \subseteq Requests,
           \A a \in requests' : RequestOf(a),
           UNCHANGED <<account, now>>,
           flow' \in [Flows -> FlowStates],
           signedOut' \in BOOLEAN,
           signedOut' => \A a \in requests' : a.kind \notin {"login", "callback"},
           ~crossed' /\ signedOut' => s = None
    PROVE  IInv'
<1>1. TypeOK'
  BY DEF IInv, TypeOK
<1>2. \A a \in requests' : RequestOf(a)'
  BY DEF RequestOf
<1>3. SerialSessionsAgree'
  BY DEF IInv, SerialSessionsAgree
<1>4. NobodyLogsIn' /\ SerialSignedOutStays'
  BY DEF NobodyLogsIn, SerialSignedOutStays, SignedOutStays
<1>5. QED
  BY <1>1, <1>2, <1>3, <1>4 DEF IInv

LEMMA ReloadInv ==
    ASSUME IInv, NEW t \in Tabs, Reload(t)
    PROVE  IInv'
<1>1. /\ stored' = StoredAuthSession
      /\ tab' \in [Tabs -> TabStates]
      /\ HeadersFollowStorage'
      /\ SessionsAgree => SessionsAgree'
  BY BootTabs DEF IInv, Reload
<1>2. requests' \subseteq requests /\ UNCHANGED <<account, now, flow, crossed, signedOut>>
  BY DEF Reload
<1>3. /\ requests' \subseteq Requests
      /\ \A a \in requests' : RequestOf(a)
      /\ signedOut' => \A a \in requests' : a.kind \notin {"login", "callback"}
      /\ signedOut' \in BOOLEAN /\ crossed' \in BOOLEAN /\ crossed' = crossed
      /\ flow' \in [Flows -> FlowStates]
  BY <1>2 DEF IInv, TypeOK, NobodyLogsIn
<1>4. ~crossed' /\ signedOut' => StoredAuthSession = None
  BY <1>2, StoredType DEF IInv, SerialSignedOutStays, SignedOutStays
<1>5. StoredAuthSession \in Sessions \cup {None}
  BY StoredType DEF IInv
<1>6. QED
  BY <1>1, <1>2, <1>3, <1>4, <1>5, Stored

LEMMA SynchronizeInv ==
    ASSUME IInv, NEW t \in Tabs, SynchronizeSession(t)
    PROVE  IInv'
<1> DEFINE e == [tab[t] EXCEPT !.event = FALSE,
                               !.header = TokenOf(StoredAuthSession),
                               !.session = Shown(StoredAuthSession)]
<1>1. /\ StoredAuthSession \in Sessions \cup {None}
      /\ StoredAuthSession # None => stored = StoredAuthSession
      /\ stored = None => StoredAuthSession = None
      /\ TokenOf(StoredAuthSession) \in Tokens \cup {None}
      /\ Shown(StoredAuthSession) \in Views \cup {None}
  BY StoredType DEF IInv
<1>2. tab \in [Tabs -> TabStates] /\ tab[t] \in TabStates
  BY DEF IInv, TypeOK
<1>3. Shown(StoredAuthSession) = IF StoredAuthSession = None THEN None ELSE ViewOf(stored)
  BY <1>1 DEF Shown
<1>4. [tab EXCEPT ![t].event = FALSE,
                  ![t].header = TokenOf(StoredAuthSession),
                  ![t].session = IF StoredAuthSession = None THEN None ELSE ViewOf(stored)]
        = [tab EXCEPT ![t] = e]
  BY <1>2, <1>3 DEF TabStates
<1>5. stored' = StoredAuthSession /\ tab' = Told(t, StoredAuthSession, [tab EXCEPT ![t] = e])
  BY <1>4 DEF SynchronizeSession
<1>6. /\ e \in TabStates
      /\ e.header = TokenOf(StoredAuthSession)
      /\ e.session = Shown(StoredAuthSession)
  BY <1>1, <1>2 DEF TabStates
<1> HIDE DEF e
<1>7. /\ tab' \in [Tabs -> TabStates]
      /\ HeadersFollowStorage'
      /\ SessionsAgree => SessionsAgree'
  BY <1>1, <1>5, <1>6, Changed DEF IInv
<1>8. UNCHANGED <<requests, account, now, flow, crossed, signedOut>>
  BY DEF SynchronizeSession
<1>9. /\ requests' \subseteq Requests
      /\ \A a \in requests' : RequestOf(a)
      /\ signedOut' => \A a \in requests' : a.kind \notin {"login", "callback"}
      /\ signedOut' \in BOOLEAN /\ crossed' \in BOOLEAN /\ crossed' = crossed
      /\ flow' \in [Flows -> FlowStates]
  BY <1>8 DEF IInv, TypeOK, NobodyLogsIn
<1>10. ~crossed' /\ signedOut' => StoredAuthSession = None
  BY <1>1, <1>8 DEF IInv, SerialSignedOutStays, SignedOutStays
<1>11. StoredAuthSession \in Sessions \cup {None} /\ stored' = StoredAuthSession
  BY <1>1, <1>5
<1>12. QED
  BY <1>7, <1>8, <1>9, <1>10, <1>11, Stored
LEMMA TryLoginInv ==
    ASSUME IInv, NEW t \in Tabs, NEW u \in Users, TryLogin(t, u)
    PROVE  IInv'
<1>1. /\ Send(Request(t, "login", u, None), requests)
      /\ signedOut' = FALSE
      /\ UNCHANGED <<stored, tab, account, now, flow, crossed>>
  BY DEF TryLogin
<1>2. QED
  BY <1>1, SendInv

LEMMA RefreshSessionInv ==
    ASSUME IInv, NEW t \in Tabs, RefreshSession(t)
    PROVE  IInv'
<1>1. /\ Send(Request(t, "refresh", None, tab[t].session), requests)
      /\ signedOut' = signedOut
      /\ UNCHANGED <<stored, tab, account, now, flow, crossed>>
  BY DEF RefreshSession
<1>2. tab[t].session \in Views \cup {None}
  BY DEF IInv, TypeOK, TabStates
<1>3. QED
  BY <1>1, <1>2, SendInv

LEMMA CallInv ==
    ASSUME IInv, NEW t \in Tabs, Call(t)
    PROVE  IInv'
<1>1. /\ Send(Request(t, "call", None, None), requests)
      /\ signedOut' = signedOut
      /\ UNCHANGED <<stored, tab, account, now, flow, crossed>>
  BY DEF Call
<1>2. QED
  BY <1>1, SendInv

LEMMA LogoutInv ==
    ASSUME IInv, NEW t \in Tabs, Logout(t)
    PROVE  IInv'
<1>1. /\ stored' = None
      /\ requests' = requests
      /\ tab' \in [Tabs -> TabStates]
      /\ HeadersFollowStorage'
      /\ SessionsAgree => SessionsAgree'
  BY UpdateSessionTabs DEF IInv, Logout
<1>2. UNCHANGED <<account, now, flow, crossed>>
  BY DEF Logout
<1>3. signedOut' \in BOOLEAN /\ (signedOut' => \A a \in requests : a.kind \notin {"login", "callback"})
  BY DEF Logout
<1>4. /\ requests' \subseteq Requests
      /\ \A a \in requests' : RequestOf(a)
      /\ crossed' \in BOOLEAN /\ crossed' = crossed
      /\ flow' \in [Flows -> FlowStates]
  BY <1>1, <1>2 DEF IInv, TypeOK
<1>5. QED
  BY <1>1, <1>2, <1>3, <1>4, Stored

LEMMA DeliverUnauthorizedInv ==
    ASSUME IInv, NEW q \in requests, DeliverUnauthorized(q)
    PROVE  IInv'
<1> DEFINE t == q.tab
           others == requests \ {q}
<1>1. t \in Tabs /\ UpdateSession(t, None, None, others)
  BY DEF IInv, TypeOK, Requests, DeliverUnauthorized
<1>2. /\ stored' = None
      /\ requests' = others
      /\ tab' \in [Tabs -> TabStates]
      /\ HeadersFollowStorage'
      /\ SessionsAgree => SessionsAgree'
  <2> HIDE DEF t, others
  <2>1. None \in Sessions \cup {None} /\ TypeOK /\ HeadersFollowStorage
    BY DEF IInv
  <2>2. QED
    BY <1>1, <2>1, UpdateSessionTabs
<1>3. UNCHANGED <<account, now, flow, crossed, signedOut>>
  BY DEF DeliverUnauthorized
<1>4. /\ requests' \subseteq Requests
      /\ \A a \in requests' : RequestOf(a)
      /\ signedOut' => \A a \in requests' : a.kind \notin {"login", "callback"}
      /\ signedOut' \in BOOLEAN /\ crossed' \in BOOLEAN /\ crossed' = crossed
      /\ flow' \in [Flows -> FlowStates]
  BY <1>2, <1>3 DEF IInv, TypeOK, NobodyLogsIn
<1>5. QED
  BY <1>2, <1>3, <1>4, Stored

LEMMA ForgetInv ==
    ASSUME IInv, NEW q \in requests, requests' = requests \ {q},
           UNCHANGED <<stored, tab, account, now, flow, crossed, signedOut>>
    PROVE  IInv'
<1>1. /\ requests' \subseteq Requests
      /\ \A a \in requests' : RequestOf(a)
      /\ signedOut' \in BOOLEAN
      /\ signedOut' => signedOut /\ \A a \in requests' : a.kind \notin {"login", "callback"}
      /\ account' \in [Users -> [version : 0..MaxVersion, admin : BOOLEAN]]
      /\ now' \in 0..MaxNow
      /\ flow' \in [Flows -> FlowStates]
  BY DEF IInv, TypeOK, NobodyLogsIn
<1>2. QED
  BY <1>1, Untouched

LEMMA DeliverForbiddenInv ==
    ASSUME IInv, NEW q \in requests, DeliverForbidden(q)
    PROVE  IInv'
<1>1. q.tab \in Tabs
  BY DEF IInv, TypeOK, Requests
<1>2. UNCHANGED <<stored, tab, account, now, flow, crossed, signedOut>>
  BY DEF DeliverForbidden
<1>3. CASE tab[q.tab].booted
  <2>1. Send(Request(q.tab, "refresh", None, Never), requests \ {q})
    BY <1>3 DEF DeliverForbidden
  <2>2. QED
    BY <1>1, <1>2, <2>1, SendInv
<1>4. CASE ~tab[q.tab].booted
  <2>1. requests' = requests \ {q}
    BY <1>4 DEF DeliverForbidden
  <2>2. QED
    BY <1>2, <2>1, ForgetInv
<1>5. QED
  BY <1>3, <1>4

LEMMA DeliverOtherInv ==
    ASSUME IInv, NEW q \in requests, DeliverOther(q)
    PROVE  IInv'
BY ForgetInv DEF DeliverOther

\* Only a refresh can be overtaken: a login has been sent by a tab that showed no session,
\* an authorisation by one that has just been opened.
LEMMA DeliverSessionInv ==
    ASSUME IInv, NEW q \in requests, DeliverSession(q)
    PROVE  IInv'
<1>1. /\ q.tab \in Tabs
      /\ q.answer \in Sessions
      /\ q.kind \in {"login", "refresh", "callback"}
      /\ RequestOf(q)
      /\ q.token \in Tokens \cup {None}
  BY DEF IInv, TypeOK, Requests, RequestOf, DeliverSession
<1>2. UNCHANGED <<account, now, flow, signedOut>> /\ crossed' = (crossed \/ Overtaken(q))
  BY DEF DeliverSession
<1>3. crossed' \in BOOLEAN /\ crossed \in BOOLEAN /\ (crossed => crossed')
  <2>1. CASE Overtaken(q)
    BY <1>2, <2>1 DEF IInv, TypeOK
  <2>2. CASE ~Overtaken(q)
    BY <1>2, <2>2 DEF IInv, TypeOK
  <2>3. QED
    BY <2>1, <2>2
<1>4. requests' = requests \ {q}
  BY DEF DeliverSession, UpdateSession
<1>5. /\ requests' \subseteq Requests
      /\ \A a \in requests' : RequestOf(a)
      /\ signedOut' => \A a \in requests' : a.kind \notin {"login", "callback"}
      /\ signedOut' \in BOOLEAN
      /\ flow' \in [Flows -> FlowStates]
  BY <1>2, <1>4 DEF IInv, TypeOK, NobodyLogsIn
<1>6. CASE IsSessionValid(q.answer)
  <2>1. UpdateSession(q.tab, q.answer, q.seen, requests \ {q})
    BY <1>6 DEF DeliverSession
  <2>2. /\ stored' = q.answer
        /\ tab' \in [Tabs -> TabStates]
        /\ HeadersFollowStorage'
        /\ SessionsAgree /\ (ViewOf(q.answer) = q.seen => tab[q.tab].session = q.seen)
             => SessionsAgree'
    BY <1>1, <2>1, UpdateSessionTabs DEF IInv
  <2>3. ViewOf(q.answer) # None /\ ViewOf(q.answer) # Never /\ q.answer # None
    BY <1>1, ViewType
  <2>4. ~crossed' /\ ViewOf(q.answer) = q.seen => tab[q.tab].session = q.seen
    BY <1>1, <1>2, <2>3 DEF Overtaken, RequestOf
  <2>5. ~crossed' /\ signedOut' => FALSE
    <3>1. SUFFICES ASSUME ~crossed', signedOut' PROVE FALSE
      OBVIOUS
    <3>2. stored = None /\ q.kind \notin {"login", "callback"}
      BY <1>2, <3>1 DEF IInv, NobodyLogsIn, SerialSignedOutStays, SignedOutStays
    <3>3. q.kind = "refresh" /\ q.token # None
      BY <1>1, <2>3, <3>2 DEF RequestOf
    <3>4. QED
      BY <1>2, <3>1, <3>2, <3>3 DEF Overtaken, TokenOf
  <2>6. ~crossed' /\ SessionsAgree => SessionsAgree'
    BY <2>2, <2>4
  <2>7. QED
    BY <1>1, <1>2, <1>3, <1>5, <2>2, <2>5, <2>6, Stored
<1>7. CASE ~IsSessionValid(q.answer)
  <2>1. UNCHANGED <<stored, tab>>
    BY <1>7 DEF DeliverSession
  <2>2. /\ stored' \in Sessions \cup {None}
        /\ tab' \in [Tabs -> TabStates]
        /\ HeadersFollowStorage'
        /\ SessionsAgree => SessionsAgree'
    BY <2>1 DEF IInv, TypeOK, HeadersFollowStorage, SessionsAgree, Settled, TokenOf
  <2>3. ~crossed' /\ signedOut' => stored' = None
    BY <1>2, <1>3, <2>1 DEF IInv, SerialSignedOutStays, SignedOutStays
  <2>4. QED
    BY <1>2, <1>3, <1>5, <2>2, <2>3, Stored
<1>8. QED
  BY <1>6, <1>7

LEMMA AuthenticateInv ==
    ASSUME IInv, NEW t \in Tabs, NEW f \in Flows, Authenticate(t, f)
    PROVE  IInv'
<1> DEFINE e == [tab[t] EXCEPT !.away = TRUE]
           p == [tab |-> t, born |-> now,
                 action |-> IF tab[t].session = None THEN "callback" ELSE "bind"]
<1>1. tab \in [Tabs -> TabStates] /\ tab[t] \in TabStates
  BY DEF IInv, TypeOK
<1>2. e \in TabStates /\ e.away
  BY <1>1 DEF TabStates
<1>3. tab' = [tab EXCEPT ![t] = e]
  BY <1>1 DEF Authenticate
<1>4. p \in FlowStates
  BY DEF IInv, TypeOK, FlowStates
<1>5. flow' = [flow EXCEPT ![f] = p]
  BY DEF Authenticate
<1> HIDE DEF e, p
<1>6. flow' \in [Flows -> FlowStates]
  BY <1>4, <1>5 DEF IInv, TypeOK
<1>7. /\ tab' \in [Tabs -> TabStates]
      /\ tab'[t].away
      /\ \A u \in Tabs : u # t => tab'[u] = tab[u]
  BY <1>1, <1>2, <1>3
<1>8. /\ UNCHANGED <<stored, account, now, crossed>>
      /\ requests' \subseteq requests
      /\ signedOut' = FALSE
  BY DEF Authenticate
<1>9. HeadersFollowStorage'
  BY <1>7, <1>8 DEF IInv, HeadersFollowStorage, Settled, TokenOf
<1>10. SessionsAgree => SessionsAgree'
  BY <1>7, <1>8 DEF SessionsAgree, Settled
<1>11. /\ requests' \subseteq Requests
       /\ \A a \in requests' : RequestOf(a)
       /\ crossed' \in BOOLEAN /\ crossed' = crossed
       /\ stored' \in Sessions \cup {None}
  BY <1>8 DEF IInv, TypeOK
<1>12. /\ signedOut' \in BOOLEAN
       /\ signedOut' => \A a \in requests' : a.kind \notin {"login", "callback"}
       /\ ~crossed' /\ signedOut' => stored' = None
  BY <1>8
<1>13. UNCHANGED <<account, now>> /\ tab' \in [Tabs -> TabStates]
  BY <1>7, <1>8
<1>14. QED
  BY <1>6, <1>9, <1>10, <1>11, <1>12, <1>13, Stored

LEMMA AuthorizeInv ==
    ASSUME IInv, NEW f \in Flows, Authorize(f)
    PROVE  IInv'
<1> DEFINE others == requests \ ThisTabs(flow[f].tab)
<1>1. /\ flow[f] \in [tab : Tabs, action : {"callback", "bind"}, born : 0..MaxNow]
      /\ flow[f].tab \in Tabs /\ flow[f].action \in {"callback", "bind"}
  BY DEF IInv, TypeOK, FlowStates, Authorize
<1>2. /\ stored' = StoredAuthSession
      /\ tab' \in [Tabs -> TabStates]
      /\ HeadersFollowStorage'
      /\ SessionsAgree => SessionsAgree'
  BY <1>1, BootTabs DEF IInv, Authorize
<1>3. /\ StoredAuthSession \in Sessions \cup {None}
      /\ stored = None => StoredAuthSession = None
      /\ TokenOf(StoredAuthSession) \in Tokens \cup {None}
  BY StoredType DEF IInv
<1>4. UNCHANGED <<account, now, crossed>> /\ flow' = [flow EXCEPT ![f] = Done]
  BY DEF Authorize
<1>5. /\ flow' \in [Flows -> FlowStates]
      /\ crossed' \in BOOLEAN /\ crossed' = crossed
  BY <1>4 DEF IInv, TypeOK, FlowStates
<1>6. signedOut' = (signedOut /\ flow[f].born < now)
  BY DEF Authorize
<1>7. signedOut' \in BOOLEAN /\ (signedOut' => signedOut /\ flow[f].born < now)
  <2>1. CASE flow[f].born < now
    BY <1>6, <2>1 DEF IInv, TypeOK
  <2>2. CASE ~(flow[f].born < now)
    BY <1>6, <2>2
  <2>3. QED
    BY <2>1, <2>2
<1>8. ~crossed' /\ signedOut' => StoredAuthSession = None
  BY <1>3, <1>5, <1>7 DEF IInv, SerialSignedOutStays, SignedOutStays
<1>9. /\ requests' \subseteq Requests
      /\ \A a \in requests' : RequestOf(a)
      /\ signedOut' => \A a \in requests' : a.kind \notin {"login", "callback"}
  <2>1. CASE flow[f].born < now
    <3>1. requests' \subseteq requests
      BY <2>1 DEF Authorize
    <3>2. QED
      BY <1>7, <3>1 DEF IInv, TypeOK, NobodyLogsIn
  <2>2. CASE ~(flow[f].born < now)
    <3>1. Send(Callback(f), others)
      BY <2>2 DEF Authorize
    <3>2. /\ Request(flow[f].tab, flow[f].action, None, Never) \in Requests
          /\ Request(flow[f].tab, flow[f].action, None, Never).kind = flow[f].action
          /\ Request(flow[f].tab, flow[f].action, None, Never).seen = Never
          /\ Request(flow[f].tab, flow[f].action, None, Never).answer = None
      BY <1>1, RequestType DEF IInv
    <3>3. /\ Callback(f) \in Requests
          /\ Callback(f).kind = flow[f].action
          /\ Callback(f).seen = Never
          /\ Callback(f).answer = None
      BY <1>3, <3>2 DEF Callback, Requests
    <3>4. others \in SUBSET requests
      OBVIOUS
    <3> HIDE DEF others
    <3>5. requests' \subseteq Requests /\ \A a \in requests' : RequestOf(a)
      BY <1>1, <3>1, <3>3, <3>4, Sent DEF IInv
    <3>6. QED
      BY <1>7, <2>2, <3>5
  <2>3. QED
    BY <2>1, <2>2
<1>10. QED
  BY <1>2, <1>3, <1>4, <1>5, <1>7, <1>8, <1>9, Stored

-----------------------------------------------------------------------------
(* The specification *)

LEMMA NextInv == IInv /\ [Next]_vars => IInv'
<1> SUFFICES ASSUME IInv, [Next]_vars PROVE IInv'
  OBVIOUS
<1>1. ASSUME NEW t \in Tabs,
             Reload(t) \/ RefreshSession(t) \/ Call(t) \/ Logout(t) \/ SynchronizeSession(t)
      PROVE  IInv'
  BY <1>1, ReloadInv, RefreshSessionInv, CallInv, LogoutInv, SynchronizeInv
<1>2. ASSUME NEW t \in Tabs, NEW u \in Users, TryLogin(t, u) PROVE IInv'
  BY <1>2, TryLoginInv
<1>3. ASSUME NEW t \in Tabs, NEW f \in Flows, Authenticate(t, f) PROVE IInv'
  BY <1>3, AuthenticateInv
<1>4. ASSUME NEW f \in Flows, Authorize(f) PROVE IInv'
  BY <1>4, AuthorizeInv
<1>5. ASSUME NEW q \in requests, Deliver(q) PROVE IInv'
  BY <1>5, DeliverUnauthorizedInv, DeliverForbiddenInv, DeliverSessionInv, DeliverOtherInv DEF Deliver
<1>6. CASE UNCHANGED vars
  <2>1. UNCHANGED <<stored, tab, requests, account, now, flow, crossed, signedOut>>
    BY <1>6 DEF vars
  <2>2. /\ requests' \subseteq Requests
        /\ \A a \in requests' : RequestOf(a)
        /\ signedOut' \in BOOLEAN
        /\ signedOut' => signedOut /\ \A a \in requests' : a.kind \notin {"login", "callback"}
        /\ account' \in [Users -> [version : 0..MaxVersion, admin : BOOLEAN]]
        /\ now' \in 0..MaxNow
        /\ flow' \in [Flows -> FlowStates]
    BY <2>1 DEF IInv, TypeOK, NobodyLogsIn
  <2>3. QED
    BY <2>1, <2>2, Untouched
<1>7. QED
  BY <1>1, <1>2, <1>3, <1>4, <1>5, <1>6, ServerInv DEF Next

LEMMA Invariant == Spec => []IInv
<1>1. QED
  BY InitInv, NextInv, PTL DEF Spec

\* The item in localStorage, the tabs and the requests in flight stay sessions, views, tokens
\* and answers: AuthProvider and the views that log in.
THEOREM TypeCorrect == Spec => []TypeOK
<1>1. IInv => TypeOK
  BY DEF IInv
<1>2. QED
  BY <1>1, Invariant, PTL

\* In any number of tabs, whatever they do and whatever order answers come in, a tab that has
\* heard of all changes sends the token that is in localStorage: updateSession sets the header
\* with the item, and synchronizeSessionState reads it back.
THEOREM HeadersFollow == Spec => []HeadersFollowStorage
<1>1. IInv => HeadersFollowStorage
  BY DEF IInv
<1>2. QED
  BY <1>1, Invariant, PTL

\* What a tab shows is the session it sends, as long as no change overtakes a refresh: the
\* comparison of updateSession with its closure leaves nothing else out.
THEOREM SessionsAgreeSerially == Spec => []SerialSessionsAgree
<1>1. IInv => SerialSessionsAgree
  BY DEF IInv
<1>2. QED
  BY <1>1, Invariant, PTL

\* Nobody is logged in after a logout before somebody logs in again, in any tab, as long as
\* no refresh is overtaken.
THEOREM SignedOutStaysSerially == Spec => []SerialSignedOutStays
<1>1. IInv => SerialSignedOutStays
  BY DEF IInv
<1>2. QED
  BY <1>1, Invariant, PTL
=============================================================================
