------------------------------ MODULE ObjectPage ------------------------------
(***************************************************************************)
(* The page of an object, as time passes: ShowObject and the boxes that    *)
(* write into its state (mwdb/web/src/components/ShowObject).              *)
(*                                                                         *)
(* The page stays mounted when the address changes from one object to      *)
(* another.  Its state is one object, which a load replaces and every      *)
(* other answer is merged into, whatever object the answer is about.  The  *)
(* boxes touch separate fields, so a behaviour watches one of them, and a  *)
(* field is abstracted to the object and the version it was read from.     *)
(***************************************************************************)
EXTENDS Naturals, FiniteSets

CONSTANTS
    Objects, None,
    Types,            \* types of objects: the relations to each have a box of their own
    Related,          \* the types of the relations of every object, in every version
    MaxChanges,       \* bound: changes of an object
    MaxNavigations,   \* bound: changes of the address
    MaxRequests       \* bound: requests in flight

ASSUME ObjectPageAssumption ==
    /\ None \notin Objects \cup Types
    /\ MaxChanges \in Nat /\ MaxNavigations \in Nat /\ MaxRequests \in Nat
    /\ Related \in [Objects -> [0..MaxChanges -> SUBSET Types]]

\* Fields that getObject brings, and those that a box asks for once it shows an object.
Base == {"tags", "attributes", "relations", "favorite"}
Lazy == {"comments", "shares", "analyses"}
\* Boxes that refresh by merging the whole object; the others ask for their field.
Reloading == {"relations", "favorite"}

VARIABLES
    watched,      \* the box
    route,        \* the object in the address
    object,       \* what the page shows: its object, and what its field is of
    requests,     \* answers on their way
    server,       \* the version of the field of every object
    disabled,     \* the boxes of relations whose button, that confirms a removal, is disabled
    own,          \* history: the version that this page last wrote
    navigations,  \* changes of the address so far
    history       \* which disturbances there have been

vars == <<watched, route, object, requests, server, disabled, own, navigations, history>>

Versions == 0..MaxChanges
Shown == [id : Objects, of : Objects \cup {None}, version : Versions]
Requests ==
    [kind : {"load", "reload", "fetch", "change"}, of : Objects, at : Objects,
     version : Versions, ok : BOOLEAN,
     button : Types \cup {None}]     \* the box whose button waits for the answer
History == [crossed : BOOLEAN,      \* an answer was about another object than the address, or
                                    \* an answer to a box, than the object shown
            overtaken : BOOLEAN,    \* an answer was older than what was shown
            wiped : BOOLEAN,        \* an object was loaded again
            failed : BOOLEAN]       \* a request failed

ASSUME NoneAssumption == None \notin Shown

-----------------------------------------------------------------------------
\* A request is served when it is sent, or fails; its answer is on its way from then on.
Asked(kind, o, at, button) ==
    [kind : {kind}, of : {o}, at : {at}, version : {server'[o]}, ok : BOOLEAN, button : {button}]

Send(kind, o, at, button, others) ==
    /\ Cardinality(others) < MaxRequests
    /\ \E q \in Asked(kind, o, at, button) : requests' = others \cup {q}

AskOnMount(shown, others) ==                      \* mutant: when the first object is shown
    IF watched \in Lazy /\ object = None
    THEN Send("fetch", shown.id, shown.id, None, others)
    ELSE requests' = others
\* The effects of the boxes run when the object that is shown has another identifier.
AskLazily(shown, others) ==
    IF watched \in Lazy /\ (object = None \/ object.id # shown.id)
    THEN Send("fetch", shown.id, shown.id, None, others)
    ELSE requests' = others

\* The boxes of relations on the page, one for each type among the rows.
RelationBoxes(shown) ==
    IF watched = "relations" /\ shown.of # None THEN Related[shown.of][shown.version] ELSE {}
\* The button of a box that is taken off the page is gone, and its answer finds none.
Detach(q, shown) ==
    [q EXCEPT !.button = IF @ \in RelationBoxes(shown) THEN @ ELSE None]

\* Another object: updateObject(true) runs, and the page shows the old one meanwhile.
Navigate(o) ==
    /\ o # route
    /\ navigations < MaxNavigations
    /\ navigations' = navigations + 1
    /\ route' = o
    /\ UNCHANGED <<watched, object, server, disabled, own, history>>
    /\ Send("load", o, o, None, requests)

Disturbed(q) ==
    [history EXCEPT
        !.crossed = @ \/ q.of # route \/ (q.kind = "fetch" /\ q.of # object.id),
        !.overtaken = @ \/ (object # None /\ object.of = q.of /\ object.version > q.version),
        !.wiped = @ \/ (q.kind = "load" /\ object # None /\ object.id = q.of)]

LoadMerging(q) ==                                 \* mutant: the lazy field is kept
    IF object = None \/ watched \in Base
    THEN [id |-> q.of, of |-> IF watched \in Base THEN q.of ELSE None,
          version |-> IF watched \in Base THEN q.version ELSE 0]
    ELSE [object EXCEPT !.id = q.of]
\* "Reload object and wipe lazy-loaded updates"
Load(q) ==
    IF watched \in Base
    THEN [id |-> q.of, of |-> q.of, version |-> q.version]
    ELSE [id |-> q.of, of |-> None, version |-> 0]

\* "Update object data with new information"
Update(q) ==
    IF q.kind = "fetch"
    THEN [object EXCEPT !.of = q.of, !.version = q.version]
    ELSE [object EXCEPT !.id = q.of,
                        !.of = IF watched \in Base THEN q.of ELSE @,
                        !.version = IF watched \in Base THEN q.version ELSE @]

DeliverObject(q) ==
    /\ q.kind \in {"load", "reload", "fetch"}
    /\ q.ok
    /\ object' = IF q.kind = "load" THEN Load(q) ELSE Update(q)
    /\ disabled' = disabled \cap RelationBoxes(object')
    /\ history' = Disturbed(q)
    /\ UNCHANGED <<watched, route, server, own, navigations>>
    /\ AskLazily(object', {Detach(r, object') : r \in requests \ {q}})

-----------------------------------------------------------------------------
(* Changes by the boxes, on the object that is shown *)

Change(box, button) ==
    /\ watched = box
    /\ object # None
    /\ server[object.id] < MaxChanges
    /\ Cardinality(requests) < MaxRequests
    /\ \E ok \in BOOLEAN :
          /\ server' = IF ok THEN [server EXCEPT ![object.id] = @ + 1] ELSE server
          /\ own' = IF ok THEN [own EXCEPT ![object.id] = server'[object.id]] ELSE own
          /\ \E q \in Asked("change", object.id, route, button) :
                q.ok = ok /\ requests' = requests \cup {q}
    /\ UNCHANGED <<watched, route, object, navigations, history>>

ChangeTags == Change("tags", None) /\ UNCHANGED disabled
ChangeAttributes == Change("attributes", None) /\ UNCHANGED disabled
ChangeComments == Change("comments", None) /\ UNCHANGED disabled
ChangeShares == Change("shares", None) /\ UNCHANGED disabled
ChangeAnalyses == Change("analyses", None) /\ UNCHANGED disabled
ChangeFavorite == Change("favorite", None) /\ UNCHANGED disabled
AddRelation == Change("relations", None) /\ UNCHANGED disabled
\* In any box whose button is enabled: the window that asks can be closed while it waits.
RemoveRelation ==
    \E type \in Types \ disabled :
        /\ Change("relations", type)
        /\ type \in RelationBoxes(object)
        /\ disabled' = disabled \cup {type}

RefreshOnce(q) ==                                 \* mutant: tags are not read again
    IF watched \in Reloading
    THEN Send("reload", q.at, q.at, None, requests \ {q})
    ELSE IF watched = "tags" THEN requests' = requests \ {q}
    ELSE Send("fetch", q.of, q.of, None, requests \ {q})
\* In the closures of the render that made the change.
Refresh(q) ==
    IF watched \in Reloading
    THEN Send("reload", q.at, q.at, None, requests \ {q})
    ELSE Send("fetch", q.of, q.of, None, requests \ {q})

DeliverChange(q) ==
    /\ q.kind = "change"
    /\ q.ok
    /\ disabled' = disabled \ {q.button}
    /\ UNCHANGED <<watched, route, object, server, own, navigations, history>>
    /\ Refresh(q)

DeliverErrorKeepingButton(q) ==                   \* mutant: only success enables the button
    /\ ~q.ok
    /\ requests' = requests \ {q}
    /\ history' = [history EXCEPT !.failed = TRUE]
    /\ UNCHANGED <<watched, route, object, server, disabled, own, navigations>>
\* Of any request: a message, and the button that waits for it again.
DeliverError(q) ==
    /\ ~q.ok
    /\ requests' = requests \ {q}
    /\ disabled' = disabled \ {q.button}
    /\ history' = [history EXCEPT !.failed = TRUE]
    /\ UNCHANGED <<watched, route, object, server, own, navigations>>

\* The analyses are asked for every ten seconds, of the object that is shown.
UpdateAnalyses ==
    /\ watched = "analyses"
    /\ object # None
    /\ UNCHANGED <<watched, route, object, server, disabled, own, navigations, history>>
    /\ Send("fetch", object.id, object.id, None, requests)

\* Older analyses, put below those that are shown when they are asked for.
LoadMoreAnalyses ==
    /\ watched = "analyses"
    /\ object # None
    /\ object.of # None
    /\ Cardinality(requests) < MaxRequests
    /\ \E ok \in BOOLEAN :
          requests' = requests \cup
              {[kind |-> "fetch", of |-> object.of, at |-> object.id, version |-> object.version,
                ok |-> ok, button |-> None]}
    /\ UNCHANGED <<watched, route, object, server, disabled, own, navigations, history>>

\* Other users change the object.
ChangeElsewhere(o) ==
    /\ server[o] < MaxChanges
    /\ server' = [server EXCEPT ![o] = @ + 1]
    /\ UNCHANGED <<watched, route, object, requests, disabled, own, navigations, history>>

-----------------------------------------------------------------------------
Init ==
    /\ watched \in Base \cup Lazy
    /\ route \in Objects
    /\ object = None
    /\ requests \in
         {{[kind |-> "load", of |-> route, at |-> route, version |-> 0, ok |-> ok,
            button |-> None]} : ok \in BOOLEAN}
    /\ server = [o \in Objects |-> 0]
    /\ disabled = {}
    /\ own = [o \in Objects |-> 0]
    /\ navigations = 0
    /\ history = [crossed |-> FALSE, overtaken |-> FALSE, wiped |-> FALSE, failed |-> FALSE]

Next ==
    \/ \E o \in Objects : Navigate(o) \/ ChangeElsewhere(o)
    \/ \E q \in requests : DeliverObject(q) \/ DeliverChange(q) \/ DeliverError(q)
    \/ ChangeTags \/ ChangeAttributes \/ ChangeComments \/ ChangeShares \/ ChangeAnalyses
    \/ ChangeFavorite \/ AddRelation \/ RemoveRelation
    \/ UpdateAnalyses \/ LoadMoreAnalyses

Spec == Init /\ [][Next]_vars

-----------------------------------------------------------------------------
(* Properties *)

TypeOK ==
    /\ watched \in Base \cup Lazy
    /\ route \in Objects
    /\ object \in Shown \cup {None}
    /\ requests \subseteq Requests
    /\ server \in [Objects -> Versions]
    /\ disabled \subseteq Types
    /\ own \in [Objects -> Versions]
    /\ navigations \in 0..MaxNavigations
    /\ history \in History

Quiet == requests = {}

(* What the page shows, and what its boxes act on, is one object, and once *)
(* everything has arrived the one in the address, unless an answer came    *)
(* when the user was at another object: nothing compares an answer with    *)
(* the page it comes to.                                                   *)
SerialOneObject ==
    object # None /\ ~history.crossed =>
        /\ object.of \in {None, object.id}
        /\ Quiet /\ ~history.failed => object.id = route

(* A change made on the page is seen on the page, unless answers overtook  *)
(* each other or failed, or a load wiped a lazy field of the object shown: *)
(* what arrives next may then be older than what was there.                *)
SerialOwnChanges ==
    Quiet /\ object # None /\ object.of = object.id
        /\ ~(history.crossed \/ history.overtaken \/ history.failed)
        /\ (history.wiped => watched \in Base) =>
            object.version >= own[object.id]

(* Every box is filled: the lazy fields that a load wipes are asked for    *)
(* again, unless the load was of the object already shown (there and back  *)
(* before the other one was loaded), when no effect runs.                  *)
SerialBoxesFilled ==
    Quiet /\ ~(history.crossed \/ history.wiped \/ history.failed) =>
        object # None /\ object.of # None

(* A button of a box of relations is disabled exactly while the removal    *)
(* that it confirmed is on its way, at most one for each box, even though  *)
(* boxes come and go with the rows that answers bring: none is left        *)
(* disabled, and none is enabled by the answer to another box, or to an    *)
(* earlier one of its type.                                                *)
RemovalPending ==
    \A type \in Types :
        /\ type \in disabled <=> \E q \in requests : q.button = type
        /\ \A q, r \in requests : q.button = type /\ r.button = type => q = r

-----------------------------------------------------------------------------
(* The inductive invariant behind SerialOneObject and RemovalPending *)

\* Boxes ask only once there is an object, and only the box of the relations removes them.
RequestsInv ==
    /\ \A q \in requests :
          /\ q.kind # "load" => object # None
          /\ q.kind = "reload" => watched \in Reloading
          /\ q.button # None => q.kind = "change"

\* The page has arrived at its address, or will.
Arrives ==
    ~(history.crossed \/ history.failed) =>
        \/ object # None /\ object.id = route
        \/ \E q \in requests : q.kind = "load" /\ q.of = route

OfItself == object # None /\ ~history.crossed => object.of \in {None, object.id}

IInv == TypeOK /\ RequestsInv /\ RemovalPending /\ Arrives /\ OfItself

-----------------------------------------------------------------------------
(* The inductive invariants behind SerialBoxesFilled and SerialOwnChanges *)

ServerAhead == \A o \in Objects : own[o] <= server[o]

\* While the page shows another object than its address, a load is on its way that is as
\* new as the last change made here: nothing is changed on a page that is not shown.
ArrivesFresh ==
    ~(history.crossed \/ history.failed) /\ (object = None \/ object.id # route) =>
        \E q \in requests : q.kind = "load" /\ q.of = route /\ q.version >= own[route]

\* An empty box has asked.
Filling ==
    ~(history.wiped \/ history.failed) /\ object # None /\ object.of = None =>
        \E q \in requests : q.kind = "fetch" /\ q.of = object.id

ShowsOwn == object.of = object.id /\ object.version >= own[object.id]

\* The answer q, or the one that is asked for when it comes, brings the last change.
Refreshes(q) ==
    /\ q.of = object.id
    /\ IF q.kind = "change"
       THEN q.ok /\ (watched \in Reloading => q.at = object.id)
       ELSE q.version >= own[object.id] /\ (q.kind # "fetch" => watched \in Base)

\* What is not shown is on its way, or the page is about to show another object.
OwnOnItsWay ==
    object # None /\ ~(history.crossed \/ history.overtaken \/ history.failed)
        /\ (history.wiped => watched \in Base) /\ ~ShowsOwn =>
            \E q \in requests : Refreshes(q) \/ (q.kind = "load" /\ q.of # object.id)

FreshInv == ServerAhead /\ ArrivesFresh /\ Filling /\ OwnOnItsWay
=============================================================================
