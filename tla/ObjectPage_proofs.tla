--------------------------- MODULE ObjectPage_proofs ---------------------------
(***************************************************************************)
(* Proofs about ObjectPage: any number of objects, changes of the address, *)
(* changes of the objects, and answers in any order.                       *)
(***************************************************************************)
EXTENDS ObjectPage, TLAPS

-----------------------------------------------------------------------------
(* Requests *)

\* What Send does to the requests, whichever answer it will be.
LEMMA SendSends ==
    ASSUME NEW kind, NEW o, NEW at, NEW button, NEW others,
           Send(kind, o, at, button, others)
    PROVE  \E q \in Asked(kind, o, at, button) : requests' = others \cup {q}
BY DEF Send

LEMMA AskedType ==
    ASSUME server' \in [Objects -> Versions],
           NEW kind \in {"load", "reload", "fetch", "change"}, NEW o \in Objects, NEW at \in Objects,
           NEW button \in Types \cup {None}, NEW q \in Asked(kind, o, at, button)
    PROVE  /\ q \in Requests
           /\ q.kind = kind /\ q.of = o /\ q.button = button
<1>1. server'[o] \in Versions
  OBVIOUS
<1>2. QED
  BY <1>1 DEF Asked, Requests

\* The boxes of the page shown ask for their field, or do nothing.
LEMMA AskLazilyAdds ==
    ASSUME NEW shown, NEW others, AskLazily(shown, others), server' \in [Objects -> Versions],
           shown.id \in Objects, others \subseteq Requests
    PROVE  /\ requests' \subseteq Requests
           /\ others \subseteq requests'
           /\ \A q \in requests' \ others : q.kind = "fetch" /\ q.button = None
<1>1. CASE requests' = others
  BY <1>1
<1>2. CASE Send("fetch", shown.id, shown.id, None, others)
  <2>1. PICK o \in Objects : o = shown.id
    OBVIOUS
  <2>2. PICK q \in Asked("fetch", o, o, None) : requests' = others \cup {q}
    BY <1>2, <2>1 DEF Send
  <2>3. q \in Requests /\ q.kind = "fetch" /\ q.button = None
    <3>1. server'[o] \in Versions
      BY <2>1
    <3>2. PICK ok \in BOOLEAN :
            q = [kind |-> "fetch", of |-> o, at |-> o, version |-> server'[o], ok |-> ok,
                 button |-> None]
      BY <2>2 DEF Asked
    <3>3. QED
      BY <2>1, <3>1, <3>2 DEF Requests
  <2>4. QED
    BY <2>2, <2>3
<1>3. QED
  BY <1>1, <1>2 DEF AskLazily

\* A change of the object shown is one more request.
LEMMA ChangeAdds ==
    ASSUME TypeOK, NEW box, NEW button \in Types \cup {None}, Change(box, button)
    PROVE  /\ object # None /\ object.id \in Objects
           /\ server' \in [Objects -> Versions] /\ own' \in [Objects -> Versions]
           /\ \E q \in Requests : /\ requests' = requests \cup {q}
                                  /\ q.kind = "change" /\ q.button = button
<1>1. object # None /\ object.id \in Objects
  BY DEF Change, TypeOK, Shown
<1>2. server' \in [Objects -> Versions]
  <2>1. server[object.id] \in Versions /\ server[object.id] < MaxChanges
    BY <1>1 DEF Change, TypeOK
  <2>2. server[object.id] + 1 \in Versions
    BY <2>1, ObjectPageAssumption DEF Versions
  <2>3. QED
    BY <1>1, <2>2 DEF Change, TypeOK
<1>3. own' \in [Objects -> Versions]
  BY <1>1, <1>2 DEF Change, TypeOK
<1>4. route \in Objects
  BY DEF TypeOK
<1>5. PICK q \in Asked("change", object.id, route, button) : requests' = requests \cup {q}
  BY DEF Change
<1>6. q \in Requests /\ q.kind = "change" /\ q.button = button
  BY <1>1, <1>2, <1>4, <1>5, AskedType
<1>7. QED
  BY <1>1, <1>2, <1>3, <1>5, <1>6

\* A box that has changed something asks once more.
LEMMA RefreshAdds ==
    ASSUME TypeOK, NEW q \in requests, Refresh(q), server' \in [Objects -> Versions]
    PROVE  \E r \in Requests : /\ requests' = (requests \ {q}) \cup {r}
                               /\ r.kind \in {"reload", "fetch"} /\ r.button = None
                               /\ r.kind = "reload" => watched \in Reloading
<1>1. q.of \in Objects /\ q.at \in Objects
  BY DEF TypeOK, Requests
<1>2. CASE watched \in Reloading
  <2>1. PICK r \in Asked("reload", q.at, q.at, None) : requests' = (requests \ {q}) \cup {r}
    BY <1>2 DEF Refresh, Send
  <2>2. QED
    BY <1>1, <1>2, <2>1, AskedType
<1>3. CASE watched \notin Reloading
  <2>1. PICK r \in Asked("fetch", q.of, q.of, None) : requests' = (requests \ {q}) \cup {r}
    BY <1>3 DEF Refresh, Send
  <2>2. QED
    BY <1>1, <1>3, <2>1, AskedType
<1>4. QED
  BY <1>2, <1>3

Changes == 
    \/ ChangeTags \/ ChangeAttributes \/ ChangeComments \/ ChangeShares \/ ChangeAnalyses
    \/ ChangeFavorite \/ AddRelation

LEMMA ChangesChange == Changes => (\E box : Change(box, None)) /\ UNCHANGED disabled
BY DEF Changes, ChangeTags, ChangeAttributes, ChangeComments, ChangeShares, ChangeAnalyses,
       ChangeFavorite, AddRelation

\* What an answer makes of the page is a page.
LEMMA DeliveredObject ==
    ASSUME TypeOK, RequestsInv, NEW q \in requests, DeliverObject(q)
    PROVE  object' \in Shown
<1>1. q.of \in Objects /\ q.version \in Versions
  BY DEF TypeOK, Requests
<1>2. 0 \in Versions
  BY ObjectPageAssumption DEF Versions
<1>3. CASE q.kind = "load"
  BY <1>1, <1>2, <1>3 DEF DeliverObject, Load, Shown
<1>4. CASE q.kind # "load"
  <2>1. object \in Shown
    BY <1>4 DEF RequestsInv, TypeOK
  <2>2. QED
    BY <1>1, <1>4, <2>1 DEF DeliverObject, Update, Shown
<1>5. QED
  BY <1>3, <1>4

\* A request keeps all but its button, which it keeps while its box is on the page.
LEMMA DetachKeeps ==
    ASSUME NEW q \in Requests, NEW shown
    PROVE  /\ Detach(q, shown) \in Requests
           /\ Detach(q, shown).kind = q.kind /\ Detach(q, shown).of = q.of
           /\ Detach(q, shown).at = q.at /\ Detach(q, shown).version = q.version
           /\ Detach(q, shown).ok = q.ok
           /\ q.button \in RelationBoxes(shown) => Detach(q, shown).button = q.button
           /\ q.button \notin RelationBoxes(shown) => Detach(q, shown).button = None
BY DEF Detach, Requests

\* The requests after an answer: those that were on their way, and what a lazy box asks for.
LEMMA DeliveredRequests ==
    ASSUME TypeOK, RequestsInv, NEW q \in requests, DeliverObject(q)
    PROVE  /\ requests' \subseteq Requests
           /\ \A r \in requests \ {q} : Detach(r, object') \in requests'
           /\ \A r \in requests' :
                 \/ \E p \in requests \ {q} : r = Detach(p, object')
                 \/ r.kind = "fetch" /\ r.button = None
<1> DEFINE others == {Detach(r, object') : r \in requests \ {q}}
<1>1. object'.id \in Objects /\ server' \in [Objects -> Versions]
  BY DeliveredObject DEF DeliverObject, TypeOK, Shown
<1>2. others \subseteq Requests
  BY DetachKeeps DEF TypeOK
<1>3. AskLazily(object', others)
  BY DEF DeliverObject
<1> HIDE DEF others
<1>4. /\ requests' \subseteq Requests /\ others \subseteq requests'
      /\ \A r \in requests' \ others : r.kind = "fetch" /\ r.button = None
  BY <1>1, <1>2, <1>3, AskLazilyAdds
<1>5. QED
  BY <1>4 DEF others

-----------------------------------------------------------------------------
(* Type correctness *)

LEMMA InitType == Init => TypeOK
<1> SUFFICES ASSUME Init PROVE TypeOK
  OBVIOUS
<1>1. 0 \in Versions /\ 0 \in 0..MaxNavigations
  BY ObjectPageAssumption DEF Versions
<1>2. PICK ok \in BOOLEAN :
        requests = {[kind |-> "load", of |-> route, at |-> route, version |-> 0, ok |-> ok,
                     button |-> None]}
  BY DEF Init
<1>3. requests \subseteq Requests
  BY <1>1, <1>2 DEF Init, Requests
<1>4. history \in History
  BY DEF Init, History
<1>5. server \in [Objects -> Versions] /\ own \in [Objects -> Versions]
  BY <1>1 DEF Init
<1>6. QED
  BY <1>1, <1>3, <1>4, <1>5 DEF Init, TypeOK

LEMMA NextType == TypeOK /\ RequestsInv /\ [Next]_vars => TypeOK'
<1> SUFFICES ASSUME TypeOK, RequestsInv, [Next]_vars PROVE TypeOK'
  OBVIOUS
<1>1. ASSUME NEW o \in Objects, Navigate(o) PROVE TypeOK'
  <2>1. navigations' \in 0..MaxNavigations
    BY <1>1, ObjectPageAssumption DEF Navigate, TypeOK
  <2>2. server' \in [Objects -> Versions]
    BY <1>1 DEF Navigate, TypeOK
  <2>3. PICK q \in Asked("load", o, o, None) : requests' = requests \cup {q}
    BY <1>1, SendSends DEF Navigate
  <2>4. q \in Requests
    BY <2>2, <2>3, AskedType
  <2>5. QED
    BY <1>1, <2>1, <2>2, <2>3, <2>4 DEF Navigate, TypeOK
<1>2. ASSUME NEW o \in Objects, ChangeElsewhere(o) PROVE TypeOK'
  <2>1. server[o] + 1 \in Versions
    BY <1>2, ObjectPageAssumption DEF ChangeElsewhere, TypeOK, Versions
  <2>2. server' \in [Objects -> Versions]
    BY <1>2, <2>1 DEF ChangeElsewhere, TypeOK
  <2>3. QED
    BY <1>2, <2>2 DEF ChangeElsewhere, TypeOK
<1>3. ASSUME NEW q \in requests, DeliverObject(q) PROVE TypeOK'
  <2>1. object' \in Shown /\ server' \in [Objects -> Versions] /\ disabled' \subseteq Types
    BY <1>3, DeliveredObject DEF DeliverObject, TypeOK
  <2>3. requests' \subseteq Requests
    BY <1>3, DeliveredRequests
  <2>4. history' \in History
    <3>1. history' = Disturbed(q)
      BY <1>3 DEF DeliverObject
    <3>2. QED
      BY <3>1 DEF Disturbed, TypeOK, History
  <2>5. QED
    BY <1>3, <2>1, <2>3, <2>4 DEF DeliverObject, TypeOK
<1>4. ASSUME NEW q \in requests, DeliverChange(q) PROVE TypeOK'
  <2>1. server' \in [Objects -> Versions]
    BY <1>4 DEF DeliverChange, TypeOK
  <2>2. requests' \subseteq Requests
    BY <1>4, <2>1, RefreshAdds DEF DeliverChange, TypeOK
  <2>3. disabled' \subseteq Types
    BY <1>4 DEF DeliverChange, TypeOK
  <2>4. QED
    BY <1>4, <2>1, <2>2, <2>3 DEF DeliverChange, TypeOK
<1>5. ASSUME NEW q \in requests, DeliverError(q) PROVE TypeOK'
  BY <1>5 DEF DeliverError, TypeOK, History
<1>6. CASE Changes
  <2>1. PICK box : Change(box, None) /\ UNCHANGED disabled
    BY <1>6, ChangesChange
  <2>2. /\ server' \in [Objects -> Versions] /\ own' \in [Objects -> Versions]
        /\ requests' \subseteq Requests
    BY <2>1, ChangeAdds DEF TypeOK
  <2>3. UNCHANGED <<watched, route, object, navigations, history, disabled>>
    BY <2>1 DEF Change
  <2>4. QED
    BY <2>2, <2>3 DEF TypeOK
<1>7. CASE RemoveRelation
  <2>1. PICK type \in Types : Change("relations", type) /\ disabled' = disabled \cup {type}
    BY <1>7 DEF RemoveRelation
  <2>2. /\ server' \in [Objects -> Versions] /\ own' \in [Objects -> Versions]
        /\ requests' \subseteq Requests
    BY <2>1, ChangeAdds DEF TypeOK
  <2>3. UNCHANGED <<watched, route, object, navigations, history>>
    BY <2>1 DEF Change
  <2>4. QED
    BY <2>1, <2>2, <2>3 DEF TypeOK
<1>8. CASE UpdateAnalyses
  <2>1. object.id \in Objects
    BY <1>8 DEF UpdateAnalyses, TypeOK, Shown
  <2>2. server' \in [Objects -> Versions]
    BY <1>8 DEF UpdateAnalyses, TypeOK
  <2>3. PICK q \in Asked("fetch", object.id, object.id, None) : requests' = requests \cup {q}
    BY <1>8, SendSends DEF UpdateAnalyses
  <2>4. q \in Requests
    BY <2>1, <2>2, <2>3, AskedType
  <2>5. QED
    BY <1>8, <2>2, <2>3, <2>4 DEF UpdateAnalyses, TypeOK
<1>9. CASE LoadMoreAnalyses
  <2>1. object.id \in Objects /\ object.of \in Objects /\ object.version \in Versions
    BY <1>9 DEF LoadMoreAnalyses, TypeOK, Shown
  <2>2. PICK ok \in BOOLEAN :
          requests' = requests \cup
              {[kind |-> "fetch", of |-> object.of, at |-> object.id, version |-> object.version,
                ok |-> ok, button |-> None]}
    BY <1>9 DEF LoadMoreAnalyses
  <2>3. requests' \subseteq Requests
    BY <2>1, <2>2 DEF TypeOK, Requests
  <2>4. QED
    BY <1>9, <2>3 DEF LoadMoreAnalyses, TypeOK
<1>10. CASE UNCHANGED vars
  BY <1>10 DEF vars, TypeOK
<1>11. QED
  BY <1>1, <1>2, <1>3, <1>4, <1>5, <1>6, <1>7, <1>8, <1>9, <1>10 DEF Next, Changes

-----------------------------------------------------------------------------
(* The rest of the inductive invariant *)

LEMMA InitInv == Init => IInv
<1> SUFFICES ASSUME Init PROVE IInv
  OBVIOUS
<1>1. PICK ok \in BOOLEAN :
        requests = {[kind |-> "load", of |-> route, at |-> route, version |-> 0, ok |-> ok,
                     button |-> None]}
  BY DEF Init
<1>2. \A q \in requests : q.kind = "load" /\ q.of = route /\ q.button = None
  BY <1>1
<1>3. \E q \in requests : q.kind = "load" /\ q.of = route
  BY <1>1
<1>4. object = None /\ disabled = {}
  BY DEF Init
<1>5. RequestsInv
  BY <1>2 DEF RequestsInv
<1>6. RemovalPending
  BY <1>2, <1>4, ObjectPageAssumption DEF RemovalPending
<1>7. Arrives
  BY <1>3 DEF Arrives
<1>8. OfItself
  BY <1>4 DEF OfItself
<1>9. QED
  BY InitType, <1>5, <1>6, <1>7, <1>8 DEF IInv

\* One more request, about an object that is shown, of a box that may send it.
LEMMA OneMoreInv ==
    ASSUME IInv, UNCHANGED <<watched, object, route, disabled, history>>, NEW q,
           requests' = requests \cup {q}, q.button = None, q.kind # "reload",
           q.kind # "load" => object # None
    PROVE  RequestsInv' /\ RemovalPending' /\ Arrives' /\ OfItself'
<1>1. RequestsInv'
  BY DEF IInv, RequestsInv
<1>2. RemovalPending'
  BY ObjectPageAssumption DEF IInv, RemovalPending
<1>3. Arrives'
  BY DEF IInv, Arrives
<1>4. OfItself'
  BY DEF IInv, OfItself
<1>5. QED
  BY <1>1, <1>2, <1>3, <1>4

LEMMA NavigateInv ==
    ASSUME IInv, NEW o \in Objects, Navigate(o)
    PROVE  RequestsInv' /\ RemovalPending' /\ Arrives' /\ OfItself'
<1>1. PICK q \in Asked("load", o, o, None) : requests' = requests \cup {q}
  BY SendSends DEF Navigate
<1>2. q.kind = "load" /\ q.of = o /\ q.button = None
  BY <1>1 DEF Asked
<1>3. UNCHANGED <<watched, object, disabled, history>> /\ route' = o
  BY DEF Navigate
<1>4. RequestsInv'
  BY <1>1, <1>2, <1>3 DEF IInv, RequestsInv
<1>5. RemovalPending'
  BY <1>1, <1>2, <1>3, ObjectPageAssumption DEF IInv, RemovalPending
<1>6. Arrives'
  BY <1>1, <1>2, <1>3 DEF Arrives
<1>7. OfItself'
  BY <1>3 DEF IInv, OfItself
<1>8. QED
  BY <1>4, <1>5, <1>6, <1>7

\* An answer is merged into the page: it is of the object shown unless that is remembered.
LEMMA DeliverObjectInv ==
    ASSUME IInv, NEW q \in requests, DeliverObject(q)
    PROVE  RequestsInv' /\ RemovalPending' /\ Arrives' /\ OfItself'
<1> USE DEF IInv
<1>1. object' \in Shown
  BY DeliveredObject
<1>2. object' # None /\ object'.id \in Objects
  BY <1>1, NoneAssumption DEF Shown
<1>3. UNCHANGED <<watched, route>> /\ disabled' = disabled \cap RelationBoxes(object')
  BY DEF DeliverObject
<1>4. /\ \A r \in requests \ {q} :
            /\ Detach(r, object') \in requests'
            /\ Detach(r, object').kind = r.kind /\ Detach(r, object').of = r.of
            /\ r.button \in RelationBoxes(object') => Detach(r, object').button = r.button
      /\ \A r \in requests' :
            \/ \E p \in requests \ {q} :
                   /\ r = Detach(p, object') /\ r.kind = p.kind
                   /\ r.button # None =>
                        p.button = r.button /\ r.button \in RelationBoxes(object')
            \/ r.kind = "fetch" /\ r.button = None
  BY DeliveredRequests, DetachKeeps DEF TypeOK
<1>5. q.button = None /\ q.kind \in {"load", "reload", "fetch"}
  BY DEF DeliverObject, RequestsInv
<1>6. history' = Disturbed(q)
  BY DEF DeliverObject
<1>7. ~history'.crossed => /\ ~history.crossed /\ q.of = route
                           /\ q.kind = "fetch" => q.of = object.id
  BY <1>6 DEF Disturbed, TypeOK, History
<1>8. ~history'.failed => ~history.failed
  BY <1>6 DEF Disturbed, TypeOK, History
<1>9. q.kind # "load" => object \in Shown
  BY DEF RequestsInv, TypeOK
<1>10. RequestsInv'
  BY <1>2, <1>3, <1>4 DEF RequestsInv
<1>11. RemovalPending'
  <2> SUFFICES ASSUME NEW type \in Types
               PROVE  /\ type \in disabled' <=> \E r \in requests' : r.button = type
                      /\ \A r, p \in requests' : r.button = type /\ p.button = type => r = p
    BY DEF RemovalPending
  <2>1. type # None
    BY ObjectPageAssumption
  <2>2. ASSUME type \in disabled' PROVE \E r \in requests' : r.button = type
    <3>1. PICK r \in requests : r.button = type
      BY <1>3, <2>2 DEF RemovalPending
    <3>2. QED
      BY <1>3, <1>4, <1>5, <2>1, <2>2, <3>1
  <2>3. ASSUME NEW r \in requests', r.button = type PROVE type \in disabled'
    BY <1>3, <1>4, <2>1, <2>3 DEF RemovalPending
  <2>4. ASSUME NEW r \in requests', NEW p \in requests', r.button = type, p.button = type
        PROVE  r = p
    <3>1. PICK v \in requests, w \in requests :
             /\ r = Detach(v, object') /\ p = Detach(w, object')
             /\ v.button = type /\ w.button = type
      BY <1>4, <2>1, <2>4
    <3>2. QED
      BY <3>1 DEF RemovalPending
  <2>5. QED
    BY <2>2, <2>3, <2>4
<1>12. Arrives'
  <2> SUFFICES ASSUME ~(history'.crossed \/ history'.failed)
               PROVE  \/ object'.id = route'
                      \/ \E r \in requests' : r.kind = "load" /\ r.of = route'
    BY <1>2 DEF Arrives
  <2>1. CASE q.kind = "load"
    BY <1>3, <1>7, <2>1 DEF DeliverObject, Load
  <2>2. CASE q.kind = "reload"
    BY <1>3, <1>7, <1>9, <2>2 DEF DeliverObject, Update, Shown
  <2>3. CASE q.kind = "fetch"
    <3>1. object'.id = object.id
      BY <1>9, <2>3 DEF DeliverObject, Update, Shown
    <3>2. QED
      BY <1>3, <1>4, <1>7, <1>8, <2>3, <3>1 DEF Arrives
  <2>4. QED
    BY <1>5, <2>1, <2>2, <2>3
<1>13. OfItself'
  <2> SUFFICES ASSUME ~history'.crossed PROVE object'.of \in {None, object'.id}
    BY DEF OfItself
  <2>1. CASE q.kind = "load"
    BY <2>1 DEF DeliverObject, Load
  <2>2. CASE q.kind = "reload"
    <3>1. watched \in Base
      BY <2>2 DEF RequestsInv, Reloading, Base
    <3>2. QED
      BY <1>9, <2>2, <3>1 DEF DeliverObject, Update, Shown
  <2>3. CASE q.kind = "fetch"
    BY <1>7, <1>9, <2>3 DEF DeliverObject, Update, Shown
  <2>4. QED
    BY <1>5, <2>1, <2>2, <2>3
<1>14. QED
  BY <1>10, <1>11, <1>12, <1>13

\* A change is answered: its box asks again, and a removal enables its button.
LEMMA DeliverChangeInv ==
    ASSUME IInv, NEW q \in requests, DeliverChange(q)
    PROVE  RequestsInv' /\ RemovalPending' /\ Arrives' /\ OfItself'
<1> USE DEF IInv
<1>1. UNCHANGED <<watched, route, object, history>> /\ disabled' = disabled \ {q.button}
  BY DEF DeliverChange
<1>2. q.kind = "change" /\ object # None
  BY DEF DeliverChange, RequestsInv
<1>3. PICK r \in Requests : /\ requests' = (requests \ {q}) \cup {r}
                            /\ r.kind \in {"reload", "fetch"} /\ r.button = None
                            /\ r.kind = "reload" => watched \in Reloading
  <2>1. server' \in [Objects -> Versions] /\ Refresh(q)
    BY DEF DeliverChange, TypeOK
  <2>2. QED
    BY <2>1, RefreshAdds
<1>4. RequestsInv'
  BY <1>1, <1>2, <1>3 DEF RequestsInv
<1>5. RemovalPending'
  BY <1>1, <1>3, ObjectPageAssumption DEF RemovalPending
<1>6. Arrives'
  BY <1>1, <1>2, <1>3 DEF Arrives
<1>7. OfItself'
  BY <1>1 DEF OfItself
<1>8. QED
  BY <1>4, <1>5, <1>6, <1>7

LEMMA DeliverErrorInv ==
    ASSUME IInv, NEW q \in requests, DeliverError(q)
    PROVE  RequestsInv' /\ RemovalPending' /\ Arrives' /\ OfItself'
<1> USE DEF IInv
<1>1. /\ UNCHANGED <<watched, route, object>> /\ requests' = requests \ {q}
      /\ disabled' = disabled \ {q.button}
      /\ history' = [history EXCEPT !.failed = TRUE]
  BY DEF DeliverError
<1>2. history'.failed /\ history'.crossed = history.crossed
  BY <1>1 DEF TypeOK, History
<1>3. RequestsInv'
  BY <1>1 DEF RequestsInv
<1>4. RemovalPending'
  BY <1>1, ObjectPageAssumption DEF RemovalPending
<1>5. Arrives'
  BY <1>2 DEF Arrives
<1>6. OfItself'
  BY <1>1, <1>2 DEF OfItself
<1>7. QED
  BY <1>3, <1>4, <1>5, <1>6

\* The button of a box is disabled by the only removal of that box on its way.
LEMMA RemoveRelationInv ==
    ASSUME IInv, RemoveRelation
    PROVE  RequestsInv' /\ RemovalPending' /\ Arrives' /\ OfItself'
<1> USE DEF IInv
<1>1. PICK type \in Types \ disabled :
         Change("relations", type) /\ disabled' = disabled \cup {type}
  BY DEF RemoveRelation
<1>2. UNCHANGED <<watched, route, object, history>>
  BY <1>1 DEF Change
<1>3. PICK q \in Requests :
         requests' = requests \cup {q} /\ q.kind = "change" /\ q.button = type
  BY <1>1, ChangeAdds
<1>4. object # None
  BY <1>1 DEF Change
<1>5. \A p \in requests : p.button # type
  BY <1>1 DEF RemovalPending
<1>6. RequestsInv'
  BY <1>2, <1>3, <1>4 DEF RequestsInv
<1>7. RemovalPending'
  BY <1>1, <1>3, <1>5 DEF RemovalPending
<1>8. Arrives'
  BY <1>2, <1>3 DEF Arrives
<1>9. OfItself'
  BY <1>2 DEF OfItself
<1>10. QED
  BY <1>6, <1>7, <1>8, <1>9

LEMMA NextInv == IInv /\ [Next]_vars => IInv'
<1> SUFFICES ASSUME IInv, [Next]_vars PROVE IInv'
  OBVIOUS
<1> DEFINE Rest == RequestsInv /\ RemovalPending /\ Arrives /\ OfItself
<1>1. TypeOK'
  BY NextType DEF IInv
<1>2. ASSUME NEW o \in Objects, Navigate(o) PROVE Rest'
  BY <1>2, NavigateInv
<1>3. ASSUME NEW o \in Objects, ChangeElsewhere(o) PROVE Rest'
  BY <1>3 DEF ChangeElsewhere, IInv, RequestsInv, RemovalPending, Arrives, OfItself
<1>4. ASSUME NEW q \in requests, DeliverObject(q) PROVE Rest'
  BY <1>4, DeliverObjectInv
<1>5. ASSUME NEW q \in requests, DeliverChange(q) PROVE Rest'
  BY <1>5, DeliverChangeInv
<1>6. ASSUME NEW q \in requests, DeliverError(q) PROVE Rest'
  BY <1>6, DeliverErrorInv
<1>7. ASSUME Changes PROVE Rest'
  <2>1. PICK box : Change(box, None) /\ UNCHANGED disabled
    BY <1>7, ChangesChange
  <2>2. UNCHANGED <<watched, route, object, history, disabled>>
    BY <2>1 DEF Change
  <2>3. PICK q \in Requests : requests' = requests \cup {q} /\ q.kind = "change" /\ q.button = None
    BY <2>1, ChangeAdds DEF IInv
  <2>4. object # None
    BY <2>1 DEF Change
  <2>5. QED
    BY <2>2, <2>3, <2>4, OneMoreInv
<1>8. ASSUME RemoveRelation PROVE Rest'
  BY <1>8, RemoveRelationInv
<1>9. ASSUME UpdateAnalyses PROVE Rest'
  <2>1. PICK q \in Asked("fetch", object.id, object.id, None) : requests' = requests \cup {q}
    BY <1>9, SendSends DEF UpdateAnalyses
  <2>2. q.kind = "fetch" /\ q.button = None
    BY <2>1 DEF Asked
  <2>3. UNCHANGED <<watched, route, object, history, disabled>> /\ object # None
    BY <1>9 DEF UpdateAnalyses
  <2>4. QED
    BY <2>1, <2>2, <2>3, OneMoreInv
<1>10. ASSUME LoadMoreAnalyses PROVE Rest'
  <2>1. PICK q : requests' = requests \cup {q} /\ q.kind = "fetch" /\ q.button = None
    <3>1. PICK ok \in BOOLEAN :
            requests' = requests \cup
                {[kind |-> "fetch", of |-> object.of, at |-> object.id, version |-> object.version,
                  ok |-> ok, button |-> None]}
      BY <1>10 DEF LoadMoreAnalyses
    <3> DEFINE q == [kind |-> "fetch", of |-> object.of, at |-> object.id,
                     version |-> object.version, ok |-> ok, button |-> None]
    <3>2. q.kind = "fetch" /\ q.button = None
      OBVIOUS
    <3>3. requests' = requests \cup {q}
      BY <3>1
    <3> HIDE DEF q
    <3>4. QED
      BY <3>2, <3>3
  <2>2. UNCHANGED <<watched, route, object, history, disabled>> /\ object # None
    BY <1>10 DEF LoadMoreAnalyses
  <2>3. QED
    BY <2>1, <2>2, OneMoreInv
<1>11. ASSUME UNCHANGED vars PROVE Rest'
  <2>1. UNCHANGED <<watched, route, object, requests, disabled, history>>
    BY <1>11 DEF vars
  <2>2. RequestsInv' /\ RemovalPending'
    BY <2>1 DEF IInv, RequestsInv, RemovalPending
  <2>3. Arrives' /\ OfItself'
    BY <2>1 DEF IInv, Arrives, OfItself
  <2>4. QED
    BY <2>2, <2>3
<1> HIDE DEF Rest
<1>12. Rest'
  BY <1>2, <1>3, <1>4, <1>5, <1>6, <1>7, <1>8, <1>9, <1>10, <1>11 DEF Next, Changes
<1>13. QED
  BY <1>1, <1>12 DEF IInv, Rest

-----------------------------------------------------------------------------
(* Theorems *)

\* The inductive invariant holds in every behaviour.
LEMMA Invariant == Spec => []IInv
<1>1. Init => IInv
  BY InitInv
<1>2. IInv /\ [Next]_vars => IInv'
  BY NextInv
<1>3. QED
  BY <1>1, <1>2, PTL DEF Spec

\* The page, its requests and the history keep their shape, whatever order answers come in.
THEOREM TypeCorrect == Spec => []TypeOK
<1>1. IInv => TypeOK
  BY DEF IInv
<1>2. QED
  BY <1>1, Invariant, PTL

\* The button of a box of relations is disabled exactly while its own removal is on its way,
\* one at most: it comes back after success and after an error, and never earlier by the answer
\* to another box, whichever boxes come and go with the rows of the objects shown.
THEOREM RemovalPendingCorrect == Spec => []RemovalPending
<1>1. IInv => RemovalPending
  BY DEF IInv
<1>2. QED
  BY <1>1, Invariant, PTL

\* As long as every answer comes while its object is the one in the address, the page never
\* mixes two objects, and once nothing is on its way it shows the one in the address.
THEOREM SerialOneObjectCorrect == Spec => []SerialOneObject
<1>1. IInv => SerialOneObject
  BY DEF IInv, OfItself, Arrives, SerialOneObject, Quiet
<1>2. QED
  BY <1>1, Invariant, PTL

-----------------------------------------------------------------------------
(* What is asked for is at least as new as what this page last wrote *)

LEMMA InitFresh == Init => FreshInv
<1> SUFFICES ASSUME Init PROVE FreshInv
  OBVIOUS
<1>1. PICK ok \in BOOLEAN :
        requests = {[kind |-> "load", of |-> route, at |-> route, version |-> 0, ok |-> ok,
                     button |-> None]}
  BY DEF Init
<1>2. \E q \in requests : q.kind = "load" /\ q.of = route /\ q.version = 0
  BY <1>1
<1>3. object = None /\ route \in Objects /\ \A o \in Objects : own[o] = 0 /\ server[o] = 0
  BY DEF Init
<1>4. QED
  BY <1>2, <1>3 DEF FreshInv, ServerAhead, ArrivesFresh, Filling, OwnOnItsWay

\* A step that only adds requests, or changes an object elsewhere.
LEMMA MoreRequests ==
    ASSUME FreshInv, UNCHANGED <<watched, route, object, own, history>>, requests \subseteq requests'
    PROVE  ArrivesFresh' /\ Filling' /\ OwnOnItsWay'
<1>1. ArrivesFresh'
  BY DEF FreshInv, ArrivesFresh
<1>2. Filling'
  BY DEF FreshInv, Filling
<1>3. ShowsOwn' = ShowsOwn /\ \A q : Refreshes(q)' = Refreshes(q)
  BY DEF ShowsOwn, Refreshes
<1>4. OwnOnItsWay'
  BY <1>3 DEF FreshInv, OwnOnItsWay
<1>5. QED
  BY <1>1, <1>2, <1>4

LEMMA NavigateFresh ==
    ASSUME IInv, FreshInv, NEW o \in Objects, Navigate(o)
    PROVE  FreshInv'
<1>1. PICK q \in Asked("load", o, o, None) : requests' = requests \cup {q}
  BY SendSends DEF Navigate
<1>2. UNCHANGED <<watched, object, own, server, history>> /\ route' = o
  BY DEF Navigate
<1>3. q.kind = "load" /\ q.of = o /\ q.version = server[o] /\ q \in requests'
  <2>1. server' = server
    BY <1>2
  <2>2. q.kind = "load" /\ q.of = o /\ q.version = server'[o]
    BY <1>1 DEF Asked
  <2>3. QED
    BY <1>1, <2>1, <2>2
<1>4. ServerAhead'
  BY <1>2 DEF FreshInv, ServerAhead
<1>5. ArrivesFresh'
  BY <1>2, <1>3 DEF FreshInv, ServerAhead, ArrivesFresh
<1>6. Filling'
  BY <1>1, <1>2 DEF FreshInv, Filling
<1>7. ShowsOwn' = ShowsOwn /\ \A r : Refreshes(r)' = Refreshes(r)
  BY <1>2 DEF ShowsOwn, Refreshes
<1>8. OwnOnItsWay'
  <2> SUFFICES ASSUME object # None, ~(history.crossed \/ history.overtaken \/ history.failed),
                      history.wiped => watched \in Base, ~ShowsOwn
               PROVE  \E r \in requests' : Refreshes(r) \/ (r.kind = "load" /\ r.of # object.id)
    BY <1>2, <1>7 DEF OwnOnItsWay
  <2>1. QED
    BY <1>1 DEF FreshInv, OwnOnItsWay
<1>9. QED
  BY <1>4, <1>5, <1>6, <1>8 DEF FreshInv

\* A change of the object shown is on its way to be read again, or so is another page.
LEMMA ChangeFresh ==
    ASSUME IInv, FreshInv, NEW box, NEW button \in Types \cup {None}, Change(box, button)
    PROVE  FreshInv'
<1> DEFINE o == object.id
<1>1. object # None /\ o \in Objects /\ server[o] \in Nat /\ route \in Objects
  BY DEF Change, IInv, TypeOK, Shown, Versions
<1>2. /\ server \in [Objects -> Versions] /\ own \in [Objects -> Versions]
      /\ \A x \in Objects : server[x] \in Nat /\ own[x] \in Nat /\ own[x] <= server[x]
  BY DEF IInv, TypeOK, Versions, FreshInv, ServerAhead
<1>3. UNCHANGED <<watched, route, object, history>>
  BY DEF Change
<1>4. PICK ok \in BOOLEAN :
         /\ server' = IF ok THEN [server EXCEPT ![o] = @ + 1] ELSE server
         /\ own' = IF ok THEN [own EXCEPT ![o] = server'[o]] ELSE own
         /\ \E q \in Asked("change", o, route, button) :
               q.ok = ok /\ requests' = requests \cup {q}
  BY DEF Change
<1>5. PICK q \in Asked("change", o, route, button) : q.ok = ok /\ requests' = requests \cup {q}
  BY <1>4
<1>6. q.kind = "change" /\ q.of = o /\ q.at = route /\ q \in requests'
  BY <1>5 DEF Asked
<1> HIDE DEF o
<1>7. CASE ~ok
  <2>1. server' = server /\ own' = own /\ requests \subseteq requests'
    BY <1>4, <1>5, <1>7
  <2>2. ServerAhead'
    BY <2>1 DEF FreshInv, ServerAhead
  <2>3. QED
    BY <1>3, <2>1, <2>2, MoreRequests DEF FreshInv
<1>8. CASE ok
  <2>1. /\ server'[o] = server[o] + 1 /\ own'[o] = server[o] + 1
        /\ \A x \in Objects : x # o => own'[x] = own[x] /\ server'[x] = server[x]
    BY <1>1, <1>2, <1>4, <1>8
  <2>2. ServerAhead'
    BY <1>1, <1>2, <2>1 DEF ServerAhead
  <2>3. ArrivesFresh'
    BY <1>1, <1>3, <1>5, <2>1 DEF FreshInv, ArrivesFresh, o
  <2>4. Filling'
    BY <1>3, <1>5 DEF FreshInv, Filling
  <2>5. CASE o = route
    <3>1. Refreshes(q)'
      BY <1>3, <1>5, <1>6, <1>8, <2>5 DEF Refreshes, o
    <3>2. OwnOnItsWay'
      BY <1>6, <3>1 DEF OwnOnItsWay
    <3>3. QED
      BY <2>2, <2>3, <2>4, <3>2 DEF FreshInv
  <2>6. CASE o # route
    <3>1. ~(history.crossed \/ history.failed) =>
             \E r \in requests' : r.kind = "load" /\ r.of # o
      BY <1>5, <2>6 DEF FreshInv, ArrivesFresh, o
    <3>2. OwnOnItsWay'
      BY <1>3, <3>1 DEF OwnOnItsWay, o
    <3>3. QED
      BY <2>2, <2>3, <2>4, <3>2 DEF FreshInv
  <2>7. QED
    BY <2>5, <2>6
<1>9. QED
  BY <1>7, <1>8

LEMMA DeliverChangeFresh ==
    ASSUME IInv, FreshInv, NEW q \in requests, DeliverChange(q)
    PROVE  FreshInv'
<1>1. /\ watched' = watched /\ route' = route /\ object' = object /\ server' = server
      /\ own' = own /\ history' = history
      /\ q.kind = "change" /\ Refresh(q)
  BY DEF DeliverChange
<1>2. PICK r : /\ requests' = (requests \ {q}) \cup {r}
               /\ r.kind = IF watched \in Reloading THEN "reload" ELSE "fetch"
               /\ r.of = IF watched \in Reloading THEN q.at ELSE q.of
               /\ r.version = server'[r.of]
  <2>1. CASE watched \in Reloading
    <3>1. PICK r \in Asked("reload", q.at, q.at, None) : requests' = (requests \ {q}) \cup {r}
      BY <1>1, <2>1 DEF Refresh, Send
    <3>2. QED
      BY <2>1, <3>1 DEF Asked
  <2>2. CASE watched \notin Reloading
    <3>1. PICK r \in Asked("fetch", q.of, q.of, None) : requests' = (requests \ {q}) \cup {r}
      BY <1>1, <2>2 DEF Refresh, Send
    <3>2. QED
      BY <2>2, <3>1 DEF Asked
  <2>3. QED
    BY <2>1, <2>2
<1>3. ServerAhead'
  BY <1>1 DEF FreshInv, ServerAhead
<1>4. ArrivesFresh'
  BY <1>1, <1>2 DEF FreshInv, ArrivesFresh
<1>5. Filling'
  BY <1>1, <1>2 DEF FreshInv, Filling
<1>6. ShowsOwn' = ShowsOwn /\ \A w : Refreshes(w)' = Refreshes(w)
  BY <1>1 DEF ShowsOwn, Refreshes
<1>7. Refreshes(q) /\ object # None => Refreshes(r)
  <2> SUFFICES ASSUME Refreshes(q), object # None PROVE Refreshes(r)
    OBVIOUS
  <2>1. r.of = object.id
    BY <1>1, <1>2 DEF Refreshes
  <2>2. object.id \in Objects
    BY DEF IInv, TypeOK, Shown
  <2>3. r.version >= own[object.id]
    <3>1. own[object.id] <= server[object.id] /\ own[object.id] \in Nat /\ server[object.id] \in Nat
      BY <2>2 DEF FreshInv, ServerAhead, IInv, TypeOK, Versions
    <3>2. QED
      BY <1>1, <1>2, <2>1, <3>1
  <2>4. r.kind # "fetch" => watched \in Base
    BY <1>2 DEF Reloading, Base
  <2>5. r.kind # "change"
    BY <1>2
  <2>6. QED
    BY <2>1, <2>3, <2>4, <2>5 DEF Refreshes
<1>8. OwnOnItsWay'
  <2> SUFFICES ASSUME object # None, ~(history.crossed \/ history.overtaken \/ history.failed),
                      history.wiped => watched \in Base, ~ShowsOwn
               PROVE  \E w \in requests' : Refreshes(w) \/ (w.kind = "load" /\ w.of # object.id)
    BY <1>1, <1>6 DEF OwnOnItsWay
  <2>1. PICK w \in requests : Refreshes(w) \/ (w.kind = "load" /\ w.of # object.id)
    BY DEF FreshInv, OwnOnItsWay
  <2>2. CASE w = q
    BY <1>1, <1>2, <1>7, <2>1, <2>2
  <2>3. CASE w # q
    BY <1>2, <2>1, <2>3
  <2>4. QED
    BY <2>2, <2>3
<1>9. QED
  BY <1>3, <1>4, <1>5, <1>8 DEF FreshInv

\* When another object is shown, its lazy box asks.
LEMMA LazyAsks ==
    ASSUME NEW shown, NEW others, AskLazily(shown, others)
    PROVE  /\ others \subseteq requests'
           /\ (watched \in Lazy /\ (object = None \/ object.id # shown.id)) =>
                 \E r \in requests' : r.kind = "fetch" /\ r.of = shown.id /\ r.version = server'[shown.id]
<1>1. CASE watched \in Lazy /\ (object = None \/ object.id # shown.id)
  <2>1. PICK r \in Asked("fetch", shown.id, shown.id, None) : requests' = others \cup {r}
    BY <1>1 DEF AskLazily, Send
  <2>2. r.kind = "fetch" /\ r.of = shown.id /\ r.version = server'[shown.id]
    BY <2>1 DEF Asked
  <2>3. QED
    BY <2>1, <2>2
<1>2. CASE ~(watched \in Lazy /\ (object = None \/ object.id # shown.id))
  BY <1>2 DEF AskLazily
<1>3. QED
  BY <1>1, <1>2

\* An answer that is stale leaves a fresh one on its way, or overtakes one.
LEMMA DeliverObjectFresh ==
    ASSUME IInv, FreshInv, NEW q \in requests, DeliverObject(q)
    PROVE  FreshInv'
<1>1. /\ watched' = watched /\ route' = route /\ server' = server /\ own' = own
      /\ AskLazily(object', {Detach(r, object') : r \in requests \ {q}})
      /\ history' = Disturbed(q)
  BY DEF DeliverObject
<1>2. /\ \A r \in requests \ {q} :
            /\ Detach(r, object') \in requests'
            /\ Detach(r, object').kind = r.kind /\ Detach(r, object').of = r.of
            /\ Detach(r, object').at = r.at /\ Detach(r, object').version = r.version
            /\ Detach(r, object').ok = r.ok
      /\ (watched \in Lazy /\ (object = None \/ object.id # object'.id)) =>
            \E r \in requests' : r.kind = "fetch" /\ r.of = object'.id /\ r.version = server[object'.id]
  <2>1. \A r \in requests \ {q} : Detach(r, object') \in requests'
    BY <1>1, LazyAsks
  <2>2. \A r \in requests \ {q} : r \in Requests
    BY DEF IInv, TypeOK
  <2>3. QED
    BY <1>1, <2>1, <2>2, LazyAsks, DetachKeeps
<1>3. /\ q.kind \in {"load", "reload", "fetch"}
      /\ q.kind # "load" => object # None /\ object \in Shown
      /\ q.kind = "reload" => watched \in Base
      /\ watched \in Base \cup Lazy
  BY DEF DeliverObject, IInv, RequestsInv, TypeOK, Reloading, Base
<1>4. /\ q.of \in Objects /\ q.version \in Nat /\ own[q.of] \in Nat /\ own[q.of] <= server[q.of]
      /\ q.of # None
  <2>1. q.of \in Objects /\ q.version \in Nat
    BY DEF IInv, TypeOK, Requests, Versions
  <2>2. own[q.of] \in Nat /\ own[q.of] <= server[q.of]
    BY <2>1 DEF IInv, TypeOK, Versions, FreshInv, ServerAhead
  <2>3. QED
    BY <2>1, <2>2, ObjectPageAssumption
<1>5. /\ ~history'.failed => ~history.failed
      /\ ~history'.crossed => /\ ~history.crossed /\ q.of = route
                              /\ q.kind = "fetch" => q.of = object.id
      /\ ~history'.overtaken =>
            /\ ~history.overtaken
            /\ ~(object # None /\ object.of = q.of /\ object.version > q.version)
      /\ ~history'.wiped => /\ ~history.wiped
                            /\ ~(q.kind = "load" /\ object # None /\ object.id = q.of)
  BY <1>1 DEF Disturbed, IInv, TypeOK, History
<1>6. q.kind = "load" =>
        /\ object'.id = q.of
        /\ watched \in Base => object'.of = q.of /\ object'.version = q.version
  BY DEF DeliverObject, Load
<1>7. q.kind = "reload" => object'.id = q.of /\ object'.of = q.of /\ object'.version = q.version
  BY <1>3 DEF DeliverObject, Update, Shown
<1>8. q.kind = "fetch" => object'.id = object.id /\ object'.of = q.of /\ object'.version = q.version
  BY <1>3 DEF DeliverObject, Update, Shown
<1>9. ServerAhead'
  BY <1>1 DEF FreshInv, ServerAhead
<1>10. object' # None
  BY DeliveredObject, NoneAssumption DEF IInv
<1>11. ArrivesFresh'
  <2> SUFFICES ASSUME ~(history'.crossed \/ history'.failed), object'.id # route
               PROVE  \E r \in requests' : r.kind = "load" /\ r.of = route /\ r.version >= own[route]
    BY <1>1, <1>10 DEF ArrivesFresh
  <2>1. q.kind = "fetch" /\ object.id # route
    BY <1>3, <1>5, <1>6, <1>7, <1>8
  <2>2. PICK r \in requests : r.kind = "load" /\ r.of = route /\ r.version >= own[route]
    BY <1>5, <2>1 DEF FreshInv, ArrivesFresh
  <2>3. QED
    BY <1>2, <2>1, <2>2
<1>12. Filling'
  <2> SUFFICES ASSUME ~(history'.wiped \/ history'.failed), object'.of = None
               PROVE  \E r \in requests' : r.kind = "fetch" /\ r.of = object'.id
    BY DEF Filling
  <2>1. q.kind = "load" /\ watched \in Lazy
    BY <1>3, <1>4, <1>6, <1>7, <1>8
  <2>2. object = None \/ object.id # object'.id
    BY <1>5, <1>6, <2>1
  <2>3. QED
    BY <1>2, <2>1, <2>2
<1>13. OwnOnItsWay'
  <2> SUFFICES ASSUME ~history'.crossed, ~history'.overtaken, ~history'.failed,
                      history'.wiped => watched \in Base, ~ShowsOwn'
               PROVE  \E r \in requests' : Refreshes(r)' \/ (r.kind = "load" /\ r.of # object'.id)
    BY <1>1 DEF OwnOnItsWay
  <2>1. /\ q.of = route
        /\ q.kind = "fetch" => q.of = object.id
        /\ ~history.crossed /\ ~history.overtaken /\ ~history.failed
        /\ history.wiped => watched \in Base
    BY <1>5
  <2>2. object'.id = q.of
    BY <1>3, <1>6, <1>7, <1>8, <2>1
  <2>3. \A r : Refreshes(r)' <=>
           /\ r.of = q.of
           /\ IF r.kind = "change" THEN r.ok /\ (watched \in Reloading => r.at = q.of)
              ELSE r.version >= own[q.of] /\ (r.kind # "fetch" => watched \in Base)
    BY <1>1, <2>2 DEF Refreshes
  <2>4. CASE q.kind = "load" /\ watched \notin Base
    <3>1. object = None \/ object.id # q.of
      BY <1>5, <2>4
    <3>2. PICK r \in requests' : r.kind = "fetch" /\ r.of = q.of /\ r.version = server[q.of]
      BY <1>2, <1>3, <2>2, <2>4, <3>1
    <3>3. r.version >= own[q.of]
      <4>1. server[q.of] \in Nat
        BY <1>4 DEF IInv, TypeOK, Versions
      <4>2. QED
        BY <1>4, <3>2, <4>1
    <3>4. QED
      BY <2>3, <3>2, <3>3
  <2>5. CASE ~(q.kind = "load" /\ watched \notin Base)
    <3>1. object'.of = q.of /\ object'.version = q.version
      BY <1>3, <1>6, <1>7, <1>8, <2>5
    <3>2. q.version < own[q.of]
      BY <1>1, <1>4, <2>2, <3>1 DEF ShowsOwn
    <3>3. CASE object = None \/ object.id # q.of
      <4>1. watched \in Base
        BY <1>3, <2>1, <2>5, <3>3
      <4>2. PICK r \in requests : r.kind = "load" /\ r.of = route /\ r.version >= own[route]
        BY <2>1, <3>3 DEF FreshInv, ArrivesFresh
      <4>3. r # q
        BY <1>4, <2>1, <3>2, <4>2
      <4>4. QED
        BY <1>2, <2>1, <2>3, <4>1, <4>2, <4>3
    <3>4. CASE object # None /\ object.id = q.of
      <4>1. ~ShowsOwn
        <5>1. object.version \in Nat
          BY <3>4 DEF IInv, TypeOK, Shown, Versions
        <5>2. SUFFICES ASSUME ShowsOwn PROVE FALSE
          OBVIOUS
        <5>3. object.of = q.of /\ object.version >= own[q.of]
          BY <3>4, <5>2 DEF ShowsOwn
        <5>4. object.version > q.version
          BY <1>4, <3>2, <5>1, <5>3
        <5>5. QED
          BY <1>5, <3>4, <5>3, <5>4
      <4>2. PICK w \in requests : Refreshes(w) \/ (w.kind = "load" /\ w.of # object.id)
        BY <2>1, <3>4, <4>1 DEF FreshInv, OwnOnItsWay
      <4>3. w # q
        <5>1. ~Refreshes(q)
          BY <1>3, <1>4, <3>2, <3>4 DEF Refreshes
        <5>2. QED
          BY <3>4, <4>2, <5>1
      <4>4. PICK r \in requests' :
              /\ r.kind = w.kind /\ r.of = w.of /\ r.at = w.at
              /\ r.version = w.version /\ r.ok = w.ok
        BY <1>2, <4>2, <4>3
      <4>5. Refreshes(w) => Refreshes(r)'
        BY <2>3, <3>4, <4>4 DEF Refreshes
      <4>6. QED
        BY <2>2, <3>4, <4>2, <4>4, <4>5
    <3>5. QED
      BY <3>3, <3>4
  <2>6. QED
    BY <2>4, <2>5
<1>14. QED
  BY <1>9, <1>11, <1>12, <1>13 DEF FreshInv

LEMMA NextFresh == IInv /\ FreshInv /\ [Next]_vars => FreshInv'
<1> SUFFICES ASSUME IInv, FreshInv, [Next]_vars PROVE FreshInv'
  OBVIOUS
<1>1. ASSUME NEW o \in Objects, Navigate(o) PROVE FreshInv'
  BY <1>1, NavigateFresh
<1>2. ASSUME NEW o \in Objects, ChangeElsewhere(o) PROVE FreshInv'
  <2>1. \A x \in Objects : server[x] \in Nat /\ own[x] \in Nat /\ own[x] <= server[x]
    BY DEF IInv, TypeOK, Versions, FreshInv, ServerAhead
  <2>2. /\ server' = [server EXCEPT ![o] = @ + 1] /\ server \in [Objects -> Versions]
        /\ UNCHANGED <<watched, route, object, requests, own, history>>
    BY <1>2 DEF ChangeElsewhere, IInv, TypeOK
  <2>3. \A x \in Objects : server'[x] = IF x = o THEN server[x] + 1 ELSE server[x]
    BY <2>2
  <2>4. ServerAhead'
    BY <2>1, <2>2, <2>3 DEF ServerAhead
  <2>5. QED
    BY <2>2, <2>4, MoreRequests DEF FreshInv
<1>3. ASSUME NEW q \in requests, DeliverObject(q) PROVE FreshInv'
  BY <1>3, DeliverObjectFresh
<1>4. ASSUME NEW q \in requests, DeliverChange(q) PROVE FreshInv'
  BY <1>4, DeliverChangeFresh
<1>5. ASSUME NEW q \in requests, DeliverError(q) PROVE FreshInv'
  <2>1. history'.failed /\ own' = own /\ server' = server
    BY <1>5 DEF DeliverError, IInv, TypeOK, History
  <2>2. QED
    BY <2>1 DEF FreshInv, ServerAhead, ArrivesFresh, Filling, OwnOnItsWay
<1>6. CASE Changes
  <2>1. PICK box : Change(box, None)
    BY <1>6, ChangesChange
  <2>2. QED
    BY <2>1, ChangeFresh
<1>7. CASE RemoveRelation
  <2>1. PICK type \in Types : Change("relations", type)
    BY <1>7 DEF RemoveRelation
  <2>2. QED
    BY <2>1, ChangeFresh
<1>8. CASE UpdateAnalyses
  <2>1. PICK q : requests' = requests \cup {q}
    BY <1>8, SendSends DEF UpdateAnalyses
  <2>2. UNCHANGED <<watched, route, object, server, own, history>>
    BY <1>8 DEF UpdateAnalyses
  <2>3. ServerAhead'
    BY <2>2 DEF FreshInv, ServerAhead
  <2>4. QED
    BY <2>1, <2>2, <2>3, MoreRequests DEF FreshInv
<1>9. CASE LoadMoreAnalyses
  <2>1. requests \subseteq requests' /\ UNCHANGED <<watched, route, object, server, own, history>>
    BY <1>9 DEF LoadMoreAnalyses
  <2>2. ServerAhead'
    BY <2>1 DEF FreshInv, ServerAhead
  <2>3. QED
    BY <2>1, <2>2, MoreRequests DEF FreshInv
<1>10. CASE UNCHANGED vars
  <2>1. UNCHANGED <<watched, route, object, requests, server, own, history>>
    BY <1>10 DEF vars
  <2>2. ServerAhead'
    BY <2>1 DEF FreshInv, ServerAhead
  <2>3. QED
    BY <2>1, <2>2, MoreRequests DEF FreshInv
<1>11. QED
  BY <1>1, <1>2, <1>3, <1>4, <1>5, <1>6, <1>7, <1>8, <1>9, <1>10 DEF Next, Changes

LEMMA FreshCorrect == Spec => [](IInv /\ FreshInv)
<1>1. QED
  BY InitInv, InitFresh, NextInv, NextFresh, PTL DEF Spec

\* Once nothing is on its way a box that shows its object shows the changes made here,
\* however often the user goes back and forth and others change the objects, unless answers
\* were crossed, overtaken or lost, or a lazy box was wiped.
THEOREM SerialOwnChangesCorrect == Spec => []SerialOwnChanges
<1>1. IInv /\ FreshInv => SerialOwnChanges
  <2> SUFFICES ASSUME IInv, FreshInv, Quiet, object # None, object.of = object.id,
                      ~(history.crossed \/ history.overtaken \/ history.failed),
                      history.wiped => watched \in Base
               PROVE  object.version >= own[object.id]
    BY DEF SerialOwnChanges
  <2>1. ShowsOwn
    BY DEF FreshInv, OwnOnItsWay, Quiet
  <2>2. QED
    BY <2>1 DEF ShowsOwn
<1>2. QED
  BY FreshCorrect, <1>1, PTL

\* Once nothing is on its way the page shows an object, and its box is filled, unless an
\* answer was crossed or lost or a load wiped the field of the object already shown.
THEOREM SerialBoxesFilledCorrect == Spec => []SerialBoxesFilled
<1>1. IInv /\ FreshInv => SerialBoxesFilled
  BY DEF FreshInv, Filling, ArrivesFresh, Quiet, SerialBoxesFilled
<1>2. QED
  BY FreshCorrect, <1>1, PTL
================================================================================
