-------------------------- MODULE SharingTxn_proofs -------------------------
(***************************************************************************)
(* Proofs about SharingTxn: any number of requests, objects and groups,    *)
(* and any relations to start from.                                        *)
(***************************************************************************)
EXTENDS SharingTxn, FiniteSetTheorems, SequenceTheorems, TLAPS

-----------------------------------------------------------------------------
(* Queues *)

LEMMA HeadTail ==
    ASSUME NEW s \in Seq(Objects), s # <<>>
    PROVE  /\ Head(s) \in Objects
           /\ Tail(s) \in Seq(Objects)
           /\ Elements(s) = {Head(s)} \cup Elements(Tail(s))
<1>1. Head(s) \in Objects /\ Tail(s) \in Seq(Objects) /\ Len(s) \in Nat \ {0}
  OBVIOUS
<1>2. /\ DOMAIN s = 1..Len(s) /\ DOMAIN Tail(s) = 1..(Len(s) - 1)
      /\ Head(s) = s[1] /\ \A i \in 1..(Len(s) - 1) : Tail(s)[i] = s[i + 1]
  BY <1>1
<1>3. Elements(s) \subseteq {Head(s)} \cup Elements(Tail(s))
  <2>1. ASSUME NEW i \in DOMAIN s PROVE s[i] \in {Head(s)} \cup Elements(Tail(s))
    <3>1. CASE i = 1
      BY <1>2, <3>1
    <3>2. CASE i # 1
      <4>1. i - 1 \in DOMAIN Tail(s) /\ Tail(s)[i - 1] = s[i]
        BY <1>1, <1>2, <2>1, <3>2
      <4>2. QED
        BY <4>1 DEF Elements
    <3>3. QED
      BY <3>1, <3>2
  <2>2. QED
    BY <2>1 DEF Elements
<1>4. {Head(s)} \cup Elements(Tail(s)) \subseteq Elements(s)
  <2>1. Head(s) \in Elements(s)
    BY <1>1, <1>2 DEF Elements
  <2>2. ASSUME NEW i \in DOMAIN Tail(s) PROVE Tail(s)[i] \in Elements(s)
    <3>1. i + 1 \in DOMAIN s /\ Tail(s)[i] = s[i + 1]
      BY <1>1, <1>2, <2>2
    <3>2. QED
      BY <3>1 DEF Elements
  <2>3. QED
    BY <2>1, <2>2 DEF Elements
<1>5. QED
  BY <1>1, <1>3, <1>4

LEMMA Concatenated ==
    ASSUME NEW s \in Seq(Objects), NEW u \in Seq(Objects)
    PROVE  s \o u \in Seq(Objects) /\ Elements(s \o u) = Elements(s) \cup Elements(u)
<1>1. /\ s \o u \in Seq(Objects)
      /\ Len(s) \in Nat /\ Len(u) \in Nat
      /\ DOMAIN s = 1..Len(s) /\ DOMAIN u = 1..Len(u) /\ DOMAIN (s \o u) = 1..(Len(s) + Len(u))
      /\ \A i \in 1..(Len(s) + Len(u)) :
            (s \o u)[i] = IF i <= Len(s) THEN s[i] ELSE u[i - Len(s)]
  OBVIOUS
<1>2. ASSUME NEW i \in DOMAIN (s \o u) PROVE (s \o u)[i] \in Elements(s) \cup Elements(u)
  <2>1. CASE i <= Len(s)
    BY <1>1, <1>2, <2>1 DEF Elements
  <2>2. CASE ~(i <= Len(s))
    <3>1. i - Len(s) \in DOMAIN u
      BY <1>1, <1>2, <2>2
    <3>2. QED
      BY <1>1, <1>2, <2>2, <3>1 DEF Elements
  <2>3. QED
    BY <2>1, <2>2
<1>3. ASSUME NEW i \in DOMAIN s PROVE s[i] \in Elements(s \o u)
  <2>1. i \in DOMAIN (s \o u) /\ (s \o u)[i] = s[i]
    BY <1>1, <1>3
  <2>2. QED
    BY <2>1 DEF Elements
<1>4. ASSUME NEW i \in DOMAIN u PROVE u[i] \in Elements(s \o u)
  <2>1. i + Len(s) \in DOMAIN (s \o u) /\ (s \o u)[i + Len(s)] = u[i]
    BY <1>1, <1>4
  <2>2. QED
    BY <2>1 DEF Elements
<1>5. QED
  BY <1>1, <1>2, <1>3, <1>4 DEF Elements

LEMMA Singleton ==
    ASSUME NEW o \in Objects
    PROVE  /\ <<o>> \in Seq(Objects) /\ Elements(<<o>>) = {o}
           /\ <<>> \in Seq(Objects) /\ Elements(<<>>) = {}
BY DEF Elements

\* Children join the queue in some order, all of them.
LEMMA Ordered ==
    ASSUME NEW S \in SUBSET Objects, NEW s \in Orders(S)
    PROVE  s \in Seq(Objects) /\ Elements(s) = S
<1>1. IsFiniteSet(S) /\ Cardinality(S) \in Nat
  BY SharingAssumption, FS_Subset, FS_CardinalityType
<1>2. s \in [1..Cardinality(S) -> S] /\ \A i, j \in DOMAIN s : s[i] = s[j] => i = j
  BY DEF Orders
<1>3. s \in Seq(Objects)
  BY <1>1, <1>2
<1>4. s \in Injection(1..Cardinality(S), S)
  BY <1>2 DEF Injection, IsInjective
<1>5. Cardinality(1..Cardinality(S)) = Cardinality(S)
  BY <1>1, FS_Interval
<1>6. s \in Surjection(1..Cardinality(S), S)
  BY <1>1, <1>4, <1>5, FS_Injection
<1>7. \A x \in S : \E i \in 1..Cardinality(S) : s[i] = x
  BY <1>6 DEF Surjection
<1>8. DOMAIN s = 1..Cardinality(S) /\ \A i \in DOMAIN s : s[i] \in S
  BY <1>2
<1>9. Elements(s) = S
  BY <1>7, <1>8 DEF Elements
<1>10. QED
  BY <1>3, <1>9

-----------------------------------------------------------------------------
(* What is below an object *)

LEMMA BelowSelf ==
    ASSUME NEW o \in Objects
    PROVE  o \in Below(o) /\ Below(o) \subseteq Objects
BY DEF Below

LEMMA BelowChild ==
    ASSUME NEW o \in Objects, NEW y \in Below(o), NEW c \in Objects, <<y, c>> \in relation
    PROVE  c \in Below(o)
BY DEF Below

LEMMA BelowGrows ==
    ASSUME NEW o \in Objects, relation \subseteq relation'
    PROVE  Below(o) \subseteq Below(o)'
BY DEF Below

-----------------------------------------------------------------------------
(* The start *)

LEMMA InitInv == Init => IInv
<1> SUFFICES ASSUME Init PROVE IInv
  OBVIOUS
<1>1. Nothing \in [Objects -> (SUBSET Objects) \cup {NotLoaded}]
  BY DEF Nothing
<1>2. ASSUME NEW r \in Requests
      PROVE  /\ txn[r] \in Txns
             /\ txn[r].stage = "new"
             /\ txn[r].todo = {} /\ txn[r].visited = {} /\ txn[r].queue = <<>>
             /\ txn[r].children = Nothing
             /\ txn[r].newRelation = {} /\ txn[r].newPerm = {}
  <2>1. PICK k \in Kinds, o \in Objects, p \in Objects, g \in Groups : txn[r] = Fresh(k, o, p, g)
    BY DEF Init
  <2>2. k \in {"share", "link"} /\ <<>> \in Seq(Objects)
    BY SharingAssumption
  <2>3. QED
    BY <1>1, <2>1, <2>2 DEF Fresh, Txns, Stages
<1>3. TypeOK
  <2>1. txn = [r \in Requests |-> txn[r]]
    BY DEF Init
  <2>2. txn \in [Requests -> Txns]
    BY <1>2, <2>1
  <2>3. relation \subseteq Objects \X Objects
    BY SharingAssumption DEF Init
  <2>4. perm \subseteq Objects \X Groups
    BY DEF Init
  <2>5. overlapped \in BOOLEAN
    BY DEF Init
  <2>6. QED
    BY <2>2, <2>3, <2>4, <2>5 DEF TypeOK
<1>4. \A r \in Requests : ~InProgress(r)
  BY <1>2 DEF InProgress
<1>5. ASSUME NEW r \in Requests PROVE StageOf(r) /\ ShareOf(r)
  <2>1. StageOf(r)
    BY <1>2 DEF StageOf
  <2>2. Reached(r) = {}
    BY <1>2 DEF Reached, Queued, Elements
  <2>3. ShareOf(r)
    BY <1>2, <2>2 DEF ShareOf, Nothing
  <2>4. QED
    BY <2>1, <2>3
<1>6. ParentsImplyChildren
  BY DEF Init, ParentsImplyChildren
<1>7. QED
  BY <1>3, <1>4, <1>5, <1>6 DEF IInv, SerialInv, TreeInv

-----------------------------------------------------------------------------
(* Steps of one request *)

\* The others, and what the request is for, stay as they are.
Frame(r) ==
    /\ \A q \in Requests : q # r => txn'[q] = txn[q]
    /\ txn'[r].kind = txn[r].kind
    /\ txn'[r].target = txn[r].target
    /\ txn'[r].parent = txn[r].parent

LEMMA Replaced ==
    ASSUME TypeOK, NEW r \in Requests, NEW t \in Txns, txn' = [txn EXCEPT ![r] = t],
           t.kind = txn[r].kind, t.target = txn[r].target, t.parent = txn[r].parent
    PROVE  txn' \in [Requests -> Txns] /\ Frame(r) /\ txn'[r] = t
<1>1. txn \in [Requests -> Txns]
  BY DEF TypeOK
<1>2. txn' \in [Requests -> Txns] /\ txn'[r] = t /\ \A q \in Requests : q # r => txn'[q] = txn[q]
  BY <1>1
<1>3. QED
  BY <1>2 DEF Frame

\* What is claimed of a request depends on its own state and the committed rows only.
LEMMA Untouched ==
    ASSUME NEW r \in Requests, txn'[r] = txn[r], relation' = relation
    PROVE  /\ StageOf(r)' = StageOf(r)
           /\ InProgress(r)' = InProgress(r)
           /\ perm' = perm => /\ ShareOf(r)' = ShareOf(r)
                              /\ AloneOf(r)' = AloneOf(r)
                              /\ TreeOf(r)' = TreeOf(r)
<1>1. Queued(r)' = Queued(r) /\ Reached(r)' = Reached(r) /\ VisibleRelation(r)' = VisibleRelation(r)
  BY DEF Queued, Reached, Elements, VisibleRelation
<1>2. \A o : Below(o)' = Below(o) /\ At(r, o)' = At(r, o)
  BY DEF Below, At
<1>3. \A e, g : Due(r, e, g)' = Due(r, e, g)
  BY <1>1, <1>2 DEF Due
<1>4. LoadedOf(r)' = LoadedOf(r)
  BY <1>1 DEF LoadedOf
<1>5. StageOf(r)' = StageOf(r) /\ InProgress(r)' = InProgress(r)
  BY DEF StageOf, InProgress
<1>6. ASSUME perm' = perm PROVE VisiblePerm(r)' = VisiblePerm(r)
  BY <1>6 DEF VisiblePerm
<1>7. ASSUME perm' = perm PROVE ShareOf(r)' = ShareOf(r)
  BY <1>1, <1>2, <1>6, <1>7 DEF ShareOf
<1>8. ASSUME perm' = perm PROVE AloneOf(r)' = AloneOf(r)
  BY <1>1, <1>2, <1>3, <1>4, <1>6, <1>8 DEF AloneOf
<1>9. ASSUME perm' = perm PROVE TreeOf(r)' = TreeOf(r)
  BY <1>1, <1>2, <1>4, <1>6, <1>9 DEF TreeOf
<1>10. QED
  BY <1>5, <1>7, <1>8, <1>9

\* A step that commits nothing keeps the invariant if it keeps what is claimed of its request.
LEMMA Local ==
    ASSUME IInv, NEW r \in Requests, UNCHANGED <<relation, perm, overlapped>>,
           txn' \in [Requests -> Txns], Frame(r), InProgress(r),
           StageOf(r)', ShareOf(r)',
           ~overlapped /\ ParentsImplyChildren /\ AloneOf(r) /\ InProgress(r)' => AloneOf(r)',
           TreeOfShares /\ ParentsImplyChildren /\ TreeOf(r) /\ InProgress(r)' => TreeOf(r)'
    PROVE  IInv'
<1>1. TypeOK'
  BY DEF IInv, TypeOK
<1>2. ASSUME NEW q \in Requests, q # r
      PROVE  /\ StageOf(q)' = StageOf(q) /\ ShareOf(q)' = ShareOf(q)
             /\ AloneOf(q)' = AloneOf(q) /\ TreeOf(q)' = TreeOf(q)
             /\ InProgress(q)' = InProgress(q)
  BY <1>2, Untouched DEF Frame
<1>3. \A q \in Requests : StageOf(q)' /\ ShareOf(q)'
  BY <1>2 DEF IInv
<1>4. ParentsImplyChildren' = ParentsImplyChildren
  BY DEF ParentsImplyChildren
<1>5. SerialInv'
  <2>1. SUFFICES ASSUME ~overlapped'
                 PROVE  /\ ParentsImplyChildren'
                        /\ \A p, q \in Requests : InProgress(p)' /\ InProgress(q)' => p = q
                        /\ \A q \in Requests : InProgress(q)' => AloneOf(q)'
    BY DEF SerialInv
  <2>2. /\ ParentsImplyChildren
        /\ \A p, q \in Requests : InProgress(p) /\ InProgress(q) => p = q
        /\ \A q \in Requests : InProgress(q) => AloneOf(q)
    BY <2>1 DEF IInv, SerialInv
  <2>3. QED
    BY <1>2, <1>4, <2>1, <2>2
<1>6. TreeInv'
  <2>1. SUFFICES ASSUME TreeOfShares' PROVE ParentsImplyChildren' /\ \A q \in Requests : InProgress(q)' => TreeOf(q)'
    BY DEF TreeInv
  <2>2. TreeOfShares
    BY <2>1 DEF TreeOfShares, Frame, Below
  <2>3. ParentsImplyChildren /\ \A q \in Requests : InProgress(q) => TreeOf(q)
    BY <2>2 DEF IInv, TreeInv
  <2>4. QED
    BY <1>2, <1>4, <2>2, <2>3
<1>7. QED
  BY <1>1, <1>3, <1>5, <1>6 DEF IInv
\* What is known of a request at its next statement.
LEMMA Here ==
    ASSUME IInv, NEW r \in Requests
    PROVE  /\ TypeOK /\ StageOf(r) /\ ShareOf(r)
           /\ txn[r] \in Txns
           /\ txn[r].queue \in Seq(Objects)
           /\ txn[r].target \in Objects /\ txn[r].parent \in Objects /\ txn[r].group \in Groups
           /\ txn[r].kind \in {"share", "link"}
           /\ txn[r].visited \subseteq Objects /\ txn[r].todo \subseteq Groups
           /\ txn[r].children \in [Objects -> (SUBSET Objects) \cup {NotLoaded}]
           /\ relation \subseteq Objects \X Objects /\ perm \subseteq Objects \X Groups
           /\ VisibleRelation(r) \subseteq Objects \X Objects
           /\ VisiblePerm(r) \subseteq Objects \X Groups
<1>1. /\ TypeOK /\ StageOf(r) /\ ShareOf(r)
      /\ txn[r] \in Txns
      /\ relation \subseteq Objects \X Objects /\ perm \subseteq Objects \X Groups
  BY DEF IInv, TypeOK
<1>2. txn[r].newRelation \subseteq Objects \X Objects /\ txn[r].newPerm \subseteq Objects \X Groups
  BY <1>1 DEF Txns
<1>3. QED
  BY <1>1, <1>2 DEF Txns, VisibleRelation, VisiblePerm

\* Alone, with nothing written but the relation: closed as the committed tables are.
LEMMA CleanAlone ==
    ASSUME NEW r \in Requests, relation' = relation, perm' = perm, ParentsImplyChildren,
           txn'[r].children = Nothing, txn'[r].visited = {}, txn'[r].newPerm = {},
           txn'[r].stage \notin {"inserting", "spreading"},
           \/ txn'[r].newRelation = {}
           \/ /\ txn'[r].newRelation = {<<txn'[r].parent, txn'[r].target>>}
              /\ txn'[r].stage = "linked"
    PROVE  AloneOf(r)'
<1>1. VisiblePerm(r)' = perm
  BY DEF VisiblePerm
<1>2. LoadedOf(r)'
  BY DEF LoadedOf, Nothing
<1>3. ASSUME NEW e \in VisibleRelation(r)', NEW g \in Groups, <<e[1], g>> \in perm
      PROVE  <<e[2], g>> \in perm \/ Due(r, e, g)'
  <2>1. CASE e \in relation
    BY <1>3, <2>1 DEF ParentsImplyChildren, Closed
  <2>2. CASE e \notin relation
    <3>1. e = <<txn'[r].parent, txn'[r].target>> /\ txn'[r].stage = "linked"
      BY <2>2 DEF VisibleRelation
    <3>2. QED
      BY <3>1 DEF Due
  <2>3. QED
    BY <2>1, <2>2
<1>4. QED
  BY <1>1, <1>2, <1>3 DEF AloneOf

-----------------------------------------------------------------------------
(* Object.add_parent *)

LEMMA CheckParentInv == ASSUME IInv, NEW r \in Requests, CheckParent(r) PROVE IInv'
<1> DEFINE s == IF <<txn[r].parent, txn[r].target>> \in VisibleRelation(r) THEN "done" ELSE "linking"
           t == [txn[r] EXCEPT !.stage = s]
<1>1. s \in Stages /\ s \in {"done", "linking"}
  BY DEF Stages
<1>2. /\ txn' = [txn EXCEPT ![r] = t]
      /\ txn[r].stage = "start"
      /\ UNCHANGED <<relation, perm, overlapped>>
  BY Here DEF CheckParent
<1> HIDE DEF s
<1>3. /\ txn[r].kind = "link" /\ InProgress(r)
      /\ txn[r].children = Nothing /\ txn[r].todo = {} /\ txn[r].visited = {}
      /\ txn[r].queue = <<>> /\ txn[r].newPerm = {} /\ txn[r].newRelation = {}
  BY <1>2, Here DEF StageOf, InProgress
<1>4. /\ t \in Txns /\ t.stage = s
      /\ t.kind = "link" /\ t.target = txn[r].target /\ t.parent = txn[r].parent
      /\ t.kind = txn[r].kind
      /\ t.children = Nothing /\ t.todo = {} /\ t.visited = {}
      /\ t.queue = <<>> /\ t.newPerm = {} /\ t.newRelation = {}
  BY <1>1, <1>3, Here DEF Txns
<1> HIDE DEF t
<1>5. txn' \in [Requests -> Txns] /\ Frame(r) /\ txn'[r] = t
  BY <1>2, <1>4, Replaced DEF IInv
<1>6. StageOf(r)' /\ ShareOf(r)'
  BY <1>1, <1>4, <1>5 DEF StageOf, ShareOf, InProgress
<1>7. ParentsImplyChildren => AloneOf(r)'
  BY <1>1, <1>2, <1>4, <1>5, CleanAlone
<1>8. ~TreeOfShares
  BY <1>3 DEF TreeOfShares
<1>9. QED
  BY <1>2, <1>3, <1>5, <1>6, <1>7, <1>8, Local

LEMMA InsertRelationInv == ASSUME IInv, NEW r \in Requests, InsertRelation(r) PROVE IInv'
<1> DEFINE row == <<txn[r].parent, txn[r].target>>
           t == IF row \in relation THEN [txn[r] EXCEPT !.stage = "done"]
                ELSE [txn[r] EXCEPT !.stage = "linked", !.newRelation = @ \cup {row}]
<1>1. /\ txn' = [txn EXCEPT ![r] = t]
      /\ txn[r].stage = "linking"
      /\ UNCHANGED <<relation, perm, overlapped>>
  BY Here DEF InsertRelation
<1>2. /\ txn[r].kind = "link" /\ InProgress(r)
      /\ txn[r].children = Nothing /\ txn[r].todo = {} /\ txn[r].visited = {}
      /\ txn[r].queue = <<>> /\ txn[r].newPerm = {} /\ txn[r].newRelation = {}
  BY <1>1, Here DEF StageOf, InProgress
<1>3. row \in Objects \X Objects
  BY Here
<1>4. /\ t \in Txns
      /\ t.kind = "link" /\ t.target = txn[r].target /\ t.parent = txn[r].parent
      /\ t.kind = txn[r].kind
      /\ t.children = Nothing /\ t.todo = {} /\ t.visited = {}
      /\ t.queue = <<>> /\ t.newPerm = {}
      /\ \/ t.stage = "done" /\ t.newRelation = {}
         \/ t.stage = "linked" /\ t.newRelation = {row}
  BY <1>2, <1>3, Here DEF Txns, Stages
<1> HIDE DEF t
<1>5. txn' \in [Requests -> Txns] /\ Frame(r) /\ txn'[r] = t
  BY <1>1, <1>4, Replaced DEF IInv
<1>6. StageOf(r)' /\ ShareOf(r)'
  BY <1>4, <1>5 DEF StageOf, ShareOf, InProgress
<1>7. ParentsImplyChildren => AloneOf(r)'
  BY <1>1, <1>4, <1>5, CleanAlone
<1>8. ~TreeOfShares
  BY <1>2 DEF TreeOfShares
<1>9. QED
  BY <1>1, <1>2, <1>5, <1>6, <1>7, <1>8, Local

LEMMA ReadPermissionsInv == ASSUME IInv, NEW r \in Requests, ReadPermissions(r) PROVE IInv'
<1> DEFINE rows == {g \in Groups : <<txn[r].parent, g>> \in VisiblePerm(r)}
           t == [txn[r] EXCEPT !.stage = "granting", !.todo = rows]
<1>1. /\ txn' = [txn EXCEPT ![r] = t]
      /\ txn[r].stage = "linked"
      /\ UNCHANGED <<relation, perm, overlapped>>
  BY Here DEF ReadPermissions
<1>2. /\ txn[r].kind = "link" /\ InProgress(r)
      /\ txn[r].children = Nothing /\ txn[r].visited = {}
      /\ txn[r].queue = <<>> /\ txn[r].newPerm = {}
  BY <1>1, Here DEF StageOf, InProgress
<1>3. /\ t \in Txns
      /\ t.stage = "granting" /\ t.todo = rows
      /\ t.kind = txn[r].kind /\ t.target = txn[r].target /\ t.parent = txn[r].parent
      /\ t.children = Nothing /\ t.visited = {}
      /\ t.queue = <<>> /\ t.newPerm = {} /\ t.newRelation = txn[r].newRelation
  BY <1>2, Here DEF Txns, Stages
<1> HIDE DEF t
<1>4. txn' \in [Requests -> Txns] /\ Frame(r) /\ txn'[r] = t
  BY <1>1, <1>3, Replaced DEF IInv
<1>5. StageOf(r)' /\ ShareOf(r)'
  BY <1>2, <1>3, <1>4 DEF StageOf, ShareOf, InProgress
<1>6. ASSUME AloneOf(r) PROVE AloneOf(r)'
  <2>1. VisiblePerm(r)' = VisiblePerm(r) /\ VisibleRelation(r)' = VisibleRelation(r)
    BY <1>1, <1>2, <1>3, <1>4 DEF VisiblePerm, VisibleRelation
  <2>2. LoadedOf(r)'
    BY <1>3, <1>4 DEF LoadedOf, Nothing
  <2>3. ASSUME NEW e \in VisibleRelation(r), NEW g \in Groups, <<e[1], g>> \in VisiblePerm(r)
        PROVE  <<e[2], g>> \in VisiblePerm(r) \/ Due(r, e, g)'
    <3>1. <<e[2], g>> \in VisiblePerm(r) \/ Due(r, e, g)
      BY <1>6, <2>3 DEF AloneOf
    <3>2. CASE Due(r, e, g)
      <4>1. e = <<txn[r].parent, txn[r].target>>
        BY <1>1, <1>2, <3>2 DEF Due, Queued, Elements, At
      <4>2. g \in rows
        BY <2>3, <4>1
      <4>3. QED
        BY <1>3, <1>4, <4>1, <4>2 DEF Due, Frame
    <3>3. QED
      BY <3>1, <3>2
  <2>4. QED
    BY <1>3, <1>4, <2>1, <2>2, <2>3 DEF AloneOf
<1>7. ~TreeOfShares
  BY <1>2 DEF TreeOfShares
<1>8. QED
  BY <1>1, <1>2, <1>4, <1>5, <1>6, <1>7, Local

LEMMA NextPermissionInv == ASSUME IInv, NEW r \in Requests, NextPermission(r) PROVE IInv'
<1>1. PICK g \in txn[r].todo :
          txn' = [txn EXCEPT ![r].group = g, ![r].todo = @ \ {g},
                             ![r].queue = <<txn[r].target>>, ![r].visited = {}]
  BY DEF NextPermission
<1> DEFINE t == [txn[r] EXCEPT !.group = g, !.todo = @ \ {g},
                               !.queue = <<txn[r].target>>, !.visited = {}]
<1>2. /\ txn[r].stage = "granting" /\ txn[r].queue = <<>>
      /\ UNCHANGED <<relation, perm, overlapped>>
      /\ InProgress(r)
  BY DEF NextPermission, InProgress
<1>3. txn' = [txn EXCEPT ![r] = t]
  BY <1>1, Here
<1>4. /\ t \in Txns
      /\ t.stage = "granting" /\ t.group = g /\ t.todo = txn[r].todo \ {g}
      /\ t.kind = txn[r].kind /\ t.target = txn[r].target /\ t.parent = txn[r].parent
      /\ t.children = txn[r].children /\ t.visited = {}
      /\ t.queue = <<txn[r].target>>
      /\ t.newPerm = txn[r].newPerm /\ t.newRelation = txn[r].newRelation
  <2>1. g \in Groups /\ <<txn[r].target>> \in Seq(Objects) /\ {} \in SUBSET Objects
    BY <1>1, Here, Singleton
  <2>2. QED
    BY <1>2, <2>1, Here DEF Txns
<1> HIDE DEF t
<1>5. txn' \in [Requests -> Txns] /\ Frame(r) /\ txn'[r] = t
  BY <1>3, <1>4, Replaced DEF IInv
<1>6. txn[r].kind = "link"
  BY <1>1, Here DEF ShareOf
<1>7. StageOf(r)' /\ ShareOf(r)'
  BY <1>4, <1>5, <1>6 DEF StageOf, ShareOf, InProgress
<1>8. ASSUME AloneOf(r) PROVE AloneOf(r)'
  <2>1. VisiblePerm(r)' = VisiblePerm(r) /\ VisibleRelation(r)' = VisibleRelation(r)
    BY <1>2, <1>4, <1>5 DEF VisiblePerm, VisibleRelation
  <2>2. LoadedOf(r)'
    BY <1>4, <1>5, <1>8, <2>1 DEF AloneOf, LoadedOf
  <2>3. Queued(r)' = {txn[r].target}
    BY <1>4, <1>5, Here, Singleton DEF Queued, Elements
  <2>4. ASSUME NEW e \in VisibleRelation(r), NEW h \in Groups, <<e[1], h>> \in VisiblePerm(r)
        PROVE  <<e[2], h>> \in VisiblePerm(r) \/ Due(r, e, h)'
    <3>1. <<e[2], h>> \in VisiblePerm(r) \/ Due(r, e, h)
      BY <1>8, <2>4 DEF AloneOf
    <3>2. CASE Due(r, e, h)
      <4>1. e = <<txn[r].parent, txn[r].target>> /\ h \in txn[r].todo
        BY <1>2, <3>2 DEF Due, Queued, Elements, At
      <4>2. QED
        BY <1>4, <1>5, <2>3, <4>1 DEF Due, Frame
    <3>3. QED
      BY <3>1, <3>2
  <2>5. QED
    BY <1>4, <1>5, <2>1, <2>2, <2>4 DEF AloneOf
<1>9. ~TreeOfShares
  BY <1>6 DEF TreeOfShares
<1>10. QED
  BY <1>2, <1>5, <1>7, <1>8, <1>9, Local

LEMMA GrantedInv == ASSUME IInv, NEW r \in Requests, Granted(r) PROVE IInv'
<1> DEFINE t == [txn[r] EXCEPT !.stage = "done"]
<1>1. /\ txn' = [txn EXCEPT ![r] = t]
      /\ txn[r].stage = "granting" /\ txn[r].queue = <<>> /\ txn[r].todo = {}
      /\ UNCHANGED <<relation, perm, overlapped>>
      /\ InProgress(r)
  BY Here DEF Granted, InProgress
<1>2. /\ t \in Txns
      /\ t.stage = "done" /\ t.group = txn[r].group /\ t.todo = {}
      /\ t.kind = txn[r].kind /\ t.target = txn[r].target /\ t.parent = txn[r].parent
      /\ t.children = txn[r].children /\ t.visited = txn[r].visited
      /\ t.queue = <<>>
      /\ t.newPerm = txn[r].newPerm /\ t.newRelation = txn[r].newRelation
  BY <1>1, Here DEF Txns, Stages
<1> HIDE DEF t
<1>3. txn' \in [Requests -> Txns] /\ Frame(r) /\ txn'[r] = t
  BY <1>1, <1>2, Replaced DEF IInv
<1>4. /\ VisiblePerm(r)' = VisiblePerm(r) /\ VisibleRelation(r)' = VisibleRelation(r)
      /\ Queued(r)' = Queued(r) /\ Reached(r)' = Reached(r)
  BY <1>1, <1>2, <1>3 DEF VisiblePerm, VisibleRelation, Queued, Reached
<1>5. \A o : Below(o)' = Below(o)
  BY <1>1 DEF Below
<1>6. StageOf(r)'
  BY <1>2, <1>3 DEF StageOf, InProgress
<1>7. ShareOf(r)'
  <2>1. ASSUME txn[r].kind = "share"
        PROVE  \E x \in Below(txn[r].target) : <<x, txn[r].group>> \in VisiblePerm(r)
    <3>1. txn[r].queue # <<txn[r].target>>
      BY <1>1
    <3>2. QED
      BY <1>1, <2>1, <3>1, Here DEF ShareOf
  <2>2. SUFFICES ASSUME txn[r].kind = "share" PROVE ShareOf(r)'
    BY <1>2, <1>3 DEF ShareOf
  <2>3. /\ txn[r].newRelation = {}
        /\ Reached(r) \subseteq Below(txn[r].target)
        /\ \A row \in txn[r].newPerm : row[2] = txn[r].group
        /\ \A o \in Objects : \/ txn[r].children[o] = NotLoaded
                              \/ \A c \in txn[r].children[o] : <<o, c>> \in relation
    BY <2>2, Here DEF ShareOf
  <2>4. \E x \in Below(txn[r].target)' : <<x, txn'[r].group>> \in VisiblePerm(r)'
    BY <1>2, <1>3, <1>4, <1>5, <2>1, <2>2
  <2>5. Reached(r)' \subseteq Below(txn[r].target)'
    BY <1>2, <1>3, <1>4, <1>5, <2>3
  <2>6. QED
    BY <1>1, <1>2, <1>3, <2>3, <2>4, <2>5 DEF ShareOf
<1>8. ASSUME AloneOf(r) PROVE AloneOf(r)'
  <2>1. LoadedOf(r)'
    BY <1>2, <1>3, <1>4, <1>8 DEF AloneOf, LoadedOf
  <2>2. \A e, g : Due(r, e, g) => Due(r, e, g)'
    BY <1>1, <1>2, <1>3, <1>4 DEF Due, At
  <2>3. QED
    BY <1>1, <1>2, <1>3, <1>4, <1>8, <2>1, <2>2 DEF AloneOf
<1>9. ASSUME TreeOf(r) PROVE TreeOf(r)'
  <2>1. LoadedOf(r)'
    BY <1>2, <1>3, <1>4, <1>9 DEF TreeOf, LoadedOf
  <2>2. QED
    BY <1>1, <1>2, <1>3, <1>4, <1>9, <2>1 DEF TreeOf, At
<1>10. QED
  BY <1>1, <1>3, <1>6, <1>7, <1>8, <1>9, Local
-----------------------------------------------------------------------------
(* Object.give_access and ObjectPermission.create *)

\* The head of the queue is passed over.
LEMMA PassedOver ==
    ASSUME IInv, NEW r \in Requests, CheckPermission(r),
           \/ Head(txn[r].queue) \in txn[r].visited
           \/ <<Head(txn[r].queue), txn[r].group>> \in VisiblePerm(r)
    PROVE  IInv'
<1> DEFINE o == Head(txn[r].queue)
           t == [txn[r] EXCEPT !.queue = Tail(@), !.visited = @ \cup {o}]
<1>1. /\ txn' = [txn EXCEPT ![r] = t]
      /\ txn[r].stage = "granting" /\ txn[r].queue # <<>>
      /\ UNCHANGED <<relation, perm, overlapped>>
      /\ InProgress(r)
  BY Here DEF CheckPermission, InProgress
<1>2. /\ o \in Objects /\ Tail(txn[r].queue) \in Seq(Objects)
      /\ Queued(r) = {o} \cup Elements(Tail(txn[r].queue))
      /\ o \in txn[r].visited \/ <<o, txn[r].group>> \in VisiblePerm(r)
  BY <1>1, Here, HeadTail DEF Queued
<1>3. /\ t \in Txns
      /\ t.stage = "granting" /\ t.group = txn[r].group /\ t.todo = txn[r].todo
      /\ t.kind = txn[r].kind /\ t.target = txn[r].target /\ t.parent = txn[r].parent
      /\ t.children = txn[r].children /\ t.visited = txn[r].visited \cup {o}
      /\ t.queue = Tail(txn[r].queue)
      /\ t.newPerm = txn[r].newPerm /\ t.newRelation = txn[r].newRelation
  BY <1>1, <1>2, Here DEF Txns
<1> HIDE DEF t
<1>4. txn' \in [Requests -> Txns] /\ Frame(r) /\ txn'[r] = t
  BY <1>1, <1>3, Replaced DEF IInv
<1> HIDE DEF o
<1>5. /\ VisiblePerm(r)' = VisiblePerm(r) /\ VisibleRelation(r)' = VisibleRelation(r)
      /\ Queued(r) = {o} \cup Queued(r)' /\ Reached(r)' = Reached(r)
  BY <1>1, <1>2, <1>3, <1>4 DEF VisiblePerm, VisibleRelation, Queued, Reached
<1>6. \A x : Below(x)' = Below(x)
  BY <1>1 DEF Below
<1>7. StageOf(r)'
  BY <1>3, <1>4 DEF StageOf, InProgress
<1>8. ShareOf(r)'
  <2>1. SUFFICES ASSUME txn[r].kind = "share" PROVE ShareOf(r)'
    BY <1>3, <1>4 DEF ShareOf
  <2>2. /\ txn[r].newRelation = {} /\ txn[r].todo = {}
        /\ Reached(r) \subseteq Below(txn[r].target)
        /\ \A row \in txn[r].newPerm : row[2] = txn[r].group
        /\ \A c \in Objects : \/ txn[r].children[c] = NotLoaded
                              \/ \A d \in txn[r].children[c] : <<c, d>> \in relation
    BY <2>1, Here DEF ShareOf
  <2>3. o \in Below(txn[r].target)
    BY <1>5, <2>2 DEF Reached
  <2>4. \E x \in Below(txn[r].target) : <<x, txn[r].group>> \in VisiblePerm(r)
    <3>1. CASE o \in txn[r].visited
      <4>1. txn[r].visited # {}
        BY <3>1
      <4>2. QED
        BY <1>1, <2>1, <4>1, Here DEF ShareOf
    <3>2. CASE o \notin txn[r].visited
      BY <1>2, <2>3, <3>2
    <3>3. QED
      BY <3>1, <3>2
  <2>5. \E x \in Below(txn[r].target)' : <<x, txn'[r].group>> \in VisiblePerm(r)'
    BY <1>3, <1>4, <1>5, <1>6, <2>4
  <2>6. Reached(r)' \subseteq Below(txn[r].target)'
    BY <1>3, <1>4, <1>5, <1>6, <2>2
  <2>7. QED
    BY <1>1, <1>3, <1>4, <2>2, <2>5, <2>6 DEF ShareOf
<1>9. ASSUME AloneOf(r) PROVE AloneOf(r)'
  <2>1. LoadedOf(r)'
    BY <1>3, <1>4, <1>5, <1>9 DEF AloneOf, LoadedOf
  <2>2. \A x \in txn[r].visited : <<x, txn[r].group>> \in VisiblePerm(r)
    BY <1>1, <1>9 DEF AloneOf
  <2>3. <<o, txn[r].group>> \in VisiblePerm(r)
    BY <1>2, <2>2
  <2>4. ASSUME NEW e \in VisibleRelation(r), NEW g \in Groups, <<e[1], g>> \in VisiblePerm(r)
        PROVE  <<e[2], g>> \in VisiblePerm(r) \/ Due(r, e, g)'
    <3>1. <<e[2], g>> \in VisiblePerm(r) \/ Due(r, e, g)
      BY <1>9, <2>4 DEF AloneOf
    <3>2. CASE Due(r, e, g)
      <4>1. CASE g = txn[r].group /\ e[2] \in Queued(r)
        BY <1>3, <1>4, <1>5, <2>3, <4>1 DEF Due
      <4>2. CASE e = <<txn[r].parent, txn[r].target>> /\ g \in txn[r].todo
        BY <1>3, <1>4, <4>2 DEF Due
      <4>3. QED
        BY <1>1, <3>2, <4>1, <4>2 DEF Due
    <3>3. QED
      BY <3>1, <3>2
  <2>5. QED
    BY <1>3, <1>4, <1>5, <2>1, <2>2, <2>3, <2>4 DEF AloneOf
<1>10. ASSUME TreeOf(r) PROVE TreeOf(r)'
  <2>1. LoadedOf(r)'
    BY <1>3, <1>4, <1>5, <1>10 DEF TreeOf, LoadedOf
  <2>2. \A e \in relation : e[2] \in Reached(r) /\ e[2] # txn[r].target =>
           e[1] \in txn'[r].visited /\ ~At(r, e[1])'
    BY <1>1, <1>3, <1>4, <1>10 DEF TreeOf, At
  <2>3. ASSUME NEW e \in relation, <<e[1], txn[r].group>> \in txn[r].newPerm
        PROVE  \/ <<e[2], txn[r].group>> \in VisiblePerm(r)
               \/ e[2] \in Queued(r)' /\ e[2] \notin txn'[r].visited
    BY <1>1, <1>2, <1>3, <1>4, <1>5, <1>10, <2>3 DEF TreeOf
  <2>4. QED
    BY <1>1, <1>3, <1>4, <1>5, <2>1, <2>2, <2>3 DEF TreeOf
<1>11. QED
  BY <1>1, <1>4, <1>7, <1>8, <1>9, <1>10, Local

\* It will get a row.
LEMMA ToInsert ==
    ASSUME IInv, NEW r \in Requests, CheckPermission(r),
           Head(txn[r].queue) \notin txn[r].visited,
           <<Head(txn[r].queue), txn[r].group>> \notin VisiblePerm(r)
    PROVE  IInv'
<1> DEFINE o == Head(txn[r].queue)
           t == [txn[r] EXCEPT !.stage = "inserting", !.visited = @ \cup {o}]
<1>1. /\ txn' = [txn EXCEPT ![r] = t]
      /\ txn[r].stage = "granting" /\ txn[r].queue # <<>>
      /\ UNCHANGED <<relation, perm, overlapped>>
      /\ InProgress(r)
      /\ o \notin txn[r].visited /\ <<o, txn[r].group>> \notin VisiblePerm(r)
  BY Here DEF CheckPermission, InProgress
<1>2. o \in Objects /\ o \in Queued(r)
  BY <1>1, Here, HeadTail DEF Queued
<1>3. /\ t \in Txns
      /\ t.stage = "inserting" /\ t.group = txn[r].group /\ t.todo = txn[r].todo
      /\ t.kind = txn[r].kind /\ t.target = txn[r].target /\ t.parent = txn[r].parent
      /\ t.children = txn[r].children /\ t.visited = txn[r].visited \cup {o}
      /\ t.queue = txn[r].queue
      /\ t.newPerm = txn[r].newPerm /\ t.newRelation = txn[r].newRelation
  BY <1>1, <1>2, Here DEF Txns, Stages
<1> HIDE DEF t
<1>4. txn' \in [Requests -> Txns] /\ Frame(r) /\ txn'[r] = t
  BY <1>1, <1>3, Replaced DEF IInv
<1>5. Head(txn'[r].queue) = o
  BY <1>3, <1>4
<1>6. StageOf(r)'
  BY <1>1, <1>3, <1>4, <1>5 DEF StageOf, InProgress
<1> HIDE DEF o
<1>7. /\ VisiblePerm(r)' = VisiblePerm(r) /\ VisibleRelation(r)' = VisibleRelation(r)
      /\ Queued(r)' = Queued(r) /\ Reached(r)' = Reached(r)
  BY <1>1, <1>2, <1>3, <1>4 DEF VisiblePerm, VisibleRelation, Queued, Reached
<1>8. /\ \A x : Below(x)' = Below(x)
      /\ \A x : At(r, x)' <=> x = o
  BY <1>1, <1>3, <1>4, <1>5 DEF Below, At
<1>9. ShareOf(r)'
  <2>1. SUFFICES ASSUME txn[r].kind = "share" PROVE ShareOf(r)'
    BY <1>3, <1>4 DEF ShareOf
  <2>2. /\ txn[r].newRelation = {} /\ txn[r].todo = {}
        /\ Reached(r) \subseteq Below(txn[r].target)
        /\ \A row \in txn[r].newPerm : row[2] = txn[r].group
        /\ \A c \in Objects : \/ txn[r].children[c] = NotLoaded
                              \/ \A d \in txn[r].children[c] : <<c, d>> \in relation
    BY <2>1, Here DEF ShareOf
  <2>3. Reached(r)' \subseteq Below(txn[r].target)'
    BY <1>3, <1>4, <1>7, <1>8, <2>2
  <2>4. QED
    BY <1>1, <1>3, <1>4, <2>2, <2>3 DEF ShareOf
<1>10. ASSUME AloneOf(r) PROVE AloneOf(r)'
  <2>1. LoadedOf(r)'
    BY <1>3, <1>4, <1>7, <1>10 DEF AloneOf, LoadedOf
  <2>2. \A e, g : Due(r, e, g) => Due(r, e, g)'
    BY <1>1, <1>3, <1>4, <1>7 DEF Due
  <2>3. \A x \in txn[r].visited : <<x, txn[r].group>> \in VisiblePerm(r)
    BY <1>1, <1>10 DEF AloneOf
  <2>4. \A e \in VisibleRelation(r), g \in Groups :
           <<e[1], g>> \in VisiblePerm(r) => <<e[2], g>> \in VisiblePerm(r) \/ Due(r, e, g)'
    BY <1>10, <2>2 DEF AloneOf
  <2>5. QED
    BY <1>1, <1>3, <1>4, <1>5, <1>7, <1>8, <2>1, <2>3, <2>4 DEF AloneOf
<1>11. ASSUME TreeOf(r) PROVE TreeOf(r)'
  <2>1. LoadedOf(r)'
    BY <1>3, <1>4, <1>7, <1>11 DEF TreeOf, LoadedOf
  <2>2. \A e \in relation : e[2] \in Reached(r) /\ e[2] # txn[r].target =>
           e[1] \in txn'[r].visited /\ ~At(r, e[1])'
    BY <1>1, <1>3, <1>4, <1>8, <1>11 DEF TreeOf
  <2>3. ASSUME NEW e \in relation, <<e[1], txn[r].group>> \in txn[r].newPerm
        PROVE  \/ <<e[2], txn[r].group>> \in VisiblePerm(r)
               \/ e[2] \in Queued(r) /\ e[2] \notin txn'[r].visited
               \/ At(r, e[2])'
    BY <1>1, <1>3, <1>4, <1>8, <1>11, <2>3 DEF TreeOf
  <2>4. QED
    BY <1>1, <1>3, <1>4, <1>7, <2>1, <2>2, <2>3 DEF TreeOf
<1>12. QED
  BY <1>1, <1>4, <1>6, <1>9, <1>10, <1>11, Local

LEMMA CheckPermissionInv == ASSUME IInv, NEW r \in Requests, CheckPermission(r) PROVE IInv'
BY PassedOver, ToInsert

\* The row was added in the meantime: everything is rolled back.
LEMMA RolledBack ==
    ASSUME IInv, NEW r \in Requests, InsertPermission(r),
           <<Head(txn[r].queue), txn[r].group>> \in perm
    PROVE  IInv'
<1> DEFINE o == Head(txn[r].queue)
           t == [txn[r] EXCEPT !.stage = "granting", !.queue = Tail(@), !.children = Nothing,
                               !.newRelation = {}, !.newPerm = {}]
<1>1. /\ txn' = [txn EXCEPT ![r] = t]
      /\ txn[r].stage = "inserting" /\ txn[r].queue # <<>>
      /\ UNCHANGED <<relation, perm, overlapped>>
      /\ InProgress(r)
      /\ <<o, txn[r].group>> \in perm
  BY Here DEF InsertPermission, InProgress, StageOf
<1>2. /\ o \in Objects /\ Tail(txn[r].queue) \in Seq(Objects)
      /\ Queued(r) = {o} \cup Elements(Tail(txn[r].queue))
  BY <1>1, Here, HeadTail DEF Queued
<1>3. /\ t \in Txns
      /\ t.stage = "granting" /\ t.group = txn[r].group /\ t.todo = txn[r].todo
      /\ t.kind = txn[r].kind /\ t.target = txn[r].target /\ t.parent = txn[r].parent
      /\ t.children = Nothing /\ t.visited = txn[r].visited
      /\ t.queue = Tail(txn[r].queue)
      /\ t.newPerm = {} /\ t.newRelation = {}
  <2>1. Nothing \in [Objects -> (SUBSET Objects) \cup {NotLoaded}]
    BY DEF Nothing
  <2>2. QED
    BY <1>1, <1>2, <2>1, Here DEF Txns, Stages
<1> HIDE DEF t
<1>4. txn' \in [Requests -> Txns] /\ Frame(r) /\ txn'[r] = t
  BY <1>1, <1>3, Replaced DEF IInv
<1> HIDE DEF o
<1>5. /\ VisiblePerm(r)' = perm
      /\ Queued(r) = {o} \cup Queued(r)' /\ Reached(r)' \subseteq Reached(r)
      /\ LoadedOf(r)'
  BY <1>1, <1>2, <1>3, <1>4 DEF VisiblePerm, Queued, Reached, LoadedOf, Nothing
<1>6. \A x : Below(x)' = Below(x)
  BY <1>1 DEF Below
<1>7. StageOf(r)'
  BY <1>3, <1>4 DEF StageOf, InProgress
<1>8. ShareOf(r)'
  <2>1. SUFFICES ASSUME txn[r].kind = "share" PROVE ShareOf(r)'
    BY <1>3, <1>4 DEF ShareOf
  <2>2. txn[r].todo = {} /\ Reached(r) \subseteq Below(txn[r].target)
    BY <2>1, Here DEF ShareOf
  <2>3. o \in Below(txn[r].target)
    BY <1>5, <2>2 DEF Reached
  <2>4. \E x \in Below(txn[r].target)' : <<x, txn'[r].group>> \in VisiblePerm(r)'
    BY <1>1, <1>3, <1>4, <1>5, <1>6, <2>3
  <2>5. Reached(r)' \subseteq Below(txn[r].target)'
    BY <1>3, <1>4, <1>5, <1>6, <2>2
  <2>6. QED
    BY <1>3, <1>4, <2>2, <2>4, <2>5 DEF ShareOf, Nothing
<1>9. ~AloneOf(r)
  BY <1>1 DEF AloneOf, VisiblePerm, o
<1>10. ASSUME TreeOf(r) PROVE TreeOf(r)'
  BY <1>1, <1>3, <1>4, <1>5, <1>10 DEF TreeOf, At
<1>11. QED
  BY <1>1, <1>4, <1>7, <1>8, <1>9, <1>10, Local

\* The row is written.  In a tree the children of its object are still to be reached.
LEMMA Inserted ==
    ASSUME IInv, NEW r \in Requests, InsertPermission(r),
           <<Head(txn[r].queue), txn[r].group>> \notin perm
    PROVE  IInv'
<1> DEFINE o == Head(txn[r].queue)
           row == <<o, txn[r].group>>
           t == [txn[r] EXCEPT !.stage = "spreading", !.newPerm = @ \cup {row}]
<1>1. /\ txn' = [txn EXCEPT ![r] = t]
      /\ txn[r].stage = "inserting" /\ txn[r].queue # <<>> /\ o \in txn[r].visited
      /\ UNCHANGED <<relation, perm, overlapped>>
      /\ InProgress(r)
  BY Here DEF InsertPermission, InProgress, StageOf
<1>2. o \in Objects /\ o \in Queued(r) /\ row \in Objects \X Groups
  BY <1>1, Here, HeadTail DEF Queued
<1>3. /\ t \in Txns
      /\ t.stage = "spreading" /\ t.group = txn[r].group /\ t.todo = txn[r].todo
      /\ t.kind = txn[r].kind /\ t.target = txn[r].target /\ t.parent = txn[r].parent
      /\ t.children = txn[r].children /\ t.visited = txn[r].visited
      /\ t.queue = txn[r].queue
      /\ t.newPerm = txn[r].newPerm \cup {row} /\ t.newRelation = txn[r].newRelation
  <2> DEFINE rows == txn[r].newPerm \cup {row}
  <2>1. txn[r].newPerm \in SUBSET (Objects \X Groups)
    BY Here DEF Txns
  <2>2. rows \in SUBSET (Objects \X Groups)
    BY <1>2, <2>1
  <2>3. t = [txn[r] EXCEPT !.stage = "spreading", !.newPerm = rows]
    BY Here DEF Txns
  <2> HIDE DEF rows, t
  <2>4. /\ t \in Txns
        /\ t.stage = "spreading" /\ t.group = txn[r].group /\ t.todo = txn[r].todo
        /\ t.kind = txn[r].kind /\ t.target = txn[r].target /\ t.parent = txn[r].parent
        /\ t.children = txn[r].children /\ t.visited = txn[r].visited
        /\ t.queue = txn[r].queue
        /\ t.newPerm = rows /\ t.newRelation = txn[r].newRelation
    BY <2>2, <2>3, Here DEF Txns, Stages
  <2>5. QED
    BY <2>4 DEF rows
<1> HIDE DEF t
<1>4. txn' \in [Requests -> Txns] /\ Frame(r) /\ txn'[r] = t
  BY <1>1, <1>3, Replaced DEF IInv
<1>5. Head(txn'[r].queue) = o /\ Head(txn[r].queue) = o
  BY <1>3, <1>4
<1>6. StageOf(r)'
  BY <1>1, <1>3, <1>4, <1>5 DEF StageOf, InProgress
<1> HIDE DEF o
<1>7. /\ VisiblePerm(r)' = VisiblePerm(r) \cup {row} /\ VisibleRelation(r)' = VisibleRelation(r)
      /\ Queued(r)' = Queued(r) /\ Reached(r)' = Reached(r)
  BY <1>1, <1>3, <1>4 DEF VisiblePerm, VisibleRelation, Queued, Reached
<1>8. /\ \A x : Below(x)' = Below(x)
      /\ \A x : At(r, x)' <=> x = o
      /\ \A x : At(r, x) <=> x = o
  BY <1>1, <1>3, <1>4, <1>5 DEF Below, At
<1>9. ShareOf(r)'
  <2>1. SUFFICES ASSUME txn[r].kind = "share" PROVE ShareOf(r)'
    BY <1>3, <1>4 DEF ShareOf
  <2>2. /\ txn[r].newRelation = {} /\ txn[r].todo = {}
        /\ Reached(r) \subseteq Below(txn[r].target)
        /\ \A x \in txn[r].newPerm : x[2] = txn[r].group
        /\ \A c \in Objects : \/ txn[r].children[c] = NotLoaded
                              \/ \A d \in txn[r].children[c] : <<c, d>> \in relation
    BY <2>1, Here DEF ShareOf
  <2>3. o \in Below(txn[r].target)
    BY <1>2, <2>2 DEF Reached
  <2>4. \E x \in Below(txn[r].target)' : <<x, txn'[r].group>> \in VisiblePerm(r)'
    BY <1>3, <1>4, <1>7, <1>8, <2>3
  <2>5. Reached(r)' \subseteq Below(txn[r].target)'
    BY <1>3, <1>4, <1>7, <1>8, <2>2
  <2>6. \A x \in txn'[r].newPerm : x[2] = txn[r].group
    BY <1>3, <1>4, <2>2
  <2>7. QED
    BY <1>1, <1>3, <1>4, <2>2, <2>4, <2>5, <2>6 DEF ShareOf
<1>10. ASSUME AloneOf(r) PROVE AloneOf(r)'
  <2>1. LoadedOf(r)'
    BY <1>3, <1>4, <1>7, <1>10 DEF AloneOf, LoadedOf
  <2>2. \A x \in txn[r].visited : <<x, txn[r].group>> \in VisiblePerm(r)'
    BY <1>1, <1>7, <1>8, <1>10 DEF AloneOf
  <2>3. ASSUME NEW e \in VisibleRelation(r), NEW g \in Groups, <<e[1], g>> \in VisiblePerm(r)'
        PROVE  <<e[2], g>> \in VisiblePerm(r)' \/ Due(r, e, g)'
    <3>1. CASE <<e[1], g>> = row
      BY <1>3, <1>4, <1>8, <3>1 DEF Due
    <3>2. CASE <<e[1], g>> # row
      <4>1. <<e[2], g>> \in VisiblePerm(r) \/ Due(r, e, g)
        BY <1>7, <1>10, <2>3, <3>2 DEF AloneOf
      <4>2. Due(r, e, g) => Due(r, e, g)'
        BY <1>1, <1>3, <1>4, <1>7 DEF Due
      <4>3. QED
        BY <1>7, <4>1, <4>2
    <3>3. QED
      BY <3>1, <3>2
  <2>4. QED
    BY <1>1, <1>3, <1>4, <1>7, <2>1, <2>2, <2>3 DEF AloneOf
<1>11. ASSUME TreeOfShares, TreeOf(r) PROVE TreeOf(r)'
  <2>1. LoadedOf(r)'
    BY <1>3, <1>4, <1>7, <1>11 DEF TreeOf, LoadedOf
  <2>2. \A e \in relation : e[2] \in Reached(r) /\ e[2] # txn[r].target =>
           e[1] \in txn[r].visited /\ ~At(r, e[1])' /\ ~At(r, e[1])
    BY <1>8, <1>11 DEF TreeOf
  <2>3. txn[r].kind = "share" /\ o \in Below(txn[r].target)
    <3>1. txn[r].kind = "share"
      BY <1>11 DEF TreeOfShares
    <3>2. QED
      BY <1>2, <3>1, Here DEF ShareOf, Reached
  <2>4. ASSUME NEW e \in relation, <<e[1], txn[r].group>> \in txn'[r].newPerm
        PROVE  \/ <<e[2], txn[r].group>> \in VisiblePerm(r)'
               \/ e[2] \in Queued(r) /\ e[2] \notin txn[r].visited
               \/ At(r, e[1])' /\ e[2] \notin txn[r].visited
    <3>1. CASE e[1] = o
      <4>1. e[2] # txn[r].target
        BY <1>11, <2>3, <3>1 DEF TreeOfShares
      <4>2. e[2] \notin txn[r].visited
        BY <1>8, <2>2, <3>1, <4>1 DEF Reached
      <4>3. QED
        BY <1>8, <3>1, <4>2
    <3>2. CASE e[1] # o
      <4>1. <<e[1], txn[r].group>> \in txn[r].newPerm
        BY <1>3, <1>4, <2>4, <3>2
      <4>2. QED
        BY <1>1, <1>7, <1>8, <1>11, <4>1 DEF TreeOf
    <3>3. QED
      BY <3>1, <3>2
  <2>5. <<Head(txn'[r].queue), txn'[r].group>> \in txn'[r].newPerm
    BY <1>3, <1>4, <1>5
  <2>6. QED
    BY <1>1, <1>3, <1>4, <1>7, <2>1, <2>2, <2>4, <2>5 DEF TreeOf
<1>12. QED
  BY <1>1, <1>4, <1>6, <1>9, <1>10, <1>11, Local

LEMMA InsertPermissionInv == ASSUME IInv, NEW r \in Requests, InsertPermission(r) PROVE IInv'
BY RolledBack, Inserted
\* The children of an object that got its row join the queue.
LEMMA SpreadInv == ASSUME IInv, NEW r \in Requests, Spread(r) PROVE IInv'
<1> DEFINE o == Head(txn[r].queue)
           loaded == IF txn[r].children[o] = NotLoaded
                     THEN {c \in Objects : <<o, c>> \in VisibleRelation(r)}
                     ELSE txn[r].children[o]
<1>1. PICK s \in Orders(loaded) :
        txn' = [txn EXCEPT ![r].stage = "granting", ![r].queue = Tail(@) \o s,
                           ![r].children[o] = loaded]
  BY DEF Spread
<1>2. /\ txn[r].stage = "spreading" /\ txn[r].queue # <<>> /\ o \in txn[r].visited
      /\ UNCHANGED <<relation, perm, overlapped>>
      /\ InProgress(r)
  BY Here DEF Spread, InProgress, StageOf
<1>3. /\ o \in Objects /\ Tail(txn[r].queue) \in Seq(Objects)
      /\ Queued(r) = {o} \cup Elements(Tail(txn[r].queue))
  BY <1>2, Here, HeadTail DEF Queued
<1>4. loaded \in SUBSET Objects
  <2>1. txn[r].children[o] \in (SUBSET Objects) \cup {NotLoaded}
    BY <1>3, Here
  <2>2. QED
    BY <2>1
<1>5. At(r, o) /\ \A x : At(r, x) <=> x = o
  BY <1>2 DEF At
<1> HIDE DEF o
<1>6. /\ LoadedOf(r) => loaded = {c \in Objects : <<o, c>> \in VisibleRelation(r)}
      /\ txn[r].kind = "share" => \A c \in loaded : <<o, c>> \in relation
  <2>1. LoadedOf(r) => loaded = {c \in Objects : <<o, c>> \in VisibleRelation(r)}
    BY <1>3 DEF LoadedOf
  <2>2. ASSUME txn[r].kind = "share" PROVE \A c \in loaded : <<o, c>> \in relation
    BY <1>3, <2>2, Here DEF ShareOf, VisibleRelation
  <2>3. QED
    BY <2>1, <2>2
<1> HIDE DEF loaded
<1>7. s \in Seq(Objects) /\ Elements(s) = loaded
  BY <1>1, <1>4, Ordered
<1> DEFINE chl == [txn[r].children EXCEPT ![o] = loaded]
           queue == Tail(txn[r].queue) \o s
           t == [txn[r] EXCEPT !.stage = "granting", !.queue = queue, !.children = chl]
<1>8. /\ queue \in Seq(Objects)
      /\ Elements(queue) = Elements(Tail(txn[r].queue)) \cup loaded
  BY <1>3, <1>7, Concatenated
<1>9. /\ chl \in [Objects -> (SUBSET Objects) \cup {NotLoaded}]
      /\ chl[o] = loaded
      /\ \A x \in Objects : x # o => chl[x] = txn[r].children[x]
  BY <1>3, <1>4, Here
<1>10. txn' = [txn EXCEPT ![r] = t]
  <2>1. txn \in [Requests -> Txns] /\ txn[r] \in Txns
    BY Here DEF TypeOK
  <2>2. QED
    BY <1>1, <2>1 DEF Txns
<1> HIDE DEF chl, queue
<1>11. /\ t \in Txns
       /\ t.stage = "granting" /\ t.group = txn[r].group /\ t.todo = txn[r].todo
       /\ t.kind = txn[r].kind /\ t.target = txn[r].target /\ t.parent = txn[r].parent
       /\ t.children = chl /\ t.visited = txn[r].visited
       /\ t.queue = queue
       /\ t.newPerm = txn[r].newPerm /\ t.newRelation = txn[r].newRelation
  BY <1>8, <1>9, Here DEF Txns, Stages
<1> HIDE DEF t
<1>12. txn' \in [Requests -> Txns] /\ Frame(r) /\ txn'[r] = t
  BY <1>10, <1>11, Replaced DEF IInv
<1>13. /\ VisiblePerm(r)' = VisiblePerm(r) /\ VisibleRelation(r)' = VisibleRelation(r)
       /\ Queued(r) \cup loaded = {o} \cup Queued(r)'
       /\ loaded \subseteq Queued(r)'
       /\ Reached(r)' = Reached(r) \cup loaded
  <2>1. Queued(r)' = Elements(queue)
    BY <1>11, <1>12 DEF Queued, Elements
  <2>2. VisiblePerm(r)' = VisiblePerm(r) /\ VisibleRelation(r)' = VisibleRelation(r)
    BY <1>2, <1>11, <1>12 DEF VisiblePerm, VisibleRelation
  <2>3. Queued(r) \cup loaded = {o} \cup Queued(r)' /\ loaded \subseteq Queued(r)'
    BY <1>3, <1>8, <2>1
  <2>4. Reached(r)' = txn[r].visited \cup Queued(r)'
    BY <1>11, <1>12 DEF Reached
  <2>5. Reached(r)' = Reached(r) \cup loaded
    BY <1>2, <2>3, <2>4 DEF Reached
  <2>6. QED
    BY <2>2, <2>3, <2>5
<1>14. (\A x : Below(x)' = Below(x)) /\ (\A x : ~At(r, x)')
  BY <1>2, <1>11, <1>12 DEF Below, At
<1>15. StageOf(r)'
  BY <1>11, <1>12 DEF StageOf, InProgress
<1>16. ShareOf(r)'
  <2>1. SUFFICES ASSUME txn[r].kind = "share" PROVE ShareOf(r)'
    BY <1>11, <1>12 DEF ShareOf
  <2>2. /\ txn[r].newRelation = {} /\ txn[r].todo = {}
        /\ Reached(r) \subseteq Below(txn[r].target)
        /\ \A row \in txn[r].newPerm : row[2] = txn[r].group
        /\ \A c \in Objects : \/ txn[r].children[c] = NotLoaded
                              \/ \A d \in txn[r].children[c] : <<c, d>> \in relation
        /\ \E x \in Below(txn[r].target) : <<x, txn[r].group>> \in VisiblePerm(r)
    BY <1>2, <2>1, Here DEF ShareOf
  <2>3. o \in Below(txn[r].target)
    BY <1>2, <2>2 DEF Reached
  <2>4. loaded \subseteq Below(txn[r].target)
    <3>1. ASSUME NEW c \in loaded PROVE c \in Below(txn[r].target)
      <4>1. c \in Objects /\ <<o, c>> \in relation /\ txn[r].target \in Objects
        BY <1>4, <1>6, <2>1, Here
      <4>2. QED
        BY <2>3, <4>1, BelowChild
    <3>2. QED
      BY <3>1
  <2>5. Reached(r)' \subseteq Below(txn[r].target)'
    BY <1>11, <1>12, <1>13, <1>14, <2>2, <2>4
  <2>6. \E x \in Below(txn[r].target)' : <<x, txn'[r].group>> \in VisiblePerm(r)'
    BY <1>11, <1>12, <1>13, <1>14, <2>2
  <2>7. \A c \in Objects : \/ chl[c] = NotLoaded
                           \/ \A d \in chl[c] : <<c, d>> \in relation'
    BY <1>2, <1>6, <1>9, <2>1, <2>2
  <2>8. QED
    BY <1>11, <1>12, <2>2, <2>5, <2>6, <2>7 DEF ShareOf
<1>17. ASSUME LoadedOf(r) PROVE LoadedOf(r)'
  <2>1. \A c \in Objects : \/ chl[c] = NotLoaded
                           \/ chl[c] = {x \in Objects : <<c, x>> \in VisibleRelation(r)}
    BY <1>6, <1>9, <1>17 DEF LoadedOf
  <2>2. QED
    BY <1>11, <1>12, <1>13, <2>1 DEF LoadedOf
<1>18. ASSUME AloneOf(r) PROVE AloneOf(r)'
  <2>1. LoadedOf(r)' /\ loaded = {c \in Objects : <<o, c>> \in VisibleRelation(r)}
    BY <1>6, <1>17, <1>18 DEF AloneOf
  <2>2. \A x \in txn[r].visited : <<x, txn[r].group>> \in VisiblePerm(r)
    BY <1>2, <1>18 DEF AloneOf
  <2>3. ASSUME NEW e \in VisibleRelation(r), NEW g \in Groups, <<e[1], g>> \in VisiblePerm(r)
        PROVE  <<e[2], g>> \in VisiblePerm(r) \/ Due(r, e, g)'
    <3>1. e = <<e[1], e[2]>> /\ e[2] \in Objects
      BY Here
    <3>2. <<e[2], g>> \in VisiblePerm(r) \/ Due(r, e, g)
      BY <1>18, <2>3 DEF AloneOf
    <3>3. CASE g = txn[r].group /\ e[2] \in Queued(r)
      BY <1>2, <1>11, <1>12, <1>13, <2>2, <3>3 DEF Due
    <3>4. CASE g = txn[r].group /\ At(r, e[1])
      <4>1. e[2] \in loaded
        BY <1>5, <2>1, <3>1, <3>4
      <4>2. QED
        BY <1>11, <1>12, <1>13, <3>4, <4>1 DEF Due
    <3>5. CASE e = <<txn[r].parent, txn[r].target>> /\ g \in txn[r].todo
      BY <1>11, <1>12, <3>5 DEF Due
    <3>6. QED
      BY <1>2, <3>2, <3>3, <3>4, <3>5 DEF Due
  <2>4. QED
    BY <1>11, <1>12, <1>13, <2>1, <2>2, <2>3 DEF AloneOf
<1>19. ASSUME TreeOfShares, TreeOf(r) PROVE TreeOf(r)'
  <2>1. txn[r].kind = "share" /\ txn[r].newRelation = {}
    BY <1>19, Here DEF TreeOfShares, ShareOf
  <2>2. VisibleRelation(r) = relation
    BY <2>1 DEF VisibleRelation
  <2>3. LoadedOf(r)' /\ loaded = {c \in Objects : <<o, c>> \in relation}
    BY <1>6, <1>17, <1>19, <2>2 DEF TreeOf
  <2>4. ASSUME NEW e \in relation, e[2] \in Reached(r)', e[2] # txn[r].target
        PROVE  e[1] \in txn[r].visited
    <3>1. CASE e[2] \in loaded
      <4>1. <<o, e[2]>> \in relation /\ <<o, e[2]>>[1] = o /\ <<o, e[2]>>[2] = e[2]
        BY <2>3, <3>1
      <4>2. e[1] = o
        BY <1>19, <4>1 DEF TreeOfShares
      <4>3. QED
        BY <1>2, <4>2
    <3>2. CASE e[2] \notin loaded
      BY <1>13, <1>19, <2>4, <3>2 DEF TreeOf
    <3>3. QED
      BY <3>1, <3>2
  <2>5. ASSUME NEW e \in relation, <<e[1], txn[r].group>> \in txn[r].newPerm
        PROVE  \/ <<e[2], txn[r].group>> \in VisiblePerm(r)
               \/ e[2] \in Queued(r)' /\ e[2] \notin txn[r].visited
    <3>1. e = <<e[1], e[2]>> /\ e[2] \in Objects
      BY Here
    <3>2. \/ <<e[2], txn[r].group>> \in VisiblePerm(r)
          \/ e[2] \in Queued(r) /\ e[2] \notin txn[r].visited
          \/ At(r, e[1]) /\ e[2] \notin txn[r].visited
      BY <1>2, <1>19, <2>5 DEF TreeOf
    <3>3. CASE At(r, e[1])
      <4>1. e[2] \in loaded
        BY <1>5, <2>3, <3>1, <3>3
      <4>2. QED
        BY <1>13, <3>2, <4>1
    <3>4. CASE ~At(r, e[1])
      BY <1>2, <1>13, <3>2, <3>4
    <3>5. QED
      BY <3>3, <3>4
  <2>6. QED
    BY <1>2, <1>11, <1>12, <1>13, <1>14, <2>3, <2>4, <2>5 DEF TreeOf
<1>20. QED
  BY <1>2, <1>12, <1>15, <1>16, <1>18, <1>19, Local

-----------------------------------------------------------------------------
(* The beginning and the end of a request *)

LEMMA DeadlockAbortInv == ASSUME IInv, NEW r \in Requests, DeadlockAbort(r) PROVE IInv'
<1> DEFINE t == [txn[r] EXCEPT !.stage = "failed", !.newRelation = {}, !.newPerm = {},
                               !.children = Nothing]
<1>1. /\ txn' = [txn EXCEPT ![r] = t]
      /\ UNCHANGED <<relation, perm, overlapped>>
      /\ txn[r].stage \in {"inserting", "linking"}
  <2>1. \E q \in WaitsFor(r) : TRUE
    BY DEF DeadlockAbort
  <2>2. txn[r].stage \in {"inserting", "linking"}
    BY <2>1 DEF WaitsFor
  <2>3. QED
    BY <2>2, Here DEF DeadlockAbort
<1>2. /\ t \in Txns
      /\ t.stage = "failed" /\ t.todo = txn[r].todo
      /\ t.kind = txn[r].kind /\ t.target = txn[r].target /\ t.parent = txn[r].parent
      /\ t.children = Nothing /\ t.visited = txn[r].visited
      /\ t.queue = txn[r].queue
      /\ t.newPerm = {} /\ t.newRelation = {}
  <2>1. Nothing \in [Objects -> (SUBSET Objects) \cup {NotLoaded}]
    BY DEF Nothing
  <2>2. QED
    BY <2>1, Here DEF Txns, Stages
<1> HIDE DEF t
<1>3. txn' \in [Requests -> Txns] /\ Frame(r) /\ txn'[r] = t
  BY <1>1, <1>2, Replaced DEF IInv
<1>4. InProgress(r) /\ ~InProgress(r)'
  BY <1>1, <1>2, <1>3 DEF InProgress
<1>5. StageOf(r)'
  BY <1>2, <1>3 DEF StageOf, InProgress
<1>6. ShareOf(r)'
  <2>1. SUFFICES ASSUME txn[r].kind = "share" PROVE ShareOf(r)'
    BY <1>2, <1>3 DEF ShareOf
  <2>2. txn[r].todo = {} /\ Reached(r) \subseteq Below(txn[r].target)
    BY <2>1, Here DEF ShareOf
  <2>3. Reached(r)' = Reached(r)
    BY <1>2, <1>3 DEF Reached, Queued
  <2>4. \A x : Below(x)' = Below(x)
    BY <1>1 DEF Below
  <2>5. Reached(r)' \subseteq Below(txn[r].target)'
    BY <1>2, <1>3, <2>2, <2>3, <2>4
  <2>6. QED
    BY <1>2, <1>3, <2>2, <2>5 DEF ShareOf, Nothing
<1>7. QED
  BY <1>1, <1>3, <1>4, <1>5, <1>6, Local
LEMMA BeginInv == ASSUME IInv, NEW r \in Requests, Begin(r) PROVE IInv'
<1> DEFINE s == IF txn[r].kind = "share" THEN "granting" ELSE "start"
           queue == IF txn[r].kind = "share" THEN <<txn[r].target>> ELSE <<>>
           t == [txn[r] EXCEPT !.stage = s, !.queue = queue]
<1>1. /\ txn' = [txn EXCEPT ![r] = t]
      /\ UNCHANGED <<relation, perm>>
      /\ txn[r].stage = "new" /\ ~InProgress(r)
  BY Here DEF Begin, InProgress
<1>2. /\ s \in Stages /\ s \in {"granting", "start"} /\ (s = "start" <=> txn[r].kind = "link")
      /\ queue \in Seq(Objects)
      /\ txn[r].kind = "share" => queue = <<txn[r].target>> /\ Elements(queue) = {txn[r].target}
      /\ txn[r].kind = "link" => queue = <<>> /\ Elements(queue) = {}
  BY Here, Singleton DEF Stages
<1> HIDE DEF s, queue
<1>3. /\ txn[r].newRelation = {} /\ txn[r].newPerm = {} /\ txn[r].todo = {}
      /\ txn[r].visited = {} /\ txn[r].children = Nothing
  BY <1>1, Here DEF StageOf
<1>4. /\ t \in Txns
      /\ t.stage = s /\ t.queue = queue /\ t.group = txn[r].group
      /\ t.kind = txn[r].kind /\ t.target = txn[r].target /\ t.parent = txn[r].parent
      /\ t.newRelation = {} /\ t.newPerm = {} /\ t.todo = {}
      /\ t.visited = {} /\ t.children = Nothing
  BY <1>2, <1>3, Here DEF Txns
<1> HIDE DEF t
<1>5. txn' \in [Requests -> Txns] /\ Frame(r) /\ txn'[r] = t
  BY <1>1, <1>4, Replaced DEF IInv
<1>6. /\ overlapped' \in BOOLEAN
      /\ ~overlapped' => ~overlapped /\ \A q \in Requests : ~InProgress(q)
  BY DEF Begin, IInv, TypeOK
<1>7. TypeOK'
  BY <1>1, <1>5, <1>6 DEF IInv, TypeOK
<1>8. StageOf(r)'
  BY <1>2, <1>4, <1>5, Here DEF StageOf, InProgress
<1>9. Reached(r)' = Elements(queue)
  BY <1>4, <1>5 DEF Reached, Queued
<1>10. ShareOf(r)'
  <2>1. SUFFICES ASSUME txn[r].kind = "share" PROVE ShareOf(r)'
    BY <1>4, <1>5 DEF ShareOf
  <2>2. \A x : Below(x)' = Below(x)
    BY <1>1 DEF Below
  <2>3. txn[r].target \in Below(txn[r].target)
    BY Here, BelowSelf
  <2>4. Reached(r)' \subseteq Below(txn[r].target)'
    BY <1>2, <1>4, <1>5, <1>9, <2>1, <2>2, <2>3
  <2>5. QED
    BY <1>2, <1>4, <1>5, <2>1, <2>4 DEF ShareOf, Nothing
<1>11. ASSUME NEW q \in Requests, q # r
       PROVE  /\ StageOf(q)' = StageOf(q) /\ ShareOf(q)' = ShareOf(q)
              /\ TreeOf(q)' = TreeOf(q)
              /\ InProgress(q)' = InProgress(q)
  BY <1>1, <1>5, <1>11, Untouched DEF Frame
<1>12. ParentsImplyChildren' = ParentsImplyChildren
  BY <1>1 DEF ParentsImplyChildren
<1>13. SerialInv'
  <2>1. SUFFICES ASSUME ~overlapped'
                 PROVE  /\ ParentsImplyChildren'
                        /\ \A p, q \in Requests : InProgress(p)' /\ InProgress(q)' => p = q
                        /\ \A q \in Requests : InProgress(q)' => AloneOf(q)'
    BY DEF SerialInv
  <2>2. ParentsImplyChildren
    BY <1>6, <2>1 DEF IInv, SerialInv
  <2>3. AloneOf(r)'
    BY <1>1, <1>2, <1>4, <1>5, <2>2, CleanAlone
  <2>4. QED
    BY <1>6, <1>11, <1>12, <2>1, <2>2, <2>3
<1>14. TreeInv'
  <2>1. SUFFICES ASSUME TreeOfShares' PROVE ParentsImplyChildren' /\ \A q \in Requests : InProgress(q)' => TreeOf(q)'
    BY DEF TreeInv
  <2>2. TreeOfShares
    BY <1>1, <1>5, <2>1 DEF TreeOfShares, Frame, Below
  <2>3. ParentsImplyChildren /\ \A q \in Requests : InProgress(q) => TreeOf(q)
    BY <2>2 DEF IInv, TreeInv
  <2>4. TreeOf(r)'
    <3>1. txn[r].kind = "share"
      BY <2>2 DEF TreeOfShares
    <3>2. Reached(r)' = {txn'[r].target}
      BY <1>2, <1>4, <1>5, <1>9, <3>1
    <3>3. LoadedOf(r)'
      BY <1>4, <1>5 DEF LoadedOf, Nothing
    <3>4. QED
      BY <1>2, <1>4, <1>5, <3>2, <3>3 DEF TreeOf
  <2>5. QED
    BY <1>11, <1>12, <2>3, <2>4
<1>15. QED
  BY <1>7, <1>8, <1>10, <1>11, <1>13, <1>14 DEF IInv

LEMMA CommitInv == ASSUME IInv, NEW r \in Requests, Commit(r) PROVE IInv'
<1> DEFINE t == [txn[r] EXCEPT !.stage = "answered", !.newRelation = {}, !.newPerm = {},
                               !.children = Nothing]
<1>1. /\ txn' = [txn EXCEPT ![r] = t]
      /\ relation' = VisibleRelation(r) /\ perm' = VisiblePerm(r)
      /\ overlapped' = overlapped
      /\ txn[r].stage = "done" /\ InProgress(r)
      /\ txn[r].queue = <<>> /\ txn[r].todo = {}
  BY Here DEF Commit, InProgress, VisibleRelation, VisiblePerm, StageOf
<1>2. /\ t \in Txns
      /\ t.stage = "answered" /\ t.group = txn[r].group /\ t.todo = txn[r].todo
      /\ t.kind = txn[r].kind /\ t.target = txn[r].target /\ t.parent = txn[r].parent
      /\ t.children = Nothing /\ t.visited = txn[r].visited
      /\ t.queue = txn[r].queue
      /\ t.newPerm = {} /\ t.newRelation = {}
  <2>1. Nothing \in [Objects -> (SUBSET Objects) \cup {NotLoaded}]
    BY DEF Nothing
  <2>2. QED
    BY <2>1, Here DEF Txns, Stages
<1> HIDE DEF t
<1>3. txn' \in [Requests -> Txns] /\ Frame(r) /\ txn'[r] = t
  BY <1>1, <1>2, Replaced DEF IInv
<1>4. relation \subseteq relation' /\ perm \subseteq perm'
  BY <1>1 DEF VisibleRelation, VisiblePerm
<1>5. TypeOK'
  BY <1>1, <1>3, Here DEF TypeOK
<1>6. ~InProgress(r)' /\ \A q \in Requests : q # r => InProgress(q)' = InProgress(q)
  BY <1>2, <1>3 DEF InProgress, Frame
<1>7. ASSUME NEW q \in Requests PROVE StageOf(q)'
  <2>1. CASE q = r
    BY <1>2, <1>3, <2>1 DEF StageOf, InProgress
  <2>2. CASE q # r
    BY <1>3, <2>2, Here DEF StageOf, InProgress, Frame
  <2>3. QED
    BY <2>1, <2>2
<1>8. ASSUME NEW q \in Requests, q # r PROVE VisiblePerm(q) \subseteq VisiblePerm(q)' /\ Reached(q)' = Reached(q)
  BY <1>3, <1>4, <1>8 DEF VisiblePerm, Reached, Queued, Frame
<1>9. ASSUME NEW q \in Requests PROVE ShareOf(q)'
  <2>1. txn'[q].kind = txn[q].kind /\ txn'[q].target = txn[q].target
    BY <1>3 DEF Frame
  <2>2. SUFFICES ASSUME txn[q].kind = "share" PROVE ShareOf(q)'
    BY <2>1 DEF ShareOf
  <2>3. txn[q].target \in Objects
    BY Here
  <2>4. Below(txn[q].target) \subseteq Below(txn[q].target)'
    BY <1>4, <2>1, <2>3 DEF Below
  <2>5. /\ txn[q].newRelation = {} /\ txn[q].todo = {}
        /\ Reached(q) \subseteq Below(txn[q].target)
        /\ \A row \in txn[q].newPerm : row[2] = txn[q].group
        /\ \A o \in Objects : \/ txn[q].children[o] = NotLoaded
                              \/ \A c \in txn[q].children[o] : <<o, c>> \in relation
        /\ \/ txn[q].stage \in {"new", "inserting", "failed"}
           \/ txn[q].stage = "granting" /\ txn[q].visited = {} /\ txn[q].queue = <<txn[q].target>>
           \/ \E x \in Below(txn[q].target) : <<x, txn[q].group>> \in VisiblePerm(q)
    BY <2>2, Here DEF ShareOf
  <2>6. CASE q = r
    <3>1. \E x \in Below(txn[r].target) : <<x, txn[r].group>> \in VisiblePerm(r)
      BY <1>1, <2>5, <2>6
    <3>2. \E x \in Below(txn[r].target)' : <<x, txn'[r].group>> \in VisiblePerm(r)'
      BY <1>1, <1>2, <1>3, <2>4, <2>6, <3>1 DEF VisiblePerm
    <3>3. Reached(r)' = Reached(r)
      BY <1>2, <1>3 DEF Reached, Queued
    <3>4. Reached(r)' \subseteq Below(txn[r].target)'
      BY <2>4, <2>5, <2>6, <3>3
    <3>5. QED
      BY <1>2, <1>3, <2>5, <2>6, <3>2, <3>4 DEF ShareOf, Nothing
  <2>7. CASE q # r
    <3>1. txn'[q] = txn[q]
      BY <1>3, <2>7 DEF Frame
    <3>2. Reached(q)' \subseteq Below(txn[q].target)'
      BY <1>8, <2>4, <2>5, <2>7
    <3>3. (\E x \in Below(txn[q].target) : <<x, txn[q].group>> \in VisiblePerm(q))
             => \E x \in Below(txn[q].target)' : <<x, txn[q].group>> \in VisiblePerm(q)'
      BY <1>8, <2>4, <2>7
    <3>4. \A o \in Objects : \/ txn[q].children[o] = NotLoaded
                             \/ \A c \in txn[q].children[o] : <<o, c>> \in relation'
      BY <1>4, <2>5
    <3>5. QED
      BY <2>5, <3>1, <3>2, <3>3, <3>4 DEF ShareOf
  <2>8. QED
    BY <2>6, <2>7
<1>10. SerialInv'
  <2>1. SUFFICES ASSUME ~overlapped'
                 PROVE  /\ ParentsImplyChildren'
                        /\ \A p, q \in Requests : InProgress(p)' /\ InProgress(q)' => p = q
                        /\ \A q \in Requests : InProgress(q)' => AloneOf(q)'
    BY DEF SerialInv
  <2>2. \A q \in Requests : ~InProgress(q)'
    BY <1>1, <1>6, <2>1 DEF IInv, SerialInv
  <2>3. AloneOf(r)
    BY <1>1, <2>1 DEF IInv, SerialInv
  <2>4. \A e, g : ~Due(r, e, g)
    BY <1>1 DEF Due, Queued, Elements, At
  <2>5. ParentsImplyChildren'
    BY <1>1, <2>3, <2>4 DEF AloneOf, ParentsImplyChildren, Closed
  <2>6. QED
    BY <2>2, <2>5
<1>11. TreeInv'
  <2>1. SUFFICES ASSUME TreeOfShares' PROVE ParentsImplyChildren' /\ \A q \in Requests : InProgress(q)' => TreeOf(q)'
    BY DEF TreeInv
  <2>2. \A q \in Requests : txn[q].kind = "share" /\ txn[q].newRelation = {}
    BY <1>3, <2>1, Here DEF TreeOfShares, Frame, ShareOf
  <2>3. relation' = relation
    BY <1>1, <2>2 DEF VisibleRelation
  <2>4. TreeOfShares
    BY <2>1, <2>2, <2>3 DEF TreeOfShares, Below
  <2>5. ParentsImplyChildren /\ \A q \in Requests : InProgress(q) => TreeOf(q)
    BY <2>4 DEF IInv, TreeInv
  <2>6. ASSUME NEW e \in relation, NEW g \in Groups, <<e[1], g>> \in perm'
        PROVE  <<e[2], g>> \in perm'
    <3>1. CASE <<e[1], g>> \in perm
      BY <1>4, <2>5, <3>1 DEF ParentsImplyChildren, Closed
    <3>2. CASE <<e[1], g>> \in txn[r].newPerm
      <4>1. <<e[1], g>>[2] = txn[r].group
        BY <2>2, <3>2, Here DEF ShareOf
      <4>2. g = txn[r].group
        BY <4>1
      <4>3. TreeOf(r)
        BY <1>1, <2>5
      <4>4. Queued(r) = {}
        BY <1>1 DEF Queued, Elements
      <4>5. <<e[2], txn[r].group>> \in VisiblePerm(r)
        BY <1>1, <3>2, <4>2, <4>3, <4>4 DEF TreeOf
      <4>6. QED
        BY <1>1, <4>2, <4>5
    <3>3. QED
      BY <1>1, <2>6, <3>1, <3>2 DEF VisiblePerm
  <2>7. ParentsImplyChildren'
    BY <2>3, <2>6 DEF ParentsImplyChildren, Closed
  <2>8. ASSUME NEW q \in Requests, InProgress(q)' PROVE TreeOf(q)'
    <3>1. q # r /\ txn'[q] = txn[q] /\ InProgress(q)
      BY <1>3, <1>6, <2>8 DEF Frame
    <3>2. /\ VisibleRelation(q)' = VisibleRelation(q)
          /\ VisiblePerm(q) \subseteq VisiblePerm(q)'
          /\ Reached(q)' = Reached(q) /\ Queued(q)' = Queued(q)
      BY <1>8, <2>3, <3>1 DEF VisibleRelation, Queued
    <3>3. TreeOf(q)
      BY <2>5, <3>1
    <3>4. LoadedOf(q)
      BY <3>3 DEF TreeOf
    <3>5. LoadedOf(q)'
      BY <3>1, <3>2, <3>4 DEF LoadedOf
    <3>6. \A x : At(q, x)' = At(q, x)
      BY <3>1 DEF At
    <3>7. QED
      BY <2>3, <3>1, <3>2, <3>3, <3>5, <3>6 DEF TreeOf
  <2>9. QED
    BY <2>7, <2>8
<1>12. QED
  BY <1>5, <1>7, <1>9, <1>10, <1>11 DEF IInv

-----------------------------------------------------------------------------
(* What a request that is alone writes *)

\* What it is to write depends on what it is for and on the committed tables only.
LEMMA SameTask ==
    ASSUME NEW r \in Requests, relation' = relation, perm' = perm,
           txn'[r].kind = txn[r].kind, txn'[r].target = txn[r].target,
           txn'[r].parent = txn[r].parent,
           txn[r].kind = "share" => txn'[r].group = txn[r].group
    PROVE  /\ Linked(r)' = Linked(r) /\ Receivers(r)' = Receivers(r)
           /\ \A o, g : Gets(r, o, g)' <=> Gets(r, o, g)
<1>1. Linked(r)' = Linked(r) /\ Receivers(r)' = Receivers(r)
  BY DEF Linked, Receivers
<1>2. QED
  BY <1>1 DEF Gets, Given

\* Its relations and its object are what GivenIsLeast asks for.
LEMMA TaskTyped ==
    ASSUME IInv, NEW r \in Requests
    PROVE  Linked(r) \in SUBSET (Objects \X Objects) /\ txn[r].target \in Objects
BY Here DEF Linked

\* The rows that give_access adds are those of the least set that its loop closes.
LEMMA TaskGiven ==
    ASSUME IInv, NEW r \in Requests, NEW g
    PROVE  LET given == Given(perm, Linked(r), txn[r].target, g) IN
           /\ <<txn[r].target, g>> \in perm \/ txn[r].target \in given
           /\ \A x \in given, c \in Objects :
                 <<x, c>> \in Linked(r) => <<c, g>> \in perm \/ c \in given
           /\ \A S \in SUBSET Objects :
                 (txn[r].target \in S
                     /\ \A e \in Linked(r) : e[1] \in S => <<e[2], g>> \in perm \/ e[2] \in S)
                     => given \subseteq S
<1> DEFINE given == Given(perm, Linked(r), txn[r].target, g)
<1>1. <<txn[r].target, g>> \in perm \/ txn[r].target \in given
  BY Here DEF Given
<1>2. ASSUME NEW x \in given, NEW c \in Objects, <<x, c>> \in Linked(r), <<c, g>> \notin perm
      PROVE  c \in given
  <2>1. <<x, c>>[1] = x /\ <<x, c>>[2] = c
    OBVIOUS
  <2>2. QED
    BY <1>2, <2>1 DEF Given
<1>3. ASSUME NEW S \in SUBSET Objects, txn[r].target \in S,
             \A e \in Linked(r) : e[1] \in S => <<e[2], g>> \in perm \/ e[2] \in S
      PROVE  given \subseteq S
  BY <1>3 DEF Given
<1>4. QED
  BY <1>1, <1>2, <1>3

LEMMA SameWrites ==
    ASSUME NEW r \in Requests, relation' = relation, perm' = perm, txn'[r] = txn[r], WroteOf(r)
    PROVE  WroteOf(r)'
<1>1. /\ Linked(r)' = Linked(r) /\ Receivers(r)' = Receivers(r)
      /\ \A o, g : Gets(r, o, g)' <=> Gets(r, o, g)
  BY SameTask
<1>2. /\ VisibleRelation(r)' = VisibleRelation(r)
      /\ Queued(r)' = Queued(r) /\ Reached(r)' = Reached(r)
  BY DEF VisibleRelation, Queued, Reached, Elements
<1>3. QED
  BY <1>1, <1>2 DEF WroteOf

\* A step that commits nothing keeps it if it keeps what its request has written.
LEMMA LocalWrites ==
    ASSUME WroteInv, NEW r \in Requests, UNCHANGED <<relation, perm, overlapped>>,
           Frame(r), InProgress(r), IInv,
           ParentsImplyChildren /\ AloneOf(r) /\ WroteOf(r) => WroteOf(r)'
    PROVE  WroteInv'
<1>1. SUFFICES ASSUME ~overlapped, NEW q \in Requests, InProgress(q)' PROVE WroteOf(q)'
  BY DEF WroteInv
<1>2. CASE q = r
  BY <1>1, <1>2 DEF WroteInv, IInv, SerialInv
<1>3. CASE q # r
  <2>1. txn'[q] = txn[q]
    BY <1>3 DEF Frame
  <2>2. WroteOf(q)
    BY <1>1, <2>1 DEF WroteInv, InProgress
  <2>3. QED
    BY <2>1, <2>2, SameWrites
<1>4. QED
  BY <1>2, <1>3

LEMMA CheckParentWrites == ASSUME IInv, WroteInv, NEW r \in Requests, CheckParent(r) PROVE WroteInv'
<1> DEFINE s == IF <<txn[r].parent, txn[r].target>> \in VisibleRelation(r) THEN "done" ELSE "linking"
           t == [txn[r] EXCEPT !.stage = s]
<1>1. /\ txn' = [txn EXCEPT ![r] = t]
      /\ txn[r].stage = "start" /\ InProgress(r)
      /\ UNCHANGED <<relation, perm, overlapped>>
  BY Here DEF CheckParent, InProgress
<1>2. txn[r].queue = <<>> /\ txn[r].newPerm = {} /\ txn[r].newRelation = {} /\ txn[r].kind = "link"
  BY <1>1, Here DEF StageOf
<1>3. /\ t.stage = s /\ t.group = txn[r].group /\ t.todo = txn[r].todo
      /\ t.kind = txn[r].kind /\ t.target = txn[r].target /\ t.parent = txn[r].parent
      /\ t.queue = <<>> /\ t.newPerm = {} /\ t.newRelation = {}
  BY <1>2, Here DEF Txns
<1>4. s = "linking" \/ <<txn[r].parent, txn[r].target>> \in relation
  BY <1>2 DEF VisibleRelation
<1> HIDE DEF s, t
<1>5. txn'[r] = t /\ Frame(r)
  BY <1>1, <1>3, Here DEF TypeOK, Frame
<1>6. ASSUME WroteOf(r) PROVE WroteOf(r)'
  <2>1. Receivers(r)' = Receivers(r) /\ Linked(r)' = Linked(r)
    BY <1>1, <1>3, <1>5, SameTask
  <2>2. s = "linking" \/ VisibleRelation(r)' = Linked(r)'
    BY <1>1, <1>2, <1>3, <1>4, <1>5, <2>1 DEF VisibleRelation, Linked
  <2>3. Queued(r)' = {}
    BY <1>3, <1>5 DEF Queued, Elements
  <2>4. QED
    BY <1>2, <1>3, <1>5, <1>6, <2>1, <2>2, <2>3 DEF WroteOf
<1>7. QED
  BY <1>1, <1>5, <1>6, LocalWrites

LEMMA InsertRelationWrites == ASSUME IInv, WroteInv, NEW r \in Requests, InsertRelation(r) PROVE WroteInv'
<1> DEFINE row == <<txn[r].parent, txn[r].target>>
           t == IF row \in relation THEN [txn[r] EXCEPT !.stage = "done"]
                ELSE [txn[r] EXCEPT !.stage = "linked", !.newRelation = @ \cup {row}]
<1>1. /\ txn' = [txn EXCEPT ![r] = t]
      /\ txn[r].stage = "linking" /\ InProgress(r)
      /\ UNCHANGED <<relation, perm, overlapped>>
  BY Here DEF InsertRelation, InProgress
<1>2. txn[r].queue = <<>> /\ txn[r].newPerm = {} /\ txn[r].newRelation = {} /\ txn[r].kind = "link"
  BY <1>1, Here DEF StageOf
<1>3. /\ t.group = txn[r].group /\ t.todo = txn[r].todo
      /\ t.kind = txn[r].kind /\ t.target = txn[r].target /\ t.parent = txn[r].parent
      /\ t.queue = <<>> /\ t.newPerm = {}
      /\ \/ row \in relation /\ t.newRelation = {}
         \/ t.newRelation = {row}
  BY <1>2, Here DEF Txns
<1> HIDE DEF t
<1>4. txn'[r] = t /\ Frame(r)
  BY <1>1, <1>3, Here DEF TypeOK, Frame
<1>5. ASSUME WroteOf(r) PROVE WroteOf(r)'
  <2>1. Receivers(r)' = Receivers(r) /\ Linked(r)' = Linked(r)
    BY <1>1, <1>3, <1>4, SameTask
  <2>2. VisibleRelation(r)' = Linked(r)'
    BY <1>1, <1>2, <1>3, <1>4, <2>1 DEF VisibleRelation, Linked
  <2>3. Queued(r)' = {}
    BY <1>3, <1>4 DEF Queued, Elements
  <2>4. QED
    BY <1>2, <1>3, <1>4, <1>5, <2>1, <2>2, <2>3 DEF WroteOf
<1>6. QED
  BY <1>1, <1>4, <1>5, LocalWrites

LEMMA ReadPermissionsWrites == ASSUME IInv, WroteInv, NEW r \in Requests, ReadPermissions(r) PROVE WroteInv'
<1> DEFINE rows == {g \in Groups : <<txn[r].parent, g>> \in VisiblePerm(r)}
           t == [txn[r] EXCEPT !.stage = "granting", !.todo = rows]
<1>1. /\ txn' = [txn EXCEPT ![r] = t]
      /\ txn[r].stage = "linked" /\ InProgress(r)
      /\ UNCHANGED <<relation, perm, overlapped>>
  BY Here DEF ReadPermissions, InProgress
<1>2. txn[r].queue = <<>> /\ txn[r].newPerm = {} /\ txn[r].kind = "link"
  BY <1>1, Here DEF StageOf
<1>3. /\ t.group = txn[r].group /\ t.todo = rows
      /\ t.kind = txn[r].kind /\ t.target = txn[r].target /\ t.parent = txn[r].parent
      /\ t.queue = <<>> /\ t.newPerm = {} /\ t.newRelation = txn[r].newRelation
  BY <1>2, Here DEF Txns
<1>4. rows = Receivers(r)
  BY <1>2 DEF Receivers, VisiblePerm
<1> HIDE DEF rows, t
<1>5. txn'[r] = t /\ Frame(r)
  BY <1>1, <1>3, Here DEF TypeOK, Frame
<1>6. ASSUME WroteOf(r) PROVE WroteOf(r)'
  <2>1. Receivers(r)' = Receivers(r) /\ Linked(r)' = Linked(r)
    BY <1>1, <1>3, <1>5, SameTask
  <2>2. VisibleRelation(r)' = Linked(r)'
    BY <1>1, <1>3, <1>5, <1>6, <2>1 DEF VisibleRelation, WroteOf
  <2>3. Queued(r)' = {}
    BY <1>3, <1>5 DEF Queued, Elements
  <2>4. QED
    BY <1>2, <1>3, <1>4, <1>5, <1>6, <2>1, <2>2, <2>3 DEF WroteOf
<1>7. QED
  BY <1>1, <1>5, <1>6, LocalWrites

LEMMA NextPermissionWrites == ASSUME IInv, WroteInv, NEW r \in Requests, NextPermission(r) PROVE WroteInv'
<1>1. PICK g \in txn[r].todo :
          txn' = [txn EXCEPT ![r].group = g, ![r].todo = @ \ {g},
                             ![r].queue = <<txn[r].target>>, ![r].visited = {}]
  BY DEF NextPermission
<1> DEFINE t == [txn[r] EXCEPT !.group = g, !.todo = @ \ {g},
                               !.queue = <<txn[r].target>>, !.visited = {}]
<1>2. /\ txn[r].stage = "granting" /\ InProgress(r)
      /\ UNCHANGED <<relation, perm, overlapped>>
      /\ txn' = [txn EXCEPT ![r] = t]
  BY <1>1, Here DEF NextPermission, InProgress
<1>3. txn[r].kind = "link" /\ g \in Groups
  BY <1>1, Here DEF ShareOf
<1>4. /\ t.group = g /\ t.todo = txn[r].todo \ {g}
      /\ t.kind = txn[r].kind /\ t.target = txn[r].target /\ t.parent = txn[r].parent
      /\ t.queue = <<txn[r].target>>
      /\ t.newPerm = txn[r].newPerm /\ t.newRelation = txn[r].newRelation
  BY Here DEF Txns
<1> HIDE DEF t
<1>5. txn'[r] = t /\ Frame(r)
  BY <1>2, <1>4, Here DEF TypeOK, Frame
<1>6. ASSUME WroteOf(r) PROVE WroteOf(r)'
  <2>1. /\ Receivers(r)' = Receivers(r) /\ Linked(r)' = Linked(r)
        /\ \A o, h : Gets(r, o, h)' <=> Gets(r, o, h)
    BY <1>2, <1>3, <1>4, <1>5, SameTask
  <2>2. VisibleRelation(r)' = Linked(r)'
    BY <1>2, <1>4, <1>5, <1>6, <2>1 DEF VisibleRelation, WroteOf
  <2>3. Queued(r)' = {txn[r].target}
    BY <1>4, <1>5, Here, Singleton DEF Queued, Elements
  <2>4. g \in Receivers(r)
    BY <1>1, <1>6 DEF WroteOf
  <2>5. <<txn[r].target, g>> \in perm \/ Gets(r, txn[r].target, g)
    <3>1. \/ <<txn[r].target, g>> \in perm
          \/ txn[r].target \in Given(perm, Linked(r), txn[r].target, g)
      BY <1>3, TaskGiven
    <3>2. QED
      BY <2>4, <3>1 DEF Gets
  <2>6. QED
    BY <1>2, <1>3, <1>4, <1>5, <1>6, <2>1, <2>2, <2>3, <2>4, <2>5 DEF WroteOf
<1>7. QED
  BY <1>2, <1>5, <1>6, LocalWrites

LEMMA GrantedWrites == ASSUME IInv, WroteInv, NEW r \in Requests, Granted(r) PROVE WroteInv'
<1> DEFINE t == [txn[r] EXCEPT !.stage = "done"]
<1>1. /\ txn' = [txn EXCEPT ![r] = t]
      /\ txn[r].stage = "granting" /\ InProgress(r)
      /\ UNCHANGED <<relation, perm, overlapped>>
  BY Here DEF Granted, InProgress
<1>2. /\ t.group = txn[r].group /\ t.todo = txn[r].todo /\ t.visited = txn[r].visited
      /\ t.kind = txn[r].kind /\ t.target = txn[r].target /\ t.parent = txn[r].parent
      /\ t.queue = txn[r].queue
      /\ t.newPerm = txn[r].newPerm /\ t.newRelation = txn[r].newRelation
  BY Here DEF Txns
<1> HIDE DEF t
<1>3. txn'[r] = t /\ Frame(r)
  BY <1>1, <1>2, Here DEF TypeOK, Frame
<1>4. ASSUME WroteOf(r) PROVE WroteOf(r)'
  <2>1. /\ Receivers(r)' = Receivers(r) /\ Linked(r)' = Linked(r)
        /\ \A o, h : Gets(r, o, h)' <=> Gets(r, o, h)
    BY <1>1, <1>2, <1>3, SameTask
  <2>2. /\ VisibleRelation(r)' = VisibleRelation(r)
        /\ Queued(r)' = Queued(r) /\ Reached(r)' = Reached(r)
    BY <1>1, <1>2, <1>3 DEF VisibleRelation, Queued, Reached
  <2>3. QED
    BY <1>1, <1>2, <1>3, <1>4, <2>1, <2>2 DEF WroteOf
<1>5. QED
  BY <1>1, <1>3, <1>4, LocalWrites

LEMMA CheckPermissionWrites == ASSUME IInv, WroteInv, NEW r \in Requests, CheckPermission(r) PROVE WroteInv'
<1> DEFINE o == Head(txn[r].queue)
           passed == o \in txn[r].visited \/ <<o, txn[r].group>> \in VisiblePerm(r)
           t == IF passed THEN [txn[r] EXCEPT !.queue = Tail(@), !.visited = @ \cup {o}]
                ELSE [txn[r] EXCEPT !.stage = "inserting", !.visited = @ \cup {o}]
<1>1. /\ txn' = [txn EXCEPT ![r] = t]
      /\ txn[r].stage = "granting" /\ txn[r].queue # <<>> /\ InProgress(r)
      /\ UNCHANGED <<relation, perm, overlapped>>
  BY Here DEF CheckPermission, InProgress
<1>2. Queued(r) = {o} \cup Elements(Tail(txn[r].queue))
  BY <1>1, Here, HeadTail DEF Queued
<1>3. /\ t.group = txn[r].group /\ t.todo = txn[r].todo /\ t.visited = txn[r].visited \cup {o}
      /\ t.kind = txn[r].kind /\ t.target = txn[r].target /\ t.parent = txn[r].parent
      /\ t.queue \in {txn[r].queue, Tail(txn[r].queue)}
      /\ t.newPerm = txn[r].newPerm /\ t.newRelation = txn[r].newRelation
  BY Here DEF Txns
<1> HIDE DEF o, passed, t
<1>4. txn'[r] = t /\ Frame(r)
  BY <1>1, <1>3, Here DEF TypeOK, Frame
<1>5. ASSUME WroteOf(r) PROVE WroteOf(r)'
  <2>1. /\ Receivers(r)' = Receivers(r) /\ Linked(r)' = Linked(r)
        /\ \A x, h : Gets(r, x, h)' <=> Gets(r, x, h)
    BY <1>1, <1>3, <1>4, SameTask
  <2>2. VisibleRelation(r)' = VisibleRelation(r)
    BY <1>1, <1>3, <1>4 DEF VisibleRelation
  <2>3. Queued(r)' \subseteq Queued(r) /\ Queued(r) \subseteq Queued(r)' \cup {o}
    BY <1>2, <1>3, <1>4 DEF Queued
  <2>4. Reached(r) \subseteq Reached(r)'
    BY <1>3, <1>4, <2>3 DEF Reached
  <2>5. QED
    BY <1>1, <1>3, <1>4, <1>5, <2>1, <2>2, <2>3, <2>4 DEF WroteOf
<1>6. QED
  BY <1>1, <1>4, <1>5, LocalWrites

\* Alone, it finds the row it has looked for still missing.
LEMMA InsertPermissionWrites == ASSUME IInv, WroteInv, NEW r \in Requests, InsertPermission(r) PROVE WroteInv'
<1> DEFINE row == <<Head(txn[r].queue), txn[r].group>>
           t == IF row \in perm
                THEN [txn[r] EXCEPT !.stage = "granting", !.queue = Tail(@), !.children = Nothing,
                                    !.newRelation = {}, !.newPerm = {}]
                ELSE [txn[r] EXCEPT !.stage = "spreading", !.newPerm = @ \cup {row}]
<1>1. /\ txn' = [txn EXCEPT ![r] = t]
      /\ txn[r].stage = "inserting" /\ txn[r].queue # <<>> /\ InProgress(r)
      /\ UNCHANGED <<relation, perm, overlapped>>
  BY Here DEF InsertPermission, InProgress, StageOf
<1>2. /\ t.kind = txn[r].kind /\ t.target = txn[r].target /\ t.parent = txn[r].parent
      /\ row \notin perm =>
            /\ t.group = txn[r].group /\ t.todo = txn[r].todo /\ t.visited = txn[r].visited
            /\ t.queue = txn[r].queue
            /\ t.newPerm = txn[r].newPerm \cup {row} /\ t.newRelation = txn[r].newRelation
  BY Here DEF Txns
<1>3. Head(txn[r].queue) \in Queued(r)
  BY <1>1, Here, HeadTail DEF Queued
<1> HIDE DEF t
<1>4. txn'[r] = t /\ Frame(r)
  BY <1>1, <1>2, Here DEF TypeOK, Frame
<1>5. ASSUME AloneOf(r), WroteOf(r) PROVE WroteOf(r)'
  <2>1. row \notin perm
    BY <1>1, <1>5 DEF AloneOf, VisiblePerm
  <2>2. /\ Receivers(r)' = Receivers(r) /\ Linked(r)' = Linked(r)
        /\ \A x, h : Gets(r, x, h)' <=> Gets(r, x, h)
    BY <1>1, <1>2, <1>4, <2>1, SameTask
  <2>3. /\ VisibleRelation(r)' = VisibleRelation(r)
        /\ Queued(r)' = Queued(r) /\ Reached(r)' = Reached(r)
    BY <1>1, <1>2, <1>4, <2>1 DEF VisibleRelation, Queued, Reached
  <2>4. Gets(r, row[1], row[2])
    BY <1>3, <1>5, <2>1 DEF WroteOf
  <2>5. QED
    BY <1>1, <1>2, <1>4, <1>5, <2>1, <2>2, <2>3, <2>4 DEF WroteOf
<1>6. QED
  BY <1>1, <1>4, <1>5, LocalWrites

\* Children of an object that gets a row have one or get one.
LEMMA SpreadWrites == ASSUME IInv, WroteInv, NEW r \in Requests, Spread(r) PROVE WroteInv'
<1> DEFINE o == Head(txn[r].queue)
           loaded == IF txn[r].children[o] = NotLoaded
                     THEN {c \in Objects : <<o, c>> \in VisibleRelation(r)}
                     ELSE txn[r].children[o]
<1>1. PICK s \in Orders(loaded) :
        txn' = [txn EXCEPT ![r].stage = "granting", ![r].queue = Tail(@) \o s,
                           ![r].children[o] = loaded]
  BY DEF Spread
<1>2. /\ txn[r].stage = "spreading" /\ txn[r].queue # <<>> /\ o \in txn[r].visited
      /\ UNCHANGED <<relation, perm, overlapped>>
      /\ InProgress(r)
  BY Here DEF Spread, InProgress, StageOf
<1>3. /\ o \in Objects /\ Tail(txn[r].queue) \in Seq(Objects)
      /\ Queued(r) = {o} \cup Elements(Tail(txn[r].queue))
  BY <1>2, Here, HeadTail DEF Queued
<1>4. /\ loaded \in SUBSET Objects
      /\ LoadedOf(r) => loaded = {c \in Objects : <<o, c>> \in VisibleRelation(r)}
  <2>1. txn[r].children[o] \in (SUBSET Objects) \cup {NotLoaded}
    BY <1>3, Here
  <2>2. QED
    BY <1>3, <2>1 DEF LoadedOf
<1> HIDE DEF o, loaded
<1>5. s \in Seq(Objects) /\ Elements(s) = loaded
  BY <1>1, <1>4, Ordered
<1>6. /\ txn'[r].group = txn[r].group /\ txn'[r].todo = txn[r].todo
      /\ txn'[r].stage = "granting" /\ txn'[r].visited = txn[r].visited
      /\ txn'[r].queue = Tail(txn[r].queue) \o s
      /\ txn'[r].newPerm = txn[r].newPerm /\ txn'[r].newRelation = txn[r].newRelation
      /\ Frame(r)
  <2>1. txn \in [Requests -> Txns] /\ txn[r] \in Txns
    BY Here DEF TypeOK
  <2>2. QED
    BY <1>1, <2>1 DEF Txns, Frame
<1>7. Queued(r)' = Elements(Tail(txn[r].queue)) \cup loaded
  <2>1. Queued(r)' = Elements(Tail(txn[r].queue) \o s)
    BY <1>6 DEF Queued, Elements
  <2>2. QED
    BY <1>3, <1>5, <2>1, Concatenated
<1>8. ASSUME ParentsImplyChildren, AloneOf(r), WroteOf(r) PROVE WroteOf(r)'
  <2>1. /\ Receivers(r)' = Receivers(r) /\ Linked(r)' = Linked(r)
        /\ \A x, h : Gets(r, x, h)' <=> Gets(r, x, h)
    BY <1>2, <1>6, SameTask DEF Frame
  <2>2. VisibleRelation(r)' = VisibleRelation(r) /\ VisibleRelation(r) = Linked(r)
    BY <1>2, <1>6, <1>8 DEF VisibleRelation, WroteOf
  <2>3. Reached(r) \subseteq Reached(r)'
    BY <1>2, <1>3, <1>6, <1>7 DEF Reached
  <2>4. txn[r].group \in Receivers(r) /\ (<<o, txn[r].group>> \in perm \/ Gets(r, o, txn[r].group))
    BY <1>3, <1>8 DEF WroteOf
  <2>5. ASSUME NEW c \in loaded PROVE <<c, txn[r].group>> \in perm \/ Gets(r, c, txn[r].group)
    <3>1. c \in Objects /\ <<o, c>> \in Linked(r)
      BY <1>4, <1>8, <2>2, <2>5 DEF AloneOf
    <3>2. CASE <<o, txn[r].group>> \in perm
      <4>1. CASE <<o, c>> \in relation
        <5>1. <<o, c>>[1] = o /\ <<o, c>>[2] = c
          OBVIOUS
        <5>2. QED
          BY <1>8, <3>2, <4>1, <5>1, Here DEF ParentsImplyChildren, Closed
      <4>2. CASE <<o, c>> \notin relation
        <5>1. c = txn[r].target
          BY <3>1, <4>2 DEF Linked
        <5>2. \/ <<c, txn[r].group>> \in perm
              \/ c \in Given(perm, Linked(r), txn[r].target, txn[r].group)
          BY <5>1, TaskGiven
        <5>3. QED
          BY <2>4, <5>1, <5>2 DEF Gets
      <4>3. QED
        BY <4>1, <4>2
    <3>3. CASE Gets(r, o, txn[r].group)
      <4>1. \/ <<c, txn[r].group>> \in perm
            \/ c \in Given(perm, Linked(r), txn[r].target, txn[r].group)
        BY <3>1, <3>3, TaskGiven DEF Gets
      <4>2. QED
        BY <2>4, <4>1 DEF Gets
    <3>4. QED
      BY <2>4, <3>2, <3>3
  <2>6. QED
    BY <1>2, <1>3, <1>6, <1>7, <1>8, <2>1, <2>2, <2>3, <2>4, <2>5 DEF WroteOf, Frame
<1>9. QED
  BY <1>2, <1>6, <1>8, LocalWrites

LEMMA BeginWrites == ASSUME IInv, WroteInv, NEW r \in Requests, Begin(r) PROVE WroteInv'
<1> DEFINE s == IF txn[r].kind = "share" THEN "granting" ELSE "start"
           queue == IF txn[r].kind = "share" THEN <<txn[r].target>> ELSE <<>>
           t == [txn[r] EXCEPT !.stage = s, !.queue = queue]
<1>1. /\ txn' = [txn EXCEPT ![r] = t]
      /\ UNCHANGED <<relation, perm>>
      /\ txn[r].stage = "new"
      /\ overlapped' = (overlapped \/ \E q \in Requests : InProgress(q))
  BY Here DEF Begin
<1>2. /\ txn[r].kind = "share" => Elements(queue) = {txn[r].target}
      /\ txn[r].kind = "link" => Elements(queue) = {}
  BY Here, Singleton
<1>3. /\ txn[r].newRelation = {} /\ txn[r].newPerm = {} /\ txn[r].todo = {}
  BY <1>1, Here DEF StageOf
<1>4. /\ t.group = txn[r].group /\ t.todo = {} /\ t.stage = s
      /\ t.kind = txn[r].kind /\ t.target = txn[r].target /\ t.parent = txn[r].parent
      /\ t.queue = queue /\ t.newPerm = {} /\ t.newRelation = {}
  BY <1>3, Here DEF Txns
<1> HIDE DEF t, queue
<1>5. txn'[r] = t /\ Frame(r)
  BY <1>1, <1>4, Here DEF TypeOK, Frame
<1>6. SUFFICES ASSUME ~overlapped', NEW q \in Requests, InProgress(q)' PROVE WroteOf(q)'
  BY DEF WroteInv
<1>7. q = r
  BY <1>1, <1>5, <1>6 DEF InProgress, Frame
<1>8. /\ Receivers(r)' = Receivers(r) /\ Linked(r)' = Linked(r)
      /\ \A x, h : Gets(r, x, h)' <=> Gets(r, x, h)
  BY <1>1, <1>4, <1>5, SameTask
<1>9. Queued(r)' = Elements(queue)
  BY <1>4, <1>5 DEF Queued, Elements
<1>10. CASE txn[r].kind = "share"
  <2>1. txn[r].group \in Receivers(r) /\ Linked(r) = relation
    BY <1>10 DEF Receivers, Linked
  <2>2. \/ <<txn[r].target, txn[r].group>> \in perm
        \/ txn[r].target \in Given(perm, Linked(r), txn[r].target, txn[r].group)
    BY TaskGiven
  <2>3. VisibleRelation(r)' = relation /\ txn[r].target \in Reached(r)'
    BY <1>1, <1>2, <1>4, <1>5, <1>9, <1>10 DEF VisibleRelation, Reached
  <2>4. Queued(r)' = {txn[r].target}
    BY <1>2, <1>9, <1>10
  <2>5. WroteOf(r)'
    BY <1>1, <1>4, <1>5, <1>8, <2>1, <2>2, <2>3, <2>4 DEF WroteOf, Gets
  <2>6. QED
    BY <1>7, <2>5
<1>11. CASE txn[r].kind = "link"
  <2>1. Queued(r)' = {}
    BY <1>2, <1>9, <1>11
  <2>2. WroteOf(r)'
    BY <1>4, <1>5, <1>11, <2>1 DEF WroteOf
  <2>3. QED
    BY <1>7, <2>2
<1>12. QED
  BY <1>10, <1>11, Here

\* A request that ends leaves none in progress.
LEMMA LastEnds ==
    ASSUME IInv, NEW r \in Requests, InProgress(r), overlapped' = overlapped,
           txn'[r].stage \in {"answered", "failed"},
           \A q \in Requests : q # r => txn'[q] = txn[q]
    PROVE  WroteInv'
BY DEF IInv, SerialInv, WroteInv, InProgress

LEMMA CommitWrites == ASSUME IInv, NEW r \in Requests, Commit(r) PROVE WroteInv'
<1>1. txn[r] \in Txns /\ txn \in [Requests -> Txns]
  BY Here DEF TypeOK
<1>2. /\ txn'[r].stage = "answered" /\ \A q \in Requests : q # r => txn'[q] = txn[q]
      /\ InProgress(r) /\ overlapped' = overlapped
  BY <1>1 DEF Commit, InProgress, Txns
<1>3. QED
  BY <1>2, LastEnds

LEMMA DeadlockAbortWrites == ASSUME IInv, NEW r \in Requests, DeadlockAbort(r) PROVE WroteInv'
<1>1. txn[r] \in Txns /\ txn \in [Requests -> Txns]
  BY Here DEF TypeOK
<1>2. /\ txn'[r].stage = "failed" /\ \A q \in Requests : q # r => txn'[q] = txn[q]
      /\ InProgress(r) /\ overlapped' = overlapped
  BY <1>1 DEF DeadlockAbort, InProgress, WaitsFor, Txns
<1>3. QED
  BY <1>2, LastEnds

LEMMA WritesInvariant == IInv /\ WroteInv /\ [Next]_vars => WroteInv'
<1> SUFFICES ASSUME IInv, WroteInv, [Next]_vars PROVE WroteInv'
  OBVIOUS
<1>1. ASSUME NEW r \in Requests, Begin(r) \/ Step(r) PROVE WroteInv'
  BY <1>1, BeginWrites, CheckParentWrites, InsertRelationWrites, ReadPermissionsWrites,
     NextPermissionWrites, GrantedWrites, CheckPermissionWrites, InsertPermissionWrites,
     SpreadWrites, CommitWrites, DeadlockAbortWrites DEF Step
<1>2. CASE UNCHANGED vars
  <2>1. relation' = relation /\ perm' = perm /\ txn' = txn /\ overlapped' = overlapped
    BY <1>2 DEF vars
  <2>2. SUFFICES ASSUME ~overlapped, NEW q \in Requests, InProgress(q) PROVE WroteOf(q)'
    BY <2>1 DEF WroteInv, InProgress
  <2>3. QED
    BY <2>1, <2>2, SameWrites DEF WroteInv
<1>3. QED
  BY <1>1, <1>2 DEF Next

\* At its end a request that was alone has written all rows it was to write: those it sees
\* are closed, and hold its object.
LEMMA CommitIsAtomic ==
    ASSUME IInv, WroteInv, ~overlapped, NEW r \in Requests, Commit(r)
    PROVE  /\ relation' = Linked(r)
           /\ perm' = perm \cup {row \in Objects \X Groups : Gets(r, row[1], row[2])}
<1>1. /\ txn[r].stage = "done" /\ InProgress(r)
      /\ txn[r].queue = <<>> /\ txn[r].todo = {}
      /\ relation' = VisibleRelation(r) /\ perm' = VisiblePerm(r)
  BY Here DEF Commit, InProgress, StageOf, VisibleRelation, VisiblePerm
<1>2. AloneOf(r) /\ WroteOf(r)
  BY <1>1 DEF IInv, SerialInv, WroteInv
<1>3. relation' = Linked(r)
  BY <1>1, <1>2 DEF WroteOf
<1>4. perm' \subseteq perm \cup {row \in Objects \X Groups : Gets(r, row[1], row[2])}
  <2>1. \A row \in txn[r].newPerm : row \in Objects \X Groups /\ Gets(r, row[1], row[2])
    BY <1>2, Here DEF WroteOf, VisiblePerm
  <2>2. QED
    BY <1>1, <2>1 DEF VisiblePerm
<1>5. Queued(r) = {}
  BY <1>1 DEF Queued, Elements
<1>6. \A e \in Linked(r), g \in Groups :
        <<e[1], g>> \in VisiblePerm(r) => <<e[2], g>> \in VisiblePerm(r)
  BY <1>1, <1>2, <1>3, <1>5 DEF AloneOf, Due, At
<1>7. ASSUME NEW g \in Receivers(r) PROVE g \in Groups /\ <<txn[r].target, g>> \in VisiblePerm(r)
  <2>1. CASE txn[r].kind = "share"
    <3>1. g = txn[r].group /\ txn[r].target \in txn[r].visited
      BY <1>2, <1>5, <1>7, <2>1 DEF WroteOf, Reached, Receivers
    <3>2. QED
      BY <1>1, <1>2, <3>1, Here DEF AloneOf
  <2>2. CASE txn[r].kind = "link"
    <3>1. <<txn[r].parent, txn[r].target>> \in Linked(r)
      BY <2>2 DEF Linked
    <3>2. g \in Groups /\ <<txn[r].parent, g>> \in VisiblePerm(r)
      BY <1>7, <2>2 DEF Receivers, VisiblePerm
    <3>3. QED
      BY <1>6, <3>1, <3>2
  <2>3. QED
    BY <2>1, <2>2, Here
<1>8. ASSUME NEW g \in Receivers(r) PROVE \A x \in Given(perm, Linked(r), txn[r].target, g) : <<x, g>> \in perm'
  <2> DEFINE S == {x \in Objects : <<x, g>> \in VisiblePerm(r)}
  <2>1. S \in SUBSET Objects /\ txn[r].target \in S
    BY <1>7, Here
  <2>2. ASSUME NEW e \in Linked(r), e[1] \in S PROVE e[2] \in S
    <3>1. e[2] \in Objects
      BY TaskTyped
    <3>2. QED
      BY <1>6, <1>7, <2>2, <3>1
  <2> HIDE DEF S
  <2>3. Given(perm, Linked(r), txn[r].target, g) \subseteq S
    BY <2>1, <2>2, TaskGiven
  <2>4. QED
    BY <1>1, <2>3 DEF S
<1>9. perm \cup {row \in Objects \X Groups : Gets(r, row[1], row[2])} \subseteq perm'
  <2>1. ASSUME NEW row \in Objects \X Groups, Gets(r, row[1], row[2]) PROVE row \in perm'
    <3>1. row = <<row[1], row[2]>>
      OBVIOUS
    <3>2. QED
      BY <1>8, <2>1, <3>1 DEF Gets
  <2>2. QED
    BY <1>1, <2>1 DEF VisiblePerm
<1>10. QED
  BY <1>3, <1>4, <1>9

-----------------------------------------------------------------------------
(* The specification *)

LEMMA NextInv == IInv /\ [Next]_vars => IInv'
<1> SUFFICES ASSUME IInv, [Next]_vars PROVE IInv'
  OBVIOUS
<1>1. ASSUME NEW r \in Requests, Begin(r) \/ Step(r) PROVE IInv'
  BY <1>1, BeginInv, CheckParentInv, InsertRelationInv, ReadPermissionsInv, NextPermissionInv,
     GrantedInv, CheckPermissionInv, InsertPermissionInv, SpreadInv, CommitInv,
     DeadlockAbortInv DEF Step
<1>2. CASE UNCHANGED vars
  <2>1. relation' = relation /\ perm' = perm /\ txn' = txn /\ overlapped' = overlapped
    BY <1>2 DEF vars
  <2>2. TypeOK'
    BY <2>1 DEF IInv, TypeOK
  <2>3. ASSUME NEW r \in Requests
        PROVE  /\ StageOf(r)' = StageOf(r) /\ ShareOf(r)' = ShareOf(r)
               /\ AloneOf(r)' = AloneOf(r) /\ TreeOf(r)' = TreeOf(r)
               /\ InProgress(r)' = InProgress(r)
    BY <2>1, Untouched
  <2>4. ParentsImplyChildren' = ParentsImplyChildren /\ TreeOfShares' = TreeOfShares
    BY <2>1 DEF ParentsImplyChildren, TreeOfShares, Below
  <2>5. SerialInv'
    BY <2>1, <2>3, <2>4 DEF IInv, SerialInv
  <2>6. TreeInv'
    BY <2>1, <2>3, <2>4 DEF IInv, TreeInv
  <2>7. QED
    BY <2>2, <2>3, <2>5, <2>6 DEF IInv
<1>3. QED
  BY <1>1, <1>2 DEF Next

LEMMA Invariant == Spec => []IInv
<1>1. QED
  BY InitInv, NextInv, PTL DEF Spec

LEMMA OnlyCommitAnswers ==
    ASSUME IInv, Next, NEW r \in Requests, ~Answered(r), Answered(r)'
    PROVE  Commit(r)
<1>1. PICK q \in Requests : Begin(q) \/ Step(q)
  BY DEF Next
<1>2. txn \in [Requests -> Txns] /\ txn[q] \in Txns /\ txn[r] \in Txns
  BY Here DEF TypeOK
<1> DEFINE Other == txn'[r].stage # "answered" \/ txn[r].stage = "answered"
<1>3. ~Commit(q) => Other
  <2>1. Begin(q) => Other
    BY <1>2 DEF Begin, Txns
  <2>2. CheckParent(q) => Other
    BY <1>2 DEF CheckParent, Txns
  <2>3. InsertRelation(q) => Other
    BY <1>2 DEF InsertRelation, Txns
  <2>4. ReadPermissions(q) => Other
    BY <1>2 DEF ReadPermissions, Txns
  <2>5. NextPermission(q) => Other
    BY <1>2 DEF NextPermission, Txns
  <2>6. Granted(q) => Other
    BY <1>2 DEF Granted, Txns
  <2>7. CheckPermission(q) => Other
    BY <1>2 DEF CheckPermission, Txns
  <2>8. InsertPermission(q) => Other
    BY <1>2 DEF InsertPermission, Txns
  <2>9. Spread(q) => Other
    BY <1>2 DEF Spread, Txns
  <2>10. DeadlockAbort(q) => Other
    BY <1>2 DEF DeadlockAbort, Txns
  <2>11. QED
    BY <1>1, <2>1, <2>2, <2>3, <2>4, <2>5, <2>6, <2>7, <2>8, <2>9, <2>10 DEF Step
<1>4. Commit(q)
  BY <1>3 DEF Answered
<1>5. q = r
  BY <1>2, <1>4 DEF Commit, Answered
<1>6. QED
  BY <1>4, <1>5

LEMMA Writes == Spec => [](IInv /\ WroteInv)
<1>1. Init => WroteInv
  BY InitInv, Here DEF Init, WroteInv, InProgress, Fresh
<1>2. QED
  BY <1>1, InitInv, NextInv, WritesInvariant, PTL DEF Spec

\* The tables hold objects and groups that are there, and the queue, the visited set and the
\* loaded children of every request stay objects: give_access and add_parent.
THEOREM TypeCorrect == Spec => []TypeOK
<1>1. IInv => TypeOK
  BY DEF IInv
<1>2. QED
  BY <1>1, Invariant, PTL

\* Shares and links that come one after another leave every child readable where its parent
\* is, on every graph of relations: Object.give_access and Object.add_parent.
THEOREM SerialClosedCorrect == Spec => []SerialClosed
<1>1. IInv => SerialClosed
  BY DEF IInv, SerialInv, SerialClosed
<1>2. QED
  BY <1>1, Invariant, PTL

\* A share or link that runs alone, statement by statement through give_access and add_parent,
\* commits the tables that Sharing computes in one step, on every graph of relations.
THEOREM SerialIsAtomicCorrect == Spec => SerialIsAtomic
<1>1. IInv /\ WroteInv /\ [Next]_vars =>
        [\A r \in Requests : (~Answered(r) /\ Answered(r)' /\ ~overlapped) =>
            /\ relation' = Linked(r)
            /\ perm' = perm \cup {row \in Objects \X Groups : Gets(r, row[1], row[2])}]_vars
  <2>1. SUFFICES ASSUME IInv, WroteInv, Next, NEW r \in Requests,
                        ~Answered(r), Answered(r)', ~overlapped
                 PROVE  /\ relation' = Linked(r)
                        /\ perm' = perm \cup {row \in Objects \X Groups : Gets(r, row[1], row[2])}
    OBVIOUS
  <2>2. Commit(r)
    BY <2>1, OnlyCommitAnswers
  <2>3. QED
    BY <2>1, <2>2, CommitIsAtomic
<1>2. QED
  BY <1>1, Writes, PTL DEF Spec, SerialIsAtomic

\* In a forest any number of shares may overlap: the bare rollback of ObjectPermission.create
\* takes back only rows below which nothing is missed.
THEOREM TreeClosedCorrect == Spec => []TreeClosed
<1>1. IInv => TreeClosed
  BY DEF IInv, TreeInv, TreeClosed
<1>2. QED
  BY <1>1, Invariant, PTL

\* On every graph, a share that was answered with 200 has left a row of its group on its
\* object or on one below it, whatever overlapped.
THEOREM LostOnlyToBelowCorrect == Spec => []LostOnlyToBelow
<1>1. IInv => LostOnlyToBelow
  <2>1. SUFFICES ASSUME IInv, NEW r \in Requests, Answered(r), txn[r].kind = "share"
                 PROVE  \E x \in Below(txn[r].target) : <<x, txn[r].group>> \in perm
    BY DEF LostOnlyToBelow
  <2>2. ShareOf(r) /\ StageOf(r) /\ txn[r].stage = "answered"
    BY <2>1 DEF IInv, Answered
  <2>3. VisiblePerm(r) = perm
    BY <2>2 DEF StageOf, InProgress, VisiblePerm
  <2>4. QED
    BY <2>1, <2>2, <2>3 DEF ShareOf
<1>2. QED
  BY <1>1, Invariant, PTL
=============================================================================
