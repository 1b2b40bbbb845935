--------------------------- MODULE Sharing_proofs ---------------------------
(* Proofs about Sharing for any sets of objects, users, groups and capabilities. *)
EXTENDS Sharing, SequenceTheorems, FiniteSetTheorems, TLAPS

USE DEF Holds

-----------------------------------------------------------------------------
(* Giving access *)

\* What give_access creates: nothing when the object has a row, else a row for the
\* object and for every child of what got one that has none.
LEMMA SpreadProperties ==
    ASSUME NEW prm, NEW rel, NEW o \in Objects, NEW g
    PROVE  /\ Spread(prm, rel, o, g) \subseteq Objects
           /\ ~Holds(prm, o, g) => o \in Spread(prm, rel, o, g)
           /\ \A x \in Spread(prm, rel, o, g) : \A c \in Children(rel, x) :
                 Holds(prm, c, g) \/ c \in Spread(prm, rel, o, g)
<1>1. Spread(prm, rel, o, g) \subseteq Objects
  BY DEF Spread
<1>2. ~Holds(prm, o, g) => o \in Spread(prm, rel, o, g)
  BY DEF Spread, SpreadClosed
<1>3. ASSUME NEW x \in Spread(prm, rel, o, g), NEW c \in Children(rel, x), ~Holds(prm, c, g)
      PROVE  c \in Spread(prm, rel, o, g)
  <2>1. ~Holds(prm, o, g)
    BY <1>3 DEF Spread
  <2>2. c \in Objects
    BY <1>3 DEF Children
  <2>3. ASSUME NEW S \in SUBSET Objects, SpreadClosed(prm, rel, o, g, S)
        PROVE  c \in S
    <3>1. x \in S
      BY <2>1, <2>3 DEF Spread
    <3>2. QED
      BY <3>1, <2>3, <1>3 DEF SpreadClosed
  <2>4. QED
    BY <2>1, <2>2, <2>3 DEF Spread
<1>4. QED
  BY <1>1, <1>2, <1>3

LEMMA GiveAccessType ==
    ASSUME NEW prm \in PermTables, NEW rel, NEW o \in Objects,
           NEW offer \in [Groups -> Grants \cup {NoGrant}]
    PROVE  GiveAccess(prm, rel, o, offer) \in PermTables
BY DEF GiveAccess, PermTables

\* Every relation in which the child lacks a row of the parent leads to o, which is
\* being offered that row.
Repairable(prm, rel, o, offer) ==
    \A p, c \in Objects : <<p, c>> \in rel =>
        \A g \in Groups :
            Holds(prm, p, g) => Holds(prm, c, g) \/ (c = o /\ offer[g] # NoGrant)

\* give_access repairs the relations whose child is the object it is called on, and
\* breaks none.
LEMMA GiveAccessCloses ==
    ASSUME NEW prm \in PermTables, NEW rel, NEW o \in Objects,
           NEW offer \in [Groups -> Grants \cup {NoGrant}],
           Repairable(prm, rel, o, offer)
    PROVE  Closed(GiveAccess(prm, rel, o, offer), rel)
<1> DEFINE new == GiveAccess(prm, rel, o, offer)
<1> SUFFICES ASSUME NEW p \in Objects, NEW c \in Objects, <<p, c>> \in rel,
                    NEW g \in Groups, Holds(new, p, g)
             PROVE  Holds(new, c, g)
  BY DEF Closed
<1>2. \A x \in Objects : new[x, g] = IF offer[g] # NoGrant /\ x \in Spread(prm, rel, o, g)
                                     THEN offer[g] ELSE prm[x, g]
  BY DEF GiveAccess
<1> HIDE DEF new
<1>3. CASE offer[g] = NoGrant
  <2>1. Holds(prm, p, g)
    BY <1>2, <1>3
  <2>2. Holds(prm, c, g)
    BY <2>1, <1>3 DEF Repairable
  <2>3. QED
    BY <2>2, <1>2, <1>3
<1>4. CASE offer[g] # NoGrant /\ p \in Spread(prm, rel, o, g)
  <2>1. c \in Children(rel, p)
    BY DEF Children
  <2>2. Holds(prm, c, g) \/ c \in Spread(prm, rel, o, g)
    BY <2>1, <1>4, SpreadProperties
  <2>3. QED
    BY <2>2, <1>2, <1>4
<1>5. CASE offer[g] # NoGrant /\ p \notin Spread(prm, rel, o, g)
  <2>1. Holds(prm, p, g)
    BY <1>2, <1>5
  <2>2. Holds(prm, c, g) \/ c = o
    BY <2>1 DEF Repairable
  <2>3. Holds(prm, c, g) \/ c \in Spread(prm, rel, o, g)
    BY <2>2, SpreadProperties
  <2>4. QED
    BY <2>3, <1>2, <1>5
<1>6. QED
  BY <1>3, <1>4, <1>5

LEMMA GiveAccessKeepsClosed ==
    ASSUME NEW prm \in PermTables, NEW rel, NEW o \in Objects,
           NEW offer \in [Groups -> Grants \cup {NoGrant}],
           Closed(prm, rel)
    PROVE  Closed(GiveAccess(prm, rel, o, offer), rel)
<1>1. Repairable(prm, rel, o, offer)
  BY DEF Repairable, Closed
<1>2. QED
  BY <1>1, GiveAccessCloses

LEMMA InheritType ==
    ASSUME NEW prm \in PermTables, NEW rel, NEW p \in Objects, NEW c \in Objects
    PROVE  Inherit(prm, rel, p, c) \in PermTables
<1> DEFINE offer == [g \in Groups |-> prm[p, g]]
<1>1. offer \in [Groups -> Grants \cup {NoGrant}]
  BY DEF PermTables
<1> HIDE DEF offer
<1>2. GiveAccess(prm, rel \cup {<<p, c>>}, c, offer) \in PermTables
  BY <1>1, GiveAccessType
<1>3. QED
  BY <1>2 DEF Inherit, offer

\* add_parent keeps the table closed, for the relations with the new one.
LEMMA InheritCloses ==
    ASSUME NEW prm \in PermTables, NEW rel,
           NEW p \in Objects, NEW c \in Objects, Closed(prm, rel)
    PROVE  Closed(Inherit(prm, rel, p, c), rel \cup {<<p, c>>})
<1> DEFINE offer == [g \in Groups |-> prm[p, g]]
           rel2 == rel \cup {<<p, c>>}
<1>1. CASE <<p, c>> \in rel
  <2>1. rel2 = rel
    BY <1>1
  <2>2. QED
    BY <2>1, <1>1 DEF Inherit
<1>2. CASE <<p, c>> \notin rel
  <2>1. Inherit(prm, rel, p, c) = GiveAccess(prm, rel2, c, offer)
    BY <1>2 DEF Inherit
  <2>2. offer \in [Groups -> Grants \cup {NoGrant}]
    BY DEF PermTables
  <2>4. Repairable(prm, rel2, c, offer)
    BY DEF Closed, Repairable
  <2> HIDE DEF offer, rel2
  <2>5. Closed(GiveAccess(prm, rel2, c, offer), rel2)
    BY <2>2, <2>4, GiveAccessCloses
  <2>6. QED
    BY <2>1, <2>5 DEF rel2
<1>3. QED
  BY <1>1, <1>2

-----------------------------------------------------------------------------
(* The stack of calls *)

LEMMA TakenProperties ==
    ASSUME unlink \in Unlinks, unlink.stack # <<>>, NEW o
    PROVE  /\ Taken(o) \in Seq(Frames)
           /\ Len(Taken(o)) = Len(unlink.stack)
           /\ Len(unlink.stack) \in Nat \ {0}
           /\ \A i \in 1..Len(unlink.stack) :
                 /\ Taken(o)[i].obj = unlink.stack[i].obj
                 /\ Taken(o)[i].devisor = unlink.stack[i].devisor
                 /\ Taken(o)[i].pending \subseteq unlink.stack[i].pending
<1> DEFINE s == unlink.stack
           n == Len(s)
           f == [s[n] EXCEPT !.pending = @ \ {o}]
<1>1. s \in Seq(Frames) /\ n \in Nat \ {0}
  BY EmptySeq DEF Unlinks
<1>2. n \in 1..n /\ s[n] \in Frames
  BY <1>1, ElementOfSeq
<1>3. f \in Frames /\ f.obj = s[n].obj /\ f.devisor = s[n].devisor /\ f.pending = s[n].pending \ {o}
  BY <1>2 DEF Frames
<1>4. Taken(o) = [s EXCEPT ![n] = f]
  BY DEF Taken
<1> HIDE DEF s, n, f
<1>5. /\ [s EXCEPT ![n] = f] \in Seq(Frames)
      /\ Len([s EXCEPT ![n] = f]) = Len(s)
      /\ \A j \in 1 .. Len(s) : [s EXCEPT ![n] = f][j] = IF j = n THEN f ELSE s[j]
  BY <1>1, <1>2, <1>3, ExceptSeq DEF n
<1>6. QED
  BY <1>1, <1>3, <1>4, <1>5 DEF s, n

LEMMA TakenPending ==
    ASSUME unlink \in Unlinks, unlink.stack # <<>>, NEW o
    PROVE  /\ Taken(o)[Len(unlink.stack)].pending = Top.pending \ {o}
           /\ \A i \in 1..Len(unlink.stack) :
                 i # Len(unlink.stack) => Taken(o)[i].pending = unlink.stack[i].pending
<1> DEFINE s == unlink.stack
           n == Len(s)
           f == [s[n] EXCEPT !.pending = @ \ {o}]
<1>1. s \in Seq(Frames) /\ n \in Nat \ {0}
  BY EmptySeq DEF Unlinks
<1>2. n \in 1..n /\ s[n] \in Frames
  BY <1>1, ElementOfSeq
<1>3. f \in Frames /\ f.pending = s[n].pending \ {o}
  BY <1>2 DEF Frames
<1>4. Taken(o) = [s EXCEPT ![n] = f]
  BY DEF Taken
<1> HIDE DEF s, n, f
<1>5. \A j \in 1 .. Len(s) : [s EXCEPT ![n] = f][j] = IF j = n THEN f ELSE s[j]
  BY <1>1, <1>2, <1>3, ExceptSeq DEF n
<1>6. QED
  BY <1>1, <1>2, <1>3, <1>4, <1>5 DEF s, n, Top

\* What Top is.
LEMMA TopProperties ==
    ASSUME unlink \in Unlinks, unlink.stack # <<>>
    PROVE  /\ Len(unlink.stack) \in Nat \ {0}
           /\ Top \in Frames
<1>1. unlink.stack \in Seq(Frames)
  BY DEF Unlinks
<1>2. QED
  BY <1>1, EmptySeq, ElementOfSeq DEF Top

\* The stack without its top.
LEMMA FrontProperties ==
    ASSUME NEW s \in Seq(Frames), Len(s) > 1
    PROVE  /\ SubSeq(s, 1, Len(s) - 1) \in Seq(Frames)
           /\ Len(SubSeq(s, 1, Len(s) - 1)) = Len(s) - 1
           /\ \A i \in 1..(Len(s) - 1) : SubSeq(s, 1, Len(s) - 1)[i] = s[i]
<1>1. Len(s) \in Nat
  BY LenProperties
<1>2. \A i \in 1..(Len(s) - 1) : s[i] \in Frames
  BY <1>1, ElementOfSeq
<1>3. QED
  BY <1>1, <1>2, SubSeqProperties

-----------------------------------------------------------------------------
(* Type correctness *)

\* What a request offers for o: rows whose origin is o, and "added" for the own group only.
OfferOf(offer, o, Own) ==
    /\ offer \in [Groups -> Grants \cup {NoGrant}]
    /\ \A g \in Groups : offer[g] # NoGrant =>
          /\ offer[g].origin = o
          /\ offer[g].reason = "added" => g \in Own

LEMMA UploadTable ==
    ASSUME TypeOK, NEW u \in Users, NEW o \in Objects, NEW shareWith,
           NEW p \in objects \cup {NoObject}, Upload(u, o, shareWith, p)
    PROVE  \E offer \in [Groups -> Grants \cup {NoGrant}] :
              /\ OfferOf(offer, o, {Private[u]})
              /\ IF p = NoObject
                 THEN perm' = GiveAccess(perm, relation, o, offer) /\ relation' = relation
                 ELSE /\ perm' = Inherit(GiveAccess(perm, relation, o, offer), relation, p, o)
                      /\ relation' = relation \cup {<<p, o>>}
<1> DEFINE offer == [g \in Groups |-> IF g \in shareWith
                                      THEN [reason |-> IF g = Private[u] THEN "added" ELSE "shared",
                                            origin |-> o]
                                      ELSE NoGrant]
<1>1. offer \in [Groups -> Grants \cup {NoGrant}]
  BY DEF Grants, Reasons
<1>2. IF p = NoObject
      THEN perm' = GiveAccess(perm, relation, o, offer) /\ relation' = relation
      ELSE /\ perm' = Inherit(GiveAccess(perm, relation, o, offer), relation, p, o)
           /\ relation' = relation \cup {<<p, o>>}
  BY DEF Upload, OfferTo
<1>3. OfferOf(offer, o, {Private[u]})
  BY <1>1 DEF OfferOf
<1>4. QED
  BY <1>1, <1>2, <1>3

LEMMA ShareTable ==
    ASSUME TypeOK, NEW u \in Users, NEW o \in Objects, NEW g \in Groups, Share(u, o, g)
    PROVE  \E offer \in [Groups -> Grants \cup {NoGrant}] :
              OfferOf(offer, o, {}) /\ perm' = GiveAccess(perm, relation, o, offer)
<1> DEFINE offer == [h \in Groups |-> IF h \in {g} THEN [reason |-> "shared", origin |-> o]
                                      ELSE NoGrant]
<1>1. offer \in [Groups -> Grants \cup {NoGrant}]
  BY DEF Grants, Reasons
<1>2. perm' = GiveAccess(perm, relation, o, offer)
  BY DEF Share, OfferTo
<1>3. OfferOf(offer, o, {})
  BY <1>1 DEF OfferOf
<1>4. QED
  BY <1>1, <1>2, <1>3

LEMMA QueryTable ==
    ASSUME TypeOK, NEW u \in Users, NEW o \in Objects, Query(u, o)
    PROVE  \E offer \in [Groups -> Grants \cup {NoGrant}] :
              OfferOf(offer, o, {}) /\ perm' = GiveAccess(perm, relation, o, offer)
<1> DEFINE offer == [g \in Groups |->
                       IF g \in {h \in MemberOf[u] : "share_queried_objects" \in GroupCaps[h]}
                       THEN [reason |-> "queried", origin |-> o]
                       ELSE NoGrant]
<1>1. offer \in [Groups -> Grants \cup {NoGrant}]
  BY DEF Grants, Reasons
<1>2. perm' = GiveAccess(perm, relation, o, offer)
  BY DEF Query, OfferTo
<1>3. OfferOf(offer, o, {})
  BY <1>1 DEF OfferOf
<1>4. QED
  BY <1>1, <1>2, <1>3

LEMMA ForgetType ==
    ASSUME perm \in PermTables, NEW o
    PROVE  /\ Forget(o) \in PermTables
           /\ \A x \in Objects \ {o}, g \in Groups : Holds(Forget(o), x, g) <=> Holds(perm, x, g)
<1>1. \A og \in Objects \X Groups : perm[og] \in Grants \cup {NoGrant}
  BY DEF PermTables
<1>2. \A gr \in Grants : [gr EXCEPT !.origin = NoObject] \in Grants
  BY DEF Grants
<1>3. \A og \in Objects \X Groups :
         Forget(o)[og] = IF og[1] = o THEN NoGrant
                         ELSE IF perm[og] # NoGrant /\ perm[og].origin = o
                              THEN [perm[og] EXCEPT !.origin = NoObject]
                              ELSE perm[og]
  BY DEF Forget
<1>4. Forget(o) \in PermTables
  BY <1>1, <1>2 DEF Forget, PermTables
<1>5. ASSUME NEW x \in Objects \ {o}, NEW g \in Groups
      PROVE  Holds(Forget(o), x, g) <=> Holds(perm, x, g)
  <2>1. <<x, g>> \in Objects \X Groups /\ <<x, g>>[1] = x /\ x # o
    OBVIOUS
  <2>2. CASE perm[<<x, g>>] = NoGrant
    BY <2>1, <2>2, <1>3
  <2>3. CASE perm[<<x, g>>] # NoGrant
    BY <2>1, <2>3, <1>1, <1>2, <1>3, NoValuesAssumption
  <2>4. QED
    BY <2>2, <2>3
<1>6. QED
  BY <1>4, <1>5

\* A step of a remove_parent in progress keeps its record well-formed.
LEMMA UninheritType ==
    ASSUME TypeOK, NextShare \/ (\E o \in Objects : Skip(o) \/ Descend(o)) \/ Return \/ ShareDone
    PROVE  unlink' \in Unlinks
<1> unlink \in Unlinks
  BY DEF TypeOK, NextShare, Skip, Descend, Return, ShareDone
<1>1. CASE NextShare
  <2> DEFINE f == Frame(unlink.parent, NoGrant, {unlink.child})
  <2>1. f \in Frames
    BY DEF Frame, Frames, Unlinks
  <2>2. <<f>> \in Seq(Frames)
    BY <2>1
  <2> HIDE DEF f
  <2>3. QED
    BY <1>1, <2>2 DEF NextShare, Unlinks, f
<1>2. ASSUME NEW o \in Objects, Skip(o) PROVE unlink' \in Unlinks
  <2>1. Taken(o) \in Seq(Frames)
    BY <1>2, TakenProperties DEF Skip
  <2>2. QED
    BY <1>2, <2>1 DEF Skip, Unlinks
<1>3. ASSUME NEW o \in Objects, Descend(o) PROVE unlink' \in Unlinks
  <2>1. Taken(o) \in Seq(Frames)
    BY <1>3, TakenProperties DEF Descend
  <2>2. PICK d \in IF Top.devisor = NoGrant THEN Devisors(o) ELSE {Top.devisor} :
           unlink' = [unlink EXCEPT !.stack = Append(Taken(o), Frame(o, d, Children(relation, o))),
                                    !.visited = @ \cup {o}]
    BY <1>3 DEF Descend
  <2>3. d \in Grants \cup {NoGrant}
    <3>1. Top.devisor \in Grants \cup {NoGrant}
      BY <1>3, TopProperties DEF Descend, Frames
    <3>2. \A p \in OtherDevisors(o) : unlink.draft[p, unlink.group] \in Grants \cup {NoGrant}
      BY DEF OtherDevisors, Parents, Unlinks, PermTables
    <3>3. Devisors(o) \subseteq Grants \cup {NoGrant}
      BY <3>2 DEF Devisors
    <3>4. QED
      BY <2>2, <3>1, <3>3
  <2>4. Frame(o, d, Children(relation, o)) \in Frames
    BY <2>3 DEF Frame, Frames, Children
  <2>5. Append(Taken(o), Frame(o, d, Children(relation, o))) \in Seq(Frames)
    BY <2>1, <2>4
  <2>6. QED
    BY <2>2, <2>5 DEF Unlinks
<1>4. CASE Return
  <2>1. SubSeq(unlink.stack, 1, Len(unlink.stack) - 1) \in Seq(Frames)
    BY <1>4, FrontProperties DEF Return, Unlinks
  <2>2. Top \in Frames
    <3>1. unlink.stack # <<>>
      BY <1>4 DEF Return
    <3>2. QED
      BY <3>1, TopProperties
  <2>3. [unlink.draft EXCEPT ![<<Top.obj, unlink.group>>] = Top.devisor] \in PermTables
    BY <2>2 DEF Frames, PermTables, Unlinks
  <2>4. QED
    BY <1>4, <2>1, <2>3 DEF Return, Unlinks
<1>5. CASE ShareDone
  BY <1>5, EmptySeq DEF ShareDone, Unlinks
<1>6. QED
  BY <1>1, <1>2, <1>3, <1>4, <1>5

LEMMA TypeInit == Init => TypeOK
BY DEF Init, TypeOK, PermTables

LEMMA TypeNext == TypeOK /\ [Next]_vars => TypeOK'
<1> SUFFICES ASSUME TypeOK, [Next]_vars PROVE TypeOK'
  OBVIOUS
<1>1. ASSUME NEW u \in Users, NEW o \in Objects, NEW p \in objects \cup {NoObject},
             NEW shareWith \in SharesForUpload(u), Upload(u, o, shareWith, p)
      PROVE  TypeOK'
  <2>1. perm' \in PermTables /\ relation' \subseteq objects' \X objects'
    <3>1. PICK offer \in [Groups -> Grants \cup {NoGrant}] :
              IF p = NoObject
              THEN perm' = GiveAccess(perm, relation, o, offer) /\ relation' = relation
              ELSE /\ perm' = Inherit(GiveAccess(perm, relation, o, offer), relation, p, o)
                   /\ relation' = relation \cup {<<p, o>>}
      BY <1>1, UploadTable
    <3>2. GiveAccess(perm, relation, o, offer) \in PermTables
      BY GiveAccessType DEF TypeOK
    <3>3. objects' = objects \cup {o}
      BY <1>1 DEF Upload
    <3>4. CASE p = NoObject
      BY <3>1, <3>2, <3>3, <3>4 DEF TypeOK
    <3>5. CASE p # NoObject
      <4>1. p \in Objects
        BY <3>5 DEF TypeOK
      <4>2. Inherit(GiveAccess(perm, relation, o, offer), relation, p, o) \in PermTables
        BY <4>1, <3>2, InheritType
      <4>3. QED
        BY <3>1, <3>3, <3>5, <4>2 DEF TypeOK
    <3>6. QED
      BY <3>4, <3>5
  <2>2. objects' = objects \cup {o} /\ uploads' = uploads \cup {<<u, o>>} /\ unlink' = unlink /\ tidy' = tidy
    BY <1>1 DEF Upload
  <2>3. QED
    BY <2>1, <2>2 DEF TypeOK
<1>2. ASSUME NEW u \in Users, NEW o \in Objects, NEW g \in Groups, Share(u, o, g)
      PROVE  TypeOK'
  <2>1. perm' \in PermTables
    BY <1>2, ShareTable, GiveAccessType DEF TypeOK
  <2>2. QED
    BY <1>2, <2>1 DEF Share, TypeOK
<1>3. ASSUME NEW u \in Users, NEW o \in Objects, Query(u, o)
      PROVE  TypeOK'
  <2>1. perm' \in PermTables
    BY <1>3, QueryTable, GiveAccessType DEF TypeOK
  <2>2. QED
    BY <1>3, <2>1 DEF Query, TypeOK
<1>4. ASSUME NEW u \in Users, NEW p \in Objects, NEW c \in Objects, AddParent(u, p, c)
      PROVE  TypeOK'
  <2>1. perm' \in PermTables
    BY <1>4, InheritType DEF AddParent, TypeOK
  <2>2. QED
    BY <1>4, <2>1 DEF AddParent, CanAccess, TypeOK
<1>5. ASSUME NEW u \in Users, NEW o \in Objects, DeleteObject(u, o)
      PROVE  TypeOK'
  <2>1. perm' \in PermTables
    BY <1>5, ForgetType DEF DeleteObject, TypeOK
  <2>2. relation' \subseteq objects' \X objects'
    BY <1>5 DEF DeleteObject, RelationsWithout, TypeOK
  <2>3. uploads' \subseteq Users \X objects'
    BY <1>5 DEF DeleteObject, TypeOK
  <2>4. QED
    BY <1>5, <2>1, <2>2, <2>3 DEF DeleteObject, TypeOK
<1>6. ASSUME NEW u \in Users, NEW p \in Objects, NEW c \in Objects, RemoveParent(u, p, c)
      PROVE  TypeOK'
  <2>1. unlink' \in Unlinks
    BY <1>6, GroupsAssumption, EmptySeq DEF RemoveParent, Unlinks, TypeOK
  <2>2. tidy' \in BOOLEAN
    BY <1>6 DEF RemoveParent, TypeOK
  <2>3. QED
    BY <1>6, <2>1, <2>2 DEF RemoveParent, TypeOK
<1>7. ASSUME NextShare \/ (\E o \in Objects : Skip(o) \/ Descend(o)) \/ Return \/ ShareDone
      PROVE  TypeOK'
  <2>1. unlink' \in Unlinks
    BY <1>7, UninheritType
  <2>2. UNCHANGED <<objects, relation, perm, uploads, tidy>>
    BY <1>7 DEF NextShare, Skip, Descend, Return, ShareDone
  <2>3. QED
    BY <2>1, <2>2 DEF TypeOK
<1>8. CASE Commit
  BY <1>8 DEF Commit, TypeOK, Unlinks
<1>9. CASE UNCHANGED vars
  BY <1>9 DEF vars, TypeOK
<1>10. QED
  BY <1>1, <1>2, <1>3, <1>4, <1>5, <1>6, <1>7, <1>8, <1>9 DEF Next, Uninherit

\* Every reachable state is well-formed: rows, relations and uploads are of existing
\* objects, and a remove_parent in progress is what its code can hold.
THEOREM TypeCorrect == Spec => []TypeOK
<1>1. QED
  BY TypeInit, TypeNext, PTL DEF Spec

-----------------------------------------------------------------------------
(* Access to a parent implies access to its children *)

LEMMA InvInit == Init => IInv
<1>1. Init => TypeOK
  BY TypeInit
<1>2. Init => ParentsImplyChildren
  BY DEF Init, ParentsImplyChildren, Closed
<1>3. Init => RecursionBounded /\ UnlinkInv
  BY DEF Init, RecursionBounded, UnlinkInv
<1>4. QED
  BY <1>1, <1>2, <1>3 DEF IInv

\* The requests that run at once keep the permission table closed.
LEMMA RequestsKeepClosed ==
    ASSUME IInv, [Next]_vars, unlink = Idle, unlink' = Idle
    PROVE  ParentsImplyChildren'
<1> USE DEF ParentsImplyChildren
<1> TypeOK /\ perm \in PermTables /\ Closed(perm, relation)
  BY DEF IInv, TypeOK
<1>1. ASSUME NEW u \in Users, NEW o \in Objects, NEW p \in objects \cup {NoObject},
             NEW shareWith \in SharesForUpload(u), Upload(u, o, shareWith, p)
      PROVE  Closed(perm', relation')
  <2>1. PICK offer \in [Groups -> Grants \cup {NoGrant}] :
            IF p = NoObject
            THEN perm' = GiveAccess(perm, relation, o, offer) /\ relation' = relation
            ELSE /\ perm' = Inherit(GiveAccess(perm, relation, o, offer), relation, p, o)
                 /\ relation' = relation \cup {<<p, o>>}
    BY <1>1, UploadTable
  <2>2. /\ GiveAccess(perm, relation, o, offer) \in PermTables
        /\ Closed(GiveAccess(perm, relation, o, offer), relation)
    BY GiveAccessType, GiveAccessKeepsClosed
  <2>3. CASE p = NoObject
    BY <2>1, <2>2, <2>3
  <2>4. CASE p # NoObject
    <3>1. p \in Objects
      BY <2>4 DEF TypeOK
    <3>2. QED
      BY <2>1, <2>2, <2>4, <3>1, InheritCloses
  <2>5. QED
    BY <2>3, <2>4
<1>2. ASSUME NEW u \in Users, NEW o \in Objects, NEW g \in Groups, Share(u, o, g)
      PROVE  Closed(perm', relation')
  <2>1. relation' = relation
    BY <1>2 DEF Share
  <2>2. QED
    BY <1>2, <2>1, ShareTable, GiveAccessKeepsClosed
<1>3. ASSUME NEW u \in Users, NEW o \in Objects, Query(u, o)
      PROVE  Closed(perm', relation')
  <2>1. relation' = relation
    BY <1>3 DEF Query
  <2>2. QED
    BY <1>3, <2>1, QueryTable, GiveAccessKeepsClosed
<1>4. ASSUME NEW u \in Users, NEW p \in Objects, NEW c \in Objects, AddParent(u, p, c)
      PROVE  Closed(perm', relation')
  <2>1. perm' = Inherit(perm, relation, p, c) /\ relation' = relation \cup {<<p, c>>}
    BY <1>4 DEF AddParent
  <2>2. QED
    BY <2>1, InheritCloses
<1>5. ASSUME NEW u \in Users, NEW o \in Objects, DeleteObject(u, o)
      PROVE  Closed(perm', relation')
  <2>1. perm' = Forget(o)
    BY <1>5 DEF DeleteObject
  <2>2. ASSUME NEW p \in Objects, NEW c \in Objects, <<p, c>> \in relation'
        PROVE  <<p, c>> \in relation /\ p # o /\ c # o
    BY <1>5, <2>2 DEF DeleteObject, RelationsWithout
  <2>3. \A x \in Objects \ {o}, g \in Groups : Holds(Forget(o), x, g) <=> Holds(perm, x, g)
    BY ForgetType
  <2>4. QED
    BY <2>1, <2>2, <2>3 DEF Closed
<1>6. CASE UNCHANGED <<perm, relation>>
  BY <1>6
<1>7. QED
  BY <1>1, <1>2, <1>3, <1>4, <1>5, <1>6
     DEF Next, Uninherit, RemoveParent, NextShare, Skip, Descend, Return, ShareDone, Commit, vars

\* remove_parent begins on a copy of a closed table.
LEMMA RemoveParentInv ==
    ASSUME IInv, NEW u \in Users, NEW p \in Objects, NEW c \in Objects, RemoveParent(u, p, c)
    PROVE  ParentsImplyChildren' /\ RecursionBounded' /\ UnlinkInv'
<1>1. /\ unlink'.stack = <<>> /\ unlink'.draft = perm /\ relation' = relation /\ perm' = perm
  BY DEF RemoveParent
<1>2. ParentsImplyChildren /\ ParentsImplyChildren'
  BY <1>1 DEF IInv, ParentsImplyChildren
<1>3. Len(unlink'.stack) = 0
  BY <1>1, EmptySeq
<1>4. Calls' = {}
  BY <1>3 DEF Calls
<1>5. DraftClosed'
  BY <1>1, <1>2 DEF ParentsImplyChildren, Closed, DraftClosed
<1>6. BottomOK'
  BY <1>1 DEF BottomOK
<1>7. RecursionBounded'
  BY <1>3 DEF RecursionBounded
<1>8. UnlinkInv'
  BY <1>4, <1>5, <1>6 DEF UnlinkInv
<1>9. QED
  BY <1>2, <1>7, <1>8

LEMMA CommitInv ==
    ASSUME IInv, Commit
    PROVE  ParentsImplyChildren'
<1>1. Calls = {}
  BY EmptySeq DEF Commit, Calls
<1>2. DraftClosed
  BY DEF IInv, UnlinkInv, Commit
<1>3. Closed(unlink.draft, relation \ {<<unlink.parent, unlink.child>>})
  BY <1>1, <1>2 DEF DraftClosed, Doomed, Closed
<1>4. QED
  BY <1>3 DEF Commit, ParentsImplyChildren

LEMMA NextShareInv ==
    ASSUME IInv, NextShare
    PROVE  RecursionBounded' /\ UnlinkInv'
<1> DEFINE f == Frame(unlink.parent, NoGrant, {unlink.child})
<1>1. /\ unlink \in Unlinks /\ unlink' \in Unlinks
      /\ DraftClosed /\ unlink.stack = <<>>
  BY UninheritType DEF IInv, TypeOK, NextShare, UnlinkInv
<1>2. /\ unlink'.stack = <<f>> /\ unlink'.parent = unlink.parent /\ unlink'.child = unlink.child
      /\ unlink'.draft = unlink.draft /\ relation' = relation
  BY <1>1 DEF NextShare, Unlinks
<1>3. f.obj = unlink.parent /\ f.pending = {unlink.child}
  BY DEF Frame
<1> HIDE DEF f
<1>4. Len(unlink'.stack) = 1 /\ unlink'.stack[1] = f
  BY <1>2
<1>5. Calls' = {} /\ Calls = {}
  BY <1>1, <1>4, EmptySeq DEF Calls
<1>6. BottomOK'
  BY <1>2, <1>3, <1>4 DEF BottomOK
<1>7. DraftClosed'
  <2>1. \A x : ~Doomed(x)
    BY <1>5 DEF Doomed
  <2>2. DraftClosed
    BY <1>1
  <2>3. ASSUME NEW p \in Objects, NEW c \in Objects, <<p, c>> \in relation,
               <<p, c>> # <<unlink.parent, unlink.child>>,
               NEW g \in Groups, Holds(unlink.draft, p, g)
        PROVE  Holds(unlink.draft, c, g)
    BY <2>1, <2>2, <2>3 DEF DraftClosed
  <2>4. QED
    BY <1>2, <2>3 DEF DraftClosed
<1>8. RecursionBounded'
  BY <1>4 DEF RecursionBounded
<1>9. QED
  BY <1>5, <1>6, <1>7, <1>8 DEF UnlinkInv

\* The loop over the children of Top takes o: every frame keeps its object and devisor.
LEMMA SkipInv ==
    ASSUME IInv, NEW o \in Objects, Skip(o)
    PROVE  RecursionBounded' /\ UnlinkInv'
<1>1. /\ unlink \in Unlinks /\ unlink.stack # <<>>
      /\ BottomOK /\ (\A i \in Calls : CallOK(i)) /\ DraftClosed /\ RecursionBounded
      /\ unlink # Idle
  BY DEF IInv, TypeOK, Skip, UnlinkInv
<1>2. /\ unlink'.stack = Taken(o) /\ unlink'.visited = unlink.visited \cup {o}
      /\ unlink'.parent = unlink.parent /\ unlink'.child = unlink.child
      /\ unlink'.group = unlink.group /\ unlink'.draft = unlink.draft /\ relation' = relation
  BY <1>1 DEF Skip, Unlinks
<1>3. /\ Len(unlink.stack) \in Nat \ {0} /\ Len(unlink'.stack) = Len(unlink.stack)
      /\ \A i \in 1..Len(unlink.stack) :
            /\ unlink'.stack[i].obj = unlink.stack[i].obj
            /\ unlink'.stack[i].devisor = unlink.stack[i].devisor
            /\ unlink'.stack[i].pending \subseteq unlink.stack[i].pending
  BY <1>1, <1>2, TakenProperties
<1>4. Calls' = Calls /\ \A i \in Calls : i \in 1..Len(unlink.stack) /\ i - 1 \in 1..Len(unlink.stack)
  BY <1>3 DEF Calls
<1>5. BottomOK'
  BY <1>1, <1>2, <1>3 DEF BottomOK
<1>6. ASSUME NEW i \in Calls PROVE CallOK(i)'
  BY <1>1, <1>2, <1>3, <1>4 DEF CallOK
<1>7. \A x : Doomed(x)' <=> Doomed(x)
  BY <1>3, <1>4 DEF Doomed
<1>8. DraftClosed'
  BY <1>1, <1>2, <1>7 DEF DraftClosed
<1>9. RecursionBounded'
  BY <1>1, <1>3 DEF RecursionBounded
<1>10. QED
  BY <1>4, <1>5, <1>6, <1>8, <1>9 DEF UnlinkInv

LEMMA ShareDoneInv ==
    ASSUME IInv, ShareDone
    PROVE  RecursionBounded' /\ UnlinkInv'
<1>1. unlink \in Unlinks /\ DraftClosed /\ unlink # Idle /\ Len(unlink.stack) = 1
  BY DEF IInv, TypeOK, ShareDone, UnlinkInv
<1>2. /\ unlink'.stack = <<>> /\ unlink'.parent = unlink.parent /\ unlink'.child = unlink.child
      /\ unlink'.draft = unlink.draft /\ relation' = relation
  BY <1>1 DEF ShareDone, Unlinks
<1>3. Len(unlink'.stack) = 0
  BY <1>2, EmptySeq
<1>4. Calls = {} /\ Calls' = {}
  BY <1>1, <1>3 DEF Calls
<1>5. \A x : ~Doomed(x)
  BY <1>4 DEF Doomed
<1>6. DraftClosed'
  <2>1. \A p, c \in Objects :
          (<<p, c>> \in relation /\ <<p, c>> # <<unlink.parent, unlink.child>>) =>
              \A g \in Groups : Holds(unlink.draft, p, g) => Holds(unlink.draft, c, g)
    BY <1>1, <1>5 DEF DraftClosed
  <2>2. QED
    BY <1>2, <2>1 DEF DraftClosed
<1>7. QED
  BY <1>2, <1>3, <1>4, <1>6 DEF UnlinkInv, BottomOK, RecursionBounded

\* A new call is for an object that was not visited and has its row; when it will delete
\* the row, its caller will too and no other parent has one.
LEMMA DescendInv ==
    ASSUME IInv, NEW o \in Objects, Descend(o)
    PROVE  RecursionBounded' /\ UnlinkInv'
<1>0. PICK n : n = Len(unlink.stack)
  OBVIOUS
<1>1. /\ unlink \in Unlinks /\ unlink.stack # <<>>
      /\ BottomOK /\ (\A i \in Calls : CallOK(i)) /\ DraftClosed /\ RecursionBounded
      /\ unlink # Idle
  BY DEF IInv, TypeOK, Descend, UnlinkInv
<1>2. PICK d \in IF Top.devisor = NoGrant THEN Devisors(o) ELSE {Top.devisor} :
         unlink' = [unlink EXCEPT !.stack = Append(Taken(o), Frame(o, d, Children(relation, o))),
                                  !.visited = @ \cup {o}]
  BY DEF Descend
<1> DEFINE f == Frame(o, d, Children(relation, o))
<1>3. f.obj = o /\ f.devisor = d
  BY DEF Frame
<1>4. /\ unlink'.stack = Append(Taken(o), f) /\ unlink'.visited = unlink.visited \cup {o}
      /\ unlink'.parent = unlink.parent /\ unlink'.child = unlink.child
      /\ unlink'.group = unlink.group /\ unlink'.draft = unlink.draft /\ relation' = relation
  BY <1>1, <1>2 DEF Descend, Unlinks
<1>5. unlink' \in Unlinks
  BY UninheritType DEF IInv
<1> HIDE DEF f
<1>6. /\ n \in Nat \ {0} /\ Len(Taken(o)) = n /\ Taken(o) \in Seq(Frames)
      /\ \A i \in 1..n :
            /\ Taken(o)[i].obj = unlink.stack[i].obj
            /\ Taken(o)[i].devisor = unlink.stack[i].devisor
            /\ Taken(o)[i].pending \subseteq unlink.stack[i].pending
  BY <1>0, <1>1, TakenProperties
<1>7. /\ Len(unlink'.stack) = n + 1 /\ unlink'.stack[n + 1] = f
      /\ \A i \in 1..n : unlink'.stack[i] = Taken(o)[i]
  BY <1>4, <1>6
<1>8. Calls' = Calls \cup {n + 1} /\ Calls = 2..n
  BY <1>0, <1>6, <1>7 DEF Calls
<1>9. /\ o \notin unlink.visited /\ Holds(unlink.draft, o, unlink.group) /\ o \in Top.pending
      /\ Top = unlink.stack[n]
  BY <1>0 DEF Descend, Untouched, Top
<1>10. BottomOK'
  BY <1>1, <1>4, <1>6, <1>7 DEF BottomOK
<1>11. ASSUME NEW i \in Calls PROVE CallOK(i)'
  <2>1. i \in 1..n /\ i - 1 \in 1..n
    BY <1>6, <1>8
  <2>2. /\ unlink'.stack[i].obj = unlink.stack[i].obj
        /\ unlink'.stack[i].devisor = unlink.stack[i].devisor
        /\ unlink'.stack[i - 1].obj = unlink.stack[i - 1].obj
        /\ unlink'.stack[i - 1].devisor = unlink.stack[i - 1].devisor
    BY <2>1, <1>6, <1>7
  <2>3. QED
    BY <1>1, <1>4, <2>2 DEF CallOK
<1>12. CallOK(n + 1)'
  <2>1. /\ unlink'.stack[n + 1].obj = o /\ unlink'.stack[n + 1].devisor = d
        /\ unlink'.stack[n].obj = Top.obj /\ unlink'.stack[n].devisor = Top.devisor
        /\ (n + 1) - 1 = n
    <3>1. n \in 1..n /\ (n + 1) - 1 = n
      BY <1>6
    <3>2. unlink'.stack[n].obj = unlink.stack[n].obj /\ unlink'.stack[n].devisor = unlink.stack[n].devisor
      BY <3>1, <1>6, <1>7
    <3>3. unlink'.stack[n + 1] = f /\ Top = unlink.stack[n]
      BY <1>7, <1>9
    <3>4. QED
      BY <3>1, <3>2, <3>3, <1>3
  <2>2. n + 1 = 2 => o = unlink.child
    <3>1. unlink.stack[1].pending \subseteq {unlink.child}
      BY <1>1 DEF BottomOK
    <3>2. o \in unlink.stack[n].pending
      BY <1>9
    <3>3. n + 1 = 2 => n = 1
      BY <1>6
    <3>4. QED
      BY <3>1, <3>2, <3>3
  <2>3. ASSUME d = NoGrant
        PROVE  /\ Top.devisor = NoGrant
               /\ \A p \in Parents(relation, o) \ {Top.obj} : ~Holds(unlink.draft, p, unlink.group)
    <3>1. Top.devisor = NoGrant /\ d \in Devisors(o)
      BY <1>2, <2>3
    <3>2. OtherDevisors(o) = {}
      BY <2>3, <3>1 DEF Devisors, OtherDevisors
    <3>3. QED
      BY <3>1, <3>2 DEF OtherDevisors
  <2>4. QED
    BY <1>4, <1>9, <2>1, <2>2, <2>3 DEF CallOK
<1>13. ASSUME NEW x, Doomed(x) PROVE Doomed(x)'
  BY <1>6, <1>7, <1>8, <1>13 DEF Doomed
<1>14. DraftClosed'
  <2>1. DraftClosed
    BY <1>1
  <2>2. ASSUME NEW p \in Objects, NEW c \in Objects, <<p, c>> \in relation,
               <<p, c>> # <<unlink.parent, unlink.child>>,
               NEW g \in Groups, Holds(unlink.draft, p, g)
        PROVE  Holds(unlink.draft, c, g) \/ (g = unlink.group /\ Doomed(p)')
    BY <1>13, <2>1, <2>2 DEF DraftClosed
  <2>3. /\ unlink'.parent = unlink.parent /\ unlink'.child = unlink.child
        /\ unlink'.group = unlink.group /\ unlink'.draft = unlink.draft /\ relation' = relation
    BY <1>4
  <2>4. QED
    BY <2>2, <2>3 DEF DraftClosed
<1>15. RecursionBounded'
  <2>1. \A i \in 2..n : unlink.stack[i].obj \in unlink.visited /\ unlink'.stack[i].obj = unlink.stack[i].obj
    <3> SUFFICES ASSUME NEW i \in 2..n
                 PROVE  /\ unlink.stack[i].obj \in unlink.visited
                        /\ unlink'.stack[i].obj = unlink.stack[i].obj
      OBVIOUS
    <3>1. CallOK(i)
      BY <1>1, <1>8
    <3>2. i \in 1..n
      BY <1>6
    <3>3. unlink'.stack[i] = Taken(o)[i] /\ Taken(o)[i].obj = unlink.stack[i].obj
      BY <3>2, <1>6, <1>7
    <3>4. unlink.stack[i].obj \in unlink.visited
      BY <3>1 DEF CallOK
    <3>5. QED
      BY <3>3, <3>4
  <2>2. unlink'.stack[n + 1].obj = o
    BY <1>3, <1>7
  <2>3. \A i \in 2..(n + 1) : i \in 2..n \/ i = n + 1
    BY <1>6
  <2>4. \A i, j \in 2..n : unlink.stack[i].obj = unlink.stack[j].obj => i = j
    BY <1>0, <1>1 DEF RecursionBounded
  <2>5. \A i, j \in 2..(n + 1) : unlink'.stack[i].obj = unlink'.stack[j].obj => i = j
    BY <1>9, <2>1, <2>2, <2>3, <2>4
  <2>6. QED
    BY <2>5, <1>7 DEF RecursionBounded
<1>16. QED
  BY <1>8, <1>10, <1>11, <1>12, <1>14, <1>15 DEF UnlinkInv

\* A call returns: the row it deletes was the last that its object's parents called for,
\* except for the caller, which is about to delete its own.
LEMMA ReturnInv ==
    ASSUME IInv, Return
    PROVE  RecursionBounded' /\ UnlinkInv'
<1>0. PICK n, o, d, g : n = Len(unlink.stack) /\ o = Top.obj /\ d = Top.devisor /\ g = unlink.group
  OBVIOUS
<1>1. /\ unlink \in Unlinks /\ n > 1 /\ unlink # Idle
      /\ BottomOK /\ (\A i \in Calls : CallOK(i)) /\ DraftClosed /\ RecursionBounded
  BY <1>0 DEF IInv, TypeOK, Return, UnlinkInv
<1>2. /\ unlink.stack # <<>> /\ n \in Nat /\ Top \in Frames
  <2>1. unlink.stack # <<>>
    BY <1>0, <1>1
  <2>2. QED
    BY <2>1, <1>0, <1>1, TopProperties
<1>3. o \in Objects /\ d \in Grants \cup {NoGrant} /\ g \in Groups
  BY <1>0, <1>1, <1>2 DEF Frames, Unlinks
<1>4. /\ unlink'.stack = SubSeq(unlink.stack, 1, n - 1)
      /\ unlink'.draft = [unlink.draft EXCEPT ![<<o, g>>] = d]
  BY <1>0, <1>1 DEF Return, Unlinks
<1>5. /\ unlink'.visited = unlink.visited
      /\ unlink'.parent = unlink.parent /\ unlink'.child = unlink.child
      /\ unlink'.group = g /\ unlink.group = g /\ relation' = relation
  BY <1>0, <1>1 DEF Return, Unlinks
<1>6. Len(unlink'.stack) = n - 1 /\ \A i \in 1..(n - 1) : unlink'.stack[i] = unlink.stack[i]
  <2>1. unlink.stack \in Seq(Frames)
    BY <1>1 DEF Unlinks
  <2>2. QED
    BY <2>1, <1>0, <1>1, <1>4, FrontProperties
<1>7. Calls' = 2..(n - 1) /\ Calls = 2..n
  BY <1>0, <1>6 DEF Calls
<1>8. \A x \in Objects, h \in Groups :
         unlink'.draft[x, h] = IF x = o /\ h = g THEN d ELSE unlink.draft[x, h]
  <2>1. unlink.draft \in [Objects \X Groups -> Grants \cup {NoGrant}]
    BY <1>1 DEF Unlinks, PermTables
  <2>2. QED
    BY <2>1, <1>3, <1>4
<1>9. unlink.stack[n].obj = o /\ unlink.stack[n].devisor = d
  BY <1>0 DEF Top
<1>10. n \in 2..n /\ CallOK(n)
  BY <1>1, <1>2, <1>7
<1>11. Holds(unlink.draft, o, g)
  BY <1>5, <1>9, <1>10 DEF CallOK
\* No row appears; the only one that can go is that of o.
<1>12. \A x \in Objects, h \in Groups :
          /\ Holds(unlink'.draft, x, h) => Holds(unlink.draft, x, h)
          /\ (x # o \/ h # g \/ d # NoGrant) =>
                (Holds(unlink.draft, x, h) => Holds(unlink'.draft, x, h))
  BY <1>8, <1>11
<1>13. \A i \in 2..(n - 1) : unlink.stack[i].obj \in Objects /\ unlink.stack[i].obj # o
  <2> SUFFICES ASSUME NEW i \in 2..(n - 1)
               PROVE  unlink.stack[i].obj \in Objects /\ unlink.stack[i].obj # o
    OBVIOUS
  <2>1. i \in 2..n /\ n \in 2..n /\ i # n /\ i \in 1..n
    BY <1>2, <1>10
  <2>2. unlink.stack[i].obj # o
    BY <2>1, <1>0, <1>1, <1>9 DEF RecursionBounded
  <2>3. unlink.stack[i] \in Frames
    BY <2>1, <1>0, <1>1, ElementOfSeq DEF Unlinks
  <2>4. QED
    BY <2>2, <2>3 DEF Frames
<1>14. BottomOK'
  <2>1. 1 \in 1..(n - 1)
    BY <1>1, <1>2
  <2>2. unlink'.stack[1] = unlink.stack[1]
    BY <2>1, <1>6
  <2>3. QED
    BY <2>2, <1>1, <1>2, <1>5 DEF BottomOK
<1>15. ASSUME NEW i \in 2..(n - 1) PROVE CallOK(i)'
  <2>1. i \in 1..(n - 1) /\ i - 1 \in 1..(n - 1) /\ i \in Calls
    BY <1>2, <1>7
  <2>2. unlink'.stack[i] = unlink.stack[i] /\ unlink'.stack[i - 1] = unlink.stack[i - 1]
    BY <2>1, <1>6
  <2>3. CallOK(i)
    BY <2>1, <1>1
  <2>4. Holds(unlink'.draft, unlink.stack[i].obj, g)
    <3>1. Holds(unlink.draft, unlink.stack[i].obj, g)
      BY <2>3, <1>5 DEF CallOK
    <3>2. QED
      BY <3>1, <1>3, <1>12, <1>13
  <2>5. \A p \in Parents(relation, unlink.stack[i].obj) :
           ~Holds(unlink.draft, p, g) => ~Holds(unlink'.draft, p, g)
    BY <1>3, <1>12 DEF Parents
  <2>6. QED
    BY <2>2, <2>3, <2>4, <2>5, <1>5 DEF CallOK
<1>16. ASSUME NEW p \in Objects, NEW c \in Objects, <<p, c>> \in relation,
              <<p, c>> # <<unlink.parent, unlink.child>>,
              NEW h \in Groups, Holds(unlink'.draft, p, h), ~Holds(unlink'.draft, c, h)
       PROVE  h = g /\ Doomed(p)'
  <2>1. Holds(unlink.draft, p, h)
    BY <1>12, <1>16
  <2>2. CASE c = o /\ h = g /\ d = NoGrant
    <3>1. p \in Parents(relation, o)
      BY <1>16, <2>2 DEF Parents
    <3>2. p = unlink.stack[n - 1].obj
      BY <3>1, <2>1, <2>2, <1>5, <1>9, <1>10 DEF CallOK
    <3>3. CASE n = 2
      <4>1. p = unlink.parent
        BY <3>2, <3>3, <1>1, <1>2 DEF BottomOK
      <4>2. c = unlink.child
        BY <3>3, <2>2, <1>9, <1>10 DEF CallOK
      <4>3. QED
        BY <4>1, <4>2, <1>16
    <3>4. CASE n # 2
      <4>1. n - 1 \in 2..(n - 1) /\ n - 1 \in 1..(n - 1)
        BY <3>4, <1>1, <1>2
      <4>2. unlink.stack[n - 1].devisor = NoGrant
        <5>1. unlink.stack[n].devisor = NoGrant
          BY <2>2, <1>9
        <5>2. n = 2 \/ unlink.stack[n - 1].devisor = NoGrant
          BY <5>1, <1>10 DEF CallOK
        <5>3. QED
          BY <5>2, <3>4
      <4>3. unlink'.stack[n - 1] = unlink.stack[n - 1]
        BY <4>1, <1>6
      <4>4. QED
        BY <4>1, <4>2, <4>3, <3>2, <2>2, <1>7 DEF Doomed
    <3>5. QED
      BY <3>3, <3>4
  <2>3. CASE ~(c = o /\ h = g /\ d = NoGrant)
    <3>1. ~Holds(unlink.draft, c, h)
      BY <2>3, <1>12, <1>16
    <3>2. h = g /\ Doomed(p)
      BY <3>1, <2>1, <1>1, <1>5, <1>16 DEF DraftClosed
    <3>3. PICK i \in 2..n : unlink.stack[i].obj = p /\ unlink.stack[i].devisor = NoGrant
      BY <3>2, <1>7 DEF Doomed
    <3>4. i # n
      <4>1. SUFFICES ASSUME i = n PROVE FALSE
        OBVIOUS
      <4>2. p = o /\ d = NoGrant
        BY <4>1, <3>3, <1>9
      <4>3. QED
        BY <4>2, <3>2, <1>3, <1>8, <1>16
    <3>5. i \in 2..(n - 1) /\ i \in 1..(n - 1)
      BY <3>4, <1>2
    <3>6. unlink'.stack[i] = unlink.stack[i]
      BY <3>5, <1>6
    <3>7. QED
      BY <3>2, <3>3, <3>5, <3>6, <1>7 DEF Doomed
  <2>4. QED
    BY <2>2, <2>3
<1>17. DraftClosed'
  BY <1>5, <1>16 DEF DraftClosed
<1>18. RecursionBounded'
  <2>1. \A i, j \in 2..n : unlink.stack[i].obj = unlink.stack[j].obj => i = j
    BY <1>0, <1>1 DEF RecursionBounded
  <2>2. \A i \in 2..(n - 1) : i \in 2..n /\ i \in 1..(n - 1)
    BY <1>2
  <2>3. \A i, j \in 2..(n - 1) : unlink'.stack[i].obj = unlink'.stack[j].obj => i = j
    BY <2>1, <2>2, <1>6
  <2>4. QED
    BY <2>3, <1>6 DEF RecursionBounded
<1>19. QED
  BY <1>7, <1>14, <1>15, <1>17, <1>18 DEF UnlinkInv

LEMMA InvNext == IInv /\ [Next]_vars => IInv'
<1> SUFFICES ASSUME IInv, [Next]_vars PROVE IInv'
  OBVIOUS
<1>1. TypeOK'
  BY TypeNext DEF IInv
<1>2. CASE unlink = Idle /\ unlink' = Idle
  <2>1. ParentsImplyChildren'
    BY <1>2, RequestsKeepClosed
  <2>2. RecursionBounded' /\ UnlinkInv'
    BY <1>2 DEF RecursionBounded, UnlinkInv
  <2>3. QED
    BY <1>1, <2>1, <2>2 DEF IInv
<1>3. ASSUME NEW u \in Users, NEW p \in Objects, NEW c \in Objects, RemoveParent(u, p, c)
      PROVE  IInv'
  BY <1>1, <1>3, RemoveParentInv DEF IInv
<1>4. CASE NextShare \/ (\E o \in Objects : Skip(o) \/ Descend(o)) \/ Return \/ ShareDone
  <2>1. ParentsImplyChildren'
    BY <1>4 DEF IInv, ParentsImplyChildren, NextShare, Skip, Descend, Return, ShareDone
  <2>2. RecursionBounded' /\ UnlinkInv'
    BY <1>4, NextShareInv, SkipInv, DescendInv, ReturnInv, ShareDoneInv
  <2>3. QED
    BY <1>1, <2>1, <2>2 DEF IInv
<1>5. CASE Commit
  <2>1. RecursionBounded' /\ UnlinkInv'
    BY <1>5 DEF Commit, RecursionBounded, UnlinkInv
  <2>2. QED
    BY <1>1, <1>5, <2>1, CommitInv DEF IInv
<1>6. CASE UNCHANGED vars
  <2>1. unlink' = unlink /\ perm' = perm /\ relation' = relation
    BY <1>6 DEF vars
  <2>2. ParentsImplyChildren' /\ RecursionBounded'
    BY <2>1 DEF IInv, ParentsImplyChildren, RecursionBounded
  <2>3. BottomOK' = BottomOK /\ Calls' = Calls /\ \A i : CallOK(i)' = CallOK(i)
    BY <2>1 DEF BottomOK, Calls, CallOK
  <2>4. DraftClosed' = DraftClosed
    BY <2>1, <2>3 DEF DraftClosed, Doomed
  <2>5. QED
    BY <1>1, <2>1, <2>2, <2>3, <2>4 DEF IInv, UnlinkInv
<1>7. QED
  BY <1>2, <1>3, <1>4, <1>5, <1>6
     DEF Next, Uninherit, Upload, Share, Query, AddParent, DeleteObject

THEOREM InvCorrect == Spec => []IInv
<1>1. QED
  BY InvInit, InvNext, PTL DEF Spec

\* Access to a parent implies access to its children in every committed state, for any
\* objects, users, groups and capabilities, any relations (cycles too) and any order in
\* which uninherit_share meets parents and children.
THEOREM ParentsImplyChildrenCorrect == Spec => []ParentsImplyChildren
<1>1. IInv => ParentsImplyChildren
  BY DEF IInv
<1>2. QED
  BY InvCorrect, <1>1, PTL

\* The recursion of uninherit_share is no deeper than the number of objects.
THEOREM RecursionBoundedCorrect == Spec => []RecursionBounded
<1>1. IInv => RecursionBounded
  BY DEF IInv
<1>2. QED
  BY InvCorrect, <1>1, PTL

-----------------------------------------------------------------------------
(* A row that says "added" tells the truth *)

\* Rows only come from offers.
LEMMA GiveAccessRows ==
    ASSUME NEW prm, NEW rel, NEW o, NEW offer, NEW x \in Objects, NEW g \in Groups
    PROVE  GiveAccess(prm, rel, o, offer)[x, g] \in {prm[x, g], offer[g]}
BY DEF GiveAccess

LEMMA InheritRows ==
    ASSUME NEW prm, NEW rel, NEW p, NEW c, NEW x \in Objects, NEW g \in Groups
    PROVE  Inherit(prm, rel, p, c)[x, g] \in {prm[x, g], prm[p, g]}
<1> DEFINE offer == [h \in Groups |-> prm[p, h]]
           rel2 == rel \cup {<<p, c>>}
<1>1. Inherit(prm, rel, p, c) \in {prm, GiveAccess(prm, rel2, c, offer)}
  BY DEF Inherit
<1>2. offer[g] = prm[p, g]
  OBVIOUS
<1> HIDE DEF offer, rel2
<1>3. GiveAccess(prm, rel2, c, offer)[x, g] \in {prm[x, g], offer[g]}
  BY GiveAccessRows
<1>4. QED
  BY <1>1, <1>2, <1>3

TruthfulTable(prm) == \A o \in Objects, g \in Groups : Truthful(prm[o, g], g)

LEMMA AddedInit == Init => AddedInv
BY DEF Init, AddedInv, Truthful

LEMMA AddedNext == TypeOK /\ AddedInv /\ [Next]_vars => AddedInv'
<1> SUFFICES ASSUME TypeOK, AddedInv, [Next]_vars PROVE AddedInv'
  OBVIOUS
<1>0. TruthfulTable(perm)
  BY DEF AddedInv, TruthfulTable
<1>1. ASSUME NEW u \in Users, NEW o \in Objects, NEW p \in objects \cup {NoObject},
             NEW shareWith \in SharesForUpload(u), Upload(u, o, shareWith, p)
      PROVE  AddedInv'
  <2>1. PICK offer \in [Groups -> Grants \cup {NoGrant}] :
            /\ OfferOf(offer, o, {Private[u]})
            /\ IF p = NoObject
               THEN perm' = GiveAccess(perm, relation, o, offer) /\ relation' = relation
               ELSE /\ perm' = Inherit(GiveAccess(perm, relation, o, offer), relation, p, o)
                    /\ relation' = relation \cup {<<p, o>>}
    BY <1>1, UploadTable
  <2>2. uploads' = uploads \cup {<<u, o>>} /\ unlink' = Idle
    BY <1>1 DEF Upload
  <2> DEFINE shared == GiveAccess(perm, relation, o, offer)
  <2>4. \A gr, g : Truthful(gr, g) =>
            ((gr # NoGrant /\ gr.reason = "added" /\ gr.origin # NoObject)
                => \E v \in Users : Private[v] = g /\ <<v, gr.origin>> \in uploads')
    BY <2>2 DEF Truthful
  <2>5. ASSUME NEW x \in Objects, NEW g \in Groups,
               shared[x, g] # NoGrant, shared[x, g].reason = "added", shared[x, g].origin # NoObject
        PROVE  \E v \in Users : Private[v] = g /\ <<v, shared[x, g].origin>> \in uploads'
    <3>1. shared[x, g] \in {perm[x, g], offer[g]}
      BY GiveAccessRows
    <3> HIDE DEF shared
    <3>2. CASE shared[x, g] = perm[x, g]
      BY <3>2, <2>4, <2>5, <1>0 DEF TruthfulTable
    <3>3. CASE shared[x, g] = offer[g]
      <4>1. offer[g].origin = o /\ g = Private[u]
        BY <3>3, <2>1, <2>5 DEF OfferOf
      <4>2. QED
        BY <3>3, <4>1, <2>2
    <3>4. QED
      BY <3>1, <3>2, <3>3
  <2> HIDE DEF shared
  <2>6. ASSUME NEW x \in Objects, NEW g \in Groups
        PROVE  perm'[x, g] = shared[x, g] \/ (p \in Objects /\ perm'[x, g] = shared[p, g])
    <3>1. CASE p = NoObject
      BY <2>1, <3>1 DEF shared
    <3>2. CASE p # NoObject
      <4>1. perm' = Inherit(shared, relation, p, o) /\ p \in Objects
        BY <2>1, <3>2 DEF shared, TypeOK
      <4>2. Inherit(shared, relation, p, o)[x, g] \in {shared[x, g], shared[p, g]}
        BY InheritRows
      <4>3. QED
        BY <4>1, <4>2
    <3>3. QED
      BY <3>1, <3>2
  <2>7. ASSUME NEW x \in Objects, NEW g \in Groups PROVE Truthful(perm[x, g], g)'
    <3>1. PICK y \in Objects : perm'[x, g] = shared[y, g]
      BY <2>6
    <3>2. SUFFICES ASSUME perm'[x, g] # NoGrant, perm'[x, g].reason = "added",
                          perm'[x, g].origin # NoObject
                   PROVE  \E v \in Users : Private[v] = g /\ <<v, perm'[x, g].origin>> \in uploads'
      BY DEF Truthful
    <3>3. shared[y, g] # NoGrant /\ shared[y, g].reason = "added" /\ shared[y, g].origin # NoObject
      BY <3>1, <3>2
    <3>4. \E v \in Users : Private[v] = g /\ <<v, shared[y, g].origin>> \in uploads'
      BY <2>5, <3>3
    <3>5. QED
      BY <3>1, <3>4
  <2>8. QED
    BY <2>2, <2>7 DEF AddedInv
<1>2. ASSUME NEW o \in Objects, NEW offer \in [Groups -> Grants \cup {NoGrant}],
             OfferOf(offer, o, {}), perm' = GiveAccess(perm, relation, o, offer),
             uploads' = uploads, unlink' = Idle
      PROVE  AddedInv'
  <2>1. ASSUME NEW x \in Objects, NEW g \in Groups PROVE Truthful(perm[x, g], g)'
    <3>1. perm'[x, g] \in {perm[x, g], offer[g]}
      BY <1>2, GiveAccessRows
    <3>2. CASE perm'[x, g] = perm[x, g]
      BY <1>0, <1>2, <3>2 DEF Truthful, TruthfulTable
    <3>3. CASE perm'[x, g] = offer[g]
      BY <1>2, <3>3 DEF Truthful, OfferOf
    <3>4. QED
      BY <3>1, <3>2, <3>3
  <2>2. QED
    BY <1>2, <2>1 DEF AddedInv
<1>3. ASSUME NEW u \in Users, NEW o \in Objects, NEW g \in Groups, Share(u, o, g)
      PROVE  AddedInv'
  <2>1. uploads' = uploads /\ unlink' = Idle
    BY <1>3 DEF Share
  <2>2. QED
    BY <1>2, <1>3, <2>1, ShareTable
<1>4. ASSUME NEW u \in Users, NEW o \in Objects, Query(u, o)
      PROVE  AddedInv'
  <2>1. uploads' = uploads /\ unlink' = Idle
    BY <1>4 DEF Query
  <2>2. QED
    BY <1>2, <1>4, <2>1, QueryTable
<1>5. ASSUME NEW u \in Users, NEW p \in Objects, NEW c \in Objects, AddParent(u, p, c)
      PROVE  AddedInv'
  <2>1. perm' = Inherit(perm, relation, p, c) /\ uploads' = uploads /\ unlink' = Idle
    BY <1>5 DEF AddParent
  <2>2. ASSUME NEW x \in Objects, NEW g \in Groups PROVE Truthful(perm[x, g], g)'
    <3>1. perm'[x, g] \in {perm[x, g], perm[p, g]}
      BY <2>1, InheritRows
    <3>2. Truthful(perm[x, g], g) /\ Truthful(perm[p, g], g)
      BY <1>0 DEF TruthfulTable
    <3>3. CASE perm'[x, g] = perm[x, g]
      BY <2>1, <3>2, <3>3 DEF Truthful
    <3>4. CASE perm'[x, g] = perm[p, g]
      BY <2>1, <3>2, <3>4 DEF Truthful
    <3>5. QED
      BY <3>1, <3>3, <3>4
  <2>3. QED
    BY <2>1, <2>2 DEF AddedInv
<1>6. ASSUME NEW u \in Users, NEW o \in Objects, DeleteObject(u, o)
      PROVE  AddedInv'
  <2>1. perm' = Forget(o) /\ uploads' = {up \in uploads : up[2] # o} /\ unlink' = Idle
    BY <1>6 DEF DeleteObject
  <2>2. ASSUME NEW x \in Objects, NEW g \in Groups,
               perm'[x, g] # NoGrant, perm'[x, g].origin # NoObject
        PROVE  perm'[x, g] = perm[x, g] /\ perm[x, g].origin # o
    <3>1. <<x, g>> \in Objects \X Groups /\ <<x, g>>[1] = x
      OBVIOUS
    <3>2. perm'[<<x, g>>] = IF x = o THEN NoGrant
                            ELSE IF perm[<<x, g>>] # NoGrant /\ perm[<<x, g>>].origin = o
                                 THEN [perm[<<x, g>>] EXCEPT !.origin = NoObject]
                                 ELSE perm[<<x, g>>]
      BY <2>1, <3>1 DEF Forget
    <3>3. perm[<<x, g>>] \in Grants \cup {NoGrant}
      BY <3>1 DEF TypeOK, PermTables
    <3>4. \A gr \in Grants : [gr EXCEPT !.origin = NoObject].origin = NoObject
      BY DEF Grants
    <3>5. QED
      BY <2>2, <3>2, <3>3, <3>4
  <2>3. ASSUME NEW x \in Objects, NEW g \in Groups PROVE Truthful(perm[x, g], g)'
    <3>1. SUFFICES ASSUME perm'[x, g] # NoGrant, perm'[x, g].reason = "added",
                          perm'[x, g].origin # NoObject
                   PROVE  \E v \in Users : Private[v] = g /\ <<v, perm'[x, g].origin>> \in uploads'
      BY DEF Truthful
    <3>2. perm'[x, g] = perm[x, g] /\ perm[x, g].origin # o
      BY <2>2, <3>1
    <3>3. PICK v \in Users : Private[v] = g /\ <<v, perm[x, g].origin>> \in uploads
      BY <1>0, <3>1, <3>2 DEF TruthfulTable, Truthful
    <3>4. <<v, perm[x, g].origin>> \in uploads'
      BY <2>1, <3>2, <3>3
    <3>5. QED
      BY <3>2, <3>3, <3>4
  <2>4. QED
    BY <2>1, <2>3 DEF AddedInv
<1>7. ASSUME NEW u \in Users, NEW p \in Objects, NEW c \in Objects, RemoveParent(u, p, c)
      PROVE  AddedInv'
  <2>1. unlink'.draft = perm /\ unlink'.stack = <<>> /\ perm' = perm /\ uploads' = uploads
    BY <1>7 DEF RemoveParent
  <2>2. DOMAIN unlink'.stack = {}
    BY <2>1
  <2>3. QED
    BY <1>0, <2>1, <2>2 DEF AddedInv, Truthful, TruthfulTable
<1>8. CASE NextShare \/ (\E o \in Objects : Skip(o) \/ Descend(o)) \/ Return \/ ShareDone
  <2>1. /\ unlink \in Unlinks /\ unlink' \in Unlinks /\ unlink # Idle
        /\ perm' = perm /\ uploads' = uploads
    BY <1>8, UninheritType DEF TypeOK, NextShare, Skip, Descend, Return, ShareDone
  <2>2. \A gr, g : Truthful(gr, g)' = Truthful(gr, g)
    BY <2>1 DEF Truthful
  <2>3. TruthfulTable(unlink.draft)
        /\ \A i \in DOMAIN unlink.stack : Truthful(unlink.stack[i].devisor, unlink.group)
    BY <2>1 DEF AddedInv, TruthfulTable
  <2>4. Truthful(NoGrant, unlink.group) /\ Truthful(NoGrant, unlink'.group)
    BY DEF Truthful
  <2>5. SUFFICES /\ TruthfulTable(unlink'.draft)
                 /\ \A i \in DOMAIN unlink'.stack : Truthful(unlink'.stack[i].devisor, unlink'.group)
    BY <1>0, <2>1, <2>2 DEF AddedInv, TruthfulTable
  <2>6. CASE NextShare
    <3> DEFINE f == Frame(unlink.parent, NoGrant, {unlink.child})
    <3>1. unlink'.draft = unlink.draft /\ unlink'.stack = <<f>> /\ f.devisor = NoGrant
      BY <2>1, <2>6 DEF NextShare, Unlinks, Frame
    <3> HIDE DEF f
    <3>2. \A i \in DOMAIN unlink'.stack : unlink'.stack[i] = f
      BY <3>1
    <3>3. QED
      BY <2>3, <2>4, <3>1, <3>2
  <2>7. ASSUME NEW o \in Objects, Skip(o)
        PROVE  /\ TruthfulTable(unlink'.draft)
               /\ \A i \in DOMAIN unlink'.stack : Truthful(unlink'.stack[i].devisor, unlink'.group)
    <3>1. /\ unlink'.draft = unlink.draft /\ unlink'.stack = Taken(o)
          /\ unlink'.group = unlink.group /\ unlink.stack # <<>>
      BY <2>1, <2>7 DEF Skip, Unlinks
    <3>2. DOMAIN unlink.stack = 1..Len(unlink.stack) /\ DOMAIN unlink'.stack = 1..Len(unlink.stack)
      BY <2>1, <3>1, TakenProperties DEF Unlinks
    <3>3. \A i \in DOMAIN unlink'.stack : unlink'.stack[i].devisor = unlink.stack[i].devisor
      BY <2>1, <3>1, <3>2, TakenProperties
    <3>4. QED
      BY <2>3, <3>1, <3>2, <3>3
  <2>8. ASSUME NEW o \in Objects, Descend(o)
        PROVE  /\ TruthfulTable(unlink'.draft)
               /\ \A i \in DOMAIN unlink'.stack : Truthful(unlink'.stack[i].devisor, unlink'.group)
    <3>1. PICK d \in IF Top.devisor = NoGrant THEN Devisors(o) ELSE {Top.devisor} :
             unlink' = [unlink EXCEPT !.stack = Append(Taken(o), Frame(o, d, Children(relation, o))),
                                      !.visited = @ \cup {o}]
      BY <2>8 DEF Descend
    <3> DEFINE f == Frame(o, d, Children(relation, o))
               n == Len(unlink.stack)
    <3>2. /\ unlink'.draft = unlink.draft /\ unlink'.stack = Append(Taken(o), f)
          /\ unlink'.group = unlink.group /\ unlink.stack # <<>> /\ f.devisor = d
      BY <2>1, <2>8, <3>1 DEF Descend, Unlinks, Frame
    <3> HIDE DEF f
    <3>3. n \in Nat \ {0} /\ n \in DOMAIN unlink.stack /\ Top = unlink.stack[n]
      <4>1. unlink.stack \in Seq(Frames)
        BY <2>1 DEF Unlinks
      <4>2. QED
        BY <2>1, <3>2, <4>1, TopProperties DEF Top
    <3>4. Truthful(d, unlink.group)
      <4>1. CASE Top.devisor # NoGrant
        BY <2>3, <3>1, <3>3, <4>1
      <4>2. CASE Top.devisor = NoGrant
        <5>1. d \in Devisors(o) /\ unlink.group \in Groups
          BY <2>1, <3>1, <4>2 DEF Unlinks
        <5>2. d = NoGrant \/ \E p \in Objects : d = unlink.draft[p, unlink.group]
          BY <5>1 DEF Devisors, OtherDevisors, Parents
        <5>3. QED
          BY <2>3, <2>4, <5>1, <5>2 DEF TruthfulTable
      <4>3. QED
        BY <4>1, <4>2
    <3>5. /\ Taken(o) \in Seq(Frames) /\ Len(Taken(o)) = n
          /\ \A i \in 1..n : Taken(o)[i].devisor = unlink.stack[i].devisor
      BY <2>1, <3>2, TakenProperties
    <3>6. DOMAIN unlink.stack = 1..n
      BY <2>1 DEF Unlinks
    <3> HIDE DEF n
    <3>7. DOMAIN unlink'.stack = 1..(n + 1)
      BY <3>2, <3>3, <3>5
    <3>8. unlink'.stack[n + 1] = f /\ \A i \in 1..n : unlink'.stack[i] = Taken(o)[i]
      BY <3>2, <3>3, <3>5
    <3>9. ASSUME NEW i \in 1..(n + 1) PROVE Truthful(unlink'.stack[i].devisor, unlink'.group)
      <4>1. i = n + 1 \/ i \in 1..n
        BY <3>3
      <4>2. CASE i = n + 1
        BY <3>2, <3>4, <3>8, <4>2
      <4>3. CASE i \in 1..n
        BY <2>3, <3>2, <3>5, <3>6, <3>8, <4>3
      <4>4. QED
        BY <4>1, <4>2, <4>3
    <3>10. QED
      BY <2>3, <3>2, <3>7, <3>9
  <2>9. CASE Return
    <3> DEFINE n == Len(unlink.stack)
    <3>1. /\ unlink'.draft = [unlink.draft EXCEPT ![<<Top.obj, unlink.group>>] = Top.devisor]
          /\ unlink'.stack = SubSeq(unlink.stack, 1, n - 1)
          /\ unlink'.group = unlink.group /\ n > 1 /\ unlink.stack \in Seq(Frames)
      BY <2>1, <2>9 DEF Return, Unlinks
    <3>2. n \in Nat /\ n \in DOMAIN unlink.stack /\ DOMAIN unlink.stack = 1..n
      BY <3>1
    <3>3. Truthful(Top.devisor, unlink.group)
      BY <2>3, <3>2 DEF Top
    <3>4. unlink.draft \in [Objects \X Groups -> Grants \cup {NoGrant}]
      BY <2>1 DEF Unlinks, PermTables
    <3>5. \A x \in Objects, g \in Groups :
             unlink'.draft[x, g] = unlink.draft[x, g]
             \/ (g = unlink.group /\ unlink'.draft[x, g] = Top.devisor)
      <4>1. PICK o, d, h : o = Top.obj /\ d = Top.devisor /\ h = unlink.group
        OBVIOUS
      <4>2. o \in Objects /\ h \in Groups
        <5>1. unlink.stack # <<>>
          BY <3>1
        <5>2. Top \in Frames
          BY <2>1, <5>1, TopProperties
        <5>3. QED
          BY <2>1, <4>1, <5>2 DEF Unlinks, Frames
      <4>3. unlink'.draft = [unlink.draft EXCEPT ![<<o, h>>] = d]
        BY <3>1, <4>1
      <4>4. \A x \in Objects, g \in Groups :
               unlink'.draft[x, g] = IF x = o /\ g = h THEN d ELSE unlink.draft[x, g]
        BY <3>4, <4>2, <4>3
      <4>5. ASSUME NEW x \in Objects, NEW g \in Groups
            PROVE  unlink'.draft[x, g] = unlink.draft[x, g]
                   \/ (g = unlink.group /\ unlink'.draft[x, g] = Top.devisor)
        <5>1. CASE x = o /\ g = h
          BY <4>1, <4>4, <5>1
        <5>2. CASE ~(x = o /\ g = h)
          BY <4>4, <5>2
        <5>3. QED
          BY <5>1, <5>2
      <4>6. QED
        BY <4>5
    <3>6. TruthfulTable(unlink'.draft)
      BY <2>3, <3>3, <3>5 DEF TruthfulTable
    <3>7. DOMAIN unlink'.stack = 1..(n - 1) /\ \A i \in 1..(n - 1) : unlink'.stack[i] = unlink.stack[i]
      BY <3>1, <3>2, FrontProperties
    <3>8. QED
      BY <2>3, <3>1, <3>2, <3>6, <3>7
  <2>10. CASE ShareDone
    <3>1. unlink'.draft = unlink.draft /\ unlink'.stack = <<>>
      BY <2>1, <2>10 DEF ShareDone, Unlinks
    <3>2. DOMAIN unlink'.stack = {}
      BY <3>1
    <3>3. QED
      BY <2>3, <3>1, <3>2
  <2>11. QED
    BY <1>8, <2>6, <2>7, <2>8, <2>9, <2>10
<1>9. CASE Commit
  BY <1>9 DEF AddedInv, Commit, Truthful
<1>10. CASE UNCHANGED vars
  BY <1>10 DEF AddedInv, vars, Truthful
<1>11. QED
  BY <1>1, <1>3, <1>4, <1>5, <1>6, <1>7, <1>8, <1>9, <1>10 DEF Next, Uninherit

\* A row with the reason "added" and an origin was made by an upload of that origin by the
\* owner of the group, through any sequence of shares, links, deletions and revocations:
\* give_access and uninherit_share hand rows on within their group, and the foreign key on
\* related_object_id forgets what is deleted.
THEOREM AddedByOwnerCorrect == Spec => []AddedByOwner
<1>1. TypeOK /\ AddedInv => AddedByOwner
  BY DEF TypeOK, AddedInv, AddedByOwner, Truthful
<1>2. Spec => []AddedInv
  BY TypeCorrect, AddedInit, AddedNext, PTL DEF Spec
<1>3. QED
  BY TypeCorrect, <1>1, <1>2, PTL

-----------------------------------------------------------------------------
(* Ancestors *)

LEMMA AboveSelf ==
    ASSUME NEW rel, NEW o \in Objects
    PROVE  o \in Above(rel, o)
BY DEF Above

LEMMA AboveLeast ==
    ASSUME NEW rel, NEW o, NEW S \in SUBSET Objects, o \in S,
           \A x \in S : Parents(rel, x) \subseteq S
    PROVE  Above(rel, o) \subseteq S
BY DEF Above

LEMMA AboveObjects ==
    ASSUME NEW rel, NEW o
    PROVE  Above(rel, o) \subseteq Objects
BY DEF Above

LEMMA AboveTrans ==
    ASSUME NEW rel, NEW o, NEW b \in Above(rel, o)
    PROVE  Above(rel, b) \subseteq Above(rel, o)
<1> SUFFICES ASSUME NEW a \in Above(rel, b), NEW S \in SUBSET Objects, o \in S,
                    \A x \in S : Parents(rel, x) \subseteq S
             PROVE  a \in S
  BY DEF Above
<1>1. b \in S
  BY DEF Above
<1>2. QED
  BY <1>1 DEF Above

LEMMA AboveParent ==
    ASSUME NEW rel, NEW o, NEW p \in Parents(rel, o)
    PROVE  p \in Above(rel, o) /\ Above(rel, p) \subseteq Above(rel, o)
<1>1. p \in Above(rel, o)
  BY DEF Above, Parents
<1>2. QED
  BY <1>1, AboveTrans

LEMMA AboveGrows ==
    ASSUME NEW rel, NEW rel2, rel \subseteq rel2, NEW o
    PROVE  Above(rel, o) \subseteq Above(rel2, o)
<1>1. \A x : Parents(rel, x) \subseteq Parents(rel2, x)
  BY DEF Parents
<1> SUFFICES ASSUME NEW a \in Above(rel, o), NEW S \in SUBSET Objects, o \in S,
                    \A x \in S : Parents(rel2, x) \subseteq S
             PROVE  a \in S
  BY DEF Above
<1>2. \A x \in S : Parents(rel, x) \subseteq S
  BY <1>1
<1>3. QED
  BY <1>2 DEF Above

-----------------------------------------------------------------------------
(* Removing a relation touches what is below it *)

LEMMA BelowInit == Init => BelowInv
BY DEF Init, BelowInv

LEMMA BelowNext == IInv /\ BelowInv /\ [Next]_vars => BelowInv'
<1> SUFFICES ASSUME IInv, BelowInv, [Next]_vars PROVE BelowInv'
  OBVIOUS
<1>1. CASE unlink' = Idle
  BY <1>1 DEF BelowInv
<1>2. ASSUME NEW u \in Users, NEW p \in Objects, NEW c \in Objects, RemoveParent(u, p, c)
      PROVE  BelowInv'
  <2>1. /\ unlink'.stack = <<>> /\ unlink'.draft = perm /\ perm' = perm
        /\ unlink'.parent = p /\ \A g \in unlink'.todo : Holds(perm, p, g)
    BY <1>2 DEF RemoveParent
  <2>2. Len(unlink'.stack) = 0
    BY <2>1, EmptySeq
  <2>3. Calls' = {}
    BY <2>2 DEF Calls
  <2>4. QED
    BY <2>1, <2>3 DEF BelowInv
<1>3. CASE NextShare
  <2> DEFINE f == Frame(unlink.parent, NoGrant, {unlink.child})
  <2>1. unlink \in Unlinks /\ unlink # Idle
    BY <1>3 DEF IInv, TypeOK, NextShare
  <2>2. PICK g \in unlink.todo :
           unlink' = [unlink EXCEPT !.todo = @ \ {g}, !.group = g, !.visited = {}, !.stack = <<f>>]
    BY <1>3 DEF NextShare
  <2> HIDE DEF f
  <2>3. /\ unlink'.todo \subseteq unlink.todo /\ unlink'.group = g /\ unlink'.stack = <<f>>
        /\ unlink'.parent = unlink.parent /\ unlink'.child = unlink.child
        /\ unlink'.draft = unlink.draft /\ perm' = perm /\ relation' = relation
    BY <1>3, <2>1, <2>2 DEF NextShare, Unlinks
  <2>4. Calls' = {}
    BY <2>3 DEF Calls
  <2>5. QED
    BY <2>1, <2>3, <2>4 DEF BelowInv
<1>4. ASSUME NEW o \in Objects, Skip(o)
      PROVE  BelowInv'
  <2>1. unlink \in Unlinks /\ unlink # Idle /\ unlink.stack # <<>>
    BY <1>4 DEF IInv, TypeOK, Skip
  <2>2. /\ unlink'.todo = unlink.todo /\ unlink'.group = unlink.group
        /\ unlink'.stack = Taken(o)
        /\ unlink'.parent = unlink.parent /\ unlink'.child = unlink.child
        /\ unlink'.draft = unlink.draft /\ perm' = perm /\ relation' = relation
    BY <1>4, <2>1 DEF Skip, Unlinks
  <2>3. /\ Len(unlink.stack) \in Nat \ {0} /\ Len(unlink'.stack) = Len(unlink.stack)
        /\ \A i \in 1..Len(unlink.stack) :
              /\ unlink'.stack[i].obj = unlink.stack[i].obj
              /\ unlink'.stack[i].pending \subseteq unlink.stack[i].pending
    BY <2>1, <2>2, TakenProperties
  <2>4. Calls' = Calls /\ \A i \in Calls : i \in 1..Len(unlink.stack)
    BY <2>3 DEF Calls
  <2>5. \A i \in Calls : /\ unlink'.stack[i].obj = unlink.stack[i].obj
                         /\ unlink'.stack[i].pending \subseteq unlink.stack[i].pending
    BY <2>3, <2>4
  <2>6. QED
    BY <2>1, <2>2, <2>4, <2>5 DEF BelowInv
<1>5. ASSUME NEW o \in Objects, Descend(o)
      PROVE  BelowInv'
  <2>0. PICK n : n = Len(unlink.stack)
    OBVIOUS
  <2>1. unlink \in Unlinks /\ unlink # Idle /\ unlink.stack # <<>> /\ BottomOK
    BY <1>5 DEF IInv, TypeOK, Descend, UnlinkInv
  <2>2. PICK d : unlink' = [unlink EXCEPT !.stack = Append(Taken(o), Frame(o, d, Children(relation, o))),
                                          !.visited = @ \cup {o}]
    BY <1>5 DEF Descend
  <2> DEFINE f == Frame(o, d, Children(relation, o))
  <2>3. /\ unlink'.todo = unlink.todo /\ unlink'.group = unlink.group
        /\ unlink'.stack = Append(Taken(o), f)
        /\ unlink'.parent = unlink.parent /\ unlink'.child = unlink.child
        /\ unlink'.draft = unlink.draft /\ perm' = perm /\ relation' = relation
    BY <1>5, <2>1, <2>2 DEF Descend, Unlinks
  <2>4. f.obj = o /\ f.pending = Children(relation, o)
    BY DEF Frame
  <2> HIDE DEF f
  <2>5. /\ n \in Nat \ {0} /\ Len(Taken(o)) = n /\ Taken(o) \in Seq(Frames)
        /\ \A i \in 1..n :
              /\ Taken(o)[i].obj = unlink.stack[i].obj
              /\ Taken(o)[i].pending \subseteq unlink.stack[i].pending
    BY <2>0, <2>1, TakenProperties
  <2>6. /\ Len(unlink'.stack) = n + 1 /\ unlink'.stack[n + 1] = f
        /\ \A i \in 1..n : unlink'.stack[i] = Taken(o)[i]
    BY <2>3, <2>5
  <2>7. Calls' = Calls \cup {n + 1} /\ Calls = 2..n
    BY <2>0, <2>5, <2>6 DEF Calls
  <2>8. \A i \in Calls : /\ unlink'.stack[i].obj = unlink.stack[i].obj
                         /\ unlink'.stack[i].pending \subseteq unlink.stack[i].pending
    <3>1. \A i \in Calls : i \in 1..n
      BY <2>5, <2>7
    <3>2. QED
      BY <3>1, <2>5, <2>6
  <2>9. unlink.child \in Above(relation, o)
    <3>1. o \in unlink.stack[n].pending
      BY <1>5, <2>0 DEF Descend, Top
    <3>2. CASE n = 1
      <4>1. o = unlink.child
        BY <2>1, <3>1, <3>2 DEF BottomOK
      <4>2. QED
        BY <4>1, AboveSelf
    <3>3. CASE n # 1
      <4>1. n \in Calls
        BY <2>5, <2>7, <3>3
      <4>2. /\ unlink.child \in Above(relation, unlink.stack[n].obj)
            /\ o \in Children(relation, unlink.stack[n].obj)
        BY <2>1, <3>1, <4>1 DEF BelowInv
      <4>3. unlink.stack[n].obj \in Parents(relation, o)
        <5>1. unlink.stack[n] \in Frames
          BY <2>0, <2>1, <2>5, ElementOfSeq DEF Unlinks
        <5>2. QED
          BY <4>2, <5>1 DEF Children, Parents, Frames
      <4>4. QED
        BY <4>2, <4>3, AboveParent
    <3>4. QED
      BY <3>2, <3>3
  <2>10. \A i \in Calls' : /\ unlink.child \in Above(relation, unlink'.stack[i].obj)
                           /\ unlink'.stack[i].pending \subseteq Children(relation, unlink'.stack[i].obj)
    <3>1. \A i \in Calls : /\ unlink.child \in Above(relation, unlink.stack[i].obj)
                           /\ unlink.stack[i].pending \subseteq Children(relation, unlink.stack[i].obj)
      BY <2>1 DEF BelowInv
    <3>2. \A i \in Calls : /\ unlink.child \in Above(relation, unlink'.stack[i].obj)
                           /\ unlink'.stack[i].pending \subseteq Children(relation, unlink'.stack[i].obj)
      BY <2>8, <3>1
    <3>3. QED
      BY <2>4, <2>6, <2>7, <2>9, <3>2
  <2>11. QED
    BY <2>1, <2>3, <2>10 DEF BelowInv
<1>6. CASE Return
  <2>0. PICK n, o, d, g : n = Len(unlink.stack) /\ o = Top.obj /\ d = Top.devisor /\ g = unlink.group
    OBVIOUS
  <2>1. /\ unlink \in Unlinks /\ unlink # Idle /\ n > 1 /\ unlink.stack # <<>>
        /\ \A i \in Calls : CallOK(i)
    BY <1>6, <2>0 DEF IInv, TypeOK, Return, UnlinkInv
  <2>2. n \in Nat /\ Top \in Frames /\ unlink.stack \in Seq(Frames)
    BY <2>0, <2>1, TopProperties DEF Unlinks
  <2>3. o \in Objects /\ g \in Groups
    BY <2>0, <2>1, <2>2 DEF Frames, Unlinks
  <2>4. /\ unlink'.todo = unlink.todo /\ unlink'.group = g
        /\ unlink'.stack = SubSeq(unlink.stack, 1, n - 1)
        /\ unlink'.draft = [unlink.draft EXCEPT ![<<o, g>>] = d]
        /\ unlink'.parent = unlink.parent /\ unlink'.child = unlink.child
        /\ perm' = perm /\ relation' = relation
    BY <1>6, <2>0, <2>1 DEF Return, Unlinks
  <2>5. Len(unlink'.stack) = n - 1 /\ \A i \in 1..(n - 1) : unlink'.stack[i] = unlink.stack[i]
    BY <2>0, <2>1, <2>2, <2>4, FrontProperties
  <2>6. Calls' \subseteq Calls /\ n \in Calls /\ \A i \in Calls' : unlink'.stack[i] = unlink.stack[i]
    BY <2>0, <2>1, <2>2, <2>5 DEF Calls
  <2>7. /\ Holds(perm, unlink.parent, g)
        /\ unlink.child \in Above(relation, o)
        /\ Holds(unlink.draft, o, g)
    BY <2>0, <2>1, <2>6 DEF BelowInv, CallOK, Top
  <2>8. Holds(perm, o, g)
    BY <2>1, <2>3, <2>7 DEF BelowInv
  <2>9. ASSUME NEW x \in Objects, NEW h \in Groups, unlink'.draft[x, h] # perm[x, h]
        PROVE  Holds(perm, unlink.parent, h) /\ Holds(perm, x, h) /\ unlink.child \in Above(relation, x)
    <3>1. unlink.draft \in [Objects \X Groups -> Grants \cup {NoGrant}]
      BY <2>1 DEF Unlinks, PermTables
    <3>2. unlink'.draft[x, h] = IF x = o /\ h = g THEN d ELSE unlink.draft[x, h]
      BY <2>3, <2>4, <3>1
    <3>3. CASE x = o /\ h = g
      BY <2>7, <2>8, <3>3
    <3>4. CASE ~(x = o /\ h = g)
      BY <2>1, <2>9, <3>2, <3>4 DEF BelowInv
    <3>5. QED
      BY <3>3, <3>4
  <2>10. \A i \in Calls' : /\ unlink.child \in Above(relation, unlink'.stack[i].obj)
                           /\ unlink'.stack[i].pending \subseteq Children(relation, unlink'.stack[i].obj)
    BY <2>1, <2>6 DEF BelowInv
  <2>11. \A h \in unlink'.todo : Holds(perm, unlink.parent, h)
    BY <2>1, <2>4 DEF BelowInv
  <2>12. QED
    BY <2>4, <2>7, <2>9, <2>10, <2>11 DEF BelowInv
<1>7. CASE ShareDone
  <2>1. unlink \in Unlinks /\ unlink # Idle
    BY <1>7 DEF IInv, TypeOK, ShareDone
  <2>2. /\ unlink'.todo = unlink.todo /\ unlink'.stack = <<>>
        /\ unlink'.parent = unlink.parent /\ unlink'.child = unlink.child
        /\ unlink'.draft = unlink.draft /\ perm' = perm /\ relation' = relation
    BY <1>7, <2>1 DEF ShareDone, Unlinks
  <2>3. Calls' = {}
    BY <2>2 DEF Calls
  <2>4. QED
    BY <2>1, <2>2, <2>3 DEF BelowInv
<1>8. CASE UNCHANGED vars
  <2>1. unlink' = unlink /\ perm' = perm /\ relation' = relation
    BY <1>8 DEF vars
  <2>2. Calls' = Calls
    BY <2>1 DEF Calls
  <2>3. QED
    BY <2>1, <2>2 DEF BelowInv
<1>9. QED
  BY <1>1, <1>2, <1>3, <1>4, <1>5, <1>6, <1>7, <1>8
     DEF Next, Uninherit, Upload, Share, Query, AddParent, DeleteObject, Commit

LEMMA BelowCorrect == Spec => [](IInv /\ BelowInv)
<1>1. QED
  BY InvCorrect, BelowInit, BelowNext, PTL DEF Spec

\* Removing a relation changes rows of groups that have one for the parent only, only of
\* objects at or below the child, and never where there was none: the revocation of
\* remove_parent over any graph, in any order of children and devisors.
THEOREM UnlinkOnlyBelowCorrect == Spec => UnlinkOnlyBelow
<1> DEFINE Only == Commit =>
          \A o \in Objects, g \in Groups : perm'[o, g] # perm[o, g] =>
             /\ Holds(perm, unlink.parent, g)
             /\ Holds(perm, o, g)
             /\ unlink.child \in Above(relation, o)
<1>1. IInv /\ BelowInv => Only
  BY DEF BelowInv, Commit
<1>2. IInv /\ BelowInv => [Only]_vars
  BY <1>1
<1> HIDE DEF Only
<1>3. Spec => [][Only]_vars
  BY BelowCorrect, <1>2, PTL
<1>4. QED
  BY <1>3 DEF UnlinkOnlyBelow, Only, Holds

-----------------------------------------------------------------------------
(* Rows come from their origin, from parent to child *)

LEMMA SpreadBelow ==
    ASSUME NEW prm, NEW rel, NEW o \in Objects, NEW g, NEW x \in Spread(prm, rel, o, g)
    PROVE  /\ ~Holds(prm, x, g) /\ ~Holds(prm, o, g)
           /\ o \in Above(rel, x)
           /\ x = o \/ \E y \in Spread(prm, rel, o, g) : y \in Parents(rel, x)
<1>1. ~Holds(prm, o, g)
  BY DEF Spread
<1>2. \A S \in SUBSET Objects : SpreadClosed(prm, rel, o, g, S) => x \in S
  BY <1>1 DEF Spread
<1>3. ~Holds(prm, x, g)
  <2> DEFINE S == {y \in Objects : ~Holds(prm, y, g)}
  <2>1. SpreadClosed(prm, rel, o, g, S)
    BY <1>1 DEF SpreadClosed, Children
  <2>2. S \in SUBSET Objects
    OBVIOUS
  <2> HIDE DEF S
  <2>3. x \in S
    BY <1>2, <2>1, <2>2
  <2>4. QED
    BY <2>3 DEF S
<1>4. o \in Above(rel, x)
  <2> DEFINE S == {y \in Objects : o \in Above(rel, y)}
  <2>1. o \in S
    BY AboveSelf
  <2>2. ASSUME NEW y \in S, NEW c \in Children(rel, y) PROVE c \in S
    <3>1. y \in Parents(rel, c) /\ c \in Objects
      BY <2>2 DEF Children, Parents
    <3>2. QED
      BY <2>2, <3>1, AboveParent
  <2>3. SpreadClosed(prm, rel, o, g, S)
    BY <2>1, <2>2 DEF SpreadClosed
  <2>4. QED
    BY <1>2, <2>3
<1>5. x = o \/ \E y \in Spread(prm, rel, o, g) : y \in Parents(rel, x)
  <2> DEFINE T == Spread(prm, rel, o, g)
             S == {z \in T : z = o \/ \E y \in T : y \in Parents(rel, z)}
  <2>1. T \subseteq Objects /\ o \in T
    BY <1>1, SpreadProperties
  <2>2. ASSUME NEW y \in S, NEW c \in Children(rel, y) PROVE Holds(prm, c, g) \/ c \in S
    <3>1. Holds(prm, c, g) \/ c \in T
      BY SpreadProperties
    <3>2. y \in Parents(rel, c)
      BY <2>1 DEF Children, Parents
    <3>3. QED
      BY <3>1, <3>2
  <2>3. SpreadClosed(prm, rel, o, g, S)
    BY <2>1, <2>2 DEF SpreadClosed
  <2>4. S \in SUBSET Objects
    BY <2>1
  <2>5. x \in S
    BY <1>2, <2>3, <2>4
  <2>6. QED
    BY <2>5
<1>6. QED
  BY <1>1, <1>3, <1>4, <1>5

\* An offer for o is of its own, or of a parent's row with an origin above.
Grounded(prm, rel, o, offer) ==
    \A g \in Groups : offer[g] # NoGrant =>
        \/ offer[g].origin = o
        \/ /\ offer[g].origin \in Above(rel, o)
           /\ prm[offer[g].origin, g] = offer[g]
           /\ \E p \in Parents(rel, o) : prm[p, g] = offer[g]

\* What give_access hands on comes from its origin too.
LEMMA GiveAccessRooted ==
    ASSUME NEW prm, NEW rel, NEW o \in Objects, NEW offer,
           Rooted(prm, rel), HandedOn(prm, rel), Grounded(prm, rel, o, offer)
    PROVE  LET new == GiveAccess(prm, rel, o, offer) IN Rooted(new, rel) /\ HandedOn(new, rel)
<1> DEFINE new == GiveAccess(prm, rel, o, offer)
<1>1. \A x \in Objects, g \in Groups :
         new[x, g] = IF offer[g] # NoGrant /\ x \in Spread(prm, rel, o, g) THEN offer[g] ELSE prm[x, g]
  BY DEF GiveAccess
<1> HIDE DEF new
<1>2. ASSUME NEW x \in Objects, NEW g \in Groups, prm[x, g] # NoGrant PROVE new[x, g] = prm[x, g]
  BY <1>1, <1>2, SpreadBelow
<1>3. ASSUME NEW x \in Objects, NEW g \in Groups, new[x, g] # NoGrant
      PROVE  /\ new[x, g].origin \in Above(rel, x)
             /\ new[new[x, g].origin, g] = new[x, g]
             /\ new[x, g].origin # x => \E p \in Parents(rel, x) : new[p, g] = new[x, g]
  <2>1. CASE offer[g] # NoGrant /\ x \in Spread(prm, rel, o, g)
    <3>1. new[x, g] = offer[g]
      BY <1>1, <2>1
    <3>2. o \in Spread(prm, rel, o, g) /\ new[o, g] = offer[g]
      BY <1>1, <2>1, SpreadBelow, SpreadProperties
    <3>3. o \in Above(rel, x)
      BY <2>1, SpreadBelow
    <3>4. offer[g].origin \in Above(rel, x) /\ new[offer[g].origin, g] = offer[g]
      <4>1. CASE offer[g].origin = o
        BY <3>2, <3>3, <4>1
      <4>2. CASE offer[g].origin # o
        <5>1. offer[g].origin \in Above(rel, o) /\ prm[offer[g].origin, g] = offer[g]
          BY <2>1, <4>2 DEF Grounded
        <5>2. offer[g].origin \in Objects
          BY <5>1, AboveObjects
        <5>3. QED
          BY <1>2, <2>1, <3>3, <5>1, <5>2, AboveTrans
      <4>3. QED
        BY <4>1, <4>2
    <3>5. ASSUME offer[g].origin # x PROVE \E p \in Parents(rel, x) : new[p, g] = offer[g]
      <4>1. CASE x = o
        <5>1. PICK p \in Parents(rel, o) : prm[p, g] = offer[g]
          BY <2>1, <3>5, <4>1 DEF Grounded
        <5>2. p \in Objects
          BY DEF Parents
        <5>3. QED
          BY <1>2, <2>1, <4>1, <5>1, <5>2
      <4>2. CASE x # o
        <5>1. PICK y \in Spread(prm, rel, o, g) : y \in Parents(rel, x)
          BY <2>1, <4>2, SpreadBelow
        <5>2. y \in Objects
          BY <5>1 DEF Parents
        <5>3. QED
          BY <1>1, <2>1, <5>1, <5>2
      <4>3. QED
        BY <4>1, <4>2
    <3>6. QED
      BY <3>1, <3>4, <3>5
  <2>2. CASE ~(offer[g] # NoGrant /\ x \in Spread(prm, rel, o, g))
    <3>1. new[x, g] = prm[x, g] /\ prm[x, g] # NoGrant
      BY <1>1, <1>3, <2>2
    <3>2. prm[x, g].origin \in Above(rel, x) /\ prm[prm[x, g].origin, g] = prm[x, g]
      BY <3>1 DEF Rooted
    <3>3. prm[x, g].origin \in Objects
      BY <3>2, AboveObjects
    <3>4. new[prm[x, g].origin, g] = prm[x, g]
      BY <1>2, <3>1, <3>2, <3>3
    <3>5. ASSUME prm[x, g].origin # x PROVE \E p \in Parents(rel, x) : new[p, g] = prm[x, g]
      <4>1. PICK p \in Parents(rel, x) : prm[p, g] = prm[x, g]
        BY <3>1, <3>5 DEF HandedOn
      <4>2. p \in Objects
        BY DEF Parents
      <4>3. QED
        BY <1>2, <3>1, <4>1, <4>2
    <3>6. QED
      BY <3>1, <3>2, <3>4, <3>5
  <2>3. QED
    BY <2>1, <2>2
<1>4. Rooted(new, rel) /\ HandedOn(new, rel)
  BY <1>3 DEF Rooted, HandedOn
<1>5. QED
  BY <1>4 DEF new

\* So does what a new relation hands on.
LEMMA InheritRooted ==
    ASSUME NEW prm, NEW rel, NEW p \in Objects, NEW c \in Objects,
           Rooted(prm, rel), HandedOn(prm, rel)
    PROVE  LET new == Inherit(prm, rel, p, c)
               rel2 == rel \cup {<<p, c>>}
           IN  Rooted(new, rel2) /\ HandedOn(new, rel2)
<1> DEFINE rel2 == rel \cup {<<p, c>>}
           offer == [g \in Groups |-> prm[p, g]]
<1>1. CASE <<p, c>> \in rel
  <2>1. rel2 = rel /\ Inherit(prm, rel, p, c) = prm
    BY <1>1 DEF Inherit
  <2>2. QED
    BY <2>1
<1>2. CASE <<p, c>> \notin rel
  <2>1. Inherit(prm, rel, p, c) = GiveAccess(prm, rel2, c, offer)
    BY <1>2 DEF Inherit
  <2>2. \A g \in Groups : offer[g] = prm[p, g]
    OBVIOUS
  <2>3. rel \subseteq rel2 /\ p \in Parents(rel2, c) /\ \A x : Parents(rel, x) \subseteq Parents(rel2, x)
    BY DEF Parents
  <2> HIDE DEF offer, rel2
  <2>4. \A x : Above(rel, x) \subseteq Above(rel2, x)
    BY <2>3, AboveGrows
  <2>5. Rooted(prm, rel2) /\ HandedOn(prm, rel2)
    BY <2>3, <2>4 DEF Rooted, HandedOn
  <2>6. Grounded(prm, rel2, c, offer)
    <3>1. SUFFICES ASSUME NEW g \in Groups, prm[p, g] # NoGrant
                   PROVE  /\ prm[p, g].origin \in Above(rel2, c)
                          /\ prm[prm[p, g].origin, g] = prm[p, g]
      BY <2>2, <2>3 DEF Grounded
    <3>2. prm[p, g].origin \in Above(rel2, p) /\ prm[prm[p, g].origin, g] = prm[p, g]
      BY <2>5, <3>1 DEF Rooted
    <3>3. QED
      BY <2>3, <3>2, AboveParent
  <2>7. LET new == GiveAccess(prm, rel2, c, offer) IN Rooted(new, rel2) /\ HandedOn(new, rel2)
    BY <2>5, <2>6, GiveAccessRooted
  <2>8. QED
    BY <2>1, <2>7 DEF rel2
<1>3. QED
  BY <1>1, <1>2

-----------------------------------------------------------------------------
(* In a forest remove_parent takes the row of the parent from all that has it through *)
(* the child.                                                                         *)

LEMMA TidyInit == Init => TidyInv
BY DEF Init, TidyInv, ForestInv, Rooted, HandedOn

\* Requests that run at once keep rows rooted.
LEMMA TidyRequests ==
    ASSUME IInv, TidyInv, [Next]_vars, unlink = Idle, unlink' = Idle
    PROVE  TidyInv'
<1> TypeOK /\ perm \in PermTables /\ relation \subseteq Objects \X Objects
  BY DEF IInv, TypeOK
<1>0. SUFFICES ASSUME tidy' PROVE Rooted(perm, relation)' /\ HandedOn(perm, relation)'
  BY DEF TidyInv, ForestInv
<1>1. ASSUME NEW u \in Users, NEW o \in Objects, NEW p \in objects \cup {NoObject},
             NEW shareWith \in SharesForUpload(u), Upload(u, o, shareWith, p)
      PROVE  Rooted(perm', relation') /\ HandedOn(perm', relation')
  <2>1. PICK offer \in [Groups -> Grants \cup {NoGrant}] :
            /\ OfferOf(offer, o, {Private[u]})
            /\ IF p = NoObject
               THEN perm' = GiveAccess(perm, relation, o, offer) /\ relation' = relation
               ELSE /\ perm' = Inherit(GiveAccess(perm, relation, o, offer), relation, p, o)
                    /\ relation' = relation \cup {<<p, o>>}
    BY <1>1, UploadTable
  <2>2. Rooted(perm, relation) /\ HandedOn(perm, relation)
    BY <1>0, <1>1 DEF Upload, TidyInv
  <2>3. Grounded(perm, relation, o, offer)
    BY <2>1 DEF Grounded, OfferOf
  <2> DEFINE shared == GiveAccess(perm, relation, o, offer)
  <2>4. Rooted(shared, relation) /\ HandedOn(shared, relation)
    BY <2>2, <2>3, GiveAccessRooted
  <2>5. CASE p = NoObject
    BY <2>1, <2>4, <2>5
  <2>6. CASE p # NoObject
    <3>1. p \in Objects
      BY <2>6 DEF TypeOK
    <3>2. perm' = Inherit(shared, relation, p, o) /\ relation' = relation \cup {<<p, o>>}
      BY <2>1, <2>6
    <3> HIDE DEF shared
    <3>3. QED
      BY <2>4, <3>1, <3>2, InheritRooted
  <2>7. QED
    BY <2>5, <2>6
<1>2. ASSUME NEW o \in Objects, NEW offer \in [Groups -> Grants \cup {NoGrant}],
             OfferOf(offer, o, {}), perm' = GiveAccess(perm, relation, o, offer),
             relation' = relation, tidy' = tidy
      PROVE  Rooted(perm', relation') /\ HandedOn(perm', relation')
  <2>1. Rooted(perm, relation) /\ HandedOn(perm, relation)
    BY <1>0, <1>2 DEF TidyInv
  <2>2. Grounded(perm, relation, o, offer)
    BY <1>2 DEF Grounded, OfferOf
  <2>3. QED
    BY <1>2, <2>1, <2>2, GiveAccessRooted
<1>3. ASSUME NEW u \in Users, NEW o \in Objects, NEW g \in Groups, Share(u, o, g)
      PROVE  Rooted(perm', relation') /\ HandedOn(perm', relation')
  <2>1. relation' = relation /\ tidy' = tidy
    BY <1>3 DEF Share
  <2>2. QED
    BY <1>2, <1>3, <2>1, ShareTable
<1>4. ASSUME NEW u \in Users, NEW o \in Objects, Query(u, o)
      PROVE  Rooted(perm', relation') /\ HandedOn(perm', relation')
  <2>1. relation' = relation /\ tidy' = tidy
    BY <1>4 DEF Query
  <2>2. QED
    BY <1>2, <1>4, <2>1, QueryTable
<1>5. ASSUME NEW u \in Users, NEW p \in Objects, NEW c \in Objects, AddParent(u, p, c)
      PROVE  Rooted(perm', relation') /\ HandedOn(perm', relation')
  <2>1. /\ perm' = Inherit(perm, relation, p, c) /\ relation' = relation \cup {<<p, c>>}
        /\ tidy' = tidy
    BY <1>5 DEF AddParent
  <2>2. Rooted(perm, relation) /\ HandedOn(perm, relation)
    BY <1>0, <2>1 DEF TidyInv
  <2>3. QED
    BY <2>1, <2>2, InheritRooted
<1>6. ASSUME NEW u \in Users, NEW o \in Objects, DeleteObject(u, o)
      PROVE  FALSE
  BY <1>0, <1>6 DEF DeleteObject
<1>7. CASE UNCHANGED <<perm, relation>> /\ (tidy' => tidy)
  BY <1>0, <1>7 DEF TidyInv
<1>8. ASSUME NEW u \in Users, NEW p \in Objects, NEW c \in Objects, RemoveParent(u, p, c)
      PROVE  UNCHANGED <<perm, relation>> /\ (tidy' => tidy)
  BY <1>8 DEF RemoveParent
<1>9. Rooted(perm', relation') /\ HandedOn(perm', relation')
  BY <1>1, <1>3, <1>4, <1>5, <1>6, <1>7, <1>8
     DEF Next, Uninherit, NextShare, Skip, Descend, Return, ShareDone, Commit, vars
<1>10. QED
  BY <1>9

\* A tidy remove_parent in progress.
Working ==
    /\ IInv /\ BelowInv /\ TidyInv
    /\ tidy
    /\ unlink # Idle

\* The parts of it that the steps below need.
LEMMA WorkingFacts ==
    ASSUME Working
    PROVE  /\ unlink \in Unlinks /\ unlink.stack \in Seq(Frames)
           /\ unlink.draft \in [Objects \X Groups -> Grants \cup {NoGrant}]
           /\ BottomOK /\ (\A i \in Calls : CallOK(i)) /\ RecursionBounded
           /\ Forest(relation) /\ <<unlink.parent, unlink.child>> \in relation
           /\ unlink.parent \in Objects /\ unlink.child \in Objects /\ unlink.group \in Groups
           /\ Parents(relation, unlink.child) = {unlink.parent}
           /\ unlink.child \notin Above(relation, unlink.parent)
           /\ \A g \in Groups : unlink.draft[unlink.parent, g] = perm[unlink.parent, g]
           /\ \A o \in Objects, g \in Groups : unlink.draft[o, g] # perm[o, g] => Inherited(o, g) /\ Gone(o, g)
           /\ \A i \in DOMAIN unlink.stack : ForestCall(i)
<1>1. /\ unlink \in Unlinks /\ unlink.stack \in Seq(Frames)
      /\ unlink.draft \in [Objects \X Groups -> Grants \cup {NoGrant}]
      /\ BottomOK /\ (\A i \in Calls : CallOK(i)) /\ RecursionBounded
      /\ unlink.parent \in Objects /\ unlink.child \in Objects /\ unlink.group \in Groups
  BY DEF Working, IInv, TypeOK, UnlinkInv, Unlinks, PermTables
<1>2. /\ Forest(relation) /\ <<unlink.parent, unlink.child>> \in relation
      /\ \A o \in Objects, g \in Groups : unlink.draft[o, g] # perm[o, g] => Inherited(o, g) /\ Gone(o, g)
      /\ \A i \in DOMAIN unlink.stack : ForestCall(i)
  BY DEF Working, TidyInv, ForestInv
<1>3. Parents(relation, unlink.child) = {unlink.parent}
  <2>1. unlink.parent \in Parents(relation, unlink.child)
    BY <1>1, <1>2 DEF Parents
  <2>2. \A p, q \in Parents(relation, unlink.child) : p = q
    BY <1>1, <1>2 DEF Forest
  <2>3. QED
    BY <2>1, <2>2
<1>4. unlink.child \notin Above(relation, unlink.parent)
  BY <1>2 DEF Forest
<1>5. \A g \in Groups : unlink.draft[unlink.parent, g] = perm[unlink.parent, g]
  BY <1>1, <1>4 DEF Working, BelowInv
<1>6. QED
  BY <1>1, <1>2, <1>3, <1>4, <1>5

\* An object that a call has still to visit is a child of the call's object.
LEMMA PendingChild ==
    ASSUME Working, NEW i \in 1..Len(unlink.stack), NEW o \in unlink.stack[i].pending
    PROVE  /\ o \in Objects /\ unlink.stack[i].obj \in Objects
           /\ Parents(relation, o) = {unlink.stack[i].obj}
           /\ unlink.child \in Above(relation, o)
           /\ i = 1 => o = unlink.child /\ unlink.stack[i].obj = unlink.parent
<1>1. /\ unlink.stack \in Seq(Frames) /\ BottomOK /\ Forest(relation)
      /\ Parents(relation, unlink.child) = {unlink.parent}
      /\ unlink.child \in Objects
  BY WorkingFacts
<1>2. unlink.stack[i] \in Frames /\ unlink.stack # <<>> /\ Len(unlink.stack) \in Nat
  BY <1>1
<1>3. o \in Objects /\ unlink.stack[i].obj \in Objects
  BY <1>2 DEF Frames
<1>4. CASE i = 1
  <2>1. o = unlink.child /\ unlink.stack[i].obj = unlink.parent
    BY <1>1, <1>2, <1>4 DEF BottomOK
  <2>2. QED
    BY <1>1, <1>3, <2>1, AboveSelf
<1>5. CASE i # 1
  <2>1. i \in Calls
    BY <1>2, <1>5 DEF Calls
  <2>2. /\ unlink.child \in Above(relation, unlink.stack[i].obj)
        /\ o \in Children(relation, unlink.stack[i].obj)
    BY <2>1 DEF Working, BelowInv
  <2>3. unlink.stack[i].obj \in Parents(relation, o)
    BY <1>3, <2>2 DEF Children, Parents
  <2>4. Parents(relation, o) = {unlink.stack[i].obj}
    BY <1>1, <1>3, <2>3 DEF Forest
  <2>5. unlink.child \in Above(relation, o)
    BY <2>2, <2>3, AboveParent
  <2>6. QED
    BY <1>3, <1>5, <2>4, <2>5
<1>6. QED
  BY <1>4, <1>5

\* It waits in one call only.
LEMMA PendingOnce ==
    ASSUME Working, NEW i \in 1..Len(unlink.stack), NEW j \in 1..Len(unlink.stack),
           NEW o \in unlink.stack[i].pending, o \in unlink.stack[j].pending
    PROVE  i = j
<1>1. unlink.stack \in Seq(Frames) /\ unlink.child \notin Above(relation, unlink.parent)
      /\ RecursionBounded /\ unlink # Idle
  BY WorkingFacts DEF Working
<1>2. unlink.stack[i].obj = unlink.stack[j].obj
  BY PendingChild
<1>3. \A k \in 1..Len(unlink.stack) : k = 1 \/ (k \in Calls /\ k \in 2..Len(unlink.stack))
  BY <1>1 DEF Calls
<1>4. \A k \in Calls : unlink.stack[k].obj # unlink.parent
  BY <1>1 DEF Working, BelowInv
<1>5. i = 1 => unlink.stack[i].obj = unlink.parent
  BY PendingChild
<1>6. j = 1 => unlink.stack[j].obj = unlink.parent
  BY PendingChild
<1>7. QED
  BY <1>1, <1>2, <1>3, <1>4, <1>5, <1>6 DEF RecursionBounded

LEMMA TopIndex ==
    ASSUME Working, unlink.stack # <<>>
    PROVE  /\ Len(unlink.stack) \in Nat \ {0} /\ Top = unlink.stack[Len(unlink.stack)]
           /\ Len(unlink.stack) \in DOMAIN unlink.stack
           /\ Len(unlink.stack) \in 1..Len(unlink.stack)
           /\ DOMAIN unlink.stack = 1..Len(unlink.stack)
           /\ Top \in Frames
<1>1. unlink \in Unlinks /\ unlink.stack \in Seq(Frames)
  BY WorkingFacts
<1>2. Len(unlink.stack) \in Nat \ {0} /\ Top \in Frames
  BY <1>1, TopProperties
<1>3. QED
  BY <1>1, <1>2 DEF Top

\* The call passes down the row that the parent gives.
LEMMA TopShare ==
    ASSUME Working, unlink.stack # <<>>
    PROVE  /\ ShareToRemove = perm[unlink.parent, unlink.group]
           /\ ShareToRemove # NoGrant
           /\ Top.devisor = NoGrant
<1> DEFINE n == Len(unlink.stack)
<1>1. n \in Nat \ {0} /\ Top = unlink.stack[n] /\ n \in DOMAIN unlink.stack /\ Top \in Frames
  BY TopIndex
<1>2. Top.devisor = NoGrant
  BY <1>1, WorkingFacts DEF ForestCall
<1>3. perm[unlink.parent, unlink.group] # NoGrant
  BY DEF Working, BelowInv
<1>4. CASE n = 1
  <2>1. Top.obj = unlink.parent
    BY <1>1, <1>4, WorkingFacts DEF BottomOK
  <2>2. QED
    BY <1>2, <1>3, <2>1, WorkingFacts DEF ShareToRemove
<1>5. CASE n # 1
  <2>1. n \in Calls
    <3> HIDE DEF n
    <3>1. n \in 2..n
      BY <1>1, <1>5
    <3>2. QED
      BY <3>1 DEF Calls, n
  <2>2. Holds(unlink.draft, Top.obj, unlink.group) /\ Inherited(Top.obj, unlink.group)
    BY <1>1, <2>1, WorkingFacts DEF CallOK, ForestCall
  <2>3. Top.obj \in Objects
    BY <1>1 DEF Frames
  <2>4. unlink.draft[Top.obj, unlink.group] = perm[Top.obj, unlink.group]
    BY <2>2, <2>3, WorkingFacts DEF Gone
  <2>5. QED
    BY <1>2, <2>2, <2>4 DEF ShareToRemove, Inherited
<1>6. QED
  BY <1>4, <1>5

\* No other parent gives anything, and an object waiting was not visited before.
LEMMA Waiting ==
    ASSUME Working, unlink.stack # <<>>, NEW o \in Top.pending
    PROVE  /\ o \in Objects /\ Top.obj \in Objects
           /\ Parents(relation, o) = {Top.obj} /\ OtherDevisors(o) = {}
           /\ o \notin unlink.visited
           /\ unlink.child \in Above(relation, o)
           /\ Untouched(o) => ~Inherited(o, unlink.group) \/ Gone(o, unlink.group)
           /\ ~Untouched(o) => Inherited(o, unlink.group)
<1> DEFINE n == Len(unlink.stack)
<1>1. n \in Nat \ {0} /\ Top = unlink.stack[n] /\ n \in DOMAIN unlink.stack /\ n \in 1..n
  BY TopIndex
<1>2. /\ o \in Objects /\ Top.obj \in Objects /\ Parents(relation, o) = {Top.obj}
      /\ unlink.child \in Above(relation, o)
  BY <1>1, PendingChild
<1>3. OtherDevisors(o) = {}
  BY <1>2 DEF OtherDevisors
<1>4. o \notin unlink.visited
  BY <1>1, WorkingFacts DEF ForestCall
<1>5. ~SameShareElsewhere(o)
  BY <1>3 DEF SameShareElsewhere
<1>6. ShareToRemove = perm[unlink.parent, unlink.group] /\ ShareToRemove # NoGrant
  BY TopShare
<1>7. unlink.draft[o, unlink.group] # perm[o, unlink.group] => Inherited(o, unlink.group) /\ Gone(o, unlink.group)
  BY <1>2, WorkingFacts
<1>8. Untouched(o) => ~Inherited(o, unlink.group) \/ Gone(o, unlink.group)
  BY <1>4, <1>5, <1>6, <1>7 DEF Untouched, Inherits, Inherited
<1>9. ~Untouched(o) => Inherited(o, unlink.group)
  BY <1>6, <1>7 DEF Untouched, Inherits, Inherited, Gone
<1>10. QED
  BY <1>2, <1>3, <1>4, <1>8, <1>9

LEMMA TidyRemoveParent ==
    ASSUME IInv, TidyInv, NEW u \in Users, NEW p \in Objects, NEW c \in Objects, RemoveParent(u, p, c)
    PROVE  TidyInv'
<1>1. /\ unlink'.stack = <<>> /\ unlink'.draft = perm /\ perm' = perm /\ relation' = relation
      /\ unlink'.parent = p /\ unlink'.child = c /\ <<p, c>> \in relation
      /\ tidy' = (tidy /\ Forest(relation))
      /\ unlink'.todo = IF p = c THEN {} ELSE {g \in Groups : Holds(perm, p, g)}
  BY DEF RemoveParent
<1>2. SUFFICES ASSUME tidy' PROVE TidyInv'
  BY <1>1 DEF TidyInv, ForestInv
<1>3. tidy /\ Forest(relation) /\ Rooted(perm, relation) /\ HandedOn(perm, relation)
  BY <1>1, <1>2 DEF TidyInv
<1>4. p # c
  BY <1>1, <1>3, AboveSelf DEF Forest
<1>5. \A o, g : ~Gone(o, g)'
  BY <1>1 DEF Gone
<1>6. \A g \in Groups \ unlink'.todo : ~Inherited(c, g)'
  BY <1>1, <1>4 DEF Inherited
<1>7. unlink'.stack = <<>>
  BY <1>1
<1>70. DOMAIN unlink'.stack = {}
  BY <1>7
<1>8. ForestInv'
  BY <1>1, <1>3, <1>5, <1>6, <1>70 DEF ForestInv
<1>9. QED
  BY <1>1, <1>3, <1>8 DEF TidyInv

\* What is to be shown of a step of a tidy remove_parent that goes on.
LEMMA StepFrame ==
    ASSUME Working, NextShare \/ (\E o \in Objects : Skip(o) \/ Descend(o)) \/ Return \/ ShareDone,
           /\ \A o \in Objects, g \in Groups : unlink'.draft[o, g] # perm[o, g] =>
                 Inherited(o, g) /\ Gone(o, g)'
           /\ \A r \in relation, g \in Groups :
                 Gone(r[1], g)' /\ Inherited(r[2], g) => Gone(r[2], g)'
           /\ \A g \in Groups \ unlink'.todo :
                 (unlink'.stack = <<>> \/ g # unlink'.group) /\ Inherited(unlink.child, g)
                     => Gone(unlink.child, g)'
           /\ unlink'.stack # <<>> =>
                 \A o \in unlink'.visited \ {unlink.child} :
                     \E p \in Parents(relation, o) : p \in unlink'.visited
           /\ \A i \in DOMAIN unlink'.stack : ForestCall(i)'
    PROVE  TidyInv'
<1>1. unlink \in Unlinks
  BY WorkingFacts
<1>2. /\ unlink'.parent = unlink.parent /\ unlink'.child = unlink.child
      /\ perm' = perm /\ relation' = relation /\ tidy' = tidy
  BY <1>1 DEF NextShare, Skip, Descend, Return, ShareDone, Unlinks
<1>3. Rooted(perm, relation) /\ HandedOn(perm, relation)
  BY DEF Working, TidyInv
<1>4. \A o, g : Inherited(o, g)' = Inherited(o, g)
  BY <1>2 DEF Inherited
<1>5. Forest(relation) /\ <<unlink.parent, unlink.child>> \in relation
  BY WorkingFacts
<1>6. ForestInv'
  BY <1>2, <1>4, <1>5 DEF ForestInv
<1>7. QED
  BY <1>2, <1>3, <1>6 DEF TidyInv

LEMMA TidyNextShare == ASSUME Working, NextShare PROVE TidyInv'
<1> DEFINE f == Frame(unlink.parent, NoGrant, {unlink.child})
<1>1. unlink \in Unlinks /\ unlink.stack = <<>>
  BY WorkingFacts DEF NextShare
<1>2. PICK g \in unlink.todo :
         unlink' = [unlink EXCEPT !.todo = @ \ {g}, !.group = g, !.visited = {}, !.stack = <<f>>]
  BY DEF NextShare
<1>3. f.obj = unlink.parent /\ f.devisor = NoGrant /\ f.pending = {unlink.child}
  BY DEF Frame
<1> HIDE DEF f
<1>4. /\ unlink'.todo = unlink.todo \ {g} /\ unlink'.group = g /\ unlink'.stack = <<f>>
      /\ unlink'.visited = {} /\ unlink'.draft = unlink.draft
      /\ unlink'.parent = unlink.parent /\ unlink'.child = unlink.child
      /\ perm' = perm /\ relation' = relation
  BY <1>1, <1>2 DEF NextShare, Unlinks
<1>5. \A x, h : Gone(x, h)' = Gone(x, h)
  BY <1>4 DEF Gone
<1>6. Len(unlink'.stack) = 1 /\ DOMAIN unlink'.stack = {1} /\ unlink'.stack[1] = f
  BY <1>4
<1>7. Calls' = {}
  BY <1>6 DEF Calls
<1>8. ForestCall(1)'
  BY <1>3, <1>4, <1>6, <1>7 DEF ForestCall
<1>9. /\ \A o \in Objects, h \in Groups : unlink.draft[o, h] # perm[o, h] => Inherited(o, h) /\ Gone(o, h)
      /\ \A r \in relation, h \in Groups : Gone(r[1], h) /\ Inherited(r[2], h) => Gone(r[2], h)
      /\ \A h \in Groups \ unlink.todo : Inherited(unlink.child, h) => Gone(unlink.child, h)
  BY <1>1 DEF Working, TidyInv, ForestInv
<1>10. \A h \in Groups \ unlink'.todo :
          (unlink'.stack = <<>> \/ h # unlink'.group) /\ Inherited(unlink.child, h)
              => Gone(unlink.child, h)
  <2> SUFFICES ASSUME NEW h \in Groups \ unlink'.todo,
                      unlink'.stack = <<>> \/ h # unlink'.group, Inherited(unlink.child, h)
               PROVE  Gone(unlink.child, h)
    OBVIOUS
  <2>1. unlink'.stack # <<>>
    BY <1>4
  <2>2. h # g /\ h \notin unlink.todo
    BY <1>4, <2>1
  <2>3. QED
    BY <1>9, <2>2
<1>11. QED
  BY <1>4, <1>5, <1>6, <1>8, <1>9, <1>10, StepFrame

\* What a step leaves when it takes o from Top and changes no row.
LEMMA TidyTaken ==
    ASSUME Working, NEW o \in Objects, Skip(o) \/ Descend(o)
    PROVE  /\ \A x \in Objects, g \in Groups : unlink'.draft[x, g] # perm[x, g] =>
                 Inherited(x, g) /\ Gone(x, g)'
           /\ \A r \in relation, g \in Groups :
                 Gone(r[1], g)' /\ Inherited(r[2], g) => Gone(r[2], g)'
           /\ (unlink'.stack # <<>>) =>
                \A g \in Groups \ unlink'.todo :
                   (unlink'.stack = <<>> \/ g # unlink'.group) /\ Inherited(unlink.child, g)
                     => Gone(unlink.child, g)'
           /\ \A x \in unlink'.visited \ {unlink.child} :
                 \E p \in Parents(relation, x) : p \in unlink'.visited
           /\ \A x, g : Gone(x, g)' = Gone(x, g)
<1>1. /\ unlink \in Unlinks /\ unlink.stack # <<>> /\ o \in Top.pending
      /\ unlink'.draft = unlink.draft /\ unlink'.visited = unlink.visited \cup {o}
      /\ unlink'.todo = unlink.todo /\ unlink'.group = unlink.group
      /\ unlink'.child = unlink.child /\ perm' = perm
  BY WorkingFacts DEF Skip, Descend, Unlinks
<1>2. \A x, g : Gone(x, g)' = Gone(x, g)
  BY <1>1 DEF Gone
<1>3. /\ \A x \in Objects, g \in Groups : unlink.draft[x, g] # perm[x, g] => Inherited(x, g) /\ Gone(x, g)
      /\ \A r \in relation, g \in Groups : Gone(r[1], g) /\ Inherited(r[2], g) => Gone(r[2], g)
      /\ \A g \in Groups \ unlink.todo :
            g # unlink.group /\ Inherited(unlink.child, g) => Gone(unlink.child, g)
      /\ \A x \in unlink.visited \ {unlink.child} :
            \E p \in Parents(relation, x) : p \in unlink.visited
  BY <1>1 DEF Working, TidyInv, ForestInv
<1>4. o = unlink.child \/ \E p \in Parents(relation, o) : p \in unlink.visited
  <2> DEFINE n == Len(unlink.stack)
  <2>1. n \in Nat \ {0} /\ Top = unlink.stack[n] /\ n \in 1..n
    BY <1>1, TopIndex
  <2>2. CASE n = 1
    BY <1>1, <2>1, <2>2, PendingChild
  <2>3. CASE n # 1
    <3>1. n \in Calls
      <4> HIDE DEF n
      <4>1. n \in 2..n
        BY <2>1, <2>3
      <4>2. QED
        BY <4>1 DEF Calls, n
    <3>2. Top.obj \in unlink.visited
      BY <2>1, <3>1, WorkingFacts DEF CallOK
    <3>3. QED
      BY <1>1, <3>2, Waiting
  <2>4. QED
    BY <2>2, <2>3
<1>5. \A x \in unlink'.visited \ {unlink.child} : \E p \in Parents(relation, x) : p \in unlink'.visited
  BY <1>1, <1>3, <1>4
<1>6. \A x \in Objects, g \in Groups : unlink'.draft[x, g] # perm[x, g] =>
          Inherited(x, g) /\ Gone(x, g)'
  BY <1>1, <1>2, <1>3
<1>7. \A r \in relation, g \in Groups :
          Gone(r[1], g)' /\ Inherited(r[2], g) => Gone(r[2], g)'
  BY <1>2, <1>3
<1>8. ASSUME unlink'.stack # <<>>,
             NEW g \in Groups \ unlink'.todo,
             unlink'.stack = <<>> \/ g # unlink'.group, Inherited(unlink.child, g)
      PROVE  Gone(unlink.child, g)'
  <2>1. g # unlink.group /\ g \in Groups \ unlink.todo
    BY <1>1, <1>8
  <2>2. QED
    BY <1>1, <1>2, <1>3, <1>8, <2>1
<1>9. QED
  BY <1>2, <1>5, <1>6, <1>7, <1>8

LEMMA TidySkip == ASSUME Working, NEW o \in Objects, Skip(o) PROVE TidyInv'
<1>0. PICK n : n = Len(unlink.stack)
  OBVIOUS
<1>1. /\ unlink \in Unlinks /\ unlink.stack # <<>> /\ o \in Top.pending /\ Untouched(o)
      /\ unlink'.stack = Taken(o) /\ unlink'.visited = unlink.visited \cup {o}
      /\ unlink'.parent = unlink.parent /\ unlink'.child = unlink.child
      /\ unlink'.group = unlink.group /\ unlink'.draft = unlink.draft
      /\ relation' = relation /\ perm' = perm
  BY WorkingFacts DEF Skip, Unlinks
<1>2. n \in Nat \ {0} /\ Top = unlink.stack[n] /\ n \in 1..n /\ DOMAIN unlink.stack = 1..n
  BY <1>0, <1>1, TopIndex
<1>3. /\ Len(unlink'.stack) = n /\ unlink'.stack \in Seq(Frames)
      /\ \A i \in 1..n : /\ unlink'.stack[i].obj = unlink.stack[i].obj
                         /\ unlink'.stack[i].devisor = unlink.stack[i].devisor
                         /\ unlink'.stack[i].pending \subseteq unlink.stack[i].pending
  BY <1>0, <1>1, TakenProperties
<1>4. /\ unlink'.stack[n].pending = unlink.stack[n].pending \ {o}
      /\ \A i \in 1..n : i # n => unlink'.stack[i].pending = unlink.stack[i].pending
  BY <1>0, <1>1, <1>2, TakenPending
<1>5. Calls' = Calls /\ Calls = 2..n /\ DOMAIN unlink'.stack = 1..n /\ unlink'.stack # <<>>
  BY <1>0, <1>2, <1>3 DEF Calls
<1>6. ASSUME NEW i \in 1..n PROVE ForestCall(i)'
  <2>1. ForestCall(i)
    BY <1>2, <1>6, WorkingFacts
  <2>2. \A x, g : Gone(x, g)' = Gone(x, g) /\ Inherited(x, g)' = Inherited(x, g)
    BY <1>1 DEF Gone, Inherited
  <2>3. unlink'.stack[i].pending \cap unlink'.visited = {}
    <3>1. o \notin unlink'.stack[i].pending
      <4>1. CASE i = n
        BY <1>4, <4>1
      <4>2. CASE i # n
        BY <1>0, <1>1, <1>2, <1>4, <1>6, <4>2, PendingOnce
      <4>3. QED
        BY <4>1, <4>2
    <3>2. unlink.stack[i].pending \cap unlink.visited = {}
      BY <2>1 DEF ForestCall
    <3>3. QED
      BY <1>1, <1>3, <1>6, <3>1, <3>2
  <2>4. i + 1 \in Calls => i + 1 \in 1..n
    BY <1>2, <1>5
  <2>5. /\ unlink'.stack[i].obj = unlink.stack[i].obj
        /\ unlink'.stack[i].devisor = unlink.stack[i].devisor
        /\ i + 1 \in Calls => unlink'.stack[i + 1].obj = unlink.stack[i + 1].obj
    BY <1>3, <1>6, <2>4
  <2>6. ASSUME NEW c \in Children(relation, unlink.stack[i].obj), Inherited(c, unlink.group),
               i = 1 => c = unlink.child
        PROVE  \/ c \in unlink'.stack[i].pending
               \/ (i + 1 \in Calls /\ c = unlink.stack[i + 1].obj)
               \/ Gone(c, unlink.group)
    <3>1. \/ c \in unlink.stack[i].pending
          \/ (i + 1 \in Calls /\ c = unlink.stack[i + 1].obj)
          \/ Gone(c, unlink.group)
      BY <2>1, <2>6 DEF ForestCall
    <3>2. CASE c \in unlink.stack[i].pending /\ c = o
      BY <1>1, <2>6, <3>2, Waiting
    <3>3. CASE c \in unlink.stack[i].pending /\ c # o
      BY <1>4, <1>6, <3>3
    <3>4. QED
      BY <3>1, <3>2, <3>3
  <2>7. /\ unlink.stack[i].devisor = NoGrant
        /\ i \in Calls => Inherited(unlink.stack[i].obj, unlink.group)
        /\ i + 1 \in Calls => unlink.stack[i + 1].obj \in Children(relation, unlink.stack[i].obj)
    BY <2>1 DEF ForestCall
  <2>8. QED
    BY <1>1, <1>5, <2>2, <2>3, <2>5, <2>6, <2>7 DEF ForestCall
<1>7. QED
  BY <1>5, <1>6, TidyTaken, StepFrame

\* The children of an object that waits were not visited before it.
LEMMA ChildrenFresh ==
    ASSUME Working, unlink.stack # <<>>, NEW o \in Top.pending
    PROVE  Children(relation, o) \cap (unlink.visited \cup {o}) = {}
<1> SUFFICES ASSUME NEW c \in Children(relation, o), c \in unlink.visited \cup {o} PROVE FALSE
  OBVIOUS
<1>1. /\ o \in Objects /\ Top.obj \in Objects /\ Parents(relation, o) = {Top.obj}
      /\ o \notin unlink.visited /\ unlink.child \in Above(relation, o)
  BY Waiting
<1>2. /\ Forest(relation) /\ Parents(relation, unlink.child) = {unlink.parent}
      /\ unlink.child \notin Above(relation, unlink.parent)
  BY WorkingFacts
<1>3. c \in Objects /\ o \in Parents(relation, c) /\ <<o, c>> \in relation
  BY <1>1 DEF Children, Parents
<1>4. CASE c = o
  BY <1>2, <1>3, <1>4, AboveSelf DEF Forest
<1>5. CASE c = unlink.child
  <2>1. o = unlink.parent
    BY <1>2, <1>3, <1>5
  <2>2. QED
    BY <1>1, <1>2, <2>1
<1>6. CASE c # o /\ c # unlink.child
  <2>1. PICK p \in Parents(relation, c) : p \in unlink.visited
    BY <1>6 DEF Working, TidyInv, ForestInv
  <2>2. p = o
    BY <1>2, <1>3, <2>1 DEF Forest
  <2>3. QED
    BY <1>1, <2>1, <2>2
<1>7. QED
  BY <1>4, <1>5, <1>6

LEMMA TidyDescend == ASSUME Working, NEW o \in Objects, Descend(o) PROVE TidyInv'
<1> DEFINE f == Frame(o, NoGrant, Children(relation, o))
<1>0. PICK n : n = Len(unlink.stack)
  OBVIOUS
<1>1. /\ unlink \in Unlinks /\ unlink.stack # <<>> /\ o \in Top.pending /\ ~Untouched(o)
      /\ unlink'.visited = unlink.visited \cup {o}
      /\ unlink'.parent = unlink.parent /\ unlink'.child = unlink.child
      /\ unlink'.group = unlink.group /\ unlink'.draft = unlink.draft
      /\ relation' = relation /\ perm' = perm
  BY WorkingFacts DEF Descend, Unlinks
<1>2. unlink'.stack = Append(Taken(o), f)
  <2>1. Top.devisor = NoGrant /\ Devisors(o) = {NoGrant}
    BY <1>1, TopShare, Waiting DEF Devisors
  <2>2. unlink' = [unlink EXCEPT !.stack = Append(Taken(o), f), !.visited = @ \cup {o}]
    BY <2>1 DEF Descend
  <2>3. QED
    BY <1>1, <2>2 DEF Unlinks
<1>3. f.obj = o /\ f.devisor = NoGrant /\ f.pending = Children(relation, o)
  BY DEF Frame
<1> HIDE DEF f
<1>4. n \in Nat \ {0} /\ Top = unlink.stack[n] /\ n \in 1..n /\ DOMAIN unlink.stack = 1..n
  BY <1>0, <1>1, TopIndex
<1>5. /\ Len(Taken(o)) = n /\ Taken(o) \in Seq(Frames)
      /\ \A i \in 1..n : /\ Taken(o)[i].obj = unlink.stack[i].obj
                         /\ Taken(o)[i].devisor = unlink.stack[i].devisor
                         /\ Taken(o)[i].pending \subseteq unlink.stack[i].pending
      /\ Taken(o)[n].pending = unlink.stack[n].pending \ {o}
      /\ \A i \in 1..n : i # n => Taken(o)[i].pending = unlink.stack[i].pending
  BY <1>0, <1>1, <1>4, TakenProperties, TakenPending
<1>6. /\ Len(unlink'.stack) = n + 1 /\ DOMAIN unlink'.stack = 1..(n + 1)
      /\ unlink'.stack[n + 1] = f /\ unlink'.stack # <<>>
      /\ \A i \in 1..n : unlink'.stack[i] = Taken(o)[i]
  BY <1>2, <1>4, <1>5
<1>7. Calls = 2..n /\ Calls' = 2..(n + 1)
  BY <1>0, <1>6 DEF Calls
<1>8. \A x, g : Gone(x, g)' = Gone(x, g) /\ Inherited(x, g)' = Inherited(x, g)
  BY <1>1 DEF Gone, Inherited
<1>9. ASSUME NEW i \in 1..n, i # n PROVE ForestCall(i)'
  <2>1. ForestCall(i)
    BY <1>4, <1>9, WorkingFacts
  <2>2. /\ i + 1 \in 1..n /\ i + 1 \in Calls /\ i + 1 \in Calls'
        /\ i \in Calls' <=> i \in Calls
    BY <1>4, <1>7, <1>9
  <2>3. /\ unlink'.stack[i].obj = unlink.stack[i].obj
        /\ unlink'.stack[i].devisor = unlink.stack[i].devisor
        /\ unlink'.stack[i].pending = unlink.stack[i].pending
        /\ unlink'.stack[i + 1].obj = unlink.stack[i + 1].obj
    BY <1>5, <1>6, <1>9, <2>2
  <2>4. unlink'.stack[i].pending \cap unlink'.visited = {}
    <3>1. o \notin unlink.stack[i].pending
      BY <1>0, <1>1, <1>4, <1>9, PendingOnce
    <3>2. unlink.stack[i].pending \cap unlink.visited = {}
      BY <2>1 DEF ForestCall
    <3>3. QED
      BY <1>1, <2>3, <3>1, <3>2
  <2>5. QED
    BY <1>1, <1>8, <2>1, <2>2, <2>3, <2>4 DEF ForestCall
<1>10. ForestCall(n)'
  <2>1. ForestCall(n)
    BY <1>4, WorkingFacts
  <2>2. n + 1 \in Calls' /\ n + 1 \notin Calls /\ (n \in Calls' <=> n \in Calls)
    BY <1>4, <1>7
  <2>3. /\ unlink'.stack[n].obj = Top.obj
        /\ unlink'.stack[n].devisor = Top.devisor
        /\ unlink'.stack[n].pending = Top.pending \ {o}
        /\ unlink'.stack[n + 1].obj = o
    BY <1>3, <1>4, <1>5, <1>6
  <2>4. o \in Children(relation, Top.obj)
    BY <1>1, Waiting DEF Children, Parents
  <2>5. unlink'.stack[n].pending \cap unlink'.visited = {}
    BY <1>1, <1>4, <2>1, <2>3 DEF ForestCall
  <2>6. /\ Top.devisor = NoGrant
        /\ n \in Calls => Inherited(Top.obj, unlink.group)
        /\ \A c \in Children(relation, Top.obj) :
              (Inherited(c, unlink.group) /\ (n = 1 => c = unlink.child)) =>
                  c \in Top.pending \/ Gone(c, unlink.group)
    BY <1>4, <2>1, <2>2 DEF ForestCall
  <2>7. QED
    BY <1>1, <1>8, <2>2, <2>3, <2>4, <2>5, <2>6 DEF ForestCall
<1>11. ForestCall(n + 1)'
  <2>1. n + 1 + 1 \notin Calls' /\ n + 1 # 1
    BY <1>4, <1>7
  <2>2. Inherited(o, unlink.group)
    BY <1>1, Waiting
  <2>3. f.pending \cap unlink'.visited = {}
    BY <1>1, <1>3, ChildrenFresh
  <2>4. QED
    BY <1>1, <1>3, <1>6, <1>8, <2>1, <2>2, <2>3 DEF ForestCall
<1>12. \A i \in DOMAIN unlink'.stack : ForestCall(i)'
  <2>1. \A i \in 1..(n + 1) : i = n + 1 \/ i = n \/ (i \in 1..n /\ i # n)
    BY <1>4
  <2>2. QED
    BY <1>6, <1>9, <1>10, <1>11, <2>1
<1>13. QED
  BY <1>6, <1>12, TidyTaken, StepFrame

LEMMA TidyReturn == ASSUME Working, Return PROVE TidyInv'
<1>0. PICK n, o, g : n = Len(unlink.stack) /\ o = Top.obj /\ g = unlink.group
  OBVIOUS
<1>1. unlink \in Unlinks /\ n > 1 /\ unlink.stack # <<>> /\ Top.pending = {}
  <2>1. unlink \in Unlinks /\ n > 1 /\ Top.pending = {}
    BY <1>0, WorkingFacts DEF Return
  <2>2. unlink.stack # <<>>
    <3>1. Len(<<>>) = 0
      OBVIOUS
    <3>2. QED
      BY <1>0, <2>1, <3>1
  <2>3. QED
    BY <2>1, <2>2
<1>2. /\ n \in Nat \ {0} /\ Top = unlink.stack[n] /\ n \in DOMAIN unlink.stack
      /\ DOMAIN unlink.stack = 1..n /\ Top \in Frames
  BY <1>0, <1>1, TopIndex
<1>3. o \in Objects /\ g \in Groups
  BY <1>0, <1>2, WorkingFacts DEF Frames
<1>4. /\ unlink'.stack = SubSeq(unlink.stack, 1, n - 1)
      /\ unlink'.draft = [unlink.draft EXCEPT ![<<o, g>>] = NoGrant]
      /\ unlink'.todo = unlink.todo /\ unlink'.group = g /\ unlink'.visited = unlink.visited
      /\ unlink'.parent = unlink.parent /\ unlink'.child = unlink.child
      /\ perm' = perm /\ relation' = relation
  <2>1. Top.devisor = NoGrant
    BY <1>1, TopShare
  <2>2. QED
    BY <1>0, <1>1, <2>1 DEF Return, Unlinks
<1>5. Len(unlink'.stack) = n - 1 /\ \A i \in 1..(n - 1) : unlink'.stack[i] = unlink.stack[i]
  <2>1. unlink.stack \in Seq(Frames)
    BY WorkingFacts
  <2>2. QED
    BY <1>0, <1>1, <1>4, <2>1, FrontProperties
<1>6. /\ DOMAIN unlink'.stack = 1..(n - 1) /\ unlink'.stack # <<>>
      /\ Calls = 2..n /\ Calls' = 2..(n - 1) /\ n \in Calls
  <2>1. unlink'.stack \in Seq(Frames)
    BY <1>0, <1>1, <1>4, FrontProperties, WorkingFacts
  <2>2. DOMAIN unlink'.stack = 1..(n - 1) /\ unlink'.stack # <<>>
    BY <1>1, <1>2, <1>5, <2>1
  <2>3. QED
    BY <1>0, <1>1, <1>2, <1>5, <2>2 DEF Calls
<1>7. Inherited(o, g) /\ unlink.draft[o, g] # NoGrant /\ perm[o, g] # NoGrant
  BY <1>0, <1>2, <1>6, WorkingFacts DEF ForestCall, CallOK, Inherited
<1>8. \A x \in Objects, h \in Groups :
         unlink'.draft[x, h] = IF x = o /\ h = g THEN NoGrant ELSE unlink.draft[x, h]
  <2>1. unlink.draft \in [Objects \X Groups -> Grants \cup {NoGrant}]
    BY WorkingFacts
  <2>2. QED
    BY <1>3, <1>4, <2>1
<1>9. \A x \in Objects, h \in Groups : Gone(x, h)' <=> (Gone(x, h) \/ (x = o /\ h = g))
  BY <1>4, <1>7, <1>8 DEF Gone
<1>10. /\ \A x \in Objects, h \in Groups : unlink.draft[x, h] # perm[x, h] => Inherited(x, h) /\ Gone(x, h)
       /\ \A r \in relation, h \in Groups : Gone(r[1], h) /\ Inherited(r[2], h) => Gone(r[2], h)
       /\ \A h \in Groups \ unlink.todo :
             h # unlink.group /\ Inherited(unlink.child, h) => Gone(unlink.child, h)
       /\ \A x \in unlink.visited \ {unlink.child} :
             \E p \in Parents(relation, x) : p \in unlink.visited
  BY <1>1 DEF Working, TidyInv, ForestInv
<1>11. \A x, h : Inherited(x, h)' = Inherited(x, h)
  BY <1>4 DEF Inherited
<1>12. \A c \in Children(relation, o) : Inherited(c, g) => Gone(c, g)
  <2>0. ForestCall(n)
    BY <1>2, WorkingFacts
  <2>1. ForestCall(n) /\ n + 1 \notin Calls /\ n # 1
    BY <1>1, <1>2, <1>6, <2>0
  <2>2. QED
    BY <1>0, <1>1, <1>2, <2>1 DEF ForestCall
<1>13. \A r \in relation, h \in Groups : Gone(r[1], h)' /\ Inherited(r[2], h) => Gone(r[2], h)'
  <2> SUFFICES ASSUME NEW r \in relation, NEW h \in Groups, Gone(r[1], h)', Inherited(r[2], h)
               PROVE  Gone(r[2], h)'
    OBVIOUS
  <2>1. r[1] \in Objects /\ r[2] \in Objects /\ r = <<r[1], r[2]>>
    BY DEF Working, IInv, TypeOK
  <2>2. r'[1] = r[1] /\ r'[2] = r[2]
    OBVIOUS
  <2>3. Gone(r[1], h) \/ (r[1] = o /\ h = g)
    BY <1>9, <2>1
  <2>4. CASE Gone(r[1], h)
    BY <1>9, <1>10, <2>1, <2>4
  <2>5. CASE r[1] = o /\ h = g
    <3>1. r[2] \in Children(relation, o)
      BY <2>1, <2>5 DEF Children
    <3>2. QED
      BY <1>9, <1>12, <2>1, <2>5, <3>1
  <2>6. QED
    BY <2>3, <2>4, <2>5
<1>14. \A x \in Objects, h \in Groups : unlink'.draft[x, h] # perm[x, h] => Inherited(x, h) /\ Gone(x, h)'
  <2> SUFFICES ASSUME NEW x \in Objects, NEW h \in Groups, unlink'.draft[x, h] # perm[x, h]
               PROVE  Inherited(x, h) /\ Gone(x, h)'
    OBVIOUS
  <2>1. CASE x = o /\ h = g
    BY <1>7, <1>9, <2>1
  <2>2. CASE ~(x = o /\ h = g)
    BY <1>8, <1>9, <1>10, <2>2
  <2>3. QED
    BY <2>1, <2>2
<1>15. \A h \in Groups \ unlink'.todo :
          (unlink'.stack = <<>> \/ h # unlink'.group) /\ Inherited(unlink.child, h)
              => Gone(unlink.child, h)'
  <2>1. unlink.child \in Objects
    BY WorkingFacts
  <2>2. ASSUME NEW h \in Groups \ unlink.todo, h # g, Inherited(unlink.child, h)
        PROVE  Gone(unlink.child, h)'
    BY <1>0, <1>4, <1>9, <1>10, <2>1, <2>2
  <2>3. QED
    BY <1>4, <1>6, <2>2
<1>16. ASSUME NEW i \in 1..(n - 1) PROVE ForestCall(i)'
  <2>1. ForestCall(i) /\ unlink'.stack[i] = unlink.stack[i] /\ i + 1 \in Calls
    <3>1. i \in DOMAIN unlink.stack /\ i + 1 \in Calls
      BY <1>2, <1>6, <1>16
    <3>2. QED
      BY <1>5, <1>16, <3>1, WorkingFacts
  <2>2. /\ i \in Calls' <=> i \in Calls
        /\ i + 1 \in Calls' => unlink'.stack[i + 1] = unlink.stack[i + 1]
        /\ i + 1 \in Calls' \/ i + 1 = n
    BY <1>2, <1>5, <1>6, <1>16
  <2>3. ASSUME NEW c \in Children(relation, unlink.stack[i].obj), Inherited(c, unlink.group),
               i = 1 => c = unlink.child
        PROVE  \/ c \in unlink.stack[i].pending
               \/ i + 1 \in Calls' /\ c = unlink'.stack[i + 1].obj
               \/ Gone(c, unlink.group)'
    <3>1. c \in Objects
      BY DEF Children
    <3>2. \/ c \in unlink.stack[i].pending
          \/ c = unlink.stack[i + 1].obj
          \/ Gone(c, g)
      BY <1>0, <2>1, <2>3 DEF ForestCall
    <3>3. CASE c \in unlink.stack[i].pending
      BY <3>3
    <3>4. CASE c = unlink.stack[i + 1].obj
      <4>1. i + 1 = n => c = o
        BY <1>0, <1>2, <3>4
      <4>2. i + 1 = n => Gone(c, g)'
        BY <1>3, <1>9, <4>1
      <4>3. QED
        BY <1>0, <1>4, <2>2, <3>4, <4>2
    <3>5. CASE Gone(c, g)
      BY <1>0, <1>3, <1>4, <1>9, <3>1, <3>5
    <3>6. QED
      BY <3>2, <3>3, <3>4, <3>5
  <2>4. unlink.group' = unlink.group
    BY <1>0, <1>4
  <2>5. QED
    BY <1>4, <1>11, <2>1, <2>2, <2>3, <2>4 DEF ForestCall
<1>17. \A x \in unlink'.visited \ {unlink.child} : \E p \in Parents(relation, x) : p \in unlink'.visited
  BY <1>4, <1>10
<1>18. \A i \in DOMAIN unlink'.stack : ForestCall(i)'
  BY <1>6, <1>16
<1>19. QED
  BY <1>13, <1>14, <1>15, <1>17, <1>18, StepFrame

LEMMA TidyShareDone == ASSUME Working, ShareDone PROVE TidyInv'
<1>0. unlink.stack # <<>>
  <2>1. Len(<<>>) = 0 /\ Len(unlink.stack) = 1
    BY DEF ShareDone
  <2>2. QED
    BY <2>1
<1>1. /\ unlink \in Unlinks /\ Len(unlink.stack) = 1 /\ Top.pending = {}
      /\ unlink'.stack = <<>> /\ unlink'.draft = unlink.draft /\ unlink'.todo = unlink.todo
      /\ unlink'.parent = unlink.parent /\ unlink'.child = unlink.child
      /\ perm' = perm /\ relation' = relation
  BY WorkingFacts DEF ShareDone, Unlinks
<1>2. \A x, h : Gone(x, h)' = Gone(x, h)
  BY <1>1 DEF Gone
<1>3. /\ \A x \in Objects, h \in Groups : unlink.draft[x, h] # perm[x, h] => Inherited(x, h) /\ Gone(x, h)
      /\ \A r \in relation, h \in Groups : Gone(r[1], h) /\ Inherited(r[2], h) => Gone(r[2], h)
      /\ \A h \in Groups \ unlink.todo :
            h # unlink.group /\ Inherited(unlink.child, h) => Gone(unlink.child, h)
  BY <1>0 DEF Working, TidyInv, ForestInv
<1>4. Inherited(unlink.child, unlink.group) => Gone(unlink.child, unlink.group)
  <2>1. Top = unlink.stack[1] /\ ForestCall(1) /\ 2 \notin Calls
    <3>1. Top = unlink.stack[1] /\ 1 \in DOMAIN unlink.stack
      BY <1>0, <1>1, TopIndex
    <3>2. ForestCall(1)
      BY <3>1, WorkingFacts
    <3>3. QED
      BY <1>1, <3>1, <3>2 DEF Calls
  <2>2. unlink.child \in Children(relation, unlink.stack[1].obj)
    BY <1>0, WorkingFacts DEF BottomOK, Children
  <2>3. QED
    BY <1>1, <2>1, <2>2 DEF ForestCall
<1>5. \A h \in Groups \ unlink.todo : Inherited(unlink.child, h) => Gone(unlink.child, h)
  BY <1>3, <1>4
<1>6. unlink'.stack = <<>>
  BY <1>1
<1>7. DOMAIN unlink'.stack = {}
  BY <1>6
<1>8. \A x \in Objects, h \in Groups : unlink'.draft[x, h] # perm[x, h] => Inherited(x, h) /\ Gone(x, h)'
  BY <1>1, <1>2, <1>3
<1>9. \A r \in relation, h \in Groups : Gone(r[1], h)' /\ Inherited(r[2], h) => Gone(r[2], h)'
  BY <1>2, <1>3
<1>10. \A h \in Groups \ unlink'.todo :
          (unlink'.stack = <<>> \/ h # unlink'.group) /\ Inherited(unlink.child, h)
              => Gone(unlink.child, h)'
  BY <1>1, <1>2, <1>5
<1>11. QED
  BY <1>6, <1>7, <1>8, <1>9, <1>10, StepFrame

\* The commit: who keeps a row keeps the way it came.
LEMMA TidyCommit == ASSUME Working, Commit PROVE TidyInv'
<1> DEFINE p == unlink.parent
           c == unlink.child
           D == unlink.draft
           rel2 == relation \ {<<p, c>>}
<1>1. /\ unlink.stack = <<>> /\ unlink.todo = {} /\ relation' = rel2 /\ perm' = D /\ unlink' = Idle
  BY DEF Commit
<1>2. /\ Rooted(perm, relation) /\ HandedOn(perm, relation) /\ Forest(relation)
      /\ \A o \in Objects, g \in Groups : D[o, g] # perm[o, g] => Inherited(o, g) /\ Gone(o, g)
      /\ \A r \in relation, g \in Groups : Gone(r[1], g) /\ Inherited(r[2], g) => Gone(r[2], g)
      /\ \A g \in Groups \ unlink.todo : Inherited(c, g) => Gone(c, g)
  BY <1>1 DEF Working, TidyInv, ForestInv
<1>3. \A g \in Groups : Inherited(c, g) => Gone(c, g)
  BY <1>1, <1>2
<1>4. \A o \in Objects, g \in Groups : D[o, g] # NoGrant => perm[o, g] = D[o, g]
  BY <1>2 DEF Gone
<1>5. \A o \in Objects, g \in Groups : Gone(o, g) => D[o, g] = NoGrant
  BY DEF Gone
<1>6. \A o \in Objects, g \in Groups : perm[o, g] # NoGrant /\ D[o, g] = NoGrant => Gone(o, g)
  BY DEF Gone
<1>7. \A o \in Objects, g \in Groups :
         perm[o, g] # NoGrant /\ perm[o, g] = perm[p, g] => Inherited(o, g)
  BY DEF Inherited
<1>8. \A y, o : y \in Parents(rel2, o) => y \in Parents(relation, o)
  BY DEF Parents
<1>9. \A y, o : y \in Parents(relation, o) => y \in Objects /\ <<y, o>> \in relation
  BY DEF Parents
<1>10. \A y, o : y \in Parents(relation, o) => y \in Parents(rel2, o) \/ (y = p /\ o = c)
  BY DEF Parents
<1>11. \A y \in Objects, o \in Objects, g \in Groups :
          <<y, o>> \in relation /\ Gone(y, g) /\ Inherited(o, g) => Gone(o, g)
  <2> SUFFICES ASSUME NEW y \in Objects, NEW o \in Objects, NEW g \in Groups,
                      <<y, o>> \in relation, Gone(y, g), Inherited(o, g)
               PROVE  Gone(o, g)
    OBVIOUS
  <2> DEFINE r == <<y, o>>
  <2>1. r[1] = y /\ r[2] = o /\ r \in relation
    OBVIOUS
  <2> HIDE DEF r
  <2>2. QED
    BY <1>2, <2>1
<1>12. p \in Objects /\ c \in Objects
  BY WorkingFacts
<1> HIDE DEF p, c, D, rel2
<1>13. HandedOn(D, rel2)
  <2> SUFFICES ASSUME NEW o \in Objects, NEW g \in Groups, D[o, g] # NoGrant, D[o, g].origin # o
               PROVE  \E y \in Parents(rel2, o) : D[y, g] = D[o, g]
    BY DEF HandedOn
  <2>1. perm[o, g] = D[o, g]
    BY <1>4
  <2>2. PICK y \in Parents(relation, o) : perm[y, g] = perm[o, g]
    BY <1>2, <2>1 DEF HandedOn
  <2>3. y \in Objects /\ <<y, o>> \in relation
    BY <1>9
  <2>4. y \in Parents(rel2, o)
    <3>1. CASE y = p /\ o = c
      <4>1. Inherited(c, g)
        BY <1>7, <2>1, <2>2, <3>1
      <4>2. QED
        BY <1>3, <1>5, <3>1, <4>1
    <3>2. QED
      BY <1>10, <3>1
  <2>5. CASE D[y, g] = NoGrant
    <3>1. Gone(y, g)
      BY <1>6, <2>1, <2>2, <2>3, <2>5
    <3>2. Inherited(y, g)
      BY <1>2, <2>1, <2>2, <2>3, <2>5
    <3>3. Inherited(o, g)
      BY <2>2, <3>2 DEF Inherited
    <3>4. QED
      BY <1>5, <1>11, <2>3, <3>1, <3>3
  <2>6. CASE D[y, g] # NoGrant
    BY <1>4, <2>1, <2>2, <2>3, <2>4, <2>6
  <2>7. QED
    BY <2>5, <2>6
<1>14. Rooted(D, rel2)
  <2> SUFFICES ASSUME NEW o \in Objects, NEW g \in Groups, D[o, g] # NoGrant
               PROVE  D[o, g].origin \in Above(rel2, o) /\ D[D[o, g].origin, g] = D[o, g]
    BY DEF Rooted
  <2> DEFINE a == D[o, g].origin
             B == {y \in Above(rel2, o) : D[y, g] = D[o, g]}
  <2>1. perm[o, g] = D[o, g]
    BY <1>4
  <2>2. a \in Above(relation, o)
    BY <1>2, <2>1 DEF Rooted
  <2>3. o \in B /\ B \in SUBSET Objects
    BY AboveSelf, AboveObjects
  <2>4. ASSUME a \notin B, NEW y \in B PROVE Parents(relation, y) \subseteq B
    <3>1. y \in Objects /\ D[y, g] = D[o, g] /\ y # a /\ y \in Above(rel2, o)
      BY <2>3, <2>4
    <3>2. PICK z \in Parents(rel2, y) : D[z, g] = D[y, g]
      BY <1>13, <3>1 DEF HandedOn
    <3>3. z \in Above(rel2, o)
      BY <3>1, AboveParent, AboveTrans
    <3>4. z \in B
      BY <3>1, <3>2, <3>3
    <3>5. Parents(relation, y) \subseteq {z}
      BY <1>2, <1>8, <3>1 DEF Forest
    <3>6. QED
      BY <3>4, <3>5
  <2>5. a \in B
    <3>1. SUFFICES ASSUME a \notin B PROVE FALSE
      OBVIOUS
    <3>2. \A y \in B : Parents(relation, y) \subseteq B
      BY <2>4, <3>1
    <3> HIDE DEF a, B
    <3>3. Above(relation, o) \subseteq B
      BY <2>3, <3>2, AboveLeast
    <3>4. QED
      BY <2>2, <3>1, <3>3
  <2>6. QED
    BY <2>5
<1>15. QED
  BY <1>1, <1>13, <1>14 DEF TidyInv, ForestInv

LEMMA TidyNext == IInv /\ BelowInv /\ TidyInv /\ [Next]_vars => TidyInv'
<1> SUFFICES ASSUME IInv, BelowInv, TidyInv, [Next]_vars PROVE TidyInv'
  OBVIOUS
<1>1. CASE unlink = Idle /\ unlink' = Idle
  BY <1>1, TidyRequests
<1>2. ASSUME NEW u \in Users, NEW p \in Objects, NEW c \in Objects, RemoveParent(u, p, c)
      PROVE  TidyInv'
  BY <1>2, TidyRemoveParent
<1>3. CASE Uninherit
  <2>1. unlink # Idle /\ tidy' = tidy
    BY <1>3 DEF Uninherit, NextShare, Skip, Descend, Return, ShareDone, Commit
  <2>2. CASE ~tidy
    BY <2>1, <2>2 DEF TidyInv, ForestInv
  <2>3. CASE tidy
    <3>1. Working
      BY <2>1, <2>3 DEF Working
    <3>2. QED
      BY <1>3, <3>1, TidyNextShare, TidySkip, TidyDescend, TidyReturn, TidyShareDone, TidyCommit
         DEF Uninherit
  <2>4. QED
    BY <2>2, <2>3
<1>4. CASE UNCHANGED vars
  <2>1. unlink' = unlink /\ perm' = perm /\ relation' = relation /\ tidy' = tidy
    BY <1>4 DEF vars
  <2>2. Calls' = Calls
    BY <2>1 DEF Calls
  <2>3. QED
    BY <2>1, <2>2 DEF TidyInv, ForestInv, ForestCall, Gone, Inherited
<1>5. QED
  BY <1>1, <1>2, <1>3, <1>4 DEF Next, Upload, Share, Query, AddParent, DeleteObject

LEMMA TidyCorrect == Spec => [](IInv /\ BelowInv /\ TidyInv)
<1>1. QED
  BY InvInit, BelowInit, TidyInit, InvNext, BelowNext, TidyNext, PTL DEF Spec

\* As long as relations are only removed from a forest, every row an object has was given
\* on that object or on an ancestor, and the group still has the row it comes from: what
\* uninherit_share promises, for any objects and groups and any order of its calls.
THEOREM TidyJustifiedCorrect == Spec => []TidyJustified
<1>1. TypeOK /\ TidyInv => TidyJustified
  BY DEF TypeOK, TidyInv, Rooted, TidyJustified, OnlyUploadsAndDescendants, Justified
<1>2. QED
  BY TypeCorrect, TidyCorrect, <1>1, PTL

\* In a forest, removing a relation leaves every row alone that was given on its object.
THEOREM TidyOwnSharesKeptCorrect == Spec => TidyOwnSharesKept
<1> DEFINE Kept == (Commit /\ tidy) =>
          \A o \in Objects, g \in Groups :
             (perm[o, g] # NoGrant /\ perm[o, g].origin = o) => perm'[o, g] = perm[o, g]
<1>1. IInv /\ BelowInv /\ TidyInv => Kept
  <2> SUFFICES ASSUME IInv, BelowInv, TidyInv, Commit, tidy,
                      NEW o \in Objects, NEW g \in Groups,
                      perm[o, g] # NoGrant, perm[o, g].origin = o, perm'[o, g] # perm[o, g]
               PROVE  FALSE
    OBVIOUS
  <2>1. unlink # Idle /\ perm' = unlink.draft
    BY DEF Commit
  <2>2. Working
    BY <2>1 DEF Working
  <2>3. /\ unlink.parent \in Objects /\ unlink.child \notin Above(relation, unlink.parent)
        /\ perm[o, g] = perm[unlink.parent, g]
    BY <2>1, <2>2, WorkingFacts DEF Inherited
  <2>4. unlink.child \in Above(relation, o)
    BY <2>1 DEF BelowInv
  <2>5. o \in Above(relation, unlink.parent)
    BY <2>3 DEF TidyInv, Rooted
  <2>6. QED
    BY <2>3, <2>4, <2>5, AboveTrans
<1>2. IInv /\ BelowInv /\ TidyInv => [Kept]_vars
  BY <1>1
<1> HIDE DEF Kept
<1>3. Spec => [][Kept]_vars
  BY TidyCorrect, <1>2, PTL
<1>4. QED
  BY <1>3 DEF TidyOwnSharesKept, Kept

-----------------------------------------------------------------------------
(* remove_parent ends *)

\* The calls still to be made by the calls on a stack.
CallsLeft(stack) == {x \in (DOMAIN stack) \X Objects : x[2] \in stack[x[1]].pending}

\* Cost(removal) of its parts: calls on the stack, calls left, objects not visited,
\* shares of the parent left.
Weigh(len, calls, fresh, shares) ==
    LET n == Cardinality(Objects)
    IN  1 + len + calls + fresh * (n + 1) + shares * (n * (n + 1) + 3)

Weight(removal) ==
    Weigh(Len(removal.stack), Cardinality(CallsLeft(removal.stack)),
          Cardinality(Objects \ removal.visited), Cardinality(removal.todo))

LEMMA CostIsWeight == \A removal : Cost(removal) = IF removal = Idle THEN 0 ELSE Weight(removal)
BY DEF Cost, Weight, Weigh, CallsLeft

LEMMA WeighBigger ==
    ASSUME NEW l1 \in Nat, NEW c1 \in Nat, NEW f1 \in Nat, NEW s \in Nat,
           NEW l2 \in Nat, NEW c2 \in Nat, NEW f2 \in Nat
    PROVE  /\ Weigh(l1, c1, f1, s) \in Nat \ {0}
           /\ l2 + c2 < l1 + c1 /\ f2 <= f1 => Weigh(l2, c2, f2, s) < Weigh(l1, c1, f1, s)
           /\ l2 + c2 <= l1 + c1 + Cardinality(Objects) /\ f2 < f1 =>
                 Weigh(l2, c2, f2, s) < Weigh(l1, c1, f1, s)
           /\ l2 + c2 <= 2 /\ f2 <= Cardinality(Objects) =>
                 Weigh(l2, c2, f2, s) < Weigh(l1, c1, f1, s + 1)
<1> DEFINE n == Cardinality(Objects)
           k == n + 1
           K == n * k + 3
<1>1. n \in Nat
  BY FiniteAssumption, FS_CardinalityType
<1> HIDE DEF n
<1>2. k \in Nat /\ n * k \in Nat /\ K \in Nat
  BY <1>1
<1>3. \A l, c, f, t : Weigh(l, c, f, t) = 1 + l + c + f * k + t * K
  BY DEF Weigh, n
<1>4. \A a, b, m \in Nat : a <= b => a * m <= b * m
  OBVIOUS
<1>5. \A a, m \in Nat : (a + 1) * m = a * m + m /\ a * m \in Nat
  OBVIOUS
<1>6. f1 * k \in Nat /\ f2 * k \in Nat /\ s * K \in Nat
  BY <1>2, <1>5
<1>7. f2 <= f1 => f2 * k <= f1 * k
  BY <1>2, <1>4
<1>8. f2 < f1 => f2 * k + k <= f1 * k
  <2> SUFFICES ASSUME f2 + 1 <= f1 PROVE f2 * k + k <= f1 * k
    OBVIOUS
  <2>1. (f2 + 1) * k <= f1 * k
    BY <1>2, <1>4
  <2>2. QED
    BY <1>2, <1>5, <2>1
<1>9. f2 <= n => f2 * k <= n * k
  BY <1>1, <1>2, <1>4
<1>10. (s + 1) * K = s * K + n * k + 3
  BY <1>2, <1>5, <1>6
<1> DEFINE F1 == f1 * k
           F2 == f2 * k
           S == s * K
           N == n * k
<1>11. /\ Weigh(l1, c1, f1, s) = 1 + l1 + c1 + F1 + S
       /\ Weigh(l2, c2, f2, s) = 1 + l2 + c2 + F2 + S
       /\ Weigh(l1, c1, f1, s + 1) = 1 + l1 + c1 + F1 + (S + N + 3)
  BY <1>3, <1>10
<1>12. /\ F1 \in Nat /\ F2 \in Nat /\ S \in Nat /\ N \in Nat
       /\ f2 <= f1 => F2 <= F1
       /\ f2 < f1 => F2 + (n + 1) <= F1
       /\ f2 <= n => F2 <= N
  BY <1>2, <1>6, <1>7, <1>8, <1>9
<1> HIDE DEF F1, F2, S, N
<1>13. QED
  BY <1>1, <1>11, <1>12 DEF n

LEMMA CallsLeftFinite ==
    ASSUME NEW stack \in Seq(Frames)
    PROVE  /\ IsFiniteSet((DOMAIN stack) \X Objects) /\ IsFiniteSet(CallsLeft(stack))
           /\ Cardinality(CallsLeft(stack)) \in Nat
<1>1. DOMAIN stack = 1..Len(stack) /\ Len(stack) \in Nat
  BY LenProperties
<1>2. IsFiniteSet((DOMAIN stack) \X Objects)
  <2>1. IsFiniteSet(1..Len(stack))
    BY <1>1, FS_Interval
  <2>2. IsFiniteSet(DOMAIN stack)
    BY <1>1, <2>1
  <2>3. QED
    BY <2>2, FiniteAssumption, FS_Product
<1>3. CallsLeft(stack) \in SUBSET ((DOMAIN stack) \X Objects)
  BY DEF CallsLeft
<1>4. QED
  BY <1>2, <1>3, FS_Subset, FS_CardinalityType

LEMMA PartsAreNumbers ==
    ASSUME NEW removal \in Unlinks
    PROVE  /\ Len(removal.stack) \in Nat
           /\ Cardinality(CallsLeft(removal.stack)) \in Nat
           /\ IsFiniteSet(Objects \ removal.visited)
           /\ Cardinality(Objects \ removal.visited) \in Nat
           /\ IsFiniteSet(removal.todo) /\ Cardinality(removal.todo) \in Nat
<1>1. removal.stack \in Seq(Frames) /\ removal.todo \in SUBSET Groups
  BY DEF Unlinks
<1>2. IsFiniteSet(Objects \ removal.visited) /\ IsFiniteSet(removal.todo)
  BY <1>1, FiniteAssumption, FS_Difference, FS_Subset
<1>3. QED
  BY <1>1, <1>2, CallsLeftFinite, LenProperties, FS_CardinalityType

\* Removals compared part by part.
LEMMA Lighter ==
    ASSUME NEW r1 \in Unlinks, NEW r2 \in Unlinks,
           NEW n \in Nat, n = Cardinality(Objects),
           NEW l1 \in Nat, NEW l2 \in Nat, NEW c1 \in Nat, NEW c2 \in Nat,
           l1 = Len(r1.stack), c1 = Cardinality(CallsLeft(r1.stack)),
           l2 = Len(r2.stack), c2 = Cardinality(CallsLeft(r2.stack)),
           NEW f1 \in Nat, f1 = Cardinality(Objects \ r1.visited),
           NEW f2 \in Nat, f2 = Cardinality(Objects \ r2.visited),
           \/ r2.todo = r1.todo /\ l2 + c2 < l1 + c1 /\ f2 <= f1
           \/ r2.todo = r1.todo /\ l2 + c2 <= l1 + c1 + n /\ f2 < f1
           \/ \E g \in r1.todo : r2.todo = r1.todo \ {g} /\ l2 + c2 <= 2
    PROVE  Weight(r2) < Weight(r1)
<1> DEFINE s1 == Cardinality(r1.todo)
           s2 == Cardinality(r2.todo)
<1>1. s1 \in Nat /\ s2 \in Nat /\ IsFiniteSet(r1.todo)
  BY PartsAreNumbers
<1>2. Weight(r1) = Weigh(l1, c1, f1, s1) /\ Weight(r2) = Weigh(l2, c2, f2, s2)
  BY DEF Weight
<1>3. CASE r2.todo = r1.todo
  <2>1. s2 = s1
    BY <1>3
  <2>2. ~\E g \in r1.todo : r2.todo = r1.todo \ {g}
    BY <1>3
  <2> HIDE DEF s1, s2
  <2>3. \/ l2 + c2 < l1 + c1 /\ f2 <= f1
        \/ l2 + c2 <= l1 + c1 + Cardinality(Objects) /\ f2 < f1
    BY <1>3, <2>2
  <2>4. Weigh(l2, c2, f2, s1) < Weigh(l1, c1, f1, s1)
    BY <1>1, <2>3, WeighBigger
  <2>5. QED
    BY <1>2, <2>1, <2>4
<1>4. ASSUME NEW g \in r1.todo, r2.todo = r1.todo \ {g}, l2 + c2 <= 2
      PROVE  Weight(r2) < Weight(r1)
  <2>1. s1 = s2 + 1
    <3>1. Cardinality(r1.todo \ {g}) = Cardinality(r1.todo) - 1
      BY <1>1, <1>4, FS_RemoveElement
    <3>2. s2 = s1 - 1
      BY <1>4, <3>1
    <3> HIDE DEF s1, s2
    <3>3. QED
      BY <1>1, <3>2
  <2>2. f2 <= n
    <3>1. IsFiniteSet(Objects) /\ Objects \ r2.visited \in SUBSET Objects
      BY FiniteAssumption
    <3>2. QED
      BY <3>1, FS_Subset
  <2> HIDE DEF s1, s2
  <2>3. Weigh(l2, c2, f2, s2) < Weigh(l1, c1, f1, s2 + 1)
    BY <1>1, <1>4, <2>2, WeighBigger
  <2>4. QED
    BY <1>2, <2>1, <2>3
<1>5. QED
  BY <1>3, <1>4

LEMMA WeightPositive == ASSUME NEW removal \in Unlinks PROVE Weight(removal) > 0
<1>1. /\ Len(removal.stack) \in Nat /\ Cardinality(CallsLeft(removal.stack)) \in Nat
      /\ Cardinality(Objects \ removal.visited) \in Nat /\ Cardinality(removal.todo) \in Nat
  BY PartsAreNumbers
<1>2. Weight(removal) \in Nat \ {0}
  BY <1>1, WeighBigger DEF Weight
<1>3. QED
  BY <1>2

\* A call of uninherit_share that returns early uses up a call that was left.
LEMMA SkipLighter ==
    ASSUME IInv, NEW o \in Objects, Skip(o)
    PROVE  unlink' \in Unlinks /\ Weight(unlink') < Weight(unlink)
<1>0. PICK n : n = Len(unlink.stack)
  OBVIOUS
<1>1. /\ unlink \in Unlinks /\ unlink # Idle /\ unlink.stack # <<>> /\ o \in Top.pending
      /\ unlink'.stack = Taken(o) /\ unlink'.visited = unlink.visited \cup {o}
      /\ unlink'.todo = unlink.todo
  BY DEF IInv, TypeOK, Skip, Unlinks
<1>2. /\ n \in Nat \ {0} /\ Len(unlink'.stack) = n /\ unlink'.stack \in Seq(Frames)
      /\ unlink.stack \in Seq(Frames)
      /\ DOMAIN unlink'.stack = 1..n /\ DOMAIN unlink.stack = 1..n
      /\ \A i \in 1..n : unlink'.stack[i].pending \subseteq unlink.stack[i].pending
      /\ unlink'.stack[n].pending = unlink.stack[n].pending \ {o}
  BY <1>0, <1>1, TakenProperties, TakenPending DEF Top, Unlinks
<1>3. unlink' \in Unlinks
  BY <1>1, UninheritType DEF IInv, TypeOK
<1> DEFINE A == CallsLeft(unlink.stack)
           B == CallsLeft(unlink'.stack)
<1>4. <<n, o>> \in A
  BY <1>0, <1>1, <1>2 DEF CallsLeft, Top
<1>5. B \subseteq A \ {<<n, o>>}
  <2> SUFFICES ASSUME NEW i \in 1..n, NEW x \in Objects, x \in unlink'.stack[i].pending
               PROVE  <<i, x>> \in A \ {<<n, o>>}
    BY <1>2 DEF CallsLeft
  <2>1. x \in unlink.stack[i].pending /\ (i = n => x # o)
    BY <1>2
  <2>2. QED
    BY <1>2, <2>1 DEF CallsLeft
<1>6. IsFiniteSet(A) /\ Cardinality(A) \in Nat /\ Cardinality(B) \in Nat
  BY <1>2, CallsLeftFinite
<1> HIDE DEF A, B
<1>7. IsFiniteSet(A \ {<<n, o>>}) /\ Cardinality(A \ {<<n, o>>}) = Cardinality(A) - 1
  BY <1>4, <1>6, FS_RemoveElement
<1>8. Cardinality(B) <= Cardinality(A \ {<<n, o>>})
  BY <1>5, <1>7, FS_Subset
<1>9. Cardinality(B) < Cardinality(A)
  BY <1>6, <1>7, <1>8
<1>10. /\ IsFiniteSet(Objects \ unlink.visited) /\ Cardinality(Objects \ unlink.visited) \in Nat
       /\ Cardinality(Objects \ unlink'.visited) \in Nat
  BY <1>1, <1>3, PartsAreNumbers
<1>11. Objects \ unlink'.visited \in SUBSET (Objects \ unlink.visited)
  BY <1>1
<1>12. Cardinality(Objects \ unlink'.visited) <= Cardinality(Objects \ unlink.visited)
  BY <1>10, <1>11, FS_Subset
<1>13. Cardinality(Objects) \in Nat
  BY FiniteAssumption, FS_CardinalityType
<1>14. n + Cardinality(B) < n + Cardinality(A)
  BY <1>2, <1>6, <1>9
<1>15. QED
  BY <1>0, <1>1, <1>2, <1>3, <1>6, <1>10, <1>12, <1>13, <1>14, Lighter DEF A, B

\* A call that goes on marks its object visited, which pays for the calls it adds.
LEMMA DescendLighter ==
    ASSUME IInv, NEW o \in Objects, Descend(o)
    PROVE  unlink' \in Unlinks /\ Weight(unlink') < Weight(unlink)
<1>0. PICK n : n = Len(unlink.stack)
  OBVIOUS
<1>1. unlink \in Unlinks /\ unlink # Idle /\ unlink.stack # <<>> /\ o \in Top.pending /\ o \notin unlink.visited
  BY DEF IInv, TypeOK, Descend, Untouched
<1>2. PICK d : unlink' = [unlink EXCEPT !.stack = Append(Taken(o), Frame(o, d, Children(relation, o))),
                                        !.visited = @ \cup {o}]
  BY DEF Descend
<1> DEFINE f == Frame(o, d, Children(relation, o))
<1>3. /\ unlink'.stack = Append(Taken(o), f) /\ unlink'.visited = unlink.visited \cup {o}
      /\ unlink'.todo = unlink.todo
  BY <1>1, <1>2 DEF Unlinks
<1> HIDE DEF f
<1>4. unlink' \in Unlinks
  BY UninheritType DEF IInv, TypeOK
<1>5. /\ n \in Nat \ {0} /\ Len(Taken(o)) = n /\ Taken(o) \in Seq(Frames)
      /\ unlink.stack \in Seq(Frames) /\ DOMAIN unlink.stack = 1..n
      /\ \A i \in 1..n : Taken(o)[i].pending \subseteq unlink.stack[i].pending
      /\ Taken(o)[n].pending = unlink.stack[n].pending \ {o}
  BY <1>0, <1>1, TakenProperties, TakenPending DEF Top, Unlinks
<1>6. /\ Len(unlink'.stack) = n + 1 /\ DOMAIN unlink'.stack = 1..(n + 1)
      /\ unlink'.stack \in Seq(Frames)
      /\ \A i \in 1..n : unlink'.stack[i].pending \subseteq unlink.stack[i].pending
      /\ unlink'.stack[n].pending = unlink.stack[n].pending \ {o}
  <2>1. unlink'.stack \in Seq(Frames)
    BY <1>4 DEF Unlinks
  <2>2. Len(unlink'.stack) = n + 1 /\ \A i \in 1..n : unlink'.stack[i] = Taken(o)[i]
    BY <1>3, <1>5
  <2>3. QED
    BY <1>5, <2>1, <2>2
<1> DEFINE A == CallsLeft(unlink.stack)
           B == CallsLeft(unlink'.stack)
           new == {n + 1} \X Objects
<1>7. <<n, o>> \in A
  BY <1>0, <1>1, <1>5 DEF CallsLeft, Top
<1>8. B \subseteq (A \ {<<n, o>>}) \cup new
  <2> SUFFICES ASSUME NEW i \in 1..(n + 1), NEW x \in Objects, x \in unlink'.stack[i].pending
               PROVE  <<i, x>> \in (A \ {<<n, o>>}) \cup new
    BY <1>6 DEF CallsLeft
  <2>1. CASE i = n + 1
    BY <2>1
  <2>2. CASE i # n + 1
    <3>1. i \in 1..n
      BY <1>5, <2>2
    <3>2. x \in unlink.stack[i].pending /\ (i = n => x # o)
      BY <1>6, <3>1
    <3>3. QED
      BY <1>5, <3>1, <3>2 DEF CallsLeft
  <2>3. QED
    BY <2>1, <2>2
<1>9. IsFiniteSet(A) /\ Cardinality(A) \in Nat /\ Cardinality(B) \in Nat
  BY <1>5, <1>6, CallsLeftFinite
<1>10. Cardinality(Objects) \in Nat
  BY FiniteAssumption, FS_CardinalityType
<1>11. IsFiniteSet(new) /\ Cardinality(new) = Cardinality(Objects)
  <2>1. IsFiniteSet({n + 1}) /\ Cardinality({n + 1}) = 1
    BY FS_Singleton
  <2>2. IsFiniteSet(new) /\ Cardinality(new) = 1 * Cardinality(Objects)
    BY <2>1, FiniteAssumption, FS_Product
  <2>3. QED
    BY <1>10, <2>2
<1> HIDE DEF A, B, new
<1>12. IsFiniteSet(A \ {<<n, o>>}) /\ Cardinality(A \ {<<n, o>>}) = Cardinality(A) - 1
  BY <1>7, <1>9, FS_RemoveElement
<1>13. Cardinality(B) <= Cardinality(A) - 1 + Cardinality(Objects)
  <2> DEFINE U == (A \ {<<n, o>>}) \cup new
             I == (A \ {<<n, o>>}) \cap new
  <2>1. /\ IsFiniteSet(U)
        /\ Cardinality(U) = Cardinality(A \ {<<n, o>>}) + Cardinality(new) - Cardinality(I)
    BY <1>11, <1>12, FS_Union
  <2>2. Cardinality(I) \in Nat
    BY <1>12, FS_Intersection, FS_CardinalityType
  <2>3. Cardinality(B) <= Cardinality(U)
    BY <1>8, <2>1, FS_Subset
  <2> HIDE DEF U, I
  <2>4. QED
    BY <1>9, <1>10, <1>11, <1>12, <2>1, <2>2, <2>3
<1>14. /\ IsFiniteSet(Objects \ unlink.visited) /\ Cardinality(Objects \ unlink.visited) \in Nat
       /\ Cardinality(Objects \ unlink'.visited) \in Nat
  BY <1>1, <1>4, PartsAreNumbers
<1>15. Cardinality(Objects \ unlink'.visited) < Cardinality(Objects \ unlink.visited)
  <2>1. Objects \ unlink'.visited = (Objects \ unlink.visited) \ {o}
    BY <1>3
  <2>2. o \in Objects \ unlink.visited
    BY <1>1
  <2>3. Cardinality(Objects \ unlink'.visited) = Cardinality(Objects \ unlink.visited) - 1
    BY <1>14, <2>1, <2>2, FS_RemoveElement
  <2>4. QED
    BY <1>14, <2>3
<1>16. n + 1 + Cardinality(B) <= n + Cardinality(A) + Cardinality(Objects)
  BY <1>5, <1>9, <1>10, <1>13
<1>17. Len(unlink.stack) \in Nat /\ Len(unlink'.stack) \in Nat
  BY <1>0, <1>5, <1>6
<1>18. Len(unlink'.stack) + Cardinality(B) <= Len(unlink.stack) + Cardinality(A) + Cardinality(Objects)
  BY <1>0, <1>6, <1>16
<1>19. Weight(unlink') < Weight(unlink)
  BY <1>1, <1>3, <1>4, <1>9, <1>10, <1>14, <1>15, <1>17, <1>18, Lighter DEF A, B
<1>20. QED
  BY <1>4, <1>19

\* The next share of the parent pays for visiting every object again.
LEMMA NextShareLighter ==
    ASSUME IInv, NextShare
    PROVE  unlink' \in Unlinks /\ Weight(unlink') < Weight(unlink)
<1> DEFINE f == Frame(unlink.parent, NoGrant, {unlink.child})
<1>1. unlink \in Unlinks /\ unlink' \in Unlinks
  BY UninheritType DEF IInv, TypeOK, NextShare
<1>2. PICK g \in unlink.todo :
         unlink' = [unlink EXCEPT !.todo = @ \ {g}, !.group = g, !.visited = {}, !.stack = <<f>>]
  BY DEF NextShare
<1>3. unlink'.todo = unlink.todo \ {g} /\ unlink'.stack = <<f>>
  BY <1>1, <1>2 DEF Unlinks
<1>4. f.pending = {unlink.child}
  BY DEF Frame
<1> HIDE DEF f
<1>5. Len(unlink'.stack) = 1 /\ DOMAIN unlink'.stack = {1} /\ unlink'.stack[1].pending = {unlink.child}
  BY <1>3, <1>4
<1>6. CallsLeft(unlink'.stack) \subseteq {<<1, unlink.child>>}
  BY <1>5 DEF CallsLeft
<1>7. Cardinality(CallsLeft(unlink'.stack)) <= 1
  <2>1. IsFiniteSet({<<1, unlink.child>>}) /\ Cardinality({<<1, unlink.child>>}) = 1
    BY FS_Singleton
  <2>2. QED
    BY <1>6, <2>1, FS_Subset
<1>8. /\ Len(unlink.stack) \in Nat /\ Len(unlink'.stack) \in Nat
      /\ Cardinality(CallsLeft(unlink.stack)) \in Nat /\ Cardinality(CallsLeft(unlink'.stack)) \in Nat
      /\ Cardinality(Objects \ unlink.visited) \in Nat /\ Cardinality(Objects \ unlink'.visited) \in Nat
  BY <1>1, PartsAreNumbers
<1>9. Cardinality(Objects) \in Nat
  BY FiniteAssumption, FS_CardinalityType
<1>10. Len(unlink'.stack) + Cardinality(CallsLeft(unlink'.stack)) <= 2
  BY <1>5, <1>7, <1>8
<1>11. \E h \in unlink.todo : /\ unlink'.todo = unlink.todo \ {h}
                             /\ Len(unlink'.stack) + Cardinality(CallsLeft(unlink'.stack)) <= 2
  BY <1>2, <1>3, <1>10
<1>12. Weight(unlink') < Weight(unlink)
  BY <1>1, <1>8, <1>9, <1>11, Lighter
<1>13. QED
  BY <1>1, <1>12

\* A call that returns uses up itself.
LEMMA ReturnLighter ==
    ASSUME IInv, Return \/ ShareDone
    PROVE  unlink' \in Unlinks /\ Weight(unlink') < Weight(unlink)
<1>1. /\ unlink \in Unlinks /\ unlink' \in Unlinks
      /\ unlink'.todo = unlink.todo /\ unlink'.visited = unlink.visited
  BY UninheritType DEF IInv, TypeOK, Return, ShareDone, Unlinks
<1>2. PICK n : n = Len(unlink.stack)
  OBVIOUS
<1>3. /\ unlink.stack \in Seq(Frames) /\ n \in Nat /\ DOMAIN unlink.stack = 1..n
  BY <1>1, <1>2 DEF Unlinks
<1>4. /\ Len(unlink'.stack) = n - 1 /\ DOMAIN unlink'.stack = 1..(n - 1) /\ n \in Nat \ {0}
      /\ \A i \in 1..(n - 1) : unlink'.stack[i] = unlink.stack[i]
  <2>1. CASE Return
    <3>1. n > 1 /\ unlink'.stack = SubSeq(unlink.stack, 1, n - 1)
      BY <1>1, <1>2, <2>1 DEF Return, Unlinks
    <3>2. /\ unlink'.stack \in Seq(Frames) /\ Len(unlink'.stack) = n - 1
          /\ \A i \in 1..(n - 1) : unlink'.stack[i] = unlink.stack[i]
      BY <1>2, <1>3, <3>1, FrontProperties
    <3>3. QED
      BY <1>3, <3>1, <3>2
  <2>2. CASE ShareDone
    <3>1. n = 1 /\ unlink'.stack = <<>>
      BY <1>1, <1>2, <2>2 DEF ShareDone, Unlinks
    <3>2. Len(unlink'.stack) = 0 /\ DOMAIN unlink'.stack = 1..0
      BY <3>1
    <3>3. QED
      BY <3>1, <3>2
  <2>3. QED
    BY <2>1, <2>2
<1> DEFINE A == CallsLeft(unlink.stack)
           B == CallsLeft(unlink'.stack)
<1>5. B \subseteq A
  BY <1>3, <1>4 DEF CallsLeft
<1>6. IsFiniteSet(A)
  BY <1>3, CallsLeftFinite
<1>7. Cardinality(B) <= Cardinality(A)
  BY <1>5, <1>6, FS_Subset
<1>8. /\ Len(unlink.stack) \in Nat /\ Len(unlink'.stack) \in Nat
      /\ Cardinality(A) \in Nat /\ Cardinality(B) \in Nat
      /\ Cardinality(Objects \ unlink.visited) \in Nat
  BY <1>1, PartsAreNumbers
<1>9. Cardinality(Objects) \in Nat
  BY FiniteAssumption, FS_CardinalityType
<1> HIDE DEF A, B
<1>10. Len(unlink'.stack) + Cardinality(B) < Len(unlink.stack) + Cardinality(A)
  BY <1>2, <1>3, <1>4, <1>7, <1>8
<1>11. /\ Cardinality(Objects \ unlink'.visited) \in Nat
       /\ Cardinality(Objects \ unlink'.visited) <= Cardinality(Objects \ unlink.visited)
  BY <1>1, <1>8
<1>12. Weight(unlink') < Weight(unlink)
  BY <1>1, <1>8, <1>9, <1>10, <1>11, Lighter DEF A, B
<1>13. QED
  BY <1>1, <1>12

\* remove_parent ends after a bounded number of steps, over any finite graph, cycles too:
\* what keeps uninherit_share from calling itself for ever is its set of visited objects.
THEOREM UnlinkProgressCorrect == Spec => UnlinkProgress
<1> DEFINE Progress == unlink # Idle => Cost(unlink') < Cost(unlink)
<1>1. IInv /\ [Next]_vars => [Progress]_vars
  <2> SUFFICES ASSUME IInv, Next, unlink # Idle PROVE Cost(unlink') < Cost(unlink)
    BY DEF vars
  <2>1. Uninherit
    BY DEF Next, Upload, Share, Query, AddParent, DeleteObject, RemoveParent
  <2>2. unlink \in Unlinks /\ Weight(unlink) > 0
    BY WeightPositive DEF IInv, TypeOK
  <2>3. CASE Commit
    BY <2>2, <2>3, CostIsWeight DEF Commit
  <2>4. CASE ~Commit
    <3>1. Weight(unlink') < Weight(unlink)
      BY <2>1, <2>4, NextShareLighter, SkipLighter, DescendLighter, ReturnLighter DEF Uninherit
    <3>2. QED
      BY <2>2, <3>1, CostIsWeight
  <2>5. QED
    BY <2>3, <2>4
<1> HIDE DEF Progress
<1>2. Spec => [][Progress]_vars
  BY InvCorrect, <1>1, PTL DEF Spec
<1>3. QED
  BY <1>2 DEF UnlinkProgress, Progress
=============================================================================
