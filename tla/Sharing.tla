------------------------------ MODULE Sharing ------------------------------
(***************************************************************************)
(* Object access control of mwdb-core: mwdb/model/object.py and            *)
(* mwdb/model/object_permission.py with the handlers that drive them       *)
(* (mwdb/resources/object.py, share.py, relations.py, __init__.py).        *)
(*                                                                         *)
(* A group reaches an object through a row of the "permission" table.      *)
(* Rows are handed to descendants when an access is given or a relation is *)
(* added, and taken back when a relation is removed.  Requests run one at  *)
(* a time here (SharingTxn interleaves them); the recursive revocation of  *)
(* remove_parent is modelled call by call, on the transaction's own copy   *)
(* of the table, with an explicit stack.                                   *)
(*                                                                         *)
(* Object.access commits the rows it creates for users with                *)
(* share_queried_objects before the handler goes on, so a request by such  *)
(* a user is the action Query followed by the action of the handler.       *)
(***************************************************************************)
EXTENDS Integers, Sequences, FiniteSets

CONSTANTS
    Objects,    \* identifiers (dhash) of files, configs and blobs
    Users,
    Groups,
    Private,    \* the private group of every user
    Workspaces, \* groups with Group.workspace set
    MemberOf,   \* the groups of every user
    GroupCaps,  \* the capabilities of every group
    NoObject,   \* no parent given; the NULL of related_object_id
    NoGrant,    \* no row in the permission table
    Idle        \* no remove_parent in progress

Reasons == {"added", "shared", "queried"}
Grants == [reason : Reasons, origin : Objects \cup {NoObject}]
PermTables == [Objects \X Groups -> Grants \cup {NoGrant}]

ASSUME GroupsAssumption ==
    /\ Private \in [Users -> Groups]
    /\ MemberOf \in [Users -> SUBSET Groups]
    /\ \A u \in Users : Private[u] \in MemberOf[u]

ASSUME NoValuesAssumption == NoGrant \notin Grants /\ NoObject \notin Objects

ASSUME FiniteAssumption == IsFiniteSet(Objects) /\ IsFiniteSet(Groups)

VARIABLES
    objects,   \* rows of the object table
    relation,  \* <<parent, child>> rows of the relation table
    perm,      \* the permission table
    unlink,    \* the remove_parent in progress, or Idle
    uploads,   \* history: <<user, object>> of every completed upload
    tidy       \* history: nothing was deleted, and no remove_parent met an object with two
               \* parents or a cycle

vars == <<objects, relation, perm, unlink, uploads, tidy>>

-----------------------------------------------------------------------------
(* Tables *)

Parents(rel, o) == {p \in Objects : <<p, o>> \in rel}
Children(rel, o) == {c \in Objects : <<o, c>> \in rel}

Holds(prm, o, g) == prm[o, g] # NoGrant

HasRights(u, cap) == \E g \in MemberOf[u] : cap \in GroupCaps[g]

\* Object.has_explicit_access
HasExplicitAccess(u, o) ==
    \/ HasRights(u, "access_all_objects")
    \/ \E g \in MemberOf[u] : Holds(perm, o, g)

\* Object.access as the handlers use it, once Query has run for those who may.
CanAccess(u, o) == o \in objects /\ HasExplicitAccess(u, o)

-----------------------------------------------------------------------------
(* Giving access *)

\* S is closed under the propagation of give_access for group g from o: it holds o
\* and the children of its members that have no row for g yet.
SpreadClosed(prm, rel, o, g, S) ==
    /\ o \in S
    /\ \A x \in S : \A c \in Children(rel, x) : Holds(prm, c, g) \/ c \in S

\* The objects for which give_access(g) called on o creates a row: none when o has
\* one, else the least set that the breadth-first loop closes.
Spread(prm, rel, o, g) ==
    IF Holds(prm, o, g)
    THEN {}
    ELSE {x \in Objects :
            \A S \in SUBSET Objects : SpreadClosed(prm, rel, o, g, S) => x \in S}

\* give_access on o for every group with an offer; a row that exists is left alone.
GiveAccess(prm, rel, o, offer) ==
    [og \in Objects \X Groups |->
        IF offer[og[2]] # NoGrant /\ og[1] \in Spread(prm, rel, o, og[2])
        THEN offer[og[2]]
        ELSE prm[og]]

OfferTo(S, grant(_)) == [g \in Groups |-> IF g \in S THEN grant(g) ELSE NoGrant]

\* The permission table after add_parent: the child inherits the rows of the parent.
Inherit(prm, rel, p, c) ==
    IF <<p, c>> \in rel
    THEN prm
    ELSE GiveAccess(prm, rel \cup {<<p, c>>}, c, [g \in Groups |-> prm[p, g]])

-----------------------------------------------------------------------------
(* Requests *)

Init ==
    /\ objects = {}
    /\ relation = {}
    /\ perm = [og \in Objects \X Groups |-> NoGrant]
    /\ unlink = Idle
    /\ uploads = {}
    /\ tidy = TRUE

\* get_shares_for_upload: the groups an upload may be shared with.
SharesForUpload(u) ==
    {MemberOf[u] \cap Workspaces, {Private[u]}}
        \cup {{g, Private[u]} :
                g \in {h \in Groups : h \in MemberOf[u] \/ HasRights(u, "sharing_with_all")}}

\* An upload of a new or an existing object, with an optional parent.
Upload(u, o, shareWith, p) ==
    /\ unlink = Idle
    /\ shareWith \in SharesForUpload(u)
    /\ p # NoObject => HasRights(u, "adding_parents") /\ CanAccess(u, p)
    /\ objects' = objects \cup {o}
    /\ LET Own(g) == [reason |-> IF g = Private[u] THEN "added" ELSE "shared", origin |-> o]
           shared == GiveAccess(perm, relation, o, OfferTo(shareWith, Own))
       IN  IF p = NoObject
           THEN perm' = shared /\ UNCHANGED relation
           ELSE /\ perm' = Inherit(shared, relation, p, o)
                /\ relation' = relation \cup {<<p, o>>}
    /\ uploads' = uploads \cup {<<u, o>>}
    /\ UNCHANGED <<unlink, tidy>>

\* ShareResource.put
Share(u, o, g) ==
    /\ unlink = Idle
    /\ CanAccess(u, o)
    /\ g \in MemberOf[u] \/ HasRights(u, "sharing_with_all")
    /\ g # Private[u]
    /\ LET Own(h) == [reason |-> "shared", origin |-> o]
       IN  perm' = GiveAccess(perm, relation, o, OfferTo({g}, Own))
    /\ UNCHANGED <<objects, relation, unlink, uploads, tidy>>

\* Object.access by a user without explicit access: his groups with
\* share_queried_objects get one.
Query(u, o) ==
    /\ unlink = Idle
    /\ o \in objects
    /\ ~HasExplicitAccess(u, o)
    /\ HasRights(u, "share_queried_objects")
    /\ LET Own(g) == [reason |-> "queried", origin |-> o]
           shareQueriedGroups == {g \in MemberOf[u] : "share_queried_objects" \in GroupCaps[g]}
       IN  perm' = GiveAccess(perm, relation, o, OfferTo(shareQueriedGroups, Own))
    /\ UNCHANGED <<objects, relation, unlink, uploads, tidy>>

\* ObjectChildResource.put
AddParent(u, p, c) ==
    /\ unlink = Idle
    /\ HasRights(u, "adding_parents")
    /\ CanAccess(u, p)
    /\ CanAccess(u, c)
    /\ perm' = Inherit(perm, relation, p, c)
    /\ relation' = relation \cup {<<p, c>>}
    /\ UNCHANGED <<objects, unlink, uploads, tidy>>

\* Fault: related_object_id keeps pointing at a deleted object.
ForgetNoSetNull(o) == [og \in Objects \X Groups |-> IF og[1] = o THEN NoGrant ELSE perm[og]]

\* The foreign keys on object.id: the rows of o go, and the rows that name it as their
\* origin forget it.
Forget(o) ==
    [og \in Objects \X Groups |->
        IF og[1] = o THEN NoGrant
        ELSE IF perm[og] # NoGrant /\ perm[og].origin = o
             THEN [perm[og] EXCEPT !.origin = NoObject]
             ELSE perm[og]]

\* Fault: the relation table keeps rows of a deleted object as a child.
RelationsWithoutParent(o) == {r \in relation : r[1] # o}
RelationsWithout(o) == {r \in relation : r[1] # o /\ r[2] # o}

\* ObjectItemResource.delete
DeleteObject(u, o) ==
    /\ unlink = Idle
    /\ HasRights(u, "removing_objects")
    /\ CanAccess(u, o)
    /\ objects' = objects \ {o}
    /\ relation' = RelationsWithout(o)
    /\ perm' = Forget(o)
    /\ uploads' = {up \in uploads : up[2] # o}
    /\ tidy' = FALSE
    /\ UNCHANGED unlink

-----------------------------------------------------------------------------
(* Removing a parent: Object.remove_parent and Object.uninherit_share.         *)
(* unlink.draft is the permission table as the transaction sees it.  A frame of *)
(* the stack is a call of uninherit_share that is going through its children:  *)
(* the object, the devisor it found (NoGrant: the row will be deleted) and the *)
(* children still to visit.  The bottom frame stands for remove_parent itself. *)

Frames == [obj : Objects, devisor : Grants \cup {NoGrant}, pending : SUBSET Objects]

Unlinks ==
    [parent : Objects, child : Objects, todo : SUBSET Groups, group : Groups,
     draft : PermTables, stack : Seq(Frames), visited : SUBSET Objects]

Above(rel, o) == {a \in Objects :
    \A S \in SUBSET Objects : (o \in S /\ \A x \in S : Parents(rel, x) \subseteq S) => a \in S}

Forest(rel) ==
    /\ \A o \in Objects : \A p, q \in Parents(rel, o) : p = q
    /\ \A r \in rel : r[2] \notin Above(rel, r[1])

Top == unlink.stack[Len(unlink.stack)]

Frame(o, d, children) == [obj |-> o, devisor |-> d, pending |-> children]

\* Fault: only the reasons are compared.
InheritsAnyOrigin(share, originShare) == share.reason = originShare.reason

\* ObjectPermission.inherits: the same related_object_id and the same reason_type, which
\* is all that a grant keeps of a row.
Inherits(share, originShare) == share = originShare

\* ObjectChildResource.delete up to the loop over parent.shares.
RemoveParent(u, p, c) ==
    /\ unlink = Idle
    /\ HasRights(u, "removing_parents")
    /\ CanAccess(u, p)
    /\ CanAccess(u, c)
    /\ <<p, c>> \in relation
    /\ unlink' = [parent |-> p, child |-> c,
                  todo |-> IF p = c THEN {} ELSE {g \in Groups : Holds(perm, p, g)},
                  group |-> Private[u], draft |-> perm, stack |-> <<>>, visited |-> {}]
    /\ tidy' = (tidy /\ Forest(relation))
    /\ UNCHANGED <<objects, relation, perm, uploads>>

\* Fault: the default of visited is shared by all calls.
NextShareKeepVisited ==
    /\ unlink # Idle
    /\ unlink.stack = <<>>
    /\ \E g \in unlink.todo :
         unlink' = [unlink EXCEPT !.todo = @ \ {g}, !.group = g,
                                  !.stack = <<Frame(unlink.parent, NoGrant, {unlink.child})>>]
    /\ UNCHANGED <<objects, relation, perm, uploads, tidy>>

\* Fault: all children of the parent are visited.
NextShareAllChildren ==
    /\ unlink # Idle
    /\ unlink.stack = <<>>
    /\ \E g \in unlink.todo :
         unlink' = [unlink EXCEPT
                      !.todo = @ \ {g}, !.group = g, !.visited = {},
                      !.stack = <<Frame(unlink.parent, NoGrant, Children(relation, unlink.parent))>>]
    /\ UNCHANGED <<objects, relation, perm, uploads, tidy>>

\* Fault: the shares of the parent are read again after every call.
NextShareReread ==
    /\ unlink # Idle
    /\ unlink.stack = <<>>
    /\ \E g \in unlink.todo :
         unlink' = [unlink EXCEPT !.group = g, !.visited = {},
                                  !.stack = <<Frame(unlink.parent, NoGrant, {unlink.child})>>]
    /\ UNCHANGED <<objects, relation, perm, uploads, tidy>>

\* The next share of the parent: self.uninherit_share(share).
NextShare ==
    /\ unlink # Idle
    /\ unlink.stack = <<>>
    /\ \E g \in unlink.todo :
         unlink' = [unlink EXCEPT !.todo = @ \ {g}, !.group = g, !.visited = {},
                                  !.stack = <<Frame(unlink.parent, NoGrant, {unlink.child})>>]
    /\ UNCHANGED <<objects, relation, perm, uploads, tidy>>

\* Fault: no other parent is looked at.
NoOtherDevisors(o) == {}

\* The rows through which _find_another_devisor could hand the share of Top to o.
OtherDevisors(o) ==
    {p \in Parents(relation, o) \ {Top.obj} : Holds(unlink.draft, p, unlink.group)}

\* The row that the caller passes down.
ShareToRemove == unlink.draft[Top.obj, unlink.group]

\* _find_another_devisor: another parent gives the same share, or which it may return.
SameShareElsewhere(o) ==
    \E p \in OtherDevisors(o) : Inherits(unlink.draft[p, unlink.group], ShareToRemove)
Devisors(o) ==
    IF OtherDevisors(o) = {}
    THEN {NoGrant}
    ELSE {unlink.draft[p, unlink.group] : p \in OtherDevisors(o)}

\* Fault: nothing breaks the cycles.
UntouchedByShare(o) ==
    \/ ~Holds(unlink.draft, o, unlink.group)
    \/ ~Inherits(unlink.draft[o, unlink.group], ShareToRemove)
    \/ Top.devisor = NoGrant /\ SameShareElsewhere(o)

\* uninherit_share has nothing to change for o.
Untouched(o) ==
    \/ o \in unlink.visited
    \/ ~Holds(unlink.draft, o, unlink.group)
    \/ ~Inherits(unlink.draft[o, unlink.group], ShareToRemove)
    \/ Top.devisor = NoGrant /\ SameShareElsewhere(o)

\* The stack once the loop over the children of Top has taken o.
Taken(o) == [unlink.stack EXCEPT ![Len(unlink.stack)].pending = @ \ {o}]

\* A call of uninherit_share that returns early.
Skip(o) ==
    /\ unlink # Idle
    /\ unlink.stack # <<>>
    /\ o \in Top.pending
    /\ Untouched(o)
    /\ unlink' = [unlink EXCEPT !.stack = Taken(o), !.visited = @ \cup {o}]
    /\ UNCHANGED <<objects, relation, perm, uploads, tidy>>

\* A call of uninherit_share that goes on to the children of o.  The devisor given by
\* the caller wins; else it is one of the other parents' (relation.creation_time,
\* left open here, chooses which).
Descend(o) ==
    /\ unlink # Idle
    /\ unlink.stack # <<>>
    /\ o \in Top.pending
    /\ ~Untouched(o)
    /\ \E d \in IF Top.devisor = NoGrant THEN Devisors(o) ELSE {Top.devisor} :
         unlink' = [unlink EXCEPT !.stack = Append(Taken(o), Frame(o, d, Children(relation, o))),
                                  !.visited = @ \cup {o}]
    /\ UNCHANGED <<objects, relation, perm, uploads, tidy>>

\* The end of a call of uninherit_share: delete the row or make it inherited from the
\* devisor, and return to the caller.
Return ==
    /\ unlink # Idle
    /\ Len(unlink.stack) > 1
    /\ Top.pending = {}
    /\ unlink' = [unlink EXCEPT !.draft = [@ EXCEPT ![<<Top.obj, unlink.group>>] = Top.devisor],
                                !.stack = SubSeq(@, 1, Len(@) - 1)]
    /\ UNCHANGED <<objects, relation, perm, uploads, tidy>>

\* The end of one iteration over parent.shares.
ShareDone ==
    /\ unlink # Idle
    /\ Len(unlink.stack) = 1
    /\ Top.pending = {}
    /\ unlink' = [unlink EXCEPT !.stack = <<>>]
    /\ UNCHANGED <<objects, relation, perm, uploads, tidy>>

\* The relation is deleted and the transaction commits.
Commit ==
    /\ unlink # Idle
    /\ unlink.stack = <<>>
    /\ unlink.todo = {}
    /\ relation' = relation \ {<<unlink.parent, unlink.child>>}
    /\ perm' = unlink.draft
    /\ unlink' = Idle
    /\ UNCHANGED <<objects, uploads, tidy>>

-----------------------------------------------------------------------------
Uninherit ==
    \/ NextShare
    \/ \E o \in Objects : Skip(o) \/ Descend(o)
    \/ Return
    \/ ShareDone
    \/ Commit

Next ==
    \/ \E u \in Users, o \in Objects, p \in objects \cup {NoObject} :
         \E shareWith \in SharesForUpload(u) : Upload(u, o, shareWith, p)
    \/ \E u \in Users, o \in Objects, g \in Groups : Share(u, o, g)
    \/ \E u \in Users, o \in Objects : Query(u, o)
    \/ \E u \in Users, p, c \in Objects : AddParent(u, p, c)
    \/ \E u \in Users, o \in Objects : DeleteObject(u, o)
    \/ \E u \in Users, p, c \in Objects : RemoveParent(u, p, c)
    \/ Uninherit

Spec == Init /\ [][Next]_vars

-----------------------------------------------------------------------------
(* Properties *)

TypeOK ==
    /\ objects \subseteq Objects
    /\ relation \subseteq objects \X objects
    /\ perm \in PermTables
    /\ unlink \in Unlinks \cup {Idle}
    /\ uploads \subseteq Users \X objects
    /\ tidy \in BOOLEAN

\* Access to a parent implies access to its children (docs/user-guide/9-Sharing-objects.rst):
\* add_parent, give_access, uninherit_share and the cascades of a deletion leave no
\* relation whose parent has a row that its child lacks.
Closed(prm, rel) ==
    \A p, c \in Objects : <<p, c>> \in rel =>
        \A g \in Groups : Holds(prm, p, g) => Holds(prm, c, g)

ParentsImplyChildren == Closed(perm, relation)

\* Who may have been told to hold something, in the words of the sharing model: the
\* origin of a row is the object itself or an ancestor, and the group still holds the
\* origin by that very row.
Justified(o, g) ==
    LET grant == perm[o, g]
    IN  (grant # NoGrant /\ grant.origin # NoObject)
            => /\ grant.origin \in Above(relation, o)
               /\ perm[grant.origin, g] = grant

\* Every row an object has comes from an upload, share or query of that object or of an
\* ancestor (the sharing model: "group sees only their own uploads and all descendant
\* objects").
OnlyUploadsAndDescendants == unlink = Idle => \A o \in objects, g \in Groups : Justified(o, g)

\* The same, as long as relations were only removed from a forest.
TidyJustified == tidy => OnlyUploadsAndDescendants

\* A row that says "added" tells the truth: the owner of the group uploaded the origin.
AddedByOwner ==
    \A o \in objects, g \in Groups :
        (perm[o, g] # NoGrant /\ perm[o, g].reason = "added" /\ perm[o, g].origin # NoObject)
            => \E u \in Users : Private[u] = g /\ <<u, perm[o, g].origin>> \in uploads

\* All upload options share the object with the uploader's private group, and losing
\* anything else does not take an own upload away.
OwnUploadsKept == \A up \in uploads : Holds(perm, up[2], Private[up[1]])

\* In a forest, removing a relation takes no row away that was given on the object itself.
TidyOwnSharesKept ==
    [][ (Commit /\ tidy) =>
          \A o \in Objects, g \in Groups :
             (perm[o, g] # NoGrant /\ perm[o, g].origin = o) => perm'[o, g] = perm[o, g] ]_vars

\* Removing a relation touches only rows of groups that see the parent, on descendants of
\* the child, and gives nobody access to anything.
UnlinkOnlyBelow ==
    [][ Commit =>
          \A o \in Objects, g \in Groups : perm'[o, g] # perm[o, g] =>
             /\ Holds(perm, unlink.parent, g)
             /\ Holds(perm, o, g)
             /\ unlink.child \in Above(relation, o) ]_vars

\* uninherit_share never runs twice at once for an object, whatever cycles the relations
\* form: the recursion is no deeper than the number of objects.
RecursionBounded ==
    unlink # Idle =>
        \A i, j \in 2..Len(unlink.stack) :
            unlink.stack[i].obj = unlink.stack[j].obj => i = j

\* remove_parent ends, whatever cycles the relations form: every step of it uses up shares
\* of the parent, objects not visited, calls, or children of calls, in that order.
Cost(removal) ==
    IF removal = Idle THEN 0
    ELSE LET n == Cardinality(Objects)
             calls == {x \in (DOMAIN removal.stack) \X Objects : x[2] \in removal.stack[x[1]].pending}
         IN  1 + Len(removal.stack) + Cardinality(calls)
               + Cardinality(Objects \ removal.visited) * (n + 1)
               + Cardinality(removal.todo) * (n * (n + 1) + 3)
UnlinkProgress == [][unlink # Idle => Cost(unlink') < Cost(unlink)]_vars

-----------------------------------------------------------------------------
(* The inductive invariant behind ParentsImplyChildren and RecursionBounded:     *)
(* while remove_parent runs, its copy of the table is closed but for the groups' *)
(* rows of objects whose call is about to delete them.                           *)

Calls == 2..Len(unlink.stack)

Doomed(o) == \E i \in Calls : unlink.stack[i].obj = o /\ unlink.stack[i].devisor = NoGrant

DraftClosed ==
    \A p, c \in Objects :
        (<<p, c>> \in relation /\ <<p, c>> # <<unlink.parent, unlink.child>>) =>
            \A g \in Groups : Holds(unlink.draft, p, g) =>
                Holds(unlink.draft, c, g) \/ (g = unlink.group /\ Doomed(p))

\* A call has marked its object visited, the object still has its row, and a call that
\* will delete the row was made by such a call, the only parent left with a row.
CallOK(i) ==
    LET call == unlink.stack[i]
        caller == unlink.stack[i - 1]
    IN  /\ call.obj \in unlink.visited
        /\ Holds(unlink.draft, call.obj, unlink.group)
        /\ i = 2 => call.obj = unlink.child
        /\ call.devisor = NoGrant =>
              /\ i = 2 \/ caller.devisor = NoGrant
              /\ \A p \in Parents(relation, call.obj) \ {caller.obj} :
                    ~Holds(unlink.draft, p, unlink.group)

BottomOK ==
    unlink.stack # <<>> =>
        /\ unlink.stack[1].obj = unlink.parent
        /\ unlink.stack[1].pending \subseteq {unlink.child}

\* The calls of a remove_parent in progress fit together, and what they have changed
\* so far leaves the access of descendants behind only where a call still has to delete.
UnlinkInv ==
    unlink # Idle =>
        /\ BottomOK
        /\ \A i \in Calls : CallOK(i)
        /\ DraftClosed

IInv == TypeOK /\ ParentsImplyChildren /\ RecursionBounded /\ UnlinkInv

-----------------------------------------------------------------------------
(* The inductive invariants behind AddedByOwner and UnlinkOnlyBelow *)

\* If a row for g says "added", the owner of g uploaded its origin.
Truthful(grant, g) ==
    (grant # NoGrant /\ grant.reason = "added" /\ grant.origin # NoObject)
        => \E u \in Users : Private[u] = g /\ <<u, grant.origin>> \in uploads

\* remove_parent hands rows on within their group only.
AddedInv ==
    /\ \A o \in Objects, g \in Groups : Truthful(perm[o, g], g)
    /\ unlink # Idle =>
         /\ \A o \in Objects, g \in Groups : Truthful(unlink.draft[o, g], g)
         /\ \A i \in DOMAIN unlink.stack : Truthful(unlink.stack[i].devisor, unlink.group)

\* remove_parent walks down from the child, for groups with a row of the parent.
BelowInv ==
    unlink # Idle =>
        /\ \A g \in unlink.todo : Holds(perm, unlink.parent, g)
        /\ unlink.stack # <<>> => Holds(perm, unlink.parent, unlink.group)
        /\ \A i \in Calls : /\ unlink.child \in Above(relation, unlink.stack[i].obj)
                            /\ unlink.stack[i].pending \subseteq Children(relation, unlink.stack[i].obj)
        /\ \A o \in Objects, g \in Groups : unlink.draft[o, g] # perm[o, g] =>
              /\ Holds(perm, unlink.parent, g)
              /\ Holds(perm, o, g)
              /\ unlink.child \in Above(relation, o)

-----------------------------------------------------------------------------
(* The inductive invariant behind TidyJustified and TidyOwnSharesKept: a row comes from *)
(* its origin from parent to child, and in a forest remove_parent takes a row of the    *)
(* parent from everything that has it through the child.                                *)

Rooted(prm, rel) ==
    \A o \in Objects, g \in Groups : prm[o, g] # NoGrant =>
        /\ prm[o, g].origin \in Above(rel, o)
        /\ prm[prm[o, g].origin, g] = prm[o, g]

HandedOn(prm, rel) ==
    \A o \in Objects, g \in Groups : (prm[o, g] # NoGrant /\ prm[o, g].origin # o) =>
        \E p \in Parents(rel, o) : prm[p, g] = prm[o, g]

Gone(o, g) == perm[o, g] # NoGrant /\ unlink.draft[o, g] = NoGrant

\* The row of o for g is the one that the parent gives.
Inherited(o, g) == perm[o, g] # NoGrant /\ perm[o, g] = perm[unlink.parent, g]

\* A call removes the row of the parent.  Its object's children that have it too are still
\* to be called, being called, or have lost it.
ForestCall(i) ==
    LET call == unlink.stack[i] IN
    /\ call.devisor = NoGrant
    /\ i \in Calls => Inherited(call.obj, unlink.group)
    /\ i + 1 \in Calls => unlink.stack[i + 1].obj \in Children(relation, call.obj)
    /\ call.pending \cap unlink.visited = {}
    /\ \A c \in Children(relation, call.obj) :
          (Inherited(c, unlink.group) /\ (i = 1 => c = unlink.child)) =>
              \/ c \in call.pending
              \/ i + 1 \in Calls /\ c = unlink.stack[i + 1].obj
              \/ Gone(c, unlink.group)

ForestInv ==
    (tidy /\ unlink # Idle) =>
        /\ Forest(relation)
        /\ <<unlink.parent, unlink.child>> \in relation
        /\ \A o \in Objects, g \in Groups : unlink.draft[o, g] # perm[o, g] =>
              Inherited(o, g) /\ Gone(o, g)
        /\ \A r \in relation, g \in Groups :
              Gone(r[1], g) /\ Inherited(r[2], g) => Gone(r[2], g)
        /\ \A g \in Groups \ unlink.todo :
              (unlink.stack = <<>> \/ g # unlink.group) /\ Inherited(unlink.child, g)
                  => Gone(unlink.child, g)
        /\ unlink.stack # <<>> =>
              \A o \in unlink.visited \ {unlink.child} :
                  \E p \in Parents(relation, o) : p \in unlink.visited
        /\ \A i \in DOMAIN unlink.stack : ForestCall(i)

TidyInv == (tidy => Rooted(perm, relation) /\ HandedOn(perm, relation)) /\ ForestInv
=============================================================================
