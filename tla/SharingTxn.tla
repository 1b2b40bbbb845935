----------------------------- MODULE SharingTxn -----------------------------
(***************************************************************************)
(* Sharing and linking of existing objects by requests that run at the     *)
(* same time: give_access and add_parent of mwdb/model/object.py and       *)
(* ObjectPermission.create, statement by statement.                        *)
(*                                                                         *)
(* Every request is one PostgreSQL transaction at READ COMMITTED: a        *)
(* statement sees what is committed when it starts and what its own        *)
(* transaction has written.  An INSERT that meets the uncommitted row of   *)
(* another transaction waits for its end; one that meets a committed row   *)
(* raises IntegrityError.  Of transactions that wait for each other one is *)
(* aborted.                                                                *)
(*                                                                         *)
(* Rows of the permission table are <<object, group>> pairs here: their    *)
(* reasons and origins play no part in who waits for whom.  Objects and    *)
(* groups are neither created nor removed, relations only added.           *)
(***************************************************************************)
EXTENDS Integers, Sequences, FiniteSets

CONSTANTS
    Objects, Groups,
    Requests,   \* the requests, each served once
    Kinds,      \* the handlers they may call: a subset of {"share", "link"}
    Relations,  \* the relation tables to start from
    NotLoaded   \* Object.children not loaded in this transaction

ASSUME SharingAssumption ==
    /\ Kinds \subseteq {"share", "link"}
    /\ IsFiniteSet(Objects)
    /\ \A rel \in Relations : rel \subseteq Objects \X Objects

VARIABLES
    relation,   \* committed rows of the relation table
    perm,       \* committed rows of the permission table
    txn,        \* the state of every request
    overlapped  \* history: two requests were in progress at once

vars == <<relation, perm, txn, overlapped>>

Stages == {"new", "start", "linking", "linked", "granting", "inserting", "spreading",
           "done", "answered", "failed"}

Txns ==
    [stage : Stages, kind : {"share", "link"},
     target : Objects,          \* the object shared, or the child
     parent : Objects,          \* the parent to link with
     group : Groups,            \* the group give_access is called for
     todo : SUBSET Groups,      \* rows of the parent still to inherit
     queue : Seq(Objects),      \* the queue of give_access
     visited : SUBSET Objects,
     children : [Objects -> (SUBSET Objects) \cup {NotLoaded}],  \* the session's objects
     newRelation : SUBSET (Objects \X Objects),
     newPerm : SUBSET (Objects \X Groups)]

InProgress(r) == txn[r].stage \notin {"new", "answered", "failed"}

-----------------------------------------------------------------------------
(* What a statement of request r sees. *)

VisibleRelation(r) == relation \cup txn[r].newRelation
VisiblePerm(r) == perm \cup txn[r].newPerm

Nothing == [o \in Objects |-> NotLoaded]

\* The requests whose end the INSERT of request r waits for.
WaitsFor(r) ==
    {q \in Requests \ {r} :
        /\ InProgress(q)
        /\ \/ /\ txn[r].stage = "inserting"
              /\ <<Head(txn[r].queue), txn[r].group>> \in txn[q].newPerm
           \/ /\ txn[r].stage = "linking"
              /\ <<txn[r].parent, txn[r].target>> \in txn[q].newRelation}

-----------------------------------------------------------------------------
(* Requests arrive *)

Closed(prm, rel) ==
    \A r \in rel, g \in Groups : <<r[1], g>> \in prm => <<r[2], g>> \in prm

Fresh(kind, o, p, g) ==
    [stage |-> "new", kind |-> kind, target |-> o, parent |-> p, group |-> g, todo |-> {},
     queue |-> <<>>, visited |-> {}, children |-> Nothing, newRelation |-> {}, newPerm |-> {}]

\* Tables as serial requests leave them, and any requests to come.
Init ==
    /\ relation \in Relations
    /\ perm \in {prm \in SUBSET (Objects \X Groups) : Closed(prm, relation)}
    /\ txn \in [Requests -> {Fresh(k, o, p, g) : k \in Kinds, o \in Objects,
                                                   p \in Objects, g \in Groups}]
    /\ \A r \in Requests :
          \/ txn[r].kind = "share" /\ txn[r].parent = txn[r].target
          \/ txn[r].kind = "link" /\ txn[r].group = CHOOSE g \in Groups : TRUE
    /\ overlapped = FALSE

\* The transaction of a request begins.
Begin(r) ==
    /\ txn[r].stage = "new"
    /\ txn' = [txn EXCEPT ![r].stage = IF txn[r].kind = "share" THEN "granting" ELSE "start",
                          ![r].queue = IF txn[r].kind = "share" THEN <<txn[r].target>> ELSE <<>>]
    /\ overlapped' = (overlapped \/ \E q \in Requests : InProgress(q))
    /\ UNCHANGED <<relation, perm>>

-----------------------------------------------------------------------------
(* Object.add_parent *)

\* has_parent: nothing to do for a relation that exists.
CheckParent(r) ==
    /\ txn[r].stage = "start"
    /\ txn' = [txn EXCEPT ![r].stage = IF <<txn[r].parent, txn[r].target>> \in VisibleRelation(r)
                                       THEN "done" ELSE "linking"]
    /\ UNCHANGED <<relation, perm, overlapped>>

\* The INSERT into relation, in a savepoint of its own.  When the same relation has been
\* added in the meantime only the savepoint is rolled back.
InsertRelation(r) ==
    /\ txn[r].stage = "linking"
    /\ WaitsFor(r) = {}
    /\ LET row == <<txn[r].parent, txn[r].target>>
       IN  txn' = IF row \in relation
                  THEN [txn EXCEPT ![r].stage = "done"]
                  ELSE [txn EXCEPT ![r].stage = "linked", ![r].newRelation = @ \cup {row}]
    /\ UNCHANGED <<relation, perm, overlapped>>

\* Fault: the rows are read from the child.
ReadPermissionsOfChild(r) ==
    /\ txn[r].stage = "linked"
    /\ txn' = [txn EXCEPT ![r].stage = "granting",
                          ![r].todo = {g \in Groups : <<txn[r].target, g>> \in VisiblePerm(r)}]
    /\ UNCHANGED <<relation, perm, overlapped>>

\* The rows of the parent are read.
ReadPermissions(r) ==
    /\ txn[r].stage = "linked"
    /\ txn' = [txn EXCEPT ![r].stage = "granting",
                          ![r].todo = {g \in Groups : <<txn[r].parent, g>> \in VisiblePerm(r)}]
    /\ UNCHANGED <<relation, perm, overlapped>>

\* Fault: the default of visited is shared by all calls of give_access.
NextPermissionKeepVisited(r) ==
    /\ txn[r].stage = "granting"
    /\ txn[r].queue = <<>>
    /\ \E g \in txn[r].todo :
          txn' = [txn EXCEPT ![r].group = g, ![r].todo = @ \ {g}, ![r].queue = <<txn[r].target>>]
    /\ UNCHANGED <<relation, perm, overlapped>>

\* give_access is called for the next of them.
NextPermission(r) ==
    /\ txn[r].stage = "granting"
    /\ txn[r].queue = <<>>
    /\ \E g \in txn[r].todo :
          txn' = [txn EXCEPT ![r].group = g, ![r].todo = @ \ {g},
                             ![r].queue = <<txn[r].target>>, ![r].visited = {}]
    /\ UNCHANGED <<relation, perm, overlapped>>

\* No call of give_access is left.
Granted(r) ==
    /\ txn[r].stage = "granting"
    /\ txn[r].queue = <<>>
    /\ txn[r].todo = {}
    /\ txn' = [txn EXCEPT ![r].stage = "done"]
    /\ UNCHANGED <<relation, perm, overlapped>>

-----------------------------------------------------------------------------
(* Object.give_access and ObjectPermission.create *)

\* The next object of the queue: passed over when visited or when the group has a row.
CheckPermission(r) ==
    /\ txn[r].stage = "granting"
    /\ txn[r].queue # <<>>
    /\ LET o == Head(txn[r].queue)
       IN  txn' = IF o \in txn[r].visited \/ <<o, txn[r].group>> \in VisiblePerm(r)
                  THEN [txn EXCEPT ![r].queue = Tail(@), ![r].visited = @ \cup {o}]
                  ELSE [txn EXCEPT ![r].stage = "inserting", ![r].visited = @ \cup {o}]
    /\ UNCHANGED <<relation, perm, overlapped>>

\* Fault: the row is committed at once.
InsertPermissionCommitted(r) ==
    /\ txn[r].stage = "inserting"
    /\ LET row == <<Head(txn[r].queue), txn[r].group>>
       IN  /\ txn' = IF row \in perm
                     THEN [txn EXCEPT ![r].stage = "granting", ![r].queue = Tail(@)]
                     ELSE [txn EXCEPT ![r].stage = "spreading"]
           /\ perm' = perm \cup {row}
    /\ UNCHANGED <<relation, overlapped>>

\* Fault: the INSERT is tried again and again.
InsertPermissionRetry(r) ==
    /\ txn[r].stage = "inserting"
    /\ WaitsFor(r) = {}
    /\ LET row == <<Head(txn[r].queue), txn[r].group>>
       IN  txn' = IF row \in perm
                  THEN txn
                  ELSE [txn EXCEPT ![r].stage = "spreading", ![r].newPerm = @ \cup {row}]
    /\ UNCHANGED <<relation, perm, overlapped>>

\* The INSERT into permission.  When the row has been added in the meantime, the bare
\* session.rollback() takes back everything the request has written so far and the
\* session forgets what it has loaded; the request goes on.
InsertPermission(r) ==
    /\ txn[r].stage = "inserting"
    /\ WaitsFor(r) = {}
    /\ LET row == <<Head(txn[r].queue), txn[r].group>>
       IN  txn' = IF row \in perm
                  THEN [txn EXCEPT ![r].stage = "granting", ![r].queue = Tail(@),
                                   ![r].children = Nothing,
                                   ![r].newRelation = {}, ![r].newPerm = {}]
                  ELSE [txn EXCEPT ![r].stage = "spreading", ![r].newPerm = @ \cup {row}]
    /\ UNCHANGED <<relation, perm, overlapped>>

Orders(S) == {s \in [1..Cardinality(S) -> S] : \A i, j \in DOMAIN s : s[i] = s[j] => i = j}

\* The children of an object that got its row join the queue, as the session has loaded
\* them.
Spread(r) ==
    /\ txn[r].stage = "spreading"
    /\ LET o == Head(txn[r].queue)
           loaded == IF txn[r].children[o] = NotLoaded
                     THEN {c \in Objects : <<o, c>> \in VisibleRelation(r)}
                     ELSE txn[r].children[o]
       IN  \E s \in Orders(loaded) :
              txn' = [txn EXCEPT ![r].stage = "granting", ![r].queue = Tail(@) \o s,
                                 ![r].children[o] = loaded]
    /\ UNCHANGED <<relation, perm, overlapped>>

-----------------------------------------------------------------------------
(* The end of a request *)

\* Fault: the handler answers without a commit.
CommitForgotten(r) ==
    /\ txn[r].stage = "done"
    /\ txn' = [txn EXCEPT ![r].stage = "answered", ![r].newRelation = {}, ![r].newPerm = {},
                          ![r].children = Nothing]
    /\ UNCHANGED <<relation, perm, overlapped>>

\* COMMIT and the response 200.
Commit(r) ==
    /\ txn[r].stage = "done"
    /\ relation' = relation \cup txn[r].newRelation
    /\ perm' = perm \cup txn[r].newPerm
    /\ txn' = [txn EXCEPT ![r].stage = "answered", ![r].newRelation = {}, ![r].newPerm = {},
                          ![r].children = Nothing]
    /\ UNCHANGED overlapped

\* PostgreSQL aborts a transaction that waits for itself: the handler fails with a 500.
DeadlockAbort(r) ==
    /\ \E q \in WaitsFor(r) : \E S \in SUBSET Requests :
          /\ {q, r} \subseteq S
          /\ \A x \in S : WaitsFor(x) \cap S # {}
    /\ txn' = [txn EXCEPT ![r].stage = "failed", ![r].newRelation = {}, ![r].newPerm = {},
                          ![r].children = Nothing]
    /\ UNCHANGED <<relation, perm, overlapped>>

Step(r) ==
    \/ CheckParent(r) \/ InsertRelation(r) \/ ReadPermissions(r) \/ NextPermission(r)
    \/ Granted(r) \/ CheckPermission(r) \/ InsertPermission(r) \/ Spread(r)
    \/ Commit(r) \/ DeadlockAbort(r)

Next == \E r \in Requests : Begin(r) \/ Step(r)

Spec == Init /\ [][Next]_vars

\* A worker that has begun a request keeps serving it.
Fairness == \A r \in Requests : WF_vars(Step(r))

FairSpec == Spec /\ Fairness

-----------------------------------------------------------------------------
(* Properties *)

TypeOK ==
    /\ relation \subseteq Objects \X Objects
    /\ perm \subseteq Objects \X Groups
    /\ txn \in [Requests -> Txns]
    /\ overlapped \in BOOLEAN

\* Access to a parent object implies access to its children, in every committed state.
ParentsImplyChildren == Closed(perm, relation)

\* An object and what relations lead to from it.
Below(o) == {x \in Objects :
    \A S \in SUBSET Objects :
        (o \in S /\ \A y \in S : \A c \in Objects : <<y, c>> \in relation => c \in S) => x \in S}

\* Shares of objects that have one parent each, and are not below themselves.
TreeOfShares ==
    /\ \A r \in Requests : txn[r].kind = "share"
    /\ \A a, b \in relation : a[2] = b[2] => a = b
    /\ \A e \in relation : e[1] \notin Below(e[2])

\* There the same holds however the shares overlap.
TreeClosed == TreeOfShares => ParentsImplyChildren

\* Otherwise it holds as long as requests did not overlap.
SerialClosed == ~overlapped => ParentsImplyChildren

Answered(r) == txn[r].stage = "answered"

\* A share that is lost was lost to a row of an object below.
LostOnlyToBelow ==
    \A r \in Requests : Answered(r) /\ txn[r].kind = "share" =>
        \E x \in Below(txn[r].target) : <<x, txn[r].group>> \in perm

\* What a request makes of the tables when no other overlaps, after GiveAccess and Inherit of
\* Sharing: the objects that get a row for g when it is given to o, the relations with the new
\* one, the groups that receive rows, and the rows.
Given(prm, rel, o, g) ==
    LET SpreadClosed(S) ==
            o \in S /\ \A e \in rel : e[1] \in S => <<e[2], g>> \in prm \/ e[2] \in S
    IN  IF <<o, g>> \in prm THEN {}
        ELSE {x \in Objects : \A S \in SUBSET Objects : SpreadClosed(S) => x \in S}

Linked(r) == IF txn[r].kind = "link" THEN relation \cup {<<txn[r].parent, txn[r].target>>} ELSE relation

Receivers(r) ==
    IF txn[r].kind = "share" THEN {txn[r].group} ELSE {g \in Groups : <<txn[r].parent, g>> \in perm}

Gets(r, o, g) == g \in Receivers(r) /\ o \in Given(perm, Linked(r), txn[r].target, g)

\* A request that overlaps with none is answered when all it has to do is done, and nothing
\* else: its statements amount to the one step that Sharing takes.
SerialIsAtomic ==
    [][\A r \in Requests : (~Answered(r) /\ Answered(r)' /\ ~overlapped) =>
          /\ relation' = Linked(r)
          /\ perm' = perm \cup {row \in Objects \X Groups : Gets(r, row[1], row[2])}]_vars

\* Every request that has begun is answered or aborted: waiting never lasts forever.
RequestsEnd == \A r \in Requests : InProgress(r) ~> ~InProgress(r)
-----------------------------------------------------------------------------
(* The inductive invariant behind the three *)

Elements(seq) == {seq[i] : i \in DOMAIN seq}
Queued(r) == Elements(txn[r].queue)
Reached(r) == txn[r].visited \cup Queued(r)

\* give_access works on the head of its queue.
At(r, o) == txn[r].stage \in {"inserting", "spreading"} /\ o = Head(txn[r].queue)

\* What a transaction has written and loaded fits how far it has come.
StageOf(r) ==
    LET t == txn[r] IN
    /\ ~InProgress(r) => t.newRelation = {} /\ t.newPerm = {}
    /\ t.stage \in {"new", "start", "linking", "linked"} =>
         /\ t.children = Nothing
         /\ t.todo = {} /\ t.visited = {} /\ t.newPerm = {}
         /\ t.queue = <<>>
    /\ t.stage \in {"new", "start", "linking"} => t.newRelation = {}
    /\ t.stage \in {"start", "linking", "linked"} => t.kind = "link"
    /\ t.stage \in {"inserting", "spreading"} => t.queue # <<>> /\ Head(t.queue) \in t.visited
    /\ t.stage = "done" => t.queue = <<>> /\ t.todo = {}

\* A share writes rows of its group, for objects below its target; before the first of
\* them it has found none.
ShareOf(r) ==
    LET t == txn[r] IN
    t.kind = "share" =>
        /\ t.newRelation = {} /\ t.todo = {}
        /\ Reached(r) \subseteq Below(t.target)
        /\ \A row \in t.newPerm : row[2] = t.group
        /\ \A o \in Objects : \/ t.children[o] = NotLoaded
                              \/ \A c \in t.children[o] : <<o, c>> \in relation
        /\ \/ t.stage \in {"new", "inserting", "failed"}
           \/ t.stage = "granting" /\ t.visited = {} /\ t.queue = <<t.target>>
           \/ \E x \in Below(t.target) : <<x, t.group>> \in VisiblePerm(r)

\* A request that is alone holds what it has visited, and its tables are closed but for
\* what it is about to do.
Due(r, e, g) ==
    \/ g = txn[r].group /\ (e[2] \in Queued(r) \/ (txn[r].stage = "spreading" /\ At(r, e[1])))
    \/ e = <<txn[r].parent, txn[r].target>> /\ (txn[r].stage = "linked" \/ g \in txn[r].todo)

LoadedOf(r) ==
    \A o \in Objects : \/ txn[r].children[o] = NotLoaded
                       \/ txn[r].children[o] = {c \in Objects : <<o, c>> \in VisibleRelation(r)}

AloneOf(r) ==
    LET Has(o) == <<o, txn[r].group>> \in VisiblePerm(r) IN
    /\ LoadedOf(r)
    /\ \A o \in txn[r].visited : Has(o) \/ (txn[r].stage = "inserting" /\ At(r, o))
    /\ txn[r].stage = "inserting" => ~Has(Head(txn[r].queue))
    /\ \A e \in VisibleRelation(r), g \in Groups :
          <<e[1], g>> \in VisiblePerm(r) => <<e[2], g>> \in VisiblePerm(r) \/ Due(r, e, g)

SerialInv ==
    ~overlapped =>
        /\ ParentsImplyChildren
        /\ \A q, r \in Requests : InProgress(q) /\ InProgress(r) => q = r
        /\ \A r \in Requests : InProgress(r) => AloneOf(r)

\* It has written rows that it is to give, and will come to no others.
WroteOf(r) ==
    LET t == txn[r] IN
    /\ \A row \in t.newPerm : Gets(r, row[1], row[2])
    /\ \A x \in Queued(r) :
          t.group \in Receivers(r) /\ (<<x, t.group>> \in perm \/ Gets(r, x, t.group))
    /\ t.todo \subseteq Receivers(r)
    /\ t.newRelation \subseteq {<<t.parent, t.target>>}
    /\ t.stage \in {"start", "linking"} \/ VisibleRelation(r) = Linked(r)
    /\ t.kind = "share" => t.target \in Reached(r)

WroteInv == ~overlapped => \A r \in Requests : InProgress(r) => WroteOf(r)

\* In a tree an object is queued by its one parent, so visited means dealt with, and what
\* a rollback takes back is not missed below rows that are inserted later.
TreeOf(r) ==
    LET t == txn[r] IN
    /\ LoadedOf(r)
    /\ \A e \in relation : e[2] \in Reached(r) /\ e[2] # t.target =>
          e[1] \in t.visited /\ ~At(r, e[1])
    /\ t.stage = "spreading" => <<Head(t.queue), t.group>> \in t.newPerm
    /\ \A e \in relation : <<e[1], t.group>> \in t.newPerm =>
          \/ <<e[2], t.group>> \in VisiblePerm(r)
          \/ e[2] \in Queued(r) /\ e[2] \notin t.visited
          \/ t.stage = "inserting" /\ At(r, e[2])
          \/ t.stage = "spreading" /\ At(r, e[1]) /\ e[2] \notin t.visited

TreeInv ==
    TreeOfShares => ParentsImplyChildren /\ \A r \in Requests : InProgress(r) => TreeOf(r)

IInv ==
    /\ TypeOK
    /\ \A r \in Requests : StageOf(r) /\ ShareOf(r)
    /\ SerialInv
    /\ TreeInv
=============================================================================
