------------------------------- MODULE Karton -------------------------------
(***************************************************************************)
(* Assignment of Karton analyses to objects: Object.assign_analysis and    *)
(* remove_analysis of mwdb/model/object.py, KartonAnalysis.get_or_create,  *)
(* and the handlers of mwdb/resources/karton.py, statement by statement.   *)
(*                                                                         *)
(* Tables karton_analysis and karton_object, the latter with a unique      *)
(* index and a foreign key that cascades.  READ COMMITTED: a statement     *)
(* sees what is committed and what its own transaction has written, and    *)
(* waits where another transaction holds the key it needs.                 *)
(***************************************************************************)
EXTENDS FiniteSets, Sequences

CONSTANTS
    Objects,
    Analyses,   \* identifiers, chosen by the clients
    Requests,   \* each served once
    Kinds       \* the handlers they may call: a subset of {"assign", "remove"}

ASSUME KindsAssumption == Kinds \subseteq {"assign", "remove"}

VARIABLES
    analyses,   \* committed rows of karton_analysis
    links,      \* committed <<analysis, object>> rows of karton_object
    txn,        \* the state of every request
    overlapped  \* history: two requests were in progress at once

vars == <<analyses, links, txn, overlapped>>

Stages == {"new", "get", "create", "get again", "is assigned", "link", "link lost",
           "unlink", "others", "delete", "done", "answered", "not found", "failed"}

Txns ==
    [stage : Stages, kind : {"assign", "remove"}, analysis : Analyses, object : Objects,
     newAnalysis : BOOLEAN, newLink : BOOLEAN,   \* what the transaction has written
     unlinked : BOOLEAN, deleted : BOOLEAN]

InProgress(r) == txn[r].stage \notin {"new", "answered", "not found", "failed"}

Link(r) == <<txn[r].analysis, txn[r].object>>

\* What a statement of request r sees.
SeesAnalysis(r) ==
    /\ txn[r].analysis \in analyses \/ txn[r].newAnalysis
    /\ ~txn[r].deleted
VisibleLinks(r) ==
    (links \ (IF txn[r].unlinked THEN {Link(r)} ELSE {}))
        \cup (IF txn[r].newLink THEN {Link(r)} ELSE {})

SameAnalysis(r) == {q \in Requests \ {r} : InProgress(q) /\ txn[q].analysis = txn[r].analysis}
SameLink(r) == {q \in SameAnalysis(r) : txn[q].object = txn[r].object}

\* The requests whose end the next statement of request r waits for: an INSERT for the
\* key of another INSERT or DELETE, a row of karton_object for the analysis it names
\* being deleted, the DELETE of an analysis for rows being added or deleted that name it.
WaitsFor(r) ==
    CASE txn[r].stage = "create" ->
            {q \in SameAnalysis(r) : txn[q].newAnalysis \/ txn[q].deleted}
      [] txn[r].stage = "link" ->
            {q \in SameAnalysis(r) : txn[q].deleted}
              \cup {q \in SameLink(r) : txn[q].newLink \/ txn[q].unlinked}
      [] txn[r].stage = "unlink" ->
            {q \in SameAnalysis(r) : txn[q].deleted} \cup {q \in SameLink(r) : txn[q].unlinked}
      [] txn[r].stage = "delete" ->
            {q \in SameAnalysis(r) : txn[q].newLink \/ txn[q].unlinked \/ txn[q].deleted}
      [] OTHER -> {}

Go(r, stage) == txn' = [txn EXCEPT ![r].stage = stage]
Unchanged == UNCHANGED <<analyses, links, overlapped>>

-----------------------------------------------------------------------------
Init ==
    /\ analyses \in SUBSET Analyses
    /\ links \in SUBSET (Analyses \X Objects)
    /\ analyses = {l[1] : l \in links}
    /\ txn \in [Requests -> {[stage |-> "new", kind |-> k, analysis |-> a, object |-> o,
                              newAnalysis |-> FALSE, newLink |-> FALSE, unlinked |-> FALSE,
                              deleted |-> FALSE] :
                             k \in Kinds, a \in Analyses, o \in Objects}]
    /\ overlapped = FALSE

\* KartonAnalysisResource.put or delete, once the object was found.
Begin(r) ==
    /\ txn[r].stage = "new"
    /\ Go(r, "get")
    /\ overlapped' = (overlapped \/ \E q \in Requests : InProgress(q))
    /\ UNCHANGED <<analyses, links>>

\* The analysis is looked up.
Get(r) ==
    /\ txn[r].stage = "get"
    /\ Go(r, IF SeesAnalysis(r) THEN "is assigned"
             ELSE IF txn[r].kind = "assign" THEN "create" ELSE "not found")
    /\ Unchanged

\* Fault: the analysis is created without its object.
CreateEmpty(r) ==
    /\ txn[r].stage = "create"
    /\ WaitsFor(r) = {}
    /\ txn' = IF txn[r].analysis \in analyses
              THEN [txn EXCEPT ![r].stage = "get again"]
              ELSE [txn EXCEPT ![r].stage = "done", ![r].newAnalysis = TRUE]
    /\ Unchanged

\* KartonAnalysis.create in a savepoint, its object included.
Create(r) ==
    /\ txn[r].stage = "create"
    /\ WaitsFor(r) = {}
    /\ txn' = IF txn[r].analysis \in analyses
              THEN [txn EXCEPT ![r].stage = "get again"]
              ELSE [txn EXCEPT ![r].stage = "done", ![r].newAnalysis = TRUE, ![r].newLink = TRUE]
    /\ Unchanged

\* Fault: the analysis of the other request is taken to hold the object already.
GetAgainDone(r) ==
    /\ txn[r].stage = "get again"
    /\ Go(r, IF SeesAnalysis(r) THEN "done" ELSE "failed")
    /\ Unchanged

\* After a lost race: the analysis of the other request, or the IntegrityError.
GetAgain(r) ==
    /\ txn[r].stage = "get again"
    /\ Go(r, IF SeesAnalysis(r) THEN "is assigned" ELSE "failed")
    /\ Unchanged

IsAssigned(r) ==
    /\ txn[r].stage = "is assigned"
    /\ Go(r, CASE txn[r].kind = "assign" /\ Link(r) \in VisibleLinks(r) -> "done"
               [] txn[r].kind = "assign" /\ Link(r) \notin VisibleLinks(r) -> "link"
               [] txn[r].kind = "remove" /\ Link(r) \in VisibleLinks(r) -> "unlink"
               [] OTHER -> "not found")
    /\ Unchanged

\* The INSERT into karton_object, in a savepoint: refused when the row is there or the
\* analysis has gone.
InsertLink(r) ==
    /\ txn[r].stage = "link"
    /\ WaitsFor(r) = {}
    /\ txn' = IF txn[r].analysis \notin analyses \/ Link(r) \in links
              THEN [txn EXCEPT ![r].stage = "link lost"]
              ELSE [txn EXCEPT ![r].stage = "done", ![r].newLink = TRUE]
    /\ Unchanged

\* Fault: the INSERT is repeated.
LinkLostRetry(r) ==
    /\ txn[r].stage = "link lost"
    /\ Go(r, IF Link(r) \in VisibleLinks(r) THEN "link" ELSE "failed")
    /\ Unchanged

\* Added concurrently: done, else the IntegrityError.
LinkLost(r) ==
    /\ txn[r].stage = "link lost"
    /\ Go(r, IF Link(r) \in VisibleLinks(r) THEN "done" ELSE "failed")
    /\ Unchanged

\* The DELETE from karton_object, which may find the row gone.
DeleteLink(r) ==
    /\ txn[r].stage = "unlink"
    /\ WaitsFor(r) = {}
    /\ txn' = [txn EXCEPT ![r].stage = "others", ![r].unlinked = (Link(r) \in links)]
    /\ Unchanged

\* Fault: the analysis is kept whatever objects it has.
OthersForgotten(r) ==
    /\ txn[r].stage = "others"
    /\ Go(r, "done")
    /\ Unchanged

\* db_analysis.objects == []
Others(r) ==
    /\ txn[r].stage = "others"
    /\ Go(r, IF \E l \in VisibleLinks(r) : l[1] = txn[r].analysis THEN "done" ELSE "delete")
    /\ Unchanged

\* The DELETE from karton_analysis, flushed by the commit; rows of karton_object that name
\* the analysis go with it, those committed since they were looked for included.
DeleteAnalysis(r) ==
    /\ txn[r].stage = "delete"
    /\ WaitsFor(r) = {}
    /\ txn' = [txn EXCEPT ![r].stage = "done",
                          ![r].deleted = (txn[r].analysis \in analyses)]
    /\ Unchanged

Commit(r) ==
    /\ txn[r].stage = "done"
    /\ analyses' = (IF txn[r].deleted THEN analyses \ {txn[r].analysis} ELSE analyses)
                     \cup (IF txn[r].newAnalysis THEN {txn[r].analysis} ELSE {})
    /\ links' = {l \in VisibleLinks(r) : txn[r].deleted => l[1] # txn[r].analysis}
    /\ txn' = [txn EXCEPT ![r].stage = "answered", ![r].newAnalysis = FALSE, ![r].newLink = FALSE,
                          ![r].unlinked = FALSE, ![r].deleted = FALSE]
    /\ UNCHANGED overlapped

Step(r) ==
    \/ Get(r) \/ Create(r) \/ GetAgain(r) \/ IsAssigned(r) \/ InsertLink(r) \/ LinkLost(r)
    \/ DeleteLink(r) \/ Others(r) \/ DeleteAnalysis(r) \/ Commit(r)

Next == \E r \in Requests : Begin(r) \/ Step(r)

Spec == Init /\ [][Next]_vars

\* A worker that has begun a request keeps serving it.
FairSpec == Spec /\ \A r \in Requests : WF_vars(Step(r))

-----------------------------------------------------------------------------
(* Properties *)

TypeOK ==
    /\ analyses \subseteq Analyses
    /\ links \subseteq Analyses \X Objects
    /\ {l[1] : l \in links} \subseteq analyses
    /\ txn \in [Requests -> Txns]
    /\ overlapped \in BOOLEAN

Answered(r) == txn[r].stage = "answered"

\* An analysis that no object is associated with is deleted.
NoEmptyAnalyses == \A a \in analyses : \E l \in links : l[1] = a

\* An assignment answered with 200 is there, unless it was removed since.
AssignedKept ==
    \A r \in Requests : Answered(r) /\ txn[r].kind = "assign" =>
        \/ Link(r) \in links
        \/ \E q \in Requests : txn[q].kind = "remove" /\ Link(q) = Link(r) /\ txn[q].stage # "new"

\* Both hold as long as requests do not overlap; removals that overlap break both.
SerialClean == ~overlapped => NoEmptyAnalyses /\ AssignedKept

\* Both hold for any number of overlapping assignments.
AssignsClean ==
    (\A r \in Requests : txn[r].kind = "assign") => NoEmptyAnalyses /\ AssignedKept

\* Every request that has begun ends.
RequestsEnd == \A r \in Requests : InProgress(r) ~> ~InProgress(r)

-----------------------------------------------------------------------------
(* The inductive invariant behind SerialClean and AssignsClean *)

\* What a transaction has written fits its kind and how far it has come.
WritesOf(r) ==
    LET t == txn[r] IN
    /\ t.newAnalysis => t.newLink
    /\ t.newLink => t.stage = "done" /\ t.kind = "assign"
    /\ t.unlinked => t.stage \in {"others", "delete", "done"} /\ t.kind = "remove"
    /\ t.deleted => t.stage = "done" /\ t.kind = "remove"
    /\ t.stage \in {"create", "get again", "link", "link lost"} => t.kind = "assign"
    /\ t.stage \in {"unlink", "others", "delete"} => t.kind = "remove"

\* The foreign key: a row that is not committed keeps the analysis it names.
LocksOf(r) ==
    txn[r].newLink =>
        /\ txn[r].newAnalysis \/ txn[r].analysis \in analyses
        /\ \A q \in Requests : txn[q].deleted => txn[q].analysis # txn[r].analysis

\* Until two requests overlap there is one at a time.
Alone == ~overlapped => \A q, r \in Requests : InProgress(q) /\ InProgress(r) => q = r

\* Requests that find the tables as they have seen them.
Calm == ~overlapped \/ \A r \in Requests : txn[r].kind = "assign"

\* An assignment about to commit has its object, whoever wrote the row.
AssignOf(r) ==
    txn[r].stage = "done" /\ txn[r].kind = "assign" => txn[r].newLink \/ Link(r) \in links

\* A removal deletes the analysis exactly when no other object has it.
Siblings(r) == {l \in VisibleLinks(r) : l[1] = txn[r].analysis}
RemoveOf(r) ==
    txn[r].kind = "remove" =>
        /\ txn[r].stage = "delete" => Siblings(r) = {}
        /\ txn[r].stage = "done" => \/ txn[r].deleted
                                    \/ txn[r].analysis \notin analyses
                                    \/ Siblings(r) # {}
        /\ txn[r].deleted => Siblings(r) = {}

IInv ==
    /\ TypeOK
    /\ \A r \in Requests : WritesOf(r) /\ LocksOf(r)
    /\ Alone
    /\ Calm => /\ \A r \in Requests : AssignOf(r) /\ RemoveOf(r)
               /\ NoEmptyAnalyses
               /\ AssignedKept
=============================================================================
