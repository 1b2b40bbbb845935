------------------------------- MODULE Upload -------------------------------
(***************************************************************************)
(* The upload of files, configs and blobs: ObjectUploader.create_object of *)
(* mwdb/resources/object.py and what it calls, the get_or_create methods   *)
(* of the models, the blob store, Karton and the hooks.                    *)
(*                                                                         *)
(* An upload changes the database, the store, Karton's queue and the       *)
(* database again, with up to three commits in between.  Requests overlap  *)
(* at READ COMMITTED, a worker may die between any two steps, the store    *)
(* and Karton may refuse.                                                  *)
(*                                                                         *)
(* An object stands for its dhash, with a fixed type: an upload of the     *)
(* same hash as another type is refused with 409 and changes nothing.      *)
(* Shares, parents and tags are the matter of Sharing and Annotations.     *)
(***************************************************************************)
EXTENDS Integers, Sequences, FiniteSets

CONSTANTS
    Objects,
    Files,        \* the objects with content in the store
    Embeds,       \* the blobs embedded in a config, in the order of its keys
    Requests,     \* each is served once; its task, if it sends one, bears its name
    Kinds,        \* the handlers they may call: a subset of {"upload", "reanalyze"}
    NoAnalysis,   \* no karton_id in the request
    UseKartonId,  \* may an upload name an analysis
    MayCrash,     \* may a worker die
    MayRefuse     \* may the store or Karton refuse

ASSUME UploadAssumption ==
    /\ Files \subseteq Objects
    /\ Embeds \in [Objects -> Seq(Objects \ Files)]
    /\ \A o \in Objects : \A i \in DOMAIN Embeds[o] : Embeds[Embeds[o][i]] = <<>>
    /\ NoAnalysis \notin Requests
    /\ Kinds \subseteq {"upload", "reanalyze"}
    /\ {UseKartonId, MayCrash, MayRefuse} \subseteq BOOLEAN

VARIABLES
    rows,      \* committed rows of the object table
    children,  \* committed <<config, blob>> rows of the relation table
    links,     \* committed <<analysis, object>> rows of the karton_object table
    stored,    \* the content of every file in the store
    tasks,     \* <<analysis, object>> sent to Karton
    hooks,     \* history: <<hook, object, request>> run
    early,     \* history: objects committed by assign_analysis before the upload was done
    req        \* the state of every request

vars == <<rows, children, links, stored, tasks, hooks, early, req>>

Contents == {"absent", "partial", "complete"}

Stages == {"new", "creating", "inserting", "assigning", "storing", "writing", "committing",
           "created", "sending", "spawning", "hooks", "answered", "failed", "crashed"}

Reqs ==
    [stage : Stages, kind : {"upload", "reanalyze"}, object : Objects,
     kartonId : Requests \cup {NoAnalysis},
     pending : Seq(Objects),      \* get_or_create calls to come
     isNew : BOOLEAN,
     newRows : SUBSET Objects]    \* inserted and not committed

Embedded(o) == {Embeds[o][i] : i \in DOMAIN Embeds[o]}

InProgress(r) == req[r].stage \notin {"new", "answered", "failed", "crashed"}

\* Rows of the object table that a statement of request r sees.
Visible(r) == rows \cup req[r].newRows

\* Object.is_analyzed
IsAnalyzed(o) == \E l \in links : l[2] = o

Go(r, stage) == [req EXCEPT ![r].stage = stage]

-----------------------------------------------------------------------------
Init ==
    /\ rows = {} /\ children = {} /\ links = {} /\ tasks = {} /\ hooks = {} /\ early = {}
    /\ stored = [f \in Files |-> "absent"]
    /\ req \in [Requests -> {[stage |-> "new", kind |-> k, object |-> o, kartonId |-> NoAnalysis,
                              pending |-> <<>>, isNew |-> FALSE, newRows |-> {}] :
                             k \in Kinds, o \in Objects}]

\* create_object: the request names an analysis that Karton has been sent, or none.
BeginUpload(r) ==
    /\ req[r].stage = "new"
    /\ req[r].kind = "upload"
    /\ \E a \in {NoAnalysis} \cup (IF UseKartonId THEN {t[1] : t \in tasks} ELSE {}) :
          req' = [req EXCEPT ![r].stage = "creating", ![r].kartonId = a,
                             ![r].pending = Append(Embeds[req[r].object], req[r].object)]
    /\ UNCHANGED <<rows, children, links, stored, tasks, hooks, early>>

\* KartonObjectResource.post: spawn_analysis for an object that exists.
BeginReanalyze(r) ==
    /\ req[r].stage = "new"
    /\ req[r].kind = "reanalyze"
    /\ req[r].object \in rows
    /\ req' = Go(r, "sending")
    /\ UNCHANGED <<rows, children, links, stored, tasks, hooks, early>>

-----------------------------------------------------------------------------
(* Object._get_or_create, for the embedded blobs and then for the object itself *)

\* The object is looked up.
Lookup(r) ==
    /\ req[r].stage = "creating"
    /\ req[r].pending # <<>>
    /\ req' = IF Head(req[r].pending) \in Visible(r)
              THEN [req EXCEPT ![r].pending = Tail(@)]
              ELSE Go(r, "inserting")
    /\ UNCHANGED <<rows, children, links, stored, tasks, hooks, early>>

\* The requests whose end the INSERT of request r waits for.
WaitsFor(r) ==
    {q \in Requests \ {r} :
        /\ req[r].stage = "inserting"
        /\ Head(req[r].pending) \in req[q].newRows}

\* Fault: a lost race passes for a new object.
InsertAlwaysNew(r) ==
    /\ req[r].stage = "inserting"
    /\ WaitsFor(r) = {}
    /\ LET o == Head(req[r].pending)
       IN  req' = [req EXCEPT ![r].stage = "creating", ![r].pending = Tail(@),
                              ![r].newRows = IF o \in rows THEN @ ELSE @ \cup {o},
                              ![r].isNew = (o = req[r].object)]
    /\ UNCHANGED <<rows, children, links, stored, tasks, hooks, early>>

\* Fault: the INSERT is repeated until it succeeds.
InsertRetry(r) ==
    /\ req[r].stage = "inserting"
    /\ WaitsFor(r) = {}
    /\ LET o == Head(req[r].pending)
       IN  req' = IF o \in rows
                  THEN req
                  ELSE [req EXCEPT ![r].stage = "creating", ![r].pending = Tail(@),
                                   ![r].newRows = @ \cup {o},
                                   ![r].isNew = (o = req[r].object)]
    /\ UNCHANGED <<rows, children, links, stored, tasks, hooks, early>>

\* INSERT in a savepoint; on IntegrityError the row of the other request is fetched.
Insert(r) ==
    /\ req[r].stage = "inserting"
    /\ WaitsFor(r) = {}
    /\ LET o == Head(req[r].pending)
       IN  req' = IF o \in rows
                  THEN [req EXCEPT ![r].stage = "creating", ![r].pending = Tail(@)]
                  ELSE [req EXCEPT ![r].stage = "creating", ![r].pending = Tail(@),
                                   ![r].newRows = @ \cup {o},
                                   ![r].isNew = (o = req[r].object)]
    /\ UNCHANGED <<rows, children, links, stored, tasks, hooks, early>>

Created(r) ==
    /\ req[r].stage = "creating"
    /\ req[r].pending = <<>>
    /\ req' = Go(r, IF req[r].kartonId = NoAnalysis THEN "storing" ELSE "assigning")
    /\ UNCHANGED <<rows, children, links, stored, tasks, hooks, early>>

\* assign_analysis, called with its default commit=True: the transaction ends here and
\* the rest of the upload runs in another one.
AssignAnalysis(r) ==
    /\ req[r].stage = "assigning"
    /\ links' = links \cup {<<req[r].kartonId, req[r].object>>}
    /\ rows' = Visible(r)
    /\ early' = early \cup req[r].newRows
    /\ req' = [req EXCEPT ![r].stage = "storing", ![r].newRows = {}]
    /\ UNCHANGED <<children, stored, tasks, hooks>>

-----------------------------------------------------------------------------
(* File.get_or_create: the content goes to the store before the commit *)

\* Nothing to store for a config, a blob or a file that was there before.
SkipStore(r) ==
    /\ req[r].stage = "storing"
    /\ ~(req[r].isNew /\ req[r].object \in Files)
    /\ req' = Go(r, "committing")
    /\ UNCHANGED <<rows, children, links, stored, tasks, hooks, early>>

\* Fault: content is written even for a file that was there before.
StoreBeginAlways(r) ==
    /\ req[r].stage = "storing"
    /\ req[r].object \in Files
    /\ stored' = [stored EXCEPT ![req[r].object] = "partial"]
    /\ req' = Go(r, "writing")
    /\ UNCHANGED <<rows, children, links, tasks, hooks, early>>

\* open(upload_path, "wb") truncates what a failed upload has left.
StoreBegin(r) ==
    /\ req[r].stage = "storing"
    /\ req[r].isNew
    /\ req[r].object \in Files
    /\ stored' = [stored EXCEPT ![req[r].object] = "partial"]
    /\ req' = Go(r, "writing")
    /\ UNCHANGED <<rows, children, links, tasks, hooks, early>>

StoreEnd(r) ==
    /\ req[r].stage = "writing"
    /\ stored' = [stored EXCEPT ![req[r].object] = "complete"]
    /\ req' = Go(r, "committing")
    /\ UNCHANGED <<rows, children, links, tasks, hooks, early>>

\* The store refuses: the handler fails, the session is rolled back.
StoreFails(r) ==
    /\ MayRefuse
    /\ req[r].stage = "writing"
    /\ req' = [req EXCEPT ![r].stage = "failed", ![r].newRows = {}]
    /\ UNCHANGED <<rows, children, links, stored, tasks, hooks, early>>

-----------------------------------------------------------------------------
(* The end of create_object *)

\* Fault: only blobs that are new become children.
CommitNewBlobs(r) ==
    /\ req[r].stage = "committing"
    /\ rows' = Visible(r)
    /\ children' = children \cup {<<req[r].object, b>> :
                                    b \in Embedded(req[r].object) \cap req[r].newRows}
    /\ req' = [req EXCEPT ![r].stage = IF req[r].isNew THEN "created" ELSE "hooks",
                          ![r].newRows = {}]
    /\ UNCHANGED <<links, stored, tasks, hooks, early>>

\* ConfigUploader makes the blobs children of the config; create_object commits.
Commit(r) ==
    /\ req[r].stage = "committing"
    /\ rows' = Visible(r)
    /\ children' = children \cup {<<req[r].object, b>> : b \in Embedded(req[r].object)}
    /\ req' = [req EXCEPT ![r].stage = IF req[r].isNew THEN "created" ELSE "hooks",
                          ![r].newRows = {}]
    /\ UNCHANGED <<links, stored, tasks, hooks, early>>

\* add_parent also gives a blob the groups of the config.  If another request has just given
\* one of them to a blob that was there before, ObjectPermission.create rolls back the
\* whole transaction, and the link of the next blob finds no config: the handler fails.
LinkFails(r) ==
    /\ req[r].stage = "committing"
    /\ req[r].object \in req[r].newRows
    /\ Len(Embeds[req[r].object]) > 1
    /\ Embedded(req[r].object) \cap rows # {}
    /\ req' = [req EXCEPT ![r].stage = "failed", ![r].newRows = {}]
    /\ UNCHANGED <<rows, children, links, stored, tasks, hooks, early>>

\* on_created: a new object is analysed unless the upload has named an analysis.
OnCreated(r) ==
    /\ req[r].stage = "created"
    /\ req' = Go(r, IF IsAnalyzed(req[r].object) THEN "hooks" ELSE "sending")
    /\ UNCHANGED <<rows, children, links, stored, tasks, hooks, early>>

\* File.open: a file that is not uploaded in this request is read back from the store.
Readable(r) ==
    req[r].kind = "reanalyze" /\ req[r].object \in Files => stored[req[r].object] # "absent"

\* spawn_analysis, first half: the task.
SendTask(r) ==
    /\ req[r].stage = "sending"
    /\ Readable(r)
    /\ tasks' = tasks \cup {<<r, req[r].object>>}
    /\ req' = Go(r, "spawning")
    /\ UNCHANGED <<rows, children, links, stored, hooks, early>>

\* Fault: an error of Karton is logged and forgotten.
SendFailsIgnored(r) ==
    /\ MayRefuse
    /\ req[r].stage = "sending"
    /\ req' = Go(r, "hooks")
    /\ UNCHANGED <<rows, children, links, stored, tasks, hooks, early>>

\* Karton refuses, or the file is not in the store: the handler fails.
SendFails(r) ==
    /\ req[r].stage = "sending"
    /\ Readable(r) => MayRefuse
    /\ req' = Go(r, "failed")
    /\ UNCHANGED <<rows, children, links, stored, tasks, hooks, early>>

\* spawn_analysis, second half: the row of the analysis.  An artifact of the task may have
\* been uploaded already; then the INSERT raises IntegrityError and the handler fails.
InsertAnalysis(r) ==
    /\ req[r].stage = "spawning"
    /\ IF \E l \in links : l[1] = r
       THEN req' = Go(r, "failed") /\ UNCHANGED links
       ELSE req' = Go(r, "hooks") /\ links' = links \cup {<<r, req[r].object>>}
    /\ UNCHANGED <<rows, children, stored, tasks, hooks, early>>

\* The response 200, after which app.run_hooks runs what on_created or on_reuploaded
\* has scheduled.
RunHooks(r) ==
    /\ req[r].stage = "hooks"
    /\ hooks' = hooks \cup
          (IF req[r].kind = "reanalyze" THEN {}
           ELSE {<<IF req[r].isNew THEN "created" ELSE "reuploaded", req[r].object, r>>})
    /\ req' = Go(r, "answered")
    /\ UNCHANGED <<rows, children, links, stored, tasks, early>>

\* PostgreSQL aborts a transaction that waits for itself.
DeadlockAbort(r) ==
    /\ \E q \in WaitsFor(r) : \E S \in SUBSET Requests :
          /\ {q, r} \subseteq S
          /\ \A x \in S : WaitsFor(x) \cap S # {}
    /\ req' = [req EXCEPT ![r].stage = "failed", ![r].newRows = {}]
    /\ UNCHANGED <<rows, children, links, stored, tasks, hooks, early>>

\* The worker dies; its open transaction is rolled back.
Crash(r) ==
    /\ MayCrash
    /\ InProgress(r)
    /\ req' = [req EXCEPT ![r].stage = "crashed", ![r].newRows = {}]
    /\ UNCHANGED <<rows, children, links, stored, tasks, hooks, early>>

Step(r) ==
    \/ Lookup(r) \/ Insert(r) \/ Created(r) \/ AssignAnalysis(r)
    \/ SkipStore(r) \/ StoreBegin(r) \/ StoreEnd(r) \/ StoreFails(r)
    \/ Commit(r) \/ LinkFails(r) \/ OnCreated(r) \/ SendTask(r) \/ SendFails(r) \/ InsertAnalysis(r)
    \/ RunHooks(r) \/ DeadlockAbort(r)

Next == \E r \in Requests : BeginUpload(r) \/ BeginReanalyze(r) \/ Step(r) \/ Crash(r)

Spec == Init /\ [][Next]_vars

\* A worker goes on with a request it has begun, unless it dies.
Fairness == \A r \in Requests : WF_vars(Step(r))

FairSpec == Spec /\ Fairness

-----------------------------------------------------------------------------
(* Properties *)

TypeOK ==
    /\ rows \subseteq Objects
    /\ children \subseteq Objects \X Objects
    /\ links \subseteq Requests \X Objects
    /\ stored \in [Files -> Contents]
    /\ tasks \subseteq Requests \X Objects
    /\ hooks \subseteq {"created", "reuploaded"} \X Objects \X Requests
    /\ early \subseteq Objects
    /\ req \in [Requests -> Reqs]

\* A committed file has its content in the store, whatever overlaps, dies or refuses,
\* unless assign_analysis has committed its row early.
ContentStored == \A f \in (rows \cap Files) \ early : stored[f] = "complete"

\* A committed config has its embedded blobs as children, with the same exception.
EmbeddedLinked == \A o \in rows \ early : \A b \in Embedded(o) : <<o, b>> \in children

\* Hooks tell of committed objects only, and of the creation of an object once.
CreatedOnce ==
    /\ \A h \in hooks : h[2] \in rows
    /\ \A h, k \in hooks : h[1] = "created" /\ k[1] = "created" /\ h[2] = k[2] => h = k

\* An object whose creation was announced is associated with an analysis.
CreatedMeansAnalyzed == \A h \in hooks : h[1] = "created" => IsAnalyzed(h[2])

\* However uploads of the same content overlap, at most one of them sends it to Karton.
OneTaskPerUpload ==
    \A s, t \in tasks :
        (s[2] = t[2] /\ req[s[1]].kind = "upload" /\ req[t[1]].kind = "upload") => s = t

Busy(o) == \E r \in Requests : InProgress(r) /\ o \in Embedded(req[r].object) \cup {req[r].object}

\* Every new object is analysed: once its upload is over it has a task or an analysis.
NewObjectsAnalyzed ==
    \A o \in rows : ~Busy(o) => IsAnalyzed(o) \/ \E t \in tasks : t[2] = o

\* A task can be tracked: once the request that sent it is over, the object is associated
\* with it.
TasksTracked == \A t \in tasks : ~InProgress(t[1]) => t \in links

\* Every request that has begun ends.
UploadsEnd == \A r \in Requests : InProgress(r) ~> ~InProgress(r)

-----------------------------------------------------------------------------
(* The inductive invariant behind the safety properties: a row that is not       *)
(* committed yet belongs to one request, the one that found the object new.      *)

\* The stages in which the transaction of the upload is open.
Open == {"creating", "inserting", "assigning", "storing", "writing", "committing"}

\* The object comes last, and once it has been looked up or inserted it is there.
PendingInv(r) ==
    LET x == req[r]
    IN  /\ \A i \in DOMAIN x.pending :
              x.pending[i] \in Embedded(x.object) \/ (i = Len(x.pending) /\ x.pending[i] = x.object)
        /\ x.pending # <<>> => x.pending[Len(x.pending)] = x.object
        /\ x.stage = "inserting" => x.pending # <<>>
        /\ x.stage \in Open \ {"creating", "inserting"} => x.pending = <<>>
        /\ x.stage \in Open /\ x.pending = <<>> => x.object \in Visible(r)
        /\ x.stage \in {"created", "sending", "spawning", "hooks", "answered"} => x.object \in rows

RowsInv(r) ==
    LET x == req[r]
    IN  /\ x.newRows \subseteq Embedded(x.object) \cup {x.object}
        /\ x.newRows \cap rows = {}
        /\ x.stage \notin Open => x.newRows = {}
        /\ x.object \in x.newRows => x.isNew /\ x.pending = <<>>
        /\ x.stage \in Open /\ x.isNew => x.object \in x.newRows \cup early

\* The content of a file is written by the request that found it new.
StoreInv(r) ==
    LET x == req[r]
    IN  /\ x.stage = "writing" => x.isNew /\ x.object \in Files
        /\ x.stage = "committing" /\ x.object \in x.newRows \cap Files
              => stored[x.object] = "complete"

\* Only uploads find objects new, and announce those that are analysed.
NewInv(r) ==
    LET x == req[r]
    IN  /\ x.kind = "reanalyze" => ~x.isNew /\ x.stage \notin Open \cup {"created"}
        /\ x.stage = "new" => ~x.isNew /\ x.pending = <<>>
        /\ x.kind = "upload" /\ x.stage \in {"created", "sending", "spawning"} => x.isNew
        /\ x.stage = "hooks" /\ x.isNew => IsAnalyzed(x.object)

\* Request r has found its object new, and that was not undone by a rollback.
Claims(r) ==
    req[r].isNew /\ (InProgress(r) \/ req[r].stage = "answered" \/ \E t \in tasks : t[1] = r)

ClaimsInv ==
    /\ \A r \in Requests : Claims(r) => req[r].object \in Visible(r)
    /\ \A r, q \in Requests : r # q => req[r].newRows \cap req[q].newRows = {}
    /\ \A r, q \in Requests : Claims(r) /\ Claims(q) /\ req[r].object = req[q].object => r = q

\* What tasks and hooks say of the requests that sent and ran them.
HistoryInv ==
    /\ early \subseteq rows
    /\ \A t \in tasks :
          /\ req[t[1]].object = t[2]
          /\ req[t[1]].stage \in {"spawning", "hooks", "answered", "failed", "crashed"}
          /\ req[t[1]].kind = "upload" => req[t[1]].isNew
    /\ \A h \in hooks :
          /\ req[h[3]].object = h[2]
          /\ req[h[3]].stage = "answered"
          /\ h[1] = "created" => req[h[3]].isNew /\ IsAnalyzed(h[2])

RequestsInv == \A r \in Requests : PendingInv(r) /\ RowsInv(r) /\ StoreInv(r) /\ NewInv(r)

IInv == RequestsInv /\ ClaimsInv /\ HistoryInv /\ ContentStored /\ EmbeddedLinked
=============================================================================
