---------------------------- MODULE Upload_proofs ---------------------------
(***************************************************************************)
(* Proofs about Upload: any number of requests and objects, with and       *)
(* without crashes and refusals.                                           *)
(***************************************************************************)
EXTENDS Upload, SequenceTheorems, TLAPS

-----------------------------------------------------------------------------
(* Type correctness *)

\* assign_analysis is called with the analysis the request names, the INSERT with an object.
ArgumentsOK ==
    \A r \in Requests :
        /\ req[r].stage = "assigning" => req[r].kartonId \in Requests
        /\ req[r].stage = "inserting" => req[r].pending # <<>>

TypeInv == TypeOK /\ ArgumentsOK

LEMMA TailType ==
    ASSUME NEW s \in Seq(Objects), s # <<>>
    PROVE  /\ Head(s) \in Objects
           /\ Tail(s) \in Seq(Objects)
OBVIOUS

LEMMA PartsType ==
    ASSUME NEW o \in Objects
    PROVE  Append(Embeds[o], o) \in Seq(Objects)
<1>1. Embeds[o] \in Seq(Objects)
  BY UploadAssumption
<1>2. QED
  BY <1>1

LEMMA InitType == Init => TypeInv
<1> SUFFICES ASSUME Init PROVE TypeInv
  OBVIOUS
<1>1. stored \in [Files -> Contents]
  BY DEF Init, Contents
<1>2. ASSUME NEW r \in Requests PROVE req[r] \in Reqs /\ req[r].stage = "new"
  <2>1. PICK k \in Kinds, o \in Objects :
          req[r] = [stage |-> "new", kind |-> k, object |-> o, kartonId |-> NoAnalysis,
                    pending |-> <<>>, isNew |-> FALSE, newRows |-> {}]
    BY DEF Init
  <2>2. k \in {"upload", "reanalyze"} /\ <<>> \in Seq(Objects)
    BY UploadAssumption
  <2>3. QED
    BY <2>1, <2>2 DEF Reqs, Stages
<1>3. \E f : req = f /\ DOMAIN req = Requests
  BY DEF Init
<1>4. req \in [Requests -> Reqs]
  <2>1. req = [r \in Requests |-> req[r]]
    BY DEF Init
  <2>2. QED
    BY <1>2, <2>1
<1>5. QED
  BY <1>1, <1>2, <1>4 DEF Init, TypeInv, TypeOK, ArgumentsOK

\* Every action replaces the state of one request.
OnlyOf(r) == \A q \in Requests : q # r => req'[q] = req[q]

LEMMA Replaced ==
    ASSUME NEW r \in Requests, NEW x \in Reqs, req \in [Requests -> Reqs],
           req' = [req EXCEPT ![r] = x]
    PROVE  req' \in [Requests -> Reqs] /\ req'[r] = x /\ OnlyOf(r)
BY DEF OnlyOf

\* What changes in that state: the rest of the record is the request's and stays.
Becomes(r, stage, pending, isNew, newRows) ==
    /\ req'[r].stage = stage
    /\ req'[r].pending = pending
    /\ req'[r].isNew = isNew
    /\ req'[r].newRows = newRows
    /\ req'[r].object = req[r].object
    /\ req'[r].kind = req[r].kind

\* What it replaces is well-formed.
LEMMA StageType ==
    ASSUME NEW x \in Reqs, NEW stage \in Stages
    PROVE  /\ [x EXCEPT !.stage = stage] \in Reqs
           /\ [x EXCEPT !.stage = stage, !.newRows = {}] \in Reqs
BY DEF Reqs

LEMMA GoType ==
    ASSUME NEW r \in Requests, NEW stage \in Stages, req \in [Requests -> Reqs],
           req' = Go(r, stage)
    PROVE  /\ req' \in [Requests -> Reqs] /\ OnlyOf(r)
           /\ req'[r] = [req[r] EXCEPT !.stage = stage]
<1>1. req' = [req EXCEPT ![r] = [req[r] EXCEPT !.stage = stage]]
  BY DEF Go
<1>2. QED
  BY <1>1, StageType, Replaced

LEMMA EndType ==
    ASSUME NEW r \in Requests, NEW stage \in Stages, req \in [Requests -> Reqs],
           req' = [req EXCEPT ![r].stage = stage, ![r].newRows = {}]
    PROVE  /\ req' \in [Requests -> Reqs] /\ OnlyOf(r)
           /\ req'[r] = [req[r] EXCEPT !.stage = stage, !.newRows = {}]
<1>1. req' = [req EXCEPT ![r] = [req[r] EXCEPT !.stage = stage, !.newRows = {}]]
  OBVIOUS
<1>2. QED
  BY <1>1, StageType, Replaced

\* Record of the request once the next of its objects has been found or inserted.
LEMMA PendingType ==
    ASSUME NEW x \in Reqs, x.pending # <<>>,
           NEW isNew \in BOOLEAN, NEW newRows \in SUBSET Objects
    PROVE  /\ [x EXCEPT !.pending = Tail(@)] \in Reqs
           /\ [x EXCEPT !.stage = "creating", !.pending = Tail(@)] \in Reqs
           /\ [x EXCEPT !.stage = "creating", !.pending = Tail(@),
                        !.newRows = newRows, !.isNew = isNew] \in Reqs
<1>1. x.pending \in Seq(Objects)
  BY DEF Reqs
<1>2. Tail(x.pending) \in Seq(Objects)
  BY <1>1, TailType
<1>3. "creating" \in Stages
  BY DEF Stages
<1>4. QED
  BY <1>2, <1>3 DEF Reqs

-----------------------------------------------------------------------------
(* What each action does to the request it belongs to *)

LEMMA BeginUploadEffect ==
    ASSUME TypeInv, NEW r \in Requests, BeginUpload(r)
    PROVE  /\ req' \in [Requests -> Reqs] /\ OnlyOf(r)
           /\ Becomes(r, "creating", Append(Embeds[req[r].object], req[r].object),
                      req[r].isNew, req[r].newRows)
<1> DEFINE parts == Append(Embeds[req[r].object], req[r].object)
<1>1. req \in [Requests -> Reqs] /\ tasks \subseteq Requests \X Objects
  BY DEF TypeInv, TypeOK
<1>2. parts \in Seq(Objects)
  BY <1>1, PartsType DEF Reqs
<1>3. PICK a \in {NoAnalysis} \cup (IF UseKartonId THEN {t[1] : t \in tasks} ELSE {}) :
        req' = [req EXCEPT ![r].stage = "creating", ![r].kartonId = a, ![r].pending = parts]
  BY DEF BeginUpload
<1>4. a \in Requests \cup {NoAnalysis}
  BY <1>1, <1>3
<1> HIDE DEF parts
<1> DEFINE x == [req[r] EXCEPT !.stage = "creating", !.kartonId = a, !.pending = parts]
<1>5. req' = [req EXCEPT ![r] = x]
  BY <1>3
<1>6. x \in Reqs
  <2>1. req[r] \in Reqs /\ "creating" \in Stages
    BY <1>1 DEF Stages
  <2>2. QED
    BY <2>1, <1>2, <1>4 DEF Reqs
<1> HIDE DEF x
<1>7. req' \in [Requests -> Reqs] /\ OnlyOf(r) /\ req'[r] = x
  BY <1>1, <1>5, <1>6, Replaced
<1>8. Becomes(r, "creating", parts, req[r].isNew, req[r].newRows)
  BY <1>1, <1>7 DEF x, Becomes, Reqs
<1>9. QED
  BY <1>7, <1>8 DEF parts

LEMMA LookupEffect ==
    ASSUME TypeInv, NEW r \in Requests, Lookup(r)
    PROVE  /\ req' \in [Requests -> Reqs] /\ OnlyOf(r)
           /\ IF Head(req[r].pending) \in Visible(r)
              THEN Becomes(r, "creating", Tail(req[r].pending), req[r].isNew, req[r].newRows)
              ELSE Becomes(r, "inserting", req[r].pending, req[r].isNew, req[r].newRows)
<1>1. req \in [Requests -> Reqs] /\ "inserting" \in Stages
  BY DEF TypeInv, TypeOK, Stages
<1>2. CASE Head(req[r].pending) \in Visible(r)
  <2>1. req' = [req EXCEPT ![r] = [req[r] EXCEPT !.pending = Tail(@)]]
    BY <1>2 DEF Lookup
  <2>2. [req[r] EXCEPT !.pending = Tail(@)] \in Reqs
    BY <1>1, PendingType DEF Lookup
  <2>3. req' \in [Requests -> Reqs] /\ OnlyOf(r) /\ req'[r] = [req[r] EXCEPT !.pending = Tail(@)]
    BY <1>1, <2>1, <2>2, Replaced
  <2>4. QED
    BY <1>1, <1>2, <2>3 DEF Lookup, Becomes, Reqs
<1>3. CASE Head(req[r].pending) \notin Visible(r)
  <2>1. /\ req' \in [Requests -> Reqs] /\ OnlyOf(r)
        /\ req'[r] = [req[r] EXCEPT !.stage = "inserting"]
    BY <1>1, <1>3, GoType DEF Lookup
  <2>2. QED
    BY <1>1, <1>3, <2>1 DEF Becomes, Reqs
<1>4. QED
  BY <1>2, <1>3

LEMMA InsertEffect ==
    ASSUME TypeInv, NEW r \in Requests, Insert(r)
    PROVE  LET o == Head(req[r].pending)
           IN  /\ req' \in [Requests -> Reqs] /\ OnlyOf(r)
               /\ o \in Objects
               /\ IF o \in rows
                  THEN Becomes(r, "creating", Tail(req[r].pending), req[r].isNew, req[r].newRows)
                  ELSE Becomes(r, "creating", Tail(req[r].pending), o = req[r].object,
                               req[r].newRows \cup {o})
<1> DEFINE o == Head(req[r].pending)
           isNew == (o = req[r].object)
           newRows == req[r].newRows \cup {o}
<1>1. req \in [Requests -> Reqs] /\ req[r] \in Reqs /\ req[r].pending # <<>>
  BY DEF TypeInv, TypeOK, ArgumentsOK, Insert
<1>2. o \in Objects
  BY <1>1, TailType DEF Reqs
<1>3. newRows \in SUBSET Objects /\ isNew \in BOOLEAN
  BY <1>1, <1>2 DEF Reqs
<1>4. CASE o \in rows
  <2>1. req' = [req EXCEPT ![r].stage = "creating", ![r].pending = Tail(@)]
    BY <1>4 DEF Insert
  <2>2. req' = [req EXCEPT ![r] = [req[r] EXCEPT !.stage = "creating", !.pending = Tail(@)]]
    BY <2>1
  <2>3. [req[r] EXCEPT !.stage = "creating", !.pending = Tail(@)] \in Reqs
    BY <1>1, <1>3, PendingType
  <2>4. /\ req' \in [Requests -> Reqs] /\ OnlyOf(r)
        /\ req'[r] = [req[r] EXCEPT !.stage = "creating", !.pending = Tail(@)]
    BY <1>1, <2>2, <2>3, Replaced
  <2>5. QED
    BY <1>1, <1>2, <1>4, <2>4 DEF Becomes, Reqs
<1>5. CASE o \notin rows
  <2> DEFINE x == [req[r] EXCEPT !.stage = "creating", !.pending = Tail(@),
                                 !.newRows = newRows, !.isNew = isNew]
  <2>1. req' = [req EXCEPT ![r].stage = "creating", ![r].pending = Tail(@),
                           ![r].newRows = newRows, ![r].isNew = isNew]
    BY <1>5 DEF Insert
  <2> HIDE DEF isNew, newRows
  <2>2. req' = [req EXCEPT ![r] = x]
    BY <2>1
  <2>3. x \in Reqs
    BY <1>1, <1>3, PendingType
  <2> HIDE DEF x
  <2>4. req' \in [Requests -> Reqs] /\ OnlyOf(r) /\ req'[r] = x
    BY <1>1, <2>2, <2>3, Replaced
  <2>5. Becomes(r, "creating", Tail(req[r].pending), isNew, newRows)
    BY <1>1, <2>4 DEF x, Becomes, Reqs
  <2>6. QED
    BY <1>2, <1>5, <2>4, <2>5 DEF isNew, newRows
<1>6. QED
  BY <1>4, <1>5

LEMMA AssignEffect ==
    ASSUME TypeInv, NEW r \in Requests, AssignAnalysis(r)
    PROVE  /\ req' \in [Requests -> Reqs] /\ OnlyOf(r)
           /\ Becomes(r, "storing", req[r].pending, req[r].isNew, {})
<1>1. req \in [Requests -> Reqs] /\ "storing" \in Stages
  BY DEF TypeInv, TypeOK, Stages
<1>2. /\ req' \in [Requests -> Reqs] /\ OnlyOf(r)
      /\ req'[r] = [req[r] EXCEPT !.stage = "storing", !.newRows = {}]
  BY <1>1, EndType DEF AssignAnalysis
<1>3. QED
  BY <1>1, <1>2 DEF Becomes, Reqs

LEMMA CommitEffect ==
    ASSUME TypeInv, NEW r \in Requests, Commit(r)
    PROVE  /\ req' \in [Requests -> Reqs] /\ OnlyOf(r)
           /\ Becomes(r, IF req[r].isNew THEN "created" ELSE "hooks", req[r].pending,
                      req[r].isNew, {})
<1> DEFINE stage == IF req[r].isNew THEN "created" ELSE "hooks"
<1>1. req \in [Requests -> Reqs] /\ stage \in Stages
  BY DEF TypeInv, TypeOK, Stages
<1>2. req' = [req EXCEPT ![r].stage = stage, ![r].newRows = {}]
  BY DEF Commit
<1> HIDE DEF stage
<1>3. /\ req' \in [Requests -> Reqs] /\ OnlyOf(r)
      /\ req'[r] = [req[r] EXCEPT !.stage = stage, !.newRows = {}]
  BY <1>1, <1>2, EndType
<1>4. Becomes(r, stage, req[r].pending, req[r].isNew, {})
  BY <1>1, <1>3 DEF Becomes, Reqs
<1>5. QED
  BY <1>3, <1>4 DEF stage

\* The actions that only go on to another stage, and those that end a request early.
GoesOn(r) ==
    \/ BeginReanalyze(r) \/ Created(r) \/ SkipStore(r) \/ StoreBegin(r) \/ StoreEnd(r)
    \/ OnCreated(r) \/ SendTask(r) \/ SendFails(r) \/ InsertAnalysis(r) \/ RunHooks(r)
GivesUp(r) == StoreFails(r) \/ LinkFails(r) \/ DeadlockAbort(r) \/ Crash(r)

LEMMA GoesOnEffect ==
    ASSUME TypeInv, NEW r \in Requests, GoesOn(r)
    PROVE  /\ req' \in [Requests -> Reqs] /\ OnlyOf(r)
           /\ \E stage \in Stages :
                 /\ req' = Go(r, stage)
                 /\ Becomes(r, stage, req[r].pending, req[r].isNew, req[r].newRows)
                 /\ req'[r].kartonId = req[r].kartonId
<1>1. req \in [Requests -> Reqs]
  BY DEF TypeInv, TypeOK
<1>2. PICK stage \in Stages : req' = Go(r, stage)
  <2>1. {"sending", "assigning", "storing", "committing", "writing", "hooks", "spawning",
         "failed", "answered"} \subseteq Stages
    BY DEF Stages
  <2>2. QED
    BY <2>1 DEF GoesOn, BeginReanalyze, Created, SkipStore, StoreBegin, StoreEnd, OnCreated,
                SendTask, SendFails, InsertAnalysis, RunHooks
<1>3. /\ req' \in [Requests -> Reqs] /\ OnlyOf(r)
      /\ req'[r] = [req[r] EXCEPT !.stage = stage]
  BY <1>1, <1>2, GoType
<1>4. Becomes(r, stage, req[r].pending, req[r].isNew, req[r].newRows)
  BY <1>1, <1>3 DEF Becomes, Reqs
<1>5. req'[r].kartonId = req[r].kartonId
  BY <1>1, <1>3 DEF Reqs
<1>6. QED
  BY <1>2, <1>3, <1>4, <1>5

LEMMA GivesUpEffect ==
    ASSUME TypeInv, NEW r \in Requests, GivesUp(r)
    PROVE  /\ req' \in [Requests -> Reqs] /\ OnlyOf(r)
           /\ \E stage \in {"failed", "crashed"} :
                 Becomes(r, stage, req[r].pending, req[r].isNew, {})
           /\ UNCHANGED <<rows, children, links, stored, tasks, hooks, early>>
<1>1. req \in [Requests -> Reqs] /\ {"failed", "crashed"} \subseteq Stages
  BY DEF TypeInv, TypeOK, Stages
<1>2. PICK stage \in {"failed", "crashed"} : req' = [req EXCEPT ![r].stage = stage, ![r].newRows = {}]
  BY DEF GivesUp, StoreFails, LinkFails, DeadlockAbort, Crash
<1>3. /\ req' \in [Requests -> Reqs] /\ OnlyOf(r)
      /\ req'[r] = [req[r] EXCEPT !.stage = stage, !.newRows = {}]
  BY <1>1, <1>2, EndType
<1>4. Becomes(r, stage, req[r].pending, req[r].isNew, {})
  BY <1>1, <1>3 DEF Becomes, Reqs
<1>5. QED
  BY <1>3, <1>4 DEF GivesUp, StoreFails, LinkFails, DeadlockAbort, Crash

LEMMA NextCases ==
    ASSUME Next
    PROVE  \E r \in Requests :
              \/ BeginUpload(r) \/ Lookup(r) \/ Insert(r) \/ AssignAnalysis(r) \/ Commit(r)
              \/ GoesOn(r) \/ GivesUp(r)
BY DEF Next, Step, GoesOn, GivesUp

LEMMA StepType ==
    ASSUME TypeInv, Next
    PROVE  TypeInv'
<1>0. /\ req \in [Requests -> Reqs] /\ ArgumentsOK
      /\ \A r \in Requests : req[r].object \in Objects /\ req[r].newRows \subseteq Objects
  BY DEF TypeInv, TypeOK, Reqs
<1>1. ASSUME NEW r \in Requests, BeginUpload(r) PROVE TypeInv'
  <2>1. req' \in [Requests -> Reqs] /\ OnlyOf(r) /\ req'[r].stage = "creating"
    BY <1>1, BeginUploadEffect DEF Becomes
  <2>2. ArgumentsOK'
    BY <1>0, <2>1 DEF ArgumentsOK, OnlyOf
  <2>3. QED
    BY <1>1, <2>1, <2>2 DEF BeginUpload, TypeInv, TypeOK
<1>2. ASSUME NEW r \in Requests, Lookup(r) PROVE TypeInv'
  <2>1. req' \in [Requests -> Reqs] /\ OnlyOf(r)
    BY <1>2, LookupEffect
  <2>2. \/ req'[r].stage = "creating"
        \/ req'[r].stage = "inserting" /\ req'[r].pending # <<>>
    BY <1>2, LookupEffect DEF Lookup, Becomes
  <2>3. ArgumentsOK'
    BY <1>0, <2>1, <2>2 DEF ArgumentsOK, OnlyOf
  <2>4. QED
    BY <1>2, <2>1, <2>3 DEF Lookup, TypeInv, TypeOK
<1>3. ASSUME NEW r \in Requests, Insert(r) PROVE TypeInv'
  <2>1. req' \in [Requests -> Reqs] /\ OnlyOf(r) /\ req'[r].stage = "creating"
    BY <1>3, InsertEffect DEF Becomes
  <2>2. ArgumentsOK'
    BY <1>0, <2>1 DEF ArgumentsOK, OnlyOf
  <2>3. QED
    BY <1>3, <2>1, <2>2 DEF Insert, TypeInv, TypeOK
<1>4. ASSUME NEW r \in Requests, AssignAnalysis(r) PROVE TypeInv'
  <2>1. req' \in [Requests -> Reqs] /\ OnlyOf(r) /\ req'[r].stage = "storing"
    BY <1>4, AssignEffect DEF Becomes
  <2>2. ArgumentsOK'
    BY <1>0, <2>1 DEF ArgumentsOK, OnlyOf
  <2>3. req[r].kartonId \in Requests
    BY <1>0, <1>4 DEF AssignAnalysis, ArgumentsOK
  <2>4. QED
    BY <1>0, <1>4, <2>1, <2>2, <2>3 DEF AssignAnalysis, Visible, TypeInv, TypeOK
<1>5. ASSUME NEW r \in Requests, Commit(r) PROVE TypeInv'
  <2>1. /\ req' \in [Requests -> Reqs] /\ OnlyOf(r)
        /\ req'[r].stage \in {"created", "hooks"}
    BY <1>5, CommitEffect DEF Becomes
  <2>2. ArgumentsOK'
    BY <1>0, <2>1 DEF ArgumentsOK, OnlyOf
  <2>3. Embedded(req[r].object) \subseteq Objects
    BY <1>0, UploadAssumption DEF Embedded
  <2>4. QED
    BY <1>0, <1>5, <2>1, <2>2, <2>3 DEF Commit, Visible, TypeInv, TypeOK
<1>6. ASSUME NEW r \in Requests, GoesOn(r) PROVE TypeInv'
  <2>1. PICK stage \in Stages :
          /\ req' \in [Requests -> Reqs] /\ OnlyOf(r)
          /\ req' = Go(r, stage)
          /\ req'[r].stage = stage /\ req'[r].kartonId = req[r].kartonId
    BY <1>6, GoesOnEffect DEF Becomes
  <2>2. stage # "inserting" /\ (stage = "assigning" => req[r].kartonId # NoAnalysis)
    <3>1. \A st : req' = Go(r, st) => stage = st
      BY <1>0, <2>1 DEF Go, Reqs
    <3>2. QED
      BY <1>6, <3>1 DEF GoesOn, BeginReanalyze, Created, SkipStore, StoreBegin,
            StoreEnd, OnCreated, SendTask, SendFails, InsertAnalysis, RunHooks
  <2>3. req[r].kartonId \in Requests \cup {NoAnalysis}
    BY <1>0 DEF Reqs
  <2>4. ArgumentsOK'
    BY <1>0, <2>1, <2>2, <2>3 DEF ArgumentsOK, OnlyOf
  <2>5. /\ rows' \subseteq Objects /\ children' \subseteq Objects \X Objects
        /\ links' \subseteq Requests \X Objects /\ tasks' \subseteq Requests \X Objects
        /\ early' \subseteq Objects
    BY <1>0, <1>6 DEF TypeInv, TypeOK, GoesOn, BeginReanalyze, Created, SkipStore, StoreBegin,
                StoreEnd, OnCreated, SendTask, SendFails, InsertAnalysis, RunHooks
  <2>6. stored' \in [Files -> Contents]
    BY <1>6 DEF TypeInv, TypeOK, GoesOn, BeginReanalyze, Created, SkipStore, StoreBegin, StoreEnd,
                OnCreated, SendTask, SendFails, InsertAnalysis, RunHooks, Contents
  <2>7. hooks' \subseteq {"created", "reuploaded"} \X Objects \X Requests
    BY <1>0, <1>6 DEF TypeInv, TypeOK, GoesOn, BeginReanalyze, Created, SkipStore, StoreBegin,
                StoreEnd, OnCreated, SendTask, SendFails, InsertAnalysis, RunHooks
  <2>8. QED
    BY <2>1, <2>4, <2>5, <2>6, <2>7 DEF TypeInv, TypeOK
<1>7. ASSUME NEW r \in Requests, GivesUp(r) PROVE TypeInv'
  <2>1. /\ req' \in [Requests -> Reqs] /\ OnlyOf(r)
        /\ req'[r].stage \in {"failed", "crashed"}
        /\ UNCHANGED <<rows, children, links, stored, tasks, hooks, early>>
    BY <1>7, GivesUpEffect DEF Becomes
  <2>2. ArgumentsOK'
    BY <1>0, <2>1 DEF ArgumentsOK, OnlyOf
  <2>3. QED
    BY <2>1, <2>2 DEF TypeInv, TypeOK
<1>8. QED
  BY <1>1, <1>2, <1>3, <1>4, <1>5, <1>6, <1>7, NextCases

-----------------------------------------------------------------------------
(* What a step keeps without touching it *)

\* Embedded blobs are no files and embed nothing.
LEMMA EmbeddedPlain ==
    ASSUME NEW o \in Objects
    PROVE  /\ Embedded(o) \subseteq Objects \ Files
           /\ \A b \in Embedded(o) : Embedded(b) = {}
           /\ o \notin Embedded(o)
<1>1. Embedded(o) \subseteq Objects \ Files
  BY UploadAssumption DEF Embedded
<1>2. ASSUME NEW b \in Embedded(o) PROVE Embedded(b) = {}
  <2>1. PICK i \in DOMAIN Embeds[o] : b = Embeds[o][i]
    BY DEF Embedded
  <2>2. Embeds[b] = <<>>
    BY <2>1, UploadAssumption
  <2>3. DOMAIN Embeds[b] = {}
    BY <2>2
  <2>4. QED
    BY <2>3 DEF Embedded
<1>3. QED
  BY <1>1, <1>2

RequestInv(r) == PendingInv(r) /\ RowsInv(r) /\ StoreInv(r) /\ NewInv(r)

\* A request that takes no step keeps its part of the invariant, as long as nobody else
\* commits its rows or touches the content it has written.
LEMMA OthersKeep ==
    ASSUME NEW q \in Requests, RequestInv(q), req'[q] = req[q],
           rows \subseteq rows', early \subseteq early', links \subseteq links',
           req[q].newRows \cap rows' = {},
           req[q].object \in req[q].newRows \cap Files
              => stored'[req[q].object] = stored[req[q].object]
    PROVE  RequestInv(q)'
<1>1. PendingInv(q)'
  BY DEF RequestInv, PendingInv, Visible
<1>2. RowsInv(q)'
  BY DEF RequestInv, RowsInv
<1>3. StoreInv(q)'
  BY DEF RequestInv, StoreInv
<1>4. NewInv(q)'
  BY DEF RequestInv, NewInv, IsAnalyzed
<1>5. QED
  BY <1>1, <1>2, <1>3, <1>4 DEF RequestInv

\* Claims are kept by every step that finds no new object.
LEMMA ClaimsKeep ==
    ASSUME ClaimsInv, NEW r \in Requests, OnlyOf(r),
           req'[r].object = req[r].object, req'[r].newRows \subseteq req[r].newRows,
           rows \subseteq rows', \A t \in tasks' : t \in tasks \/ t[1] = r, tasks \subseteq tasks',
           Claims(r)' => Claims(r) /\ req[r].newRows \subseteq rows' \cup req'[r].newRows
    PROVE  ClaimsInv'
<1>1. ASSUME NEW q \in Requests, q # r PROVE req'[q] = req[q] /\ (Claims(q)' => Claims(q))
  BY <1>1 DEF OnlyOf, Claims, InProgress
<1>2. ASSUME NEW q \in Requests, Claims(q)' PROVE (req[q].object \in Visible(q))'
  <2>1. CASE q = r
    BY <1>2, <2>1 DEF ClaimsInv, Visible
  <2>2. CASE q # r
    BY <1>1, <1>2, <2>2 DEF ClaimsInv, Visible
  <2>3. QED
    BY <2>1, <2>2
<1>3. ASSUME NEW p \in Requests, NEW q \in Requests, p # q
      PROVE  req'[p].newRows \cap req'[q].newRows = {}
  <2>1. req'[p].newRows \subseteq req[p].newRows /\ req'[q].newRows \subseteq req[q].newRows
    BY <1>1
  <2>2. req[p].newRows \cap req[q].newRows = {}
    BY <1>3 DEF ClaimsInv
  <2>3. QED
    BY <2>1, <2>2
<1>4. ASSUME NEW p \in Requests, NEW q \in Requests, Claims(p)', Claims(q)',
             req'[p].object = req'[q].object
      PROVE  p = q
  BY <1>1, <1>4 DEF ClaimsInv
<1>5. QED
  BY <1>2, <1>3, <1>4 DEF ClaimsInv

\* The stages of a request that may have sent its task.
Sent == {"spawning", "hooks", "answered", "failed", "crashed"}

LEMMA HistoryKeep ==
    ASSUME TypeInv, HistoryInv, NEW r \in Requests, OnlyOf(r), UNCHANGED <<tasks, hooks>>,
           req'[r].object = req[r].object, req'[r].kind = req[r].kind,
           req[r].stage # "answered",
           req[r].stage \in Sent => req'[r].stage \in Sent /\ req'[r].isNew = req[r].isNew,
           links \subseteq links', early' \subseteq rows'
    PROVE  HistoryInv'
<1>1. \A q \in Requests : q # r => req'[q] = req[q]
  BY DEF OnlyOf
<1>2. ASSUME NEW t \in tasks
      PROVE  /\ req'[t[1]].object = t[2]
             /\ req'[t[1]].stage \in Sent
             /\ req'[t[1]].kind = "upload" => req'[t[1]].isNew
  <2>1. t[1] \in Requests
    BY DEF TypeInv, TypeOK
  <2>2. QED
    BY <1>1, <2>1 DEF HistoryInv, Sent
<1>3. ASSUME NEW h \in hooks
      PROVE  /\ req'[h[3]].object = h[2]
             /\ req'[h[3]].stage = "answered"
             /\ h[1] = "created" => req'[h[3]].isNew /\ IsAnalyzed(h[2])'
  <2>1. h[3] \in Requests
    BY DEF TypeInv, TypeOK
  <2>2. h[3] # r
    BY DEF HistoryInv
  <2>3. QED
    BY <1>1, <2>1, <2>2 DEF HistoryInv, IsAnalyzed
<1>4. QED
  BY <1>2, <1>3 DEF HistoryInv, Sent

\* A step of request r that leaves the tables, the store and the history alone.
LEMMA QuietKeeps ==
    ASSUME TypeInv, IInv, NEW r \in Requests, OnlyOf(r), RequestInv(r)',
           UNCHANGED <<rows, children, stored, tasks, hooks, early>>, links \subseteq links',
           req'[r].object = req[r].object, req'[r].kind = req[r].kind,
           req'[r].newRows \subseteq req[r].newRows, req[r].stage # "answered",
           req[r].stage \in Sent => req'[r].stage \in Sent /\ req'[r].isNew = req[r].isNew,
           Claims(r)' => Claims(r) /\ req[r].newRows \subseteq rows' \cup req'[r].newRows
    PROVE  IInv'
<1>1. ASSUME NEW q \in Requests PROVE RequestInv(q)'
  <2>1. CASE q # r
    <3>1. RequestInv(q) /\ req'[q] = req[q]
      BY <2>1 DEF IInv, RequestsInv, RequestInv, OnlyOf
    <3>2. req[q].newRows \cap rows' = {}
      BY <3>1 DEF RequestInv, RowsInv
    <3>3. QED
      BY <3>1, <3>2, OthersKeep
  <2>2. QED
    BY <2>1
<1>2. RequestsInv'
  BY <1>1 DEF RequestsInv, RequestInv
<1>3. ClaimsInv'
  BY ClaimsKeep DEF IInv
<1>4. HistoryInv'
  <2>1. early' \subseteq rows'
    BY DEF IInv, HistoryInv
  <2>2. QED
    BY <2>1, HistoryKeep DEF IInv
<1>5. ContentStored' /\ EmbeddedLinked'
  BY DEF IInv, ContentStored, EmbeddedLinked
<1>6. QED
  BY <1>2, <1>3, <1>4, <1>5 DEF IInv

-----------------------------------------------------------------------------
(* The steps *)

LEMMA PartsPending ==
    ASSUME NEW o \in Objects, NEW p, p = Append(Embeds[o], o)
    PROVE  /\ \A i \in DOMAIN p : p[i] \in Embedded(o) \/ (i = Len(p) /\ p[i] = o)
           /\ p # <<>> /\ p[Len(p)] = o
<1>1. Embeds[o] \in Seq(Objects)
  BY UploadAssumption
<1>2. QED
  BY <1>1 DEF Embedded

LEMMA BeginUploadKeeps ==
    ASSUME TypeInv, IInv, NEW r \in Requests, BeginUpload(r)
    PROVE  IInv'
<1> DEFINE parts == Append(Embeds[req[r].object], req[r].object)
<1>1. /\ OnlyOf(r) /\ Becomes(r, "creating", parts, req[r].isNew, req[r].newRows)
      /\ req[r].stage = "new" /\ req[r].kind = "upload"
      /\ UNCHANGED <<rows, children, links, stored, tasks, hooks, early>>
  BY BeginUploadEffect DEF BeginUpload
<1>2. req[r].object \in Objects
  BY DEF TypeInv, TypeOK, Reqs
<1>3. /\ \A i \in DOMAIN parts : parts[i] \in Embedded(req[r].object)
                                    \/ (i = Len(parts) /\ parts[i] = req[r].object)
      /\ parts # <<>> /\ parts[Len(parts)] = req[r].object
  BY <1>2, PartsPending
<1> HIDE DEF parts
<1>4. ~req[r].isNew /\ req[r].newRows = {}
  BY <1>1 DEF IInv, RequestsInv, NewInv, RowsInv, Open
<1>5. RequestInv(r)'
  BY <1>1, <1>3, <1>4 DEF RequestInv, PendingInv, RowsInv, StoreInv, NewInv, Becomes, Open, Visible
<1>6. ~Claims(r)' /\ req[r].stage \notin Sent
  BY <1>1, <1>4 DEF Claims, Becomes, Sent
<1>7. QED
  BY <1>1, <1>5, <1>6, QuietKeeps DEF Becomes

\* What is left to look up or insert after the first of the objects.
LEMMA TailPending ==
    ASSUME NEW p \in Seq(Objects), p # <<>>, NEW E, NEW o, o \notin E,
           \A i \in DOMAIN p : p[i] \in E \/ (i = Len(p) /\ p[i] = o),
           p[Len(p)] = o
    PROVE  /\ \A i \in DOMAIN Tail(p) :
                 Tail(p)[i] \in E \/ (i = Len(Tail(p)) /\ Tail(p)[i] = o)
           /\ Tail(p) # <<>> => Tail(p)[Len(Tail(p))] = o
           /\ Tail(p) = <<>> <=> Head(p) = o
           /\ Head(p) \in E \cup {o}
<1>1. /\ Len(p) \in Nat /\ Len(p) >= 1 /\ Len(Tail(p)) = Len(p) - 1
      /\ DOMAIN p = 1..Len(p) /\ DOMAIN Tail(p) = 1..(Len(p) - 1)
      /\ \A i \in 1..(Len(p) - 1) : Tail(p)[i] = p[i + 1]
      /\ Head(p) = p[1]
  OBVIOUS
<1>2. Tail(p) = <<>> <=> Len(p) = 1
  BY <1>1
<1>3. Head(p) = o => Len(p) = 1
  BY <1>1
<1>4. QED
  BY <1>1, <1>2, <1>3

LEMMA LookupKeeps ==
    ASSUME TypeInv, IInv, NEW r \in Requests, Lookup(r)
    PROVE  IInv'
<1> DEFINE p == req[r].pending
           o == req[r].object
<1>1. /\ OnlyOf(r) /\ req[r].stage = "creating" /\ p # <<>>
      /\ UNCHANGED <<rows, children, links, stored, tasks, hooks, early>>
      /\ IF Head(p) \in Visible(r)
         THEN Becomes(r, "creating", Tail(p), req[r].isNew, req[r].newRows)
         ELSE Becomes(r, "inserting", p, req[r].isNew, req[r].newRows)
  BY LookupEffect DEF Lookup
<1>2. o \in Objects /\ p \in Seq(Objects)
  BY DEF TypeInv, TypeOK, Reqs
<1>3. RequestInv(r)
  BY DEF IInv, RequestsInv, RequestInv
<1>4. RequestInv(r)'
  <2>1. CASE Head(p) \in Visible(r)
    <3>1. /\ \A i \in DOMAIN Tail(p) :
                Tail(p)[i] \in Embedded(o) \/ (i = Len(Tail(p)) /\ Tail(p)[i] = o)
          /\ Tail(p) # <<>> => Tail(p)[Len(Tail(p))] = o
          /\ Tail(p) = <<>> <=> Head(p) = o
      BY <1>1, <1>2, <1>3, TailPending, EmbeddedPlain DEF RequestInv, PendingInv
    <3> DEFINE rest == Tail(p)
    <3> HIDE DEF rest
    <3>2. /\ req'[r].pending = rest
          /\ \A i \in DOMAIN rest : rest[i] \in Embedded(o) \/ (i = Len(rest) /\ rest[i] = o)
          /\ rest # <<>> => rest[Len(rest)] = o
          /\ rest = <<>> => o \in Visible(r)
      BY <1>1, <2>1, <3>1 DEF rest, Becomes
    <3>3. QED
      BY <1>1, <1>3, <2>1, <3>2
         DEF RequestInv, PendingInv, RowsInv, StoreInv, NewInv, Becomes, Open, Visible
  <2>2. CASE Head(p) \notin Visible(r)
    BY <1>1, <1>3, <2>2
       DEF RequestInv, PendingInv, RowsInv, StoreInv, NewInv, Becomes, Open, Visible
  <2>3. QED
    BY <2>1, <2>2
<1>5. /\ Claims(r)' => Claims(r)
      /\ req[r].stage \notin Sent /\ req'[r].newRows = req[r].newRows
      /\ req'[r].object = o /\ req'[r].kind = req[r].kind
  BY <1>1 DEF Claims, InProgress, Becomes, Sent
<1>6. QED
  BY <1>1, <1>4, <1>5, QuietKeeps

\* The row is inserted by the request that nobody else's row stands in the way of: it is
\* the only one to find the object new.
LEMMA InsertKeeps ==
    ASSUME TypeInv, IInv, NEW r \in Requests, Insert(r)
    PROVE  IInv'
<1> DEFINE p == req[r].pending
           o == req[r].object
           h == Head(p)
           rest == Tail(p)
<1>1. /\ OnlyOf(r) /\ req[r].stage = "inserting" /\ p # <<>> /\ h \in Objects
      /\ UNCHANGED <<rows, children, links, stored, tasks, hooks, early>>
      /\ IF h \in rows
         THEN Becomes(r, "creating", rest, req[r].isNew, req[r].newRows)
         ELSE Becomes(r, "creating", rest, h = o, req[r].newRows \cup {h})
      /\ \A q \in Requests : q # r => h \notin req[q].newRows
  BY InsertEffect DEF Insert, TypeInv, ArgumentsOK, WaitsFor
<1>2. o \in Objects /\ p \in Seq(Objects)
  BY DEF TypeInv, TypeOK, Reqs
<1>3. RequestInv(r)
  BY DEF IInv, RequestsInv, RequestInv
<1>4. /\ \A i \in DOMAIN rest : rest[i] \in Embedded(o) \/ (i = Len(rest) /\ rest[i] = o)
      /\ rest # <<>> => rest[Len(rest)] = o
      /\ rest = <<>> <=> h = o
      /\ h \in Embedded(o) \cup {o}
  BY <1>1, <1>2, <1>3, TailPending, EmbeddedPlain DEF RequestInv, PendingInv
<1> HIDE DEF rest, h
<1>5. /\ req[r].stage \notin Sent /\ req[r].stage # "answered"
      /\ req'[r].object = o /\ req'[r].kind = req[r].kind /\ req[r].kind = "upload"
      /\ o \notin req[r].newRows
  BY <1>1, <1>3 DEF Becomes, Sent, RequestInv, NewInv, RowsInv, Open, TypeInv, TypeOK, Reqs
<1>6. CASE h \in rows
  <2>1. RequestInv(r)'
    BY <1>1, <1>3, <1>4, <1>5, <1>6
       DEF RequestInv, PendingInv, RowsInv, StoreInv, NewInv, Becomes, Open, Visible
  <2>2. (Claims(r)' => Claims(r)) /\ req'[r].newRows = req[r].newRows
    BY <1>1, <1>6 DEF Claims, InProgress, Becomes
  <2>3. QED
    BY <1>1, <1>5, <2>1, <2>2, QuietKeeps
<1>7. CASE h \notin rows
  <2>1. Becomes(r, "creating", rest, h = o, req[r].newRows \cup {h})
    BY <1>1, <1>7
  <2>2. RequestInv(r)'
    <3>1. PendingInv(r)'
      BY <1>1, <1>4, <2>1 DEF PendingInv, Becomes, Open, Visible
    <3>2. RowsInv(r)'
      BY <1>1, <1>3, <1>4, <1>5, <1>7, <2>1 DEF RequestInv, RowsInv, Becomes, Open
    <3>3. StoreInv(r)' /\ NewInv(r)'
      BY <1>5, <2>1 DEF StoreInv, NewInv, Becomes, Open
    <3>4. QED
      BY <3>1, <3>2, <3>3 DEF RequestInv
  <2>3. ASSUME NEW q \in Requests PROVE RequestInv(q)'
    <3>1. CASE q # r
      <4>1. RequestInv(q) /\ req'[q] = req[q]
        BY <1>1, <3>1 DEF IInv, RequestsInv, RequestInv, OnlyOf
      <4>2. req[q].newRows \cap rows' = {}
        BY <1>1, <4>1 DEF RequestInv, RowsInv
      <4>3. QED
        BY <1>1, <4>1, <4>2, OthersKeep
    <3>2. QED
      BY <2>2, <3>1
  <2>4. ClaimsInv'
    <3>1. \A q \in Requests : q # r => req'[q] = req[q] /\ (Claims(q)' <=> Claims(q))
      BY <1>1 DEF OnlyOf, Claims, InProgress
    <3>2. /\ req'[r].newRows = req[r].newRows \cup {h}
          /\ Claims(r)' => h = o
      BY <2>1 DEF Claims, Becomes
    <3>3. ASSUME NEW q \in Requests, Claims(q)' PROVE (req[q].object \in Visible(q))'
      BY <1>1, <1>5, <3>1, <3>2, <3>3 DEF IInv, ClaimsInv, Visible
    <3>4. ASSUME NEW q \in Requests, NEW x \in Requests, q # x
          PROVE  req'[q].newRows \cap req'[x].newRows = {}
      BY <1>1, <3>1, <3>2, <3>4 DEF IInv, ClaimsInv
    <3>5. ASSUME NEW q \in Requests, q # r, Claims(q)', req[q].object = o, Claims(r)'
          PROVE  FALSE
      <4>1. o \in Visible(q) /\ h = o
        BY <3>1, <3>2, <3>5 DEF IInv, ClaimsInv
      <4>2. QED
        BY <1>1, <1>7, <3>5, <4>1 DEF Visible
    <3>6. ASSUME NEW q \in Requests, NEW x \in Requests, Claims(q)', Claims(x)',
                 req'[q].object = req'[x].object
          PROVE  q = x
      BY <1>5, <3>1, <3>5, <3>6 DEF IInv, ClaimsInv
    <3>7. QED
      BY <3>3, <3>4, <3>6 DEF ClaimsInv
  <2>5. HistoryInv'
    <3>1. early' \subseteq rows'
      BY <1>1 DEF IInv, HistoryInv
    <3>2. QED
      BY <1>1, <1>5, <3>1, HistoryKeep DEF IInv
  <2>6. QED
    BY <1>1, <2>3, <2>4, <2>5
       DEF IInv, RequestsInv, RequestInv, ContentStored, EmbeddedLinked
<1>8. QED
  BY <1>6, <1>7

\* Going on to another stage with nothing else changed.
LEMMA StageKeeps ==
    ASSUME TypeInv, IInv, NEW r \in Requests, OnlyOf(r), NEW stage,
           Becomes(r, stage, req[r].pending, req[r].isNew, req[r].newRows),
           UNCHANGED <<rows, children, stored, tasks, hooks, early>>, links \subseteq links',
           req[r].stage # "answered", req[r].stage \in Sent => stage \in Sent,
           req[r].stage = "new" => ~req[r].isNew, InProgress(r) \/ req[r].stage = "new",
           RequestInv(r)'
    PROVE  IInv'
<1>1. Claims(r)' => Claims(r)
  BY DEF Claims, Becomes, InProgress
<1>2. QED
  BY <1>1, QuietKeeps DEF Becomes

LEMMA QuietStepsKeep ==
    ASSUME TypeInv, IInv, NEW r \in Requests,
           BeginReanalyze(r) \/ Created(r) \/ SkipStore(r) \/ OnCreated(r) \/ SendFails(r)
               \/ InsertAnalysis(r)
    PROVE  IInv'
<1>1. PICK stage \in Stages :
        /\ OnlyOf(r) /\ req' = Go(r, stage)
        /\ Becomes(r, stage, req[r].pending, req[r].isNew, req[r].newRows)
  BY GoesOnEffect DEF GoesOn
<1>2. \A st : req' = Go(r, st) => stage = st
  <2>1. req \in [Requests -> Reqs]
    BY DEF TypeInv, TypeOK
  <2>2. QED
    BY <1>1, <2>1 DEF Go, Reqs, Becomes
<1>3. RequestInv(r)
  BY DEF IInv, RequestsInv, RequestInv
<1> USE DEF InProgress, Sent
<1>4. CASE BeginReanalyze(r)
  <2>1. /\ req[r].stage = "new" /\ req[r].kind = "reanalyze" /\ stage = "sending"
        /\ req[r].object \in rows
        /\ UNCHANGED <<rows, children, links, stored, tasks, hooks, early>>
    BY <1>2, <1>4 DEF BeginReanalyze
  <2>2. RequestInv(r)'
    BY <1>1, <1>3, <2>1
       DEF RequestInv, PendingInv, RowsInv, StoreInv, NewInv, Becomes, Open, Visible
  <2>3. ~req[r].isNew
    BY <1>3, <2>1 DEF RequestInv, NewInv
  <2>4. QED
    BY <1>1, <2>1, <2>2, <2>3, StageKeeps
<1>5. CASE Created(r)
  <2>1. /\ req[r].stage = "creating" /\ req[r].pending = <<>> /\ stage \in {"storing", "assigning"}
        /\ UNCHANGED <<rows, children, links, stored, tasks, hooks, early>>
    BY <1>2, <1>5 DEF Created
  <2>2. RequestInv(r)'
    BY <1>1, <1>3, <2>1
       DEF RequestInv, PendingInv, RowsInv, StoreInv, NewInv, Becomes, Open, Visible
  <2>3. QED
    BY <1>1, <2>1, <2>2, StageKeeps
<1>6. CASE SkipStore(r)
  <2>1. /\ req[r].stage = "storing" /\ ~(req[r].isNew /\ req[r].object \in Files)
        /\ stage = "committing"
        /\ UNCHANGED <<rows, children, links, stored, tasks, hooks, early>>
    BY <1>2, <1>6 DEF SkipStore
  <2>2. RequestInv(r)'
    BY <1>1, <1>3, <2>1
       DEF RequestInv, PendingInv, RowsInv, StoreInv, NewInv, Becomes, Open, Visible
  <2>3. QED
    BY <1>1, <2>1, <2>2, StageKeeps
<1>7. CASE OnCreated(r)
  <2>1. /\ req[r].stage = "created"
        /\ stage = IF IsAnalyzed(req[r].object) THEN "hooks" ELSE "sending"
        /\ UNCHANGED <<rows, children, links, stored, tasks, hooks, early>>
    BY <1>2, <1>7 DEF OnCreated
  <2>2. IsAnalyzed(req[r].object)' <=> IsAnalyzed(req[r].object)
    BY <1>1, <2>1 DEF IsAnalyzed, Becomes
  <2>3. RequestInv(r)'
    <3>1. PendingInv(r)' /\ RowsInv(r)' /\ StoreInv(r)'
      BY <1>1, <1>3, <2>1
         DEF RequestInv, PendingInv, RowsInv, StoreInv, NewInv, Becomes, Open, Visible
    <3>2. NewInv(r)'
      BY <1>1, <1>3, <2>1, <2>2 DEF RequestInv, NewInv, Becomes, Open
    <3>3. QED
      BY <3>1, <3>2 DEF RequestInv
  <2>4. QED
    BY <1>1, <2>1, <2>3, StageKeeps
<1>8. CASE SendFails(r)
  <2>1. /\ req[r].stage = "sending" /\ stage = "failed"
        /\ UNCHANGED <<rows, children, links, stored, tasks, hooks, early>>
    BY <1>2, <1>8 DEF SendFails
  <2>2. RequestInv(r)'
    BY <1>1, <1>3, <2>1
       DEF RequestInv, PendingInv, RowsInv, StoreInv, NewInv, Becomes, Open, Visible
  <2>3. QED
    BY <1>1, <2>1, <2>2, StageKeeps
<1>9. CASE InsertAnalysis(r)
  <2>1. /\ req[r].stage = "spawning" /\ stage \in {"failed", "hooks"}
        /\ links \subseteq links' /\ (stage = "hooks" => <<r, req[r].object>> \in links')
        /\ UNCHANGED <<rows, children, stored, tasks, hooks, early>>
    BY <1>2, <1>9 DEF InsertAnalysis
  <2>2. stage = "hooks" => IsAnalyzed(req[r].object)'
    <3>1. <<r, req[r].object>>[2] = req'[r].object
      BY <1>1 DEF Becomes
    <3>2. QED
      BY <2>1, <3>1 DEF IsAnalyzed
  <2>3. RequestInv(r)'
    <3>1. PendingInv(r)' /\ RowsInv(r)' /\ StoreInv(r)'
      BY <1>1, <1>3, <2>1
         DEF RequestInv, PendingInv, RowsInv, StoreInv, NewInv, Becomes, Open, Visible
    <3>2. NewInv(r)'
      BY <1>1, <1>3, <2>1, <2>2 DEF RequestInv, NewInv, Becomes, Open
    <3>3. QED
      BY <3>1, <3>2 DEF RequestInv
  <2>4. QED
    BY <1>1, <2>1, <2>3, StageKeeps
<1>10. QED
  BY <1>4, <1>5, <1>6, <1>7, <1>8, <1>9

LEMMA GivesUpKeeps ==
    ASSUME TypeInv, IInv, NEW r \in Requests, GivesUp(r)
    PROVE  IInv'
<1>1. PICK stage \in {"failed", "crashed"} :
        /\ OnlyOf(r) /\ Becomes(r, stage, req[r].pending, req[r].isNew, {})
        /\ UNCHANGED <<rows, children, links, stored, tasks, hooks, early>>
  BY GivesUpEffect
<1>2. InProgress(r)
  <2>1. StoreFails(r) \/ LinkFails(r) => InProgress(r)
    BY DEF StoreFails, LinkFails, InProgress
  <2>2. DeadlockAbort(r) => InProgress(r)
    BY DEF DeadlockAbort, WaitsFor, InProgress
  <2>3. Crash(r) => InProgress(r)
    BY DEF Crash
  <2>4. QED
    BY <2>1, <2>2, <2>3 DEF GivesUp
<1>3. RequestInv(r)
  BY DEF IInv, RequestsInv, RequestInv
<1>4. RequestInv(r)'
  BY <1>1, <1>2, <1>3
     DEF RequestInv, PendingInv, RowsInv, StoreInv, NewInv, Becomes, Open, Visible, InProgress,
         TypeInv, TypeOK, Reqs
<1>5. Claims(r)' => Claims(r) /\ req[r].newRows = {}
  <2>1. ASSUME Claims(r)' PROVE Claims(r) /\ req[r].newRows = {}
    <3>1. PICK t \in tasks : t[1] = r
      BY <1>1, <2>1 DEF Claims, Becomes, InProgress
    <3>2. req[r].stage \in Sent
      BY <3>1 DEF IInv, HistoryInv, Sent
    <3>3. req[r].newRows = {}
      BY <1>3, <3>2 DEF RequestInv, RowsInv, Open, Sent
    <3>4. Claims(r)
      BY <1>1, <2>1, <3>1 DEF Claims, Becomes
    <3>5. QED
      BY <3>3, <3>4
  <2>2. QED
    BY <2>1
<1>6. req[r].stage # "answered" /\ req'[r].newRows = {} /\ req'[r].isNew = req[r].isNew
      /\ req'[r].stage \in Sent /\ req'[r].object = req[r].object /\ req'[r].kind = req[r].kind
  BY <1>1, <1>2 DEF InProgress, Becomes, Sent
<1>7. QED
  BY <1>1, <1>4, <1>5, <1>6, QuietKeeps

\* Writing the content: the file is new to this request, so its row is the request's own
\* or was committed early.
LEMMA StoreKeeps ==
    ASSUME TypeInv, IInv, NEW r \in Requests, StoreBegin(r) \/ StoreEnd(r)
    PROVE  IInv'
<1> DEFINE o == req[r].object
<1>1. PICK stage \in Stages :
        /\ OnlyOf(r) /\ req' = Go(r, stage)
        /\ Becomes(r, stage, req[r].pending, req[r].isNew, req[r].newRows)
  BY GoesOnEffect DEF GoesOn
<1>2. RequestInv(r)
  BY DEF IInv, RequestsInv, RequestInv
<1>3. /\ req[r].isNew /\ o \in Files /\ stored \in [Files -> Contents]
      /\ req[r].stage \in {"storing", "writing"}
      /\ UNCHANGED <<rows, children, links, tasks, hooks, early>>
      /\ \E c \in Contents : stored' = [stored EXCEPT ![o] = c]
  BY <1>2 DEF StoreBegin, StoreEnd, RequestInv, StoreInv, TypeInv, TypeOK, Contents
<1>4. \/ stage = "writing"
      \/ stage = "committing" /\ stored'[o] = "complete"
  <2>1. req \in [Requests -> Reqs]
    BY DEF TypeInv, TypeOK
  <2>2. \A st : req' = Go(r, st) => stage = st
    BY <1>1, <2>1 DEF Go, Reqs, Becomes
  <2>3. StoreEnd(r) => stage = "committing" /\ stored'[o] = "complete"
    BY <1>3, <2>2 DEF StoreEnd
  <2>4. StoreBegin(r) => stage = "writing"
    BY <2>2 DEF StoreBegin
  <2>5. QED
    BY <2>3, <2>4
<1>5. o \in req[r].newRows \cup early
  BY <1>2, <1>3 DEF RequestInv, RowsInv, Open
<1>6. RequestInv(r)'
  BY <1>1, <1>2, <1>3, <1>4
     DEF RequestInv, PendingInv, RowsInv, StoreInv, NewInv, Becomes, Open, Visible
<1>7. ASSUME NEW q \in Requests PROVE RequestInv(q)'
  <2>1. CASE q # r
    <3>1. RequestInv(q) /\ req'[q] = req[q]
      BY <1>1, <2>1 DEF IInv, RequestsInv, RequestInv, OnlyOf
    <3>2. req[q].newRows \cap rows' = {}
      BY <1>3, <3>1 DEF RequestInv, RowsInv
    <3>3. o \notin req[q].newRows
      <4>1. early \subseteq rows /\ req[q].newRows \cap req[r].newRows = {}
        BY <2>1 DEF IInv, HistoryInv, ClaimsInv
      <4>2. QED
        BY <1>3, <1>5, <3>2, <4>1
    <3>4. req[q].object \in req[q].newRows \cap Files
             => stored'[req[q].object] = stored[req[q].object]
      BY <1>3, <3>3
    <3>5. QED
      BY <1>3, <3>1, <3>2, <3>4, OthersKeep
  <2>2. QED
    BY <1>6, <2>1
<1>8. ClaimsInv'
  <2>1. Claims(r)' => Claims(r)
    BY <1>1, <1>3 DEF Claims, Becomes, InProgress
  <2>2. QED
    BY <1>1, <1>3, <2>1, ClaimsKeep DEF IInv, Becomes
<1>9. HistoryInv'
  <2>1. early' \subseteq rows' /\ req[r].stage \notin Sent
    BY <1>3 DEF IInv, HistoryInv, Sent
  <2>2. QED
    BY <1>1, <1>3, <2>1, HistoryKeep DEF IInv, Becomes
<1>10. ContentStored'
  <2>1. ASSUME NEW f \in (rows \cap Files) \ early PROVE stored'[f] = "complete"
    <3>1. o \notin rows \/ o \in early
      BY <1>2, <1>5 DEF RequestInv, RowsInv
    <3>2. QED
      BY <1>3, <2>1, <3>1 DEF IInv, ContentStored
  <2>2. QED
    BY <1>3, <2>1 DEF ContentStored
<1>11. EmbeddedLinked'
  BY <1>3 DEF IInv, EmbeddedLinked
<1>12. QED
  BY <1>7, <1>8, <1>9, <1>10, <1>11 DEF IInv, RequestsInv, RequestInv

\* Tasks and hooks: what is recorded is true of the request that is about to record it.
LEMMA RecordKeeps ==
    ASSUME TypeInv, IInv, NEW r \in Requests, SendTask(r) \/ RunHooks(r)
    PROVE  IInv'
<1> DEFINE o == req[r].object
<1>1. PICK stage \in Stages :
        /\ OnlyOf(r) /\ req' = Go(r, stage)
        /\ Becomes(r, stage, req[r].pending, req[r].isNew, req[r].newRows)
  BY GoesOnEffect DEF GoesOn
<1>2. RequestInv(r) /\ (req[r].kind = "reanalyze" \/ req[r].kind = "upload")
  BY DEF IInv, RequestsInv, RequestInv, TypeInv, TypeOK, Reqs
<1>3. \/ /\ req[r].stage = "sending" /\ stage = "spawning"
         /\ tasks' = tasks \cup {<<r, o>>} /\ hooks' = hooks
      \/ /\ req[r].stage = "hooks" /\ stage = "answered" /\ tasks' = tasks
         /\ hooks' = hooks \cup
               (IF req[r].kind = "reanalyze" THEN {}
                ELSE {<<IF req[r].isNew THEN "created" ELSE "reuploaded", o, r>>})
  <2>1. req \in [Requests -> Reqs]
    BY DEF TypeInv, TypeOK
  <2>2. \A st : req' = Go(r, st) => stage = st
    BY <1>1, <2>1 DEF Go, Reqs, Becomes
  <2>3. QED
    BY <2>2 DEF SendTask, RunHooks
<1>4. UNCHANGED <<rows, children, links, stored, early>>
  BY DEF SendTask, RunHooks
<1>5. RequestInv(r)'
  BY <1>1, <1>2, <1>3, <1>4
     DEF RequestInv, PendingInv, RowsInv, StoreInv, NewInv, Becomes, Open, Visible
<1>6. ASSUME NEW q \in Requests PROVE RequestInv(q)'
  <2>1. CASE q # r
    <3>1. RequestInv(q) /\ req'[q] = req[q]
      BY <1>1, <2>1 DEF IInv, RequestsInv, RequestInv, OnlyOf
    <3>2. req[q].newRows \cap rows' = {}
      BY <1>4, <3>1 DEF RequestInv, RowsInv
    <3>3. QED
      BY <1>4, <3>1, <3>2, OthersKeep
  <2>2. QED
    BY <1>5, <2>1
<1>7. ClaimsInv'
  <2>1. Claims(r)' => Claims(r)
    BY <1>1, <1>3 DEF Claims, Becomes, InProgress
  <2>2. tasks \subseteq tasks' /\ \A t \in tasks' : t \in tasks \/ t[1] = r
    BY <1>3
  <2>3. QED
    BY <1>1, <1>4, <2>1, <2>2, ClaimsKeep DEF IInv, Becomes
<1>8. ASSUME NEW t \in tasks'
      PROVE  /\ req'[t[1]].object = t[2]
             /\ req'[t[1]].stage \in Sent
             /\ req'[t[1]].kind = "upload" => req'[t[1]].isNew
  <2>1. CASE t[1] = r /\ t[2] = o
    BY <1>1, <1>2, <1>3, <2>1 DEF RequestInv, NewInv, Becomes, Sent, IInv, HistoryInv
  <2>2. CASE t \in tasks
    <3>1. /\ t[1] \in Requests /\ req[t[1]].object = t[2]
          /\ req[t[1]].stage \in Sent
          /\ req[t[1]].kind = "upload" => req[t[1]].isNew
      BY <2>2 DEF TypeInv, TypeOK, IInv, HistoryInv, Sent
    <3>2. CASE t[1] = r
      BY <3>1, <3>2, <2>1
    <3>3. CASE t[1] # r
      BY <1>1, <3>1, <3>3 DEF OnlyOf
    <3>4. QED
      BY <3>2, <3>3
  <2>3. QED
    BY <1>3, <2>1, <2>2
<1>9. ASSUME NEW h \in hooks'
      PROVE  /\ req'[h[3]].object = h[2]
             /\ req'[h[3]].stage = "answered"
             /\ h[1] = "created" => req'[h[3]].isNew /\ IsAnalyzed(h[2])'
  <2>1. CASE h \in hooks
    <3>1. /\ h[3] \in Requests /\ req[h[3]].object = h[2] /\ req[h[3]].stage = "answered"
          /\ h[1] = "created" => req[h[3]].isNew /\ IsAnalyzed(h[2])
      BY <2>1 DEF TypeInv, TypeOK, IInv, HistoryInv
    <3>2. h[3] # r
      BY <1>3, <3>1
    <3>3. QED
      BY <1>1, <1>4, <3>1, <3>2 DEF OnlyOf, IsAnalyzed
  <2>2. CASE h \notin hooks
    <3>1. /\ h = <<IF req[r].isNew THEN "created" ELSE "reuploaded", o, r>>
          /\ req[r].stage = "hooks" /\ stage = "answered"
      BY <1>3, <2>2
    <3>2. req[r].isNew => IsAnalyzed(o)
      BY <1>2, <3>1 DEF RequestInv, NewInv
    <3>3. IsAnalyzed(o)' <=> IsAnalyzed(o)
      BY <1>1, <1>4 DEF IsAnalyzed, Becomes
    <3>4. h[1] = "created" => req[r].isNew
      BY <3>1
    <3>5. h[2] = o /\ h[3] = r
      BY <3>1
    <3>6. h[1] = "created" => IsAnalyzed(h[2])'
      BY <1>4, <3>2, <3>4, <3>5 DEF IsAnalyzed
    <3>7. QED
      BY <1>1, <3>1, <3>4, <3>5, <3>6 DEF Becomes
  <2>3. QED
    BY <2>1, <2>2
<1>10. HistoryInv'
  <2>1. early' \subseteq rows'
    BY <1>4 DEF IInv, HistoryInv
  <2>2. QED
    BY <1>8, <1>9, <2>1 DEF HistoryInv, Sent
<1>11. ContentStored' /\ EmbeddedLinked'
  BY <1>4 DEF IInv, ContentStored, EmbeddedLinked
<1>12. QED
  BY <1>6, <1>7, <1>10, <1>11 DEF IInv, RequestsInv, RequestInv

\* The end of a transaction: its rows, which nobody else has, join the table.
LEMMA RowsKeep ==
    ASSUME TypeInv, IInv, NEW r \in Requests, OnlyOf(r), NEW stage,
           Becomes(r, stage, req[r].pending, req[r].isNew, {}),
           rows' = Visible(r), early \subseteq early', early' \subseteq rows',
           links \subseteq links', UNCHANGED <<stored, tasks, hooks>>,
           req[r].stage \in Open, RequestInv(r)'
    PROVE  RequestsInv' /\ ClaimsInv' /\ HistoryInv'
<1>1. ASSUME NEW q \in Requests PROVE RequestInv(q)'
  <2>1. CASE q # r
    <3>1. RequestInv(q) /\ req'[q] = req[q]
      BY <2>1 DEF IInv, RequestsInv, RequestInv, OnlyOf
    <3>2. req[q].newRows \cap rows' = {}
      BY <2>1, <3>1 DEF RequestInv, RowsInv, IInv, ClaimsInv, Visible
    <3>3. rows \subseteq rows'
      BY DEF Visible
    <3>4. QED
      BY <3>1, <3>2, <3>3, OthersKeep
  <2>2. QED
    BY <2>1
<1>2. ClaimsInv'
  <2>1. Claims(r)' => Claims(r) /\ req[r].newRows \subseteq rows' \cup req'[r].newRows
    BY DEF Claims, Becomes, InProgress, Open, Visible
  <2>2. rows \subseteq rows' /\ req'[r].newRows \subseteq req[r].newRows
        /\ req'[r].object = req[r].object
    BY DEF Visible, Becomes
  <2>3. QED
    BY <2>1, <2>2, ClaimsKeep DEF IInv
<1>3. HistoryInv'
  <2>1. req[r].stage # "answered" /\ req[r].stage \notin Sent
        /\ req'[r].object = req[r].object /\ req'[r].kind = req[r].kind
    BY DEF Open, Sent, Becomes
  <2>2. QED
    BY <2>1, HistoryKeep DEF IInv
<1>4. QED
  BY <1>1, <1>2, <1>3 DEF RequestsInv, RequestInv

LEMMA AssignKeeps ==
    ASSUME TypeInv, IInv, NEW r \in Requests, AssignAnalysis(r)
    PROVE  IInv'
<1>1. /\ OnlyOf(r) /\ Becomes(r, "storing", req[r].pending, req[r].isNew, {})
      /\ req[r].stage = "assigning" /\ rows' = Visible(r)
      /\ early' = early \cup req[r].newRows
      /\ links \subseteq links' /\ UNCHANGED <<children, stored, tasks, hooks>>
  BY AssignEffect DEF AssignAnalysis
<1>2. RequestInv(r)
  BY DEF IInv, RequestsInv, RequestInv
<1>3. early' \subseteq rows'
  BY <1>1 DEF IInv, HistoryInv, Visible
<1>4. RequestInv(r)'
  BY <1>1, <1>2
     DEF RequestInv, PendingInv, RowsInv, StoreInv, NewInv, Becomes, Open, Visible
<1>5. RequestsInv' /\ ClaimsInv' /\ HistoryInv'
  <2>1. req[r].stage \in Open /\ early \subseteq early'
    BY <1>1 DEF Open
  <2>2. QED
    BY <1>1, <1>3, <1>4, <2>1, RowsKeep
<1>6. rows' \ early' \subseteq rows \ early
  BY <1>1 DEF Visible
<1>7. ContentStored' /\ EmbeddedLinked'
  BY <1>1, <1>6 DEF IInv, ContentStored, EmbeddedLinked
<1>8. QED
  BY <1>5, <1>7 DEF IInv

LEMMA CommitKeeps ==
    ASSUME TypeInv, IInv, NEW r \in Requests, Commit(r)
    PROVE  IInv'
<1> DEFINE o == req[r].object
           stage == IF req[r].isNew THEN "created" ELSE "hooks"
<1>1. /\ OnlyOf(r) /\ Becomes(r, stage, req[r].pending, req[r].isNew, {})
      /\ req[r].stage = "committing" /\ rows' = Visible(r)
      /\ children' = children \cup {<<o, b>> : b \in Embedded(o)}
      /\ UNCHANGED <<links, stored, tasks, hooks, early>>
  BY CommitEffect DEF Commit
<1>2. RequestInv(r) /\ o \in Objects
  BY DEF IInv, RequestsInv, RequestInv, TypeInv, TypeOK, Reqs
<1>3. early' \subseteq rows'
  BY <1>1 DEF IInv, HistoryInv, Visible
<1>4. RequestInv(r)'
  BY <1>1, <1>2
     DEF RequestInv, PendingInv, RowsInv, StoreInv, NewInv, Becomes, Open, Visible
<1>5. RequestsInv' /\ ClaimsInv' /\ HistoryInv'
  <2>1. req[r].stage \in Open /\ early \subseteq early' /\ links \subseteq links'
    BY <1>1 DEF Open
  <2> HIDE DEF stage
  <2>2. QED
    BY <1>1, <1>3, <1>4, <2>1, RowsKeep
<1>6. /\ Embedded(o) \cap Files = {} /\ \A b \in Embedded(o) : Embedded(b) = {}
      /\ req[r].newRows \subseteq Embedded(o) \cup {o}
  BY <1>2, EmbeddedPlain DEF RequestInv, RowsInv
<1>7. ContentStored'
  <2>1. ASSUME NEW f \in (rows' \cap Files) \ early PROVE stored'[f] = "complete"
    <3>1. CASE f \in rows
      BY <1>1, <2>1, <3>1 DEF IInv, ContentStored
    <3>2. CASE f \notin rows
      <4>1. f = o /\ o \in req[r].newRows \cap Files
        BY <1>1, <1>6, <2>1, <3>2 DEF Visible
      <4>2. QED
        BY <1>1, <1>2, <4>1 DEF RequestInv, StoreInv
    <3>3. QED
      BY <3>1, <3>2
  <2>2. QED
    BY <1>1, <2>1 DEF ContentStored
<1>8. EmbeddedLinked'
  <2>1. ASSUME NEW x \in rows' \ early, NEW b \in Embedded(x) PROVE <<x, b>> \in children'
    <3>1. CASE x \in rows
      BY <1>1, <2>1, <3>1 DEF IInv, EmbeddedLinked
    <3>2. CASE x \notin rows
      <4>1. x \in Embedded(o) \cup {o}
        BY <1>1, <1>6, <2>1, <3>2 DEF Visible
      <4>2. x = o
        BY <1>6, <2>1, <4>1
      <4>3. QED
        BY <1>1, <2>1, <4>2
    <3>3. QED
      BY <3>1, <3>2
  <2>2. QED
    BY <1>1, <2>1 DEF EmbeddedLinked
<1>9. QED
  BY <1>5, <1>7, <1>8 DEF IInv

-----------------------------------------------------------------------------
(* The theorems *)

LEMMA InitInv == Init => TypeInv /\ IInv
<1> SUFFICES ASSUME Init PROVE TypeInv /\ IInv
  OBVIOUS
<1>1. TypeInv
  BY InitType
<1>2. /\ rows = {} /\ children = {} /\ tasks = {} /\ hooks = {} /\ early = {}
      /\ \A r \in Requests : /\ req[r].stage = "new" /\ req[r].pending = <<>>
                             /\ ~req[r].isNew /\ req[r].newRows = {}
  BY DEF Init
<1>3. RequestsInv
  BY <1>2 DEF RequestsInv, PendingInv, RowsInv, StoreInv, NewInv, Open
<1>4. ClaimsInv
  BY <1>2 DEF ClaimsInv, Claims
<1>5. HistoryInv /\ ContentStored /\ EmbeddedLinked
  BY <1>2 DEF HistoryInv, ContentStored, EmbeddedLinked
<1>6. QED
  BY <1>1, <1>3, <1>4, <1>5 DEF IInv

LEMMA StepInv == TypeInv /\ IInv /\ [Next]_vars => TypeInv' /\ IInv'
<1> SUFFICES ASSUME TypeInv, IInv, [Next]_vars PROVE TypeInv' /\ IInv'
  OBVIOUS
<1>1. CASE UNCHANGED vars
  <2>1. TypeInv'
    BY <1>1 DEF vars, TypeInv, TypeOK, ArgumentsOK
  <2>2. RequestsInv' /\ ClaimsInv'
    BY <1>1 DEF vars, IInv, RequestsInv, PendingInv, RowsInv, StoreInv, NewInv, ClaimsInv,
                Claims, InProgress, Visible, IsAnalyzed
  <2>3. HistoryInv' /\ ContentStored' /\ EmbeddedLinked'
    BY <1>1 DEF vars, IInv, HistoryInv, ContentStored, EmbeddedLinked, IsAnalyzed
  <2>4. QED
    BY <2>1, <2>2, <2>3 DEF IInv
<1>2. CASE Next
  <2>1. TypeInv'
    BY <1>2, StepType
  <2>2. PICK r \in Requests :
          \/ BeginUpload(r) \/ Lookup(r) \/ Insert(r) \/ AssignAnalysis(r) \/ Commit(r)
          \/ GoesOn(r) \/ GivesUp(r)
    BY <1>2, NextCases
  <2>3. GoesOn(r) => IInv'
    BY QuietStepsKeep, StoreKeeps, RecordKeeps DEF GoesOn
  <2>4. QED
    BY <2>1, <2>2, <2>3, BeginUploadKeeps, LookupKeeps, InsertKeeps, AssignKeeps, CommitKeeps,
       GivesUpKeeps
<1>3. QED
  BY <1>1, <1>2

LEMMA Invariant == Spec => [](TypeInv /\ IInv)
<1>1. QED
  BY InitInv, StepInv, PTL DEF Spec

\* The tables, the store, the queue and the requests are well-formed in every reachable
\* state.
THEOREM TypeCorrect == Spec => []TypeOK
<1>1. TypeInv /\ IInv => TypeOK
  BY DEF TypeInv
<1>2. QED
  BY <1>1, Invariant, PTL

\* A committed file has its content in the store, for any overlap of uploads, crashes and
\* refusals, unless assign_analysis committed its row early.
THEOREM ContentStoredCorrect == Spec => []ContentStored
<1>1. TypeInv /\ IInv => ContentStored
  BY DEF IInv
<1>2. QED
  BY <1>1, Invariant, PTL

\* A committed config has its embedded blobs as children, with the same exception.
THEOREM EmbeddedLinkedCorrect == Spec => []EmbeddedLinked
<1>1. TypeInv /\ IInv => EmbeddedLinked
  BY DEF IInv
<1>2. QED
  BY <1>1, Invariant, PTL

\* The hooks of an object tell of a committed object, and of its creation once.
THEOREM CreatedOnceCorrect == Spec => []CreatedOnce
<1>1. TypeInv /\ IInv => CreatedOnce
  <2> SUFFICES ASSUME TypeInv, IInv PROVE CreatedOnce
    OBVIOUS
  <2>1. ASSUME NEW h \in hooks
        PROVE  /\ h[3] \in Requests /\ h[2] = req[h[3]].object /\ h[2] \in rows
               /\ h[1] = "created" => Claims(h[3])
               /\ h = <<h[1], h[2], h[3]>>
    <3>1. h[3] \in Requests /\ h = <<h[1], h[2], h[3]>>
      BY DEF TypeInv, TypeOK
    <3>2. QED
      BY <3>1 DEF IInv, HistoryInv, RequestsInv, PendingInv, Claims
  <2>2. ASSUME NEW h \in hooks, NEW k \in hooks, h[1] = "created", k[1] = "created", h[2] = k[2]
        PROVE  h = k
    <3>1. h[3] = k[3]
      BY <2>1, <2>2 DEF IInv, ClaimsInv
    <3>2. QED
      BY <2>1, <2>2, <3>1
  <2>3. QED
    BY <2>1, <2>2 DEF CreatedOnce
<1>2. QED
  BY <1>1, Invariant, PTL

\* An object whose creation was announced has an analysis.
THEOREM CreatedMeansAnalyzedCorrect == Spec => []CreatedMeansAnalyzed
<1>1. TypeInv /\ IInv => CreatedMeansAnalyzed
  BY DEF IInv, HistoryInv, CreatedMeansAnalyzed
<1>2. QED
  BY <1>1, Invariant, PTL

\* Of any number of overlapping uploads of one object at most one sends it to Karton.
THEOREM OneTaskPerUploadCorrect == Spec => []OneTaskPerUpload
<1>1. TypeInv /\ IInv => OneTaskPerUpload
  <2> SUFFICES ASSUME TypeInv, IInv, NEW s \in tasks, NEW t \in tasks, s[2] = t[2],
                      req[s[1]].kind = "upload", req[t[1]].kind = "upload"
               PROVE  s = t
    BY DEF OneTaskPerUpload
  <2>1. /\ s[1] \in Requests /\ t[1] \in Requests /\ s = <<s[1], s[2]>> /\ t = <<t[1], t[2]>>
    BY DEF TypeInv, TypeOK
  <2>2. /\ Claims(s[1]) /\ Claims(t[1])
        /\ req[s[1]].object = s[2] /\ req[t[1]].object = t[2]
    BY DEF IInv, HistoryInv, Claims
  <2>3. s[1] = t[1]
    BY <2>1, <2>2 DEF IInv, ClaimsInv
  <2>4. QED
    BY <2>1, <2>3
<1>2. QED
  BY <1>1, Invariant, PTL
=============================================================================
