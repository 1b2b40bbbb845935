---------------------------- MODULE Karton_proofs ---------------------------
(***************************************************************************)
(* Proofs about Karton: any number of requests, analyses and objects.      *)
(***************************************************************************)
EXTENDS Karton, TLAPS

-----------------------------------------------------------------------------
(* One statement of one request *)

\* The others, and what the request is about, stay as they are.
Frame(r) ==
    /\ \A q \in Requests : q # r => txn'[q] = txn[q]
    /\ txn'[r].kind = txn[r].kind
    /\ txn'[r].analysis = txn[r].analysis
    /\ txn'[r].object = txn[r].object

Kept(r) ==
    /\ txn'[r].newAnalysis = txn[r].newAnalysis
    /\ txn'[r].newLink = txn[r].newLink
    /\ txn'[r].unlinked = txn[r].unlinked
    /\ txn'[r].deleted = txn[r].deleted

LEMMA InitInv == Init => IInv
<1> SUFFICES ASSUME Init PROVE IInv
  OBVIOUS
<1>1. ASSUME NEW r \in Requests
      PROVE  /\ txn[r] \in Txns
             /\ txn[r].stage = "new"
             /\ txn[r].newAnalysis = FALSE
             /\ txn[r].newLink = FALSE
             /\ txn[r].unlinked = FALSE
             /\ txn[r].deleted = FALSE
  <2>1. PICK k \in Kinds, a \in Analyses, o \in Objects :
          txn[r] = [stage |-> "new", kind |-> k, analysis |-> a, object |-> o,
                    newAnalysis |-> FALSE, newLink |-> FALSE, unlinked |-> FALSE,
                    deleted |-> FALSE]
    BY DEF Init
  <2>2. k \in {"assign", "remove"} /\ FALSE \in BOOLEAN
    BY KindsAssumption
  <2>3. QED
    BY <2>1, <2>2 DEF Txns, Stages
<1>2. TypeOK
  <2>1. txn = [r \in Requests |-> txn[r]]
    BY DEF Init
  <2>2. txn \in [Requests -> Txns]
    BY <1>1, <2>1
  <2>3. /\ analyses \subseteq Analyses
        /\ links \subseteq Analyses \X Objects
        /\ {l[1] : l \in links} \subseteq analyses
    <3>1. analyses = {l[1] : l \in links}
      BY DEF Init
    <3>2. QED
      BY <3>1 DEF Init
  <2>4. overlapped \in BOOLEAN
    BY DEF Init
  <2>5. QED
    BY <2>2, <2>3, <2>4 DEF TypeOK
<1>3. \A r \in Requests : WritesOf(r) /\ LocksOf(r) /\ ~InProgress(r)
  BY <1>1 DEF WritesOf, LocksOf, InProgress
<1>4. \A r \in Requests : AssignOf(r) /\ RemoveOf(r)
  BY <1>1 DEF AssignOf, RemoveOf
<1>5. NoEmptyAnalyses /\ AssignedKept
  BY <1>1 DEF Init, NoEmptyAnalyses, AssignedKept, Answered
<1>6. QED
  BY <1>2, <1>3, <1>4, <1>5 DEF IInv, Alone

\* A statement that only moves its request on.
LEMMA Moved ==
    ASSUME TypeOK, NEW r \in Requests, NEW s \in Stages, Go(r, s)
    PROVE  txn' \in [Requests -> Txns] /\ Frame(r) /\ Kept(r) /\ txn'[r].stage = s
<1>1. txn[r] \in Txns /\ txn \in [Requests -> Txns]
  BY DEF TypeOK
<1>2. [txn[r] EXCEPT !.stage = s] \in Txns
  BY <1>1 DEF Txns
<1>3. txn' = [txn EXCEPT ![r] = [txn[r] EXCEPT !.stage = s]]
  BY DEF Go
<1>4. txn' \in [Requests -> Txns]
  BY <1>1, <1>2, <1>3
<1>5. txn'[r] = [txn[r] EXCEPT !.stage = s] /\ \A q \in Requests : q # r => txn'[q] = txn[q]
  BY <1>1, <1>3
<1>6. QED
  BY <1>1, <1>4, <1>5 DEF Frame, Kept, Txns

\* A statement before the commit: what is left is what the request itself has written.
LEMMA Statement ==
    ASSUME IInv, NEW r \in Requests, UNCHANGED <<analyses, links, overlapped>>,
           txn' \in [Requests -> Txns], Frame(r), InProgress(r),
           txn'[r].stage \notin {"new", "answered"},
           WritesOf(r)', \A q \in Requests : LocksOf(q)',
           Calm => AssignOf(r)' /\ RemoveOf(r)'
    PROVE  IInv'
<1>1. TypeOK'
  BY DEF IInv, TypeOK
<1>2. \A q \in Requests : WritesOf(q)'
  BY DEF IInv, Frame, WritesOf
<1>3. Alone'
  BY DEF IInv, Frame, Alone, InProgress
<1>4. Calm' => Calm
  BY DEF Frame, Calm
<1>5. ASSUME Calm PROVE \A q \in Requests : AssignOf(q)' /\ RemoveOf(q)'
  BY <1>5 DEF IInv, Frame, AssignOf, RemoveOf, Siblings, VisibleLinks, Link
<1>6. ASSUME Calm PROVE NoEmptyAnalyses' /\ AssignedKept'
  <2>1. NoEmptyAnalyses'
    BY <1>6 DEF IInv, NoEmptyAnalyses
  <2>2. \A q \in Requests : Link(q)' = Link(q) /\ txn'[q].kind = txn[q].kind
    BY DEF Frame, Link
  <2>3. \A q \in Requests : /\ Answered(q)' => Answered(q)
                            /\ txn[q].stage # "new" => txn'[q].stage # "new"
    BY DEF Frame, Answered
  <2>4. QED
    BY <1>6, <2>1, <2>2, <2>3 DEF IInv, AssignedKept
<1>7. QED
  BY <1>1, <1>2, <1>3, <1>4, <1>5, <1>6 DEF IInv

\* A statement that only moves on to a stage that claims nothing about the tables.
LEMMA MovedInv ==
    ASSUME IInv, NEW r \in Requests, InProgress(r), txn[r].stage # "done",
           NEW s \in Stages, Go(r, s), UNCHANGED <<analyses, links, overlapped>>,
           s \notin {"new", "answered"},
           ~txn[r].unlinked \/ s \in {"delete", "done"},
           s \in {"create", "get again", "link", "link lost"} => txn[r].kind = "assign",
           s \in {"unlink", "others", "delete"} => txn[r].kind = "remove",
           Calm /\ s = "done" /\ txn[r].kind = "assign" => Link(r) \in links,
           Calm /\ s = "delete" => Siblings(r) = {},
           Calm /\ s = "done" /\ txn[r].kind = "remove" =>
               txn[r].analysis \notin analyses \/ Siblings(r) # {}
    PROVE  IInv'
<1>1. /\ txn' \in [Requests -> Txns]
      /\ Frame(r)
      /\ Kept(r)
      /\ txn'[r].stage = s
  BY Moved DEF IInv
<1>2. WritesOf(r) /\ ~txn[r].newLink /\ ~txn[r].deleted /\ ~txn[r].newAnalysis
  BY DEF IInv, WritesOf
<1>3. WritesOf(r)'
  BY <1>1, <1>2 DEF WritesOf, Frame, Kept
<1>4. \A q \in Requests : LocksOf(q)'
  <2>1. \A q \in Requests : /\ txn'[q].newLink = txn[q].newLink
                            /\ txn'[q].newAnalysis = txn[q].newAnalysis
                            /\ txn'[q].deleted = txn[q].deleted
                            /\ txn'[q].analysis = txn[q].analysis
    BY <1>1 DEF Frame, Kept
  <2>2. analyses' = analyses
    OBVIOUS
  <2>3. \A q \in Requests : LocksOf(q)
    BY DEF IInv
  <2>4. ASSUME NEW q \in Requests PROVE LocksOf(q)'
    BY <2>1, <2>2, <2>3 DEF LocksOf
  <2>5. QED
    BY <2>4
<1>5. Link(r)' = Link(r) /\ Siblings(r)' = Siblings(r)
  BY <1>1 DEF Frame, Kept, Link, Siblings, VisibleLinks
<1>6. ASSUME Calm PROVE AssignOf(r)'
  BY <1>1, <1>5, <1>6 DEF AssignOf, Frame
<1>7. ASSUME Calm PROVE RemoveOf(r)'
  BY <1>1, <1>2, <1>5, <1>7 DEF RemoveOf, Frame, Kept
<1>8. QED
  BY <1>1, <1>3, <1>4, <1>6, <1>7, Statement

-----------------------------------------------------------------------------
(* The statements *)

LEMMA BeginInv ==
    ASSUME IInv, NEW r \in Requests, Begin(r)
    PROVE  IInv'
<1>1. txn' \in [Requests -> Txns] /\ Frame(r) /\ Kept(r) /\ txn'[r].stage = "get"
  BY Moved DEF IInv, Begin, Stages
<1>2. UNCHANGED <<analyses, links>>
  BY DEF Begin
<1>3. /\ overlapped' \in BOOLEAN
      /\ ~overlapped' => ~overlapped /\ \A q \in Requests : ~InProgress(q)
  BY DEF Begin, IInv, TypeOK
<1>4. TypeOK'
  BY <1>1, <1>2, <1>3 DEF IInv, TypeOK
<1>5. /\ WritesOf(r)
      /\ txn[r].stage = "new"
      /\ ~txn[r].newLink /\ ~txn[r].deleted /\ ~txn[r].newAnalysis /\ ~txn[r].unlinked
  BY DEF IInv, WritesOf, Begin
<1>6. \A q \in Requests : WritesOf(q)'
  BY <1>1, <1>5 DEF IInv, WritesOf, Frame, Kept
<1>7. \A q \in Requests : LocksOf(q)'
  <2>1. \A q \in Requests : /\ txn'[q].newLink = txn[q].newLink
                            /\ txn'[q].newAnalysis = txn[q].newAnalysis
                            /\ txn'[q].deleted = txn[q].deleted
                            /\ txn'[q].analysis = txn[q].analysis
    BY <1>1 DEF Frame, Kept
  <2>2. QED
    BY <1>2, <2>1 DEF IInv, LocksOf
<1>8. Alone'
  BY <1>1, <1>3 DEF Alone, InProgress, Frame
<1>9. Calm' => Calm
  BY <1>1, <1>3 DEF Frame, Calm
<1>10. ASSUME Calm, NEW q \in Requests PROVE AssignOf(q)' /\ RemoveOf(q)'
  <2>1. CASE q = r
    BY <1>1, <1>5, <2>1 DEF AssignOf, RemoveOf, Kept
  <2>2. CASE q # r
    BY <1>1, <1>2, <1>10, <2>2 DEF IInv, Frame, AssignOf, RemoveOf, Siblings, VisibleLinks, Link
  <2>3. QED
    BY <2>1, <2>2
<1>11. ASSUME Calm PROVE NoEmptyAnalyses' /\ AssignedKept'
  <2>1. NoEmptyAnalyses'
    BY <1>2, <1>11 DEF IInv, NoEmptyAnalyses
  <2>2. \A q \in Requests : Link(q)' = Link(q) /\ txn'[q].kind = txn[q].kind
    BY <1>1 DEF Frame, Link
  <2>3. \A q \in Requests : /\ Answered(q)' => Answered(q)
                            /\ txn[q].stage # "new" => txn'[q].stage # "new"
    BY <1>1 DEF Frame, Answered
  <2>4. QED
    BY <1>2, <1>11, <2>1, <2>2, <2>3 DEF IInv, AssignedKept
<1>12. QED
  BY <1>4, <1>6, <1>7, <1>8, <1>9, <1>10, <1>11 DEF IInv

\* What is known of a request at its next statement.
LEMMA Here ==
    ASSUME IInv, NEW r \in Requests
    PROVE  /\ txn[r] \in Txns
           /\ txn[r].stage # "done" => ~txn[r].newLink /\ ~txn[r].newAnalysis /\ ~txn[r].deleted
           /\ txn[r].stage \notin {"others", "delete", "done"} => ~txn[r].unlinked
           /\ txn[r].kind \in {"assign", "remove"}
           /\ txn[r].analysis \in Analyses
           /\ txn[r].object \in Objects
           /\ WritesOf(r)
BY DEF IInv, TypeOK, WritesOf, Txns

LEMMA GetInv == ASSUME IInv, NEW r \in Requests, Get(r) PROVE IInv'
<1> DEFINE s == IF SeesAnalysis(r) THEN "is assigned"
                ELSE IF txn[r].kind = "assign" THEN "create" ELSE "not found"
<1>1. /\ s \in Stages /\ s \in {"is assigned", "create", "not found"}
      /\ s = "create" => txn[r].kind = "assign"
  BY DEF Stages
<1>2. /\ Go(r, s)
      /\ UNCHANGED <<analyses, links, overlapped>>
      /\ txn[r].stage = "get"
  BY DEF Get, Unchanged
<1> HIDE DEF s
<1>3. InProgress(r) /\ ~txn[r].unlinked
  BY <1>2, Here DEF InProgress
<1>4. QED
  BY <1>1, <1>2, <1>3, MovedInv

LEMMA GetAgainInv == ASSUME IInv, NEW r \in Requests, GetAgain(r) PROVE IInv'
<1> DEFINE s == IF SeesAnalysis(r) THEN "is assigned" ELSE "failed"
<1>1. s \in Stages /\ s \in {"is assigned", "failed"}
  BY DEF Stages
<1>2. /\ Go(r, s)
      /\ UNCHANGED <<analyses, links, overlapped>>
      /\ txn[r].stage = "get again"
  BY DEF GetAgain, Unchanged
<1> HIDE DEF s
<1>3. InProgress(r) /\ ~txn[r].unlinked
  BY <1>2, Here DEF InProgress
<1>4. QED
  BY <1>1, <1>2, <1>3, MovedInv

LEMMA IsAssignedInv == ASSUME IInv, NEW r \in Requests, IsAssigned(r) PROVE IInv'
<1> DEFINE s == CASE txn[r].kind = "assign" /\ Link(r) \in VisibleLinks(r) -> "done"
                  [] txn[r].kind = "assign" /\ Link(r) \notin VisibleLinks(r) -> "link"
                  [] txn[r].kind = "remove" /\ Link(r) \in VisibleLinks(r) -> "unlink"
                  [] OTHER -> "not found"
<1>1. /\ Go(r, s)
      /\ UNCHANGED <<analyses, links, overlapped>>
      /\ txn[r].stage = "is assigned"
  BY DEF IsAssigned, Unchanged
<1>2. InProgress(r) /\ ~txn[r].unlinked /\ ~txn[r].newLink
  BY <1>1, Here DEF InProgress
<1>3. VisibleLinks(r) = links
  BY <1>2 DEF VisibleLinks
<1>4. /\ s \in Stages /\ s \in {"done", "link", "unlink", "not found"}
      /\ s = "done" => txn[r].kind = "assign" /\ Link(r) \in links
      /\ s = "link" => txn[r].kind = "assign"
      /\ s = "unlink" => txn[r].kind = "remove"
  BY <1>3 DEF Stages
<1> HIDE DEF s
<1>5. QED
  BY <1>1, <1>2, <1>4, MovedInv

LEMMA LinkLostInv == ASSUME IInv, NEW r \in Requests, LinkLost(r) PROVE IInv'
<1> DEFINE s == IF Link(r) \in VisibleLinks(r) THEN "done" ELSE "failed"
<1>1. /\ Go(r, s)
      /\ UNCHANGED <<analyses, links, overlapped>>
      /\ txn[r].stage = "link lost"
  BY DEF LinkLost, Unchanged
<1>2. /\ InProgress(r) /\ ~txn[r].unlinked /\ ~txn[r].newLink
      /\ txn[r].kind = "assign"
  BY <1>1, Here DEF InProgress, WritesOf
<1>3. VisibleLinks(r) = links
  BY <1>2 DEF VisibleLinks
<1>4. /\ s \in Stages /\ s \in {"done", "failed"}
      /\ s = "done" => Link(r) \in links
  BY <1>3 DEF Stages
<1> HIDE DEF s
<1>5. QED
  BY <1>1, <1>2, <1>4, MovedInv

LEMMA OthersInv == ASSUME IInv, NEW r \in Requests, Others(r) PROVE IInv'
<1> DEFINE s == IF \E l \in VisibleLinks(r) : l[1] = txn[r].analysis THEN "done" ELSE "delete"
<1>1. /\ Go(r, s)
      /\ UNCHANGED <<analyses, links, overlapped>>
      /\ txn[r].stage = "others"
  BY DEF Others, Unchanged
<1>2. InProgress(r) /\ txn[r].kind = "remove"
  BY <1>1, Here DEF InProgress, WritesOf
<1>3. /\ s \in Stages /\ s \in {"done", "delete"}
      /\ s = "done" => Siblings(r) # {}
      /\ s = "delete" => Siblings(r) = {}
  BY DEF Stages, Siblings
<1> HIDE DEF s
<1>4. QED
  BY <1>1, <1>2, <1>3, MovedInv
\* Whether an element is in a set, as the value of a field.
LEMMA Membership ==
    ASSUME NEW S, NEW x
    PROVE  \E b \in BOOLEAN : b = (x \in S)
<1>1. CASE x \in S
  <2>1. TRUE = (x \in S)
    BY <1>1
  <2>2. QED
    BY <2>1
<1>2. CASE x \notin S
  <2>1. FALSE = (x \in S)
    BY <1>2
  <2>2. QED
    BY <2>1
<1>3. QED
  BY <1>1, <1>2

\* A statement that writes: what the request now holds, and the rest as it was.
LEMMA Wrote ==
    ASSUME TypeOK, NEW r \in Requests, NEW t \in Txns, txn' = [txn EXCEPT ![r] = t],
           t.kind = txn[r].kind, t.analysis = txn[r].analysis, t.object = txn[r].object
    PROVE  txn' \in [Requests -> Txns] /\ Frame(r) /\ txn'[r] = t
<1>1. txn \in [Requests -> Txns]
  BY DEF TypeOK
<1>2. txn' \in [Requests -> Txns] /\ txn'[r] = t /\ \A q \in Requests : q # r => txn'[q] = txn[q]
  BY <1>1
<1>3. QED
  BY <1>2 DEF Frame

LEMMA CreateInv == ASSUME IInv, NEW r \in Requests, Create(r) PROVE IInv'
<1>1. /\ txn[r] \in Txns
      /\ InProgress(r) /\ txn[r].stage = "create" /\ txn[r].kind = "assign"
      /\ ~txn[r].unlinked /\ ~txn[r].deleted
      /\ WaitsFor(r) = {}
      /\ UNCHANGED <<analyses, links, overlapped>>
  BY Here DEF Create, InProgress, WritesOf, Unchanged
<1>2. CASE txn[r].analysis \in analyses
  <2>1. Go(r, "get again")
    BY <1>2 DEF Create, Go
  <2>2. "get again" \in Stages
    BY DEF Stages
  <2>3. QED
    BY <1>1, <2>1, <2>2, MovedInv
<1>3. CASE txn[r].analysis \notin analyses
  <2> DEFINE t == [txn[r] EXCEPT !.stage = "done", !.newAnalysis = TRUE, !.newLink = TRUE]
  <2>1. /\ t \in Txns
        /\ t.stage = "done" /\ t.newLink /\ t.newAnalysis /\ ~t.unlinked /\ ~t.deleted
        /\ t.kind = txn[r].kind /\ t.analysis = txn[r].analysis /\ t.object = txn[r].object
    BY <1>1 DEF Txns, Stages
  <2>2. txn' = [txn EXCEPT ![r] = t]
    BY <1>1, <1>3 DEF Create
  <2> HIDE DEF t
  <2>3. txn' \in [Requests -> Txns] /\ Frame(r) /\ txn'[r] = t
    BY <2>1, <2>2, Wrote DEF IInv
  <2>4. \A q \in Requests : txn[q].deleted => txn[q].analysis # txn[r].analysis
    <3>1. SUFFICES ASSUME NEW q \in Requests, txn[q].deleted, txn[q].analysis = txn[r].analysis
                   PROVE  FALSE
      OBVIOUS
    <3>2. q # r /\ InProgress(q)
      BY <1>1, <3>1 DEF IInv, WritesOf, InProgress
    <3>3. q \in WaitsFor(r)
      BY <1>1, <3>1, <3>2 DEF WaitsFor, SameAnalysis
    <3>4. QED
      BY <1>1, <3>3
  <2>5. \A q \in Requests : txn'[q].analysis = txn[q].analysis /\ (txn'[q].deleted => txn[q].deleted)
    BY <2>1, <2>3 DEF Frame
  <2>6. \A q \in Requests : LocksOf(q)'
    <3>1. analyses' = analyses
      BY <1>1
    <3>2. ASSUME NEW q \in Requests, q # r PROVE LocksOf(q)'
      BY <2>3, <2>5, <3>1, <3>2 DEF IInv, LocksOf, Frame
    <3>3. LocksOf(r)'
      BY <2>1, <2>3, <2>4, <2>5 DEF LocksOf
    <3>4. QED
      BY <3>2, <3>3
  <2>7. WritesOf(r)' /\ AssignOf(r)' /\ RemoveOf(r)'
    BY <1>1, <2>1, <2>3 DEF WritesOf, AssignOf, RemoveOf
  <2>8. QED
    BY <1>1, <2>1, <2>3, <2>6, <2>7, Statement
<1>4. QED
  BY <1>2, <1>3

LEMMA InsertLinkInv == ASSUME IInv, NEW r \in Requests, InsertLink(r) PROVE IInv'
<1>1. /\ txn[r] \in Txns
      /\ InProgress(r) /\ txn[r].stage = "link" /\ txn[r].kind = "assign"
      /\ ~txn[r].unlinked /\ ~txn[r].deleted /\ ~txn[r].newAnalysis
      /\ WaitsFor(r) = {}
      /\ UNCHANGED <<analyses, links, overlapped>>
  BY Here DEF InsertLink, InProgress, WritesOf, Unchanged
<1>2. CASE txn[r].analysis \notin analyses \/ Link(r) \in links
  <2>1. Go(r, "link lost")
    BY <1>2 DEF InsertLink, Go
  <2>2. "link lost" \in Stages
    BY DEF Stages
  <2>3. QED
    BY <1>1, <2>1, <2>2, MovedInv
<1>3. CASE txn[r].analysis \in analyses /\ Link(r) \notin links
  <2> DEFINE t == [txn[r] EXCEPT !.stage = "done", !.newLink = TRUE]
  <2>1. /\ t \in Txns
        /\ t.stage = "done" /\ t.newLink /\ ~t.newAnalysis /\ ~t.unlinked /\ ~t.deleted
        /\ t.kind = txn[r].kind /\ t.analysis = txn[r].analysis /\ t.object = txn[r].object
    BY <1>1 DEF Txns, Stages
  <2>2. txn' = [txn EXCEPT ![r] = t]
    BY <1>1, <1>3 DEF InsertLink
  <2> HIDE DEF t
  <2>3. txn' \in [Requests -> Txns] /\ Frame(r) /\ txn'[r] = t
    BY <2>1, <2>2, Wrote DEF IInv
  <2>4. \A q \in Requests : txn[q].deleted => txn[q].analysis # txn[r].analysis
    <3>1. SUFFICES ASSUME NEW q \in Requests, txn[q].deleted, txn[q].analysis = txn[r].analysis
                   PROVE  FALSE
      OBVIOUS
    <3>2. q # r /\ InProgress(q)
      BY <1>1, <3>1 DEF IInv, WritesOf, InProgress
    <3>3. q \in WaitsFor(r)
      BY <1>1, <3>1, <3>2 DEF WaitsFor, SameAnalysis
    <3>4. QED
      BY <1>1, <3>3
  <2>5. \A q \in Requests : txn'[q].analysis = txn[q].analysis /\ (txn'[q].deleted => txn[q].deleted)
    BY <2>1, <2>3 DEF Frame
  <2>6. \A q \in Requests : LocksOf(q)'
    <3>1. analyses' = analyses
      BY <1>1
    <3>2. ASSUME NEW q \in Requests, q # r PROVE LocksOf(q)'
      BY <2>3, <2>5, <3>1, <3>2 DEF IInv, LocksOf, Frame
    <3>3. LocksOf(r)'
      BY <1>3, <2>1, <2>3, <2>4, <2>5, <3>1 DEF LocksOf
    <3>4. QED
      BY <3>2, <3>3
  <2>7. WritesOf(r)' /\ AssignOf(r)' /\ RemoveOf(r)'
    BY <1>1, <2>1, <2>3 DEF WritesOf, AssignOf, RemoveOf
  <2>8. QED
    BY <1>1, <2>1, <2>3, <2>6, <2>7, Statement
<1>4. QED
  BY <1>2, <1>3

LEMMA DeleteLinkInv == ASSUME IInv, NEW r \in Requests, DeleteLink(r) PROVE IInv'
<1>1. /\ txn[r] \in Txns
      /\ InProgress(r) /\ txn[r].stage = "unlink" /\ txn[r].kind = "remove"
      /\ ~txn[r].newLink /\ ~txn[r].deleted /\ ~txn[r].newAnalysis
      /\ UNCHANGED <<analyses, links, overlapped>>
  BY Here DEF DeleteLink, InProgress, WritesOf, Unchanged
<1>0. PICK b \in BOOLEAN : b = (Link(r) \in links)
  BY Membership
<1> DEFINE t == [txn[r] EXCEPT !.stage = "others", !.unlinked = b]
<1>2. /\ t \in Txns
      /\ t.stage = "others" /\ ~t.newLink /\ ~t.newAnalysis /\ ~t.deleted
      /\ t.kind = txn[r].kind /\ t.analysis = txn[r].analysis /\ t.object = txn[r].object
  BY <1>1 DEF Txns, Stages
<1>3. txn' = [txn EXCEPT ![r] = t]
  BY <1>0, <1>1 DEF DeleteLink
<1> HIDE DEF t
<1>4. txn' \in [Requests -> Txns] /\ Frame(r) /\ txn'[r] = t
  BY <1>2, <1>3, Wrote DEF IInv
<1>5. \A q \in Requests : txn'[q].analysis = txn[q].analysis /\ (txn'[q].deleted => txn[q].deleted)
  BY <1>2, <1>4 DEF Frame
<1>6. ASSUME NEW q \in Requests PROVE LocksOf(q)'
  <2>1. analyses' = analyses
    BY <1>1
  <2>2. QED
    BY <1>2, <1>4, <1>5, <2>1 DEF IInv, LocksOf, Frame
<1>7. WritesOf(r)' /\ AssignOf(r)' /\ RemoveOf(r)'
  BY <1>1, <1>2, <1>4 DEF WritesOf, AssignOf, RemoveOf
<1>8. QED
  BY <1>1, <1>2, <1>4, <1>6, <1>7, Statement

LEMMA DeleteAnalysisInv == ASSUME IInv, NEW r \in Requests, DeleteAnalysis(r) PROVE IInv'
<1>1. /\ txn[r] \in Txns
      /\ InProgress(r) /\ txn[r].stage = "delete" /\ txn[r].kind = "remove"
      /\ ~txn[r].newLink /\ ~txn[r].deleted /\ ~txn[r].newAnalysis
      /\ WaitsFor(r) = {}
      /\ UNCHANGED <<analyses, links, overlapped>>
  BY Here DEF DeleteAnalysis, InProgress, WritesOf, Unchanged
<1>0. PICK b \in BOOLEAN : b = (txn[r].analysis \in analyses)
  BY Membership
<1> DEFINE t == [txn[r] EXCEPT !.stage = "done", !.deleted = b]
<1>2. /\ t \in Txns
      /\ t.stage = "done" /\ ~t.newLink /\ ~t.newAnalysis
      /\ t.unlinked = txn[r].unlinked
      /\ t.deleted = b
      /\ t.kind = txn[r].kind /\ t.analysis = txn[r].analysis /\ t.object = txn[r].object
  BY <1>0, <1>1 DEF Txns, Stages
<1>3. txn' = [txn EXCEPT ![r] = t]
  BY <1>0, <1>1 DEF DeleteAnalysis
<1> HIDE DEF t
<1>4. txn' \in [Requests -> Txns] /\ Frame(r) /\ txn'[r] = t
  BY <1>2, <1>3, Wrote DEF IInv
<1>5. \A q \in Requests : txn[q].newLink => txn[q].analysis # txn[r].analysis
  <2>1. SUFFICES ASSUME NEW q \in Requests, txn[q].newLink, txn[q].analysis = txn[r].analysis
                 PROVE  FALSE
    OBVIOUS
  <2>2. q # r /\ InProgress(q)
    BY <1>1, <2>1 DEF IInv, WritesOf, InProgress
  <2>3. q \in WaitsFor(r)
    BY <1>1, <2>1, <2>2 DEF WaitsFor, SameAnalysis
  <2>4. QED
    BY <1>1, <2>3
<1>6. ASSUME NEW q \in Requests PROVE LocksOf(q)'
  <2>1. analyses' = analyses
    BY <1>1
  <2>2. CASE q = r
    BY <1>2, <1>4, <2>2 DEF LocksOf
  <2>3. CASE q # r
    BY <1>4, <1>5, <2>1, <2>3 DEF IInv, LocksOf, Frame
  <2>4. QED
    BY <2>2, <2>3
<1>7. WritesOf(r)' /\ AssignOf(r)'
  BY <1>1, <1>2, <1>4 DEF WritesOf, AssignOf
<1>8. ASSUME Calm PROVE RemoveOf(r)'
  <2>1. Siblings(r)' = Siblings(r)
    BY <1>1, <1>2, <1>4 DEF Siblings, VisibleLinks, Link
  <2>2. Siblings(r) = {}
    BY <1>1, <1>8 DEF IInv, RemoveOf
  <2>3. QED
    BY <1>0, <1>1, <1>2, <1>4, <2>1, <2>2 DEF RemoveOf
<1>9. QED
  BY <1>1, <1>2, <1>4, <1>6, <1>7, <1>8, Statement

-----------------------------------------------------------------------------
(* The commit *)

LEMMA Committed ==
    ASSUME IInv, NEW r \in Requests, Commit(r)
    PROVE  /\ txn' \in [Requests -> Txns]
           /\ Frame(r)
           /\ txn[r].stage = "done"
           /\ txn'[r].stage = "answered"
           /\ ~txn'[r].newAnalysis /\ ~txn'[r].newLink
           /\ ~txn'[r].unlinked /\ ~txn'[r].deleted
<1> DEFINE t == [txn[r] EXCEPT !.stage = "answered", !.newAnalysis = FALSE, !.newLink = FALSE,
                               !.unlinked = FALSE, !.deleted = FALSE]
<1>1. txn[r] \in Txns /\ txn[r].stage = "done"
  BY Here DEF Commit
<1>2. /\ t \in Txns
      /\ t.stage = "answered" /\ ~t.newLink /\ ~t.newAnalysis /\ ~t.unlinked /\ ~t.deleted
      /\ t.kind = txn[r].kind /\ t.analysis = txn[r].analysis /\ t.object = txn[r].object
  BY <1>1 DEF Txns, Stages
<1>3. txn' = [txn EXCEPT ![r] = t]
  BY <1>1 DEF Commit
<1> HIDE DEF t
<1>4. QED
  BY <1>1, <1>2, <1>3, Wrote DEF IInv

\* The tables keep their foreign key.
LEMMA CommitTables ==
    ASSUME IInv, NEW r \in Requests, Commit(r)
    PROVE  /\ analyses' \subseteq Analyses
           /\ links' \subseteq Analyses \X Objects
           /\ \A l \in links' : l[1] \in analyses'
<1>1. /\ analyses' = (IF txn[r].deleted THEN analyses \ {txn[r].analysis} ELSE analyses)
                       \cup (IF txn[r].newAnalysis THEN {txn[r].analysis} ELSE {})
      /\ links' = {l \in VisibleLinks(r) : txn[r].deleted => l[1] # txn[r].analysis}
  BY DEF Commit
<1>2. txn[r].analysis \in Analyses /\ txn[r].object \in Objects
  BY Here
<1>3. Link(r) \in Analyses \X Objects /\ Link(r)[1] = txn[r].analysis
  BY <1>2 DEF Link
<1>4. analyses \subseteq Analyses /\ links \subseteq Analyses \X Objects
  BY DEF IInv, TypeOK
<1>5. \A l \in links : l[1] \in analyses
  BY DEF IInv, TypeOK
<1>6. \A l \in VisibleLinks(r) : l \in links \/ (txn[r].newLink /\ l = Link(r))
  BY DEF VisibleLinks
<1>7. txn[r].newLink => /\ txn[r].newAnalysis \/ txn[r].analysis \in analyses
                        /\ ~txn[r].deleted
  BY DEF IInv, LocksOf
<1>8. \A l \in links' : l[1] \in analyses'
  BY <1>1, <1>3, <1>5, <1>6, <1>7
<1>9. links' \subseteq Analyses \X Objects
  BY <1>1, <1>3, <1>4, <1>6
<1>10. analyses' \subseteq Analyses
  BY <1>1, <1>2, <1>4
<1>11. QED
  BY <1>8, <1>9, <1>10

\* An assignment only adds.
LEMMA CommitAssign ==
    ASSUME IInv, NEW r \in Requests, Commit(r), Calm, txn[r].kind = "assign"
    PROVE  links' = links \cup {Link(r)} /\ NoEmptyAnalyses'
<1>1. /\ analyses' = (IF txn[r].deleted THEN analyses \ {txn[r].analysis} ELSE analyses)
                       \cup (IF txn[r].newAnalysis THEN {txn[r].analysis} ELSE {})
      /\ links' = {l \in VisibleLinks(r) : txn[r].deleted => l[1] # txn[r].analysis}
      /\ txn[r].stage = "done"
  BY DEF Commit
<1>2. ~txn[r].deleted /\ ~txn[r].unlinked /\ (txn[r].newLink \/ Link(r) \in links)
  BY <1>1 DEF IInv, WritesOf, AssignOf
<1>3. links' = links \cup {Link(r)}
  BY <1>1, <1>2 DEF VisibleLinks
<1>4. Link(r)[1] = txn[r].analysis
  BY DEF Link
<1>5. analyses' \subseteq analyses \cup {txn[r].analysis}
  BY <1>1
<1>6. QED
  BY <1>3, <1>4, <1>5 DEF IInv, NoEmptyAnalyses

\* A removal takes its own row only, and the analysis when that was its last.
LEMMA CommitRemove ==
    ASSUME IInv, NEW r \in Requests, Commit(r), Calm, txn[r].kind = "remove"
    PROVE  links \ {Link(r)} \subseteq links' /\ NoEmptyAnalyses'
<1>1. /\ analyses' = (IF txn[r].deleted THEN analyses \ {txn[r].analysis} ELSE analyses)
                       \cup (IF txn[r].newAnalysis THEN {txn[r].analysis} ELSE {})
      /\ links' = {l \in VisibleLinks(r) : txn[r].deleted => l[1] # txn[r].analysis}
      /\ txn[r].stage = "done"
  BY DEF Commit
<1>2. ~txn[r].newLink /\ ~txn[r].newAnalysis
  BY DEF IInv, WritesOf
<1>3. /\ txn[r].deleted => Siblings(r) = {}
      /\ txn[r].deleted \/ txn[r].analysis \notin analyses \/ Siblings(r) # {}
  BY <1>1 DEF IInv, RemoveOf
<1>4. links' = VisibleLinks(r)
  BY <1>1, <1>3 DEF Siblings
<1>5. links \ {Link(r)} \subseteq links'
  BY <1>4 DEF VisibleLinks
<1>6. ASSUME NEW a \in analyses' PROVE \E l \in links' : l[1] = a
  <2>1. a \in analyses /\ (txn[r].deleted => a # txn[r].analysis)
    BY <1>1, <1>2, <1>6
  <2>2. CASE a = txn[r].analysis
    BY <1>3, <1>4, <2>1, <2>2 DEF Siblings
  <2>3. CASE a # txn[r].analysis
    <3>1. PICK l \in links : l[1] = a
      BY <2>1 DEF IInv, NoEmptyAnalyses
    <3>2. l # Link(r)
      BY <2>3, <3>1 DEF Link
    <3>3. QED
      BY <1>5, <3>1, <3>2
  <2>4. QED
    BY <2>2, <2>3
<1>7. QED
  BY <1>5, <1>6 DEF NoEmptyAnalyses

LEMMA CommitInv ==
    ASSUME IInv, NEW r \in Requests, Commit(r)
    PROVE  IInv'
<1>1. /\ txn' \in [Requests -> Txns]
      /\ Frame(r)
      /\ txn[r].stage = "done"
      /\ txn'[r].stage = "answered"
      /\ ~txn'[r].newAnalysis /\ ~txn'[r].newLink
      /\ ~txn'[r].unlinked /\ ~txn'[r].deleted
  BY Committed
<1>2. overlapped' = overlapped
  BY DEF Commit
<1>3. TypeOK'
  BY <1>1, <1>2, CommitTables DEF IInv, TypeOK
<1>4. ASSUME NEW q \in Requests PROVE WritesOf(q)'
  BY <1>1 DEF IInv, Frame, WritesOf
<1>5. ASSUME NEW q \in Requests PROVE LocksOf(q)'
  <2>1. \A p \in Requests : txn'[p].analysis = txn[p].analysis /\ (txn'[p].deleted => txn[p].deleted)
    BY <1>1 DEF Frame
  <2>2. CASE q = r
    BY <1>1, <2>2 DEF LocksOf
  <2>3. CASE q # r
    <3>1. txn'[q] = txn[q]
      BY <1>1, <2>3 DEF Frame
    <3>2. analyses \ {txn[r].analysis} \subseteq analyses' /\ (~txn[r].deleted => analyses \subseteq analyses')
      BY DEF Commit
    <3>3. QED
      BY <2>1, <3>1, <3>2 DEF IInv, LocksOf
  <2>4. QED
    BY <2>2, <2>3
<1>6. Alone'
  BY <1>1, <1>2 DEF IInv, Frame, Alone, InProgress
<1>7. Calm' => Calm
  BY <1>1, <1>2 DEF Frame, Calm
<1>8. ASSUME Calm
      PROVE  /\ \A q \in Requests : AssignOf(q)' /\ RemoveOf(q)'
             /\ NoEmptyAnalyses'
             /\ AssignedKept'
  <2>1. \A q \in Requests : Link(q)' = Link(q) /\ txn'[q].kind = txn[q].kind
    BY <1>1 DEF Frame, Link
  <2>2. AssignOf(r)' /\ RemoveOf(r)'
    BY <1>1 DEF AssignOf, RemoveOf
  <2>3. \A q \in Requests : /\ Answered(q)' => Answered(q) \/ q = r
                            /\ txn[q].stage # "new" => txn'[q].stage # "new"
    BY <1>1 DEF Frame, Answered
  <2>4. \A q \in Requests : txn[q].kind \in {"assign", "remove"}
    BY Here
  <2>5. CASE txn[r].kind = "assign"
    <3>1. links' = links \cup {Link(r)} /\ NoEmptyAnalyses'
      BY <1>8, <2>5, CommitAssign
    <3>2. ASSUME NEW q \in Requests, q # r PROVE AssignOf(q)' /\ RemoveOf(q)'
      <4>1. txn'[q] = txn[q]
        BY <1>1, <3>2 DEF Frame
      <4>2. AssignOf(q)'
        BY <1>8, <2>1, <3>1, <4>1 DEF IInv, AssignOf
      <4>3. txn[q].kind = "remove" => ~InProgress(q)
        BY <1>1, <1>8, <3>2 DEF IInv, Alone, Calm, InProgress
      <4>4. RemoveOf(q)'
        BY <4>1, <4>3 DEF IInv, WritesOf, RemoveOf, InProgress
      <4>5. QED
        BY <4>2, <4>4
    <3>3. AssignedKept'
      BY <1>8, <2>1, <2>3, <3>1 DEF IInv, AssignedKept
    <3>4. QED
      BY <2>2, <3>1, <3>2, <3>3
  <2>6. CASE txn[r].kind = "remove"
    <3>1. links \ {Link(r)} \subseteq links' /\ NoEmptyAnalyses'
      BY <1>8, <2>6, CommitRemove
    <3>2. ASSUME NEW q \in Requests, q # r PROVE AssignOf(q)' /\ RemoveOf(q)'
      <4>1. txn'[q] = txn[q]
        BY <1>1, <3>2 DEF Frame
      <4>2. ~InProgress(q)
        BY <1>1, <1>8, <2>6, <3>2 DEF IInv, Alone, Calm, InProgress
      <4>3. QED
        BY <4>1, <4>2 DEF IInv, WritesOf, AssignOf, RemoveOf, InProgress
    <3>3. AssignedKept'
      <4>1. ASSUME NEW q \in Requests, Answered(q)', txn'[q].kind = "assign", Link(q)' \notin links'
            PROVE  \E p \in Requests : txn'[p].kind = "remove" /\ Link(p)' = Link(q)' /\ txn'[p].stage # "new"
        <5>1. q # r /\ Answered(q) /\ txn[q].kind = "assign" /\ Link(q)' = Link(q)
          BY <2>1, <2>3, <2>6, <4>1
        <5>2. CASE Link(q) = Link(r)
          BY <1>1, <2>1, <2>6, <5>2
        <5>3. CASE Link(q) # Link(r)
          <6>1. Link(q) \notin links
            BY <3>1, <4>1, <5>1, <5>3
          <6>2. QED
            BY <1>8, <2>1, <2>3, <5>1, <6>1 DEF IInv, AssignedKept
        <5>4. QED
          BY <5>2, <5>3
      <4>2. QED
        BY <4>1 DEF AssignedKept
    <3>4. QED
      BY <2>2, <3>1, <3>2, <3>3
  <2>7. QED
    BY <2>4, <2>5, <2>6
<1>9. QED
  BY <1>3, <1>4, <1>5, <1>6, <1>7, <1>8 DEF IInv

-----------------------------------------------------------------------------
(* The specification *)

LEMMA NextInv == IInv /\ [Next]_vars => IInv'
<1> SUFFICES ASSUME IInv, [Next]_vars PROVE IInv'
  OBVIOUS
<1>1. ASSUME NEW r \in Requests, Begin(r) \/ Step(r) PROVE IInv'
  BY <1>1, BeginInv, GetInv, CreateInv, GetAgainInv, IsAssignedInv, InsertLinkInv, LinkLostInv,
     DeleteLinkInv, OthersInv, DeleteAnalysisInv, CommitInv DEF Step
<1>2. CASE UNCHANGED vars
  <2>1. UNCHANGED <<analyses, links, txn, overlapped>>
    BY <1>2 DEF vars
  <2>2. UNCHANGED TypeOK
    BY <2>1 DEF TypeOK
  <2>3. \A r \in Requests : UNCHANGED <<WritesOf(r), LocksOf(r), AssignOf(r), RemoveOf(r)>>
    BY <2>1 DEF WritesOf, LocksOf, AssignOf, RemoveOf, Siblings, VisibleLinks, Link
  <2>4. UNCHANGED <<Alone, Calm>>
    BY <2>1 DEF Alone, Calm, InProgress
  <2>5. UNCHANGED <<NoEmptyAnalyses, AssignedKept>>
    BY <2>1 DEF NoEmptyAnalyses, AssignedKept, Answered, Link
  <2>6. QED
    BY <2>2, <2>3, <2>4, <2>5 DEF IInv
<1>3. QED
  BY <1>1, <1>2 DEF Next

LEMMA Invariant == Spec => []IInv
<1>1. QED
  BY InitInv, NextInv, PTL DEF Spec

\* The tables hold rows of analyses and objects, and a row of karton_object names an analysis
\* that is there, whichever requests insert and delete at once: KartonAnalysis and
\* karton_object of mwdb/model/karton.py.
THEOREM TypeCorrect == Spec => []TypeOK
<1>1. IInv => TypeOK
  BY DEF IInv
<1>2. QED
  BY <1>1, Invariant, PTL

\* As long as requests come one after another, an analysis without objects is deleted and an
\* assignment answered with 200 is kept: Object.assign_analysis and remove_analysis.
THEOREM SerialCleanCorrect == Spec => []SerialClean
<1>1. IInv => SerialClean
  BY DEF IInv, Calm, SerialClean
<1>2. QED
  BY <1>1, Invariant, PTL

\* Any number of assignments may overlap, on any objects and analyses: none is lost and none
\* leaves an analysis without objects, whoever wins the races for the rows:
\* KartonAnalysis.get_or_create and the savepoint of Object.assign_analysis.
THEOREM AssignsCleanCorrect == Spec => []AssignsClean
<1>1. IInv => AssignsClean
  BY DEF IInv, Calm, AssignsClean
<1>2. QED
  BY <1>1, Invariant, PTL
=============================================================================
