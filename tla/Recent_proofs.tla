---------------------------- MODULE Recent_proofs ----------------------------
(***************************************************************************)
(* Proofs about Recent: any queries, matches, times, page size and         *)
(* objects.                                                                *)
(***************************************************************************)
EXTENDS Recent, SequenceTheorems, TLAPS

-----------------------------------------------------------------------------
(* Sequences of objects *)

ListStates == [pageToLoad : Nat, loadedPages : Nat, hasMorePages : BOOLEAN, error : BOOLEAN,
               elements : Seq(1..MaxObjects)]

\* Two lists one after the other, and where the second begins.
LEMMA Joined ==
    ASSUME NEW S, NEW s \in Seq(S), NEW t \in Seq(S), t # <<>>
    PROVE  /\ s \o t \in Seq(S) /\ s \o t # <<>>
           /\ Len(s) \in Nat /\ Len(t) \in Nat /\ Len(t) > 0
           /\ Len(s \o t) = Len(s) + Len(t)
           /\ \A i \in 1..Len(s) : (s \o t)[i] = s[i]
           /\ \A i \in Len(s) + 1..Len(s) + Len(t) :
                 i - Len(s) \in 1..Len(t) /\ (s \o t)[i] = t[i - Len(s)]
           /\ Last(s \o t) = Last(t)
           /\ s # <<>> => Head(s \o t) = Head(s)
           /\ s = <<>> => s \o t = t
           /\ SubSeq(s \o t, 1, Len(s)) = s
<1>1. s \o t \in Seq(S) /\ Len(s \o t) = Len(s) + Len(t)
  BY ConcatProperties
<1>2. Len(s) \in Nat /\ Len(t) \in Nat /\ Len(t) > 0
  BY EmptySeq, LenProperties
<1>3. \A i \in 1..Len(s) + Len(t) : (s \o t)[i] = IF i <= Len(s) THEN s[i] ELSE t[i - Len(s)]
  BY ConcatProperties
<1>4. \A i \in 1..Len(s) : (s \o t)[i] = s[i]
  BY <1>2, <1>3
<1>5. \A i \in Len(s) + 1..Len(s) + Len(t) :
         i - Len(s) \in 1..Len(t) /\ (s \o t)[i] = t[i - Len(s)]
  BY <1>2, <1>3
<1>6. s \o t # <<>>
  BY <1>1, <1>2, EmptySeq
<1>7. Last(s \o t) = Last(t)
  <2>1. Len(s) + Len(t) \in Len(s) + 1..Len(s) + Len(t) /\ Len(s) + Len(t) - Len(s) = Len(t)
    BY <1>2
  <2>2. QED
    BY <1>1, <1>5, <2>1 DEF Last
<1>8. ASSUME s # <<>> PROVE Head(s \o t) = Head(s)
  <2>1. Len(s) > 0
    BY <1>2, <1>8, EmptySeq
  <2>2. 1 \in 1..Len(s)
    BY <1>2, <2>1
  <2>3. (s \o t)[1] = s[1]
    BY <1>4, <2>2
  <2>4. Head(s) = s[1] /\ Head(s \o t) = (s \o t)[1]
    BY <1>1, <1>6, <1>8
  <2>5. QED
    BY <2>3, <2>4
<1>9. s = <<>> => s \o t = t
  BY ConcatEmptySeq
<1>10. SubSeq(s \o t, 1, Len(s)) = s
  <2> DEFINE u == s \o t
  <2>1. \A i \in 1..Len(s) : u[i] \in S
    BY <1>4, ElementOfSeq
  <2>2. 1 \in Int /\ Len(s) \in Int
    BY <1>2
  <2>3. /\ SubSeq(u, 1, Len(s)) \in Seq(S)
        /\ Len(SubSeq(u, 1, Len(s))) = IF 1 <= Len(s) THEN Len(s) - 1 + 1 ELSE 0
        /\ \A i \in 1..Len(s) - 1 + 1 : SubSeq(u, 1, Len(s))[i] = u[1 + i - 1]
    BY <2>1, <2>2, SubSeqProperties
  <2>4. Len(SubSeq(u, 1, Len(s))) = Len(s)
    BY <1>2, <2>3
  <2>5. \A i \in 1..Len(s) : SubSeq(u, 1, Len(s))[i] = s[i]
    BY <1>2, <1>4, <2>3
  <2>6. QED
    BY <2>3, <2>4, <2>5, SeqEqual
<1>11. QED
  BY <1>1, <1>2, <1>4, <1>5, <1>6, <1>7, <1>8, <1>9, <1>10

\* A member of a list has a place in it, and a list that is not empty has a last one.
LEMMA Members ==
    ASSUME NEW S, NEW s \in Seq(S)
    PROVE  /\ \A x : x \in ToSet(s) <=> \E i \in 1..Len(s) : x = s[i]
           /\ Len(s) \in Nat
           /\ s # <<>> => /\ Len(s) > 0
                          /\ Last(s) = s[Len(s)] /\ Last(s) \in ToSet(s) /\ Last(s) \in S
                          /\ Head(s) = s[1] /\ Head(s) \in ToSet(s) /\ Head(s) \in S
           /\ ToSet(s) \subseteq S
<1>1. Len(s) \in Nat /\ DOMAIN s = 1..Len(s)
  BY LenProperties
<1>2. \A x : x \in ToSet(s) <=> \E i \in 1..Len(s) : x = s[i]
  BY <1>1 DEF ToSet
<1>3. ToSet(s) \subseteq S
  BY <1>2, ElementOfSeq
<1>4. ASSUME s # <<>>
      PROVE  /\ Len(s) > 0
             /\ Last(s) = s[Len(s)] /\ Last(s) \in ToSet(s) /\ Last(s) \in S
             /\ Head(s) = s[1] /\ Head(s) \in ToSet(s) /\ Head(s) \in S
  <2>1. Len(s) > 0
    BY <1>1, <1>4, EmptySeq
  <2>2. 1 \in 1..Len(s) /\ Len(s) \in 1..Len(s)
    BY <1>1, <2>1
  <2>3. Last(s) = s[Len(s)]
    BY DEF Last
  <2>4. Head(s) = s[1]
    BY <1>4
  <2>5. Last(s) \in ToSet(s) /\ Head(s) \in ToSet(s)
    BY <1>2, <2>2, <2>3, <2>4
  <2>6. QED
    BY <1>3, <2>1, <2>3, <2>4, <2>5
<1>5. QED
  BY <1>1, <1>2, <1>3, <1>4

LEMMA EmptyMembers == ToSet(<<>>) = {}
<1>1. DOMAIN <<>> = {}
  OBVIOUS
<1>2. QED
  BY <1>1 DEF ToSet

LEMMA JoinedMembers ==
    ASSUME NEW S, NEW s \in Seq(S), NEW t \in Seq(S), t # <<>>
    PROVE  ToSet(s \o t) = ToSet(s) \cup ToSet(t)
<1>1. s \o t \in Seq(S) /\ Len(s \o t) = Len(s) + Len(t) /\ Len(s) \in Nat /\ Len(t) \in Nat
  BY Joined
<1>2. ASSUME NEW x \in ToSet(s \o t) PROVE x \in ToSet(s) \cup ToSet(t)
  <2> DEFINE u == s \o t
  <2>0. u \in Seq(S)
    BY <1>1
  <2>1. PICK i \in 1..Len(s) + Len(t) : x = (s \o t)[i]
    <3>1. \E i \in 1..Len(u) : x = u[i]
      BY <1>2, <2>0, Members
    <3>2. QED
      BY <1>1, <3>1
  <2>2. CASE i <= Len(s)
    <3>1. i \in 1..Len(s)
      BY <1>1, <2>2
    <3>2. x = s[i]
      BY <2>1, <3>1, Joined
    <3>3. QED
      BY <3>1, <3>2, Members
  <2>3. CASE i > Len(s)
    <3>1. i \in Len(s) + 1..Len(s) + Len(t)
      BY <1>1, <2>3
    <3>2. i - Len(s) \in 1..Len(t) /\ x = t[i - Len(s)]
      BY <2>1, <3>1, Joined
    <3>3. QED
      BY <3>2, Members
  <2>4. QED
    BY <1>1, <2>2, <2>3
<1>3. ASSUME NEW x \in ToSet(s) PROVE x \in ToSet(s \o t)
  <2>1. PICK i \in 1..Len(s) : x = s[i]
    BY <1>3, Members
  <2>2. i \in 1..Len(s \o t)
    BY <1>1
  <2>3. x = (s \o t)[i]
    BY <2>1, Joined
  <2>4. QED
    BY <1>1, <2>2, <2>3, Members
<1>4. ASSUME NEW x \in ToSet(t) PROVE x \in ToSet(s \o t)
  <2>1. PICK i \in 1..Len(t) : x = t[i]
    BY <1>4, Members
  <2>2. /\ Len(s) + i \in 1..Len(s \o t)
        /\ Len(s) + i \in Len(s) + 1..Len(s) + Len(t)
        /\ Len(s) + i - Len(s) = i
    BY <1>1
  <2>3. x = (s \o t)[Len(s) + i]
    BY <2>1, <2>2, Joined
  <2>4. QED
    BY <1>1, <2>2, <2>3, Members
<1>5. QED
  BY <1>2, <1>3, <1>4

-----------------------------------------------------------------------------
(* The order of the list *)

LEMMA OlderOrders ==
    ASSUME NEW l \in 1..MaxObjects, NEW m \in 1..MaxObjects, NEW n \in 1..MaxObjects
    PROVE  /\ Older(l, m) /\ Older(m, n) => Older(l, n)
           /\ ~Older(m, m)
<1>1. UploadTime[l] \in Nat /\ UploadTime[m] \in Nat /\ UploadTime[n] \in Nat /\ MaxObjects \in Nat
  BY RecentAssumption
<1>2. QED
  BY <1>1 DEF Older

\* What a page is asked below is newer than the page.
LEMMA BelowOlder ==
    ASSUME NEW s \in Seq(1..MaxObjects), s # <<>>, NEW n \in Below(s), Last(s) \in 1..MaxObjects
    PROVE  n \in 1..MaxObjects /\ Older(n, Last(s))
<1>1. n \in 1..MaxObjects /\ UploadTime[n] <= UploadTime[Last(s)] /\ n < Last(s)
  BY DEF Below
<1>2. UploadTime[n] \in Nat /\ UploadTime[Last(s)] \in Nat
  BY <1>1, RecentAssumption
<1>3. QED
  BY <1>1, <1>2 DEF Older

\* What is older than the last element is below it, or has a greater identifier.
LEMMA OlderBelow ==
    ASSUME NEW s \in Seq(1..MaxObjects), s # <<>>, Last(s) \in 1..MaxObjects,
           NEW n \in 1..MaxObjects, Older(n, Last(s))
    PROVE  n \in Below(s) \/ Last(s) < n
<1>1. UploadTime[n] \in Nat /\ UploadTime[Last(s)] \in Nat /\ MaxObjects \in Nat
  BY RecentAssumption
<1>2. UploadTime[n] <= UploadTime[Last(s)] /\ n # Last(s)
  BY <1>1 DEF Older
<1>3. QED
  BY <1>1, <1>2 DEF Below

LEMMA BelowEmpty == Below(<<>>) = 1..MaxObjects
BY DEF Below

\* In a list from the newest, the last element is the oldest.
LEMMA Oldest ==
    ASSUME NEW s \in Seq(1..MaxObjects), Descends(s), s # <<>>, NEW n \in ToSet(s)
    PROVE  n = Last(s) \/ Older(Last(s), n)
<1>1. Len(s) \in Nat /\ Len(s) > 0 /\ Last(s) = s[Len(s)]
  BY Members
<1>2. PICK i \in 1..Len(s) : n = s[i]
  BY Members
<1>3. CASE i = Len(s)
  BY <1>1, <1>2, <1>3
<1>4. CASE i < Len(s)
  <2>1. Len(s) \in 1..Len(s)
    BY <1>1
  <2>2. Older(s[Len(s)], s[i])
    BY <1>4, <2>1 DEF Descends
  <2>3. QED
    BY <1>1, <1>2, <2>2
<1>5. QED
  BY <1>1, <1>3, <1>4

\* Two lists from the newest, the second older than the first, are one.
LEMMA JoinedDescends ==
    ASSUME NEW s \in Seq(1..MaxObjects), NEW t \in Seq(1..MaxObjects), t # <<>>,
           Descends(s), Descends(t),
           s # <<>> => \A n \in ToSet(t) : Older(n, Last(s))
    PROVE  Descends(s \o t)
<1>1. Len(s \o t) = Len(s) + Len(t) /\ Len(s) \in Nat /\ Len(t) \in Nat
  BY Joined
<1>2. SUFFICES ASSUME NEW i \in 1..Len(s) + Len(t), NEW j \in 1..Len(s) + Len(t), i < j
               PROVE  Older((s \o t)[j], (s \o t)[i])
  BY <1>1 DEF Descends
<1>3. CASE j <= Len(s)
  <2>1. i \in 1..Len(s) /\ j \in 1..Len(s)
    BY <1>1, <1>2, <1>3
  <2>2. Older(s[j], s[i])
    BY <1>2, <2>1 DEF Descends
  <2>3. QED
    BY <2>1, <2>2, Joined
<1>4. CASE i > Len(s)
  <2>1. i \in Len(s) + 1..Len(s) + Len(t) /\ j \in Len(s) + 1..Len(s) + Len(t)
    BY <1>1, <1>2, <1>4
  <2>2. /\ i - Len(s) \in 1..Len(t) /\ (s \o t)[i] = t[i - Len(s)]
        /\ j - Len(s) \in 1..Len(t) /\ (s \o t)[j] = t[j - Len(s)]
    BY <2>1, Joined
  <2>3. i - Len(s) < j - Len(s)
    BY <1>1, <1>2
  <2>4. Older(t[j - Len(s)], t[i - Len(s)])
    BY <2>2, <2>3 DEF Descends
  <2>5. QED
    BY <2>2, <2>4
<1>5. CASE i <= Len(s) /\ j > Len(s)
  <2>1. i \in 1..Len(s) /\ j \in Len(s) + 1..Len(s) + Len(t)
    BY <1>1, <1>5
  <2>2. /\ (s \o t)[i] = s[i]
        /\ j - Len(s) \in 1..Len(t) /\ (s \o t)[j] = t[j - Len(s)]
    BY <2>1, Joined
  <2>3. s # <<>>
    BY <2>1, EmptySeq
  <2>4. s[i] \in ToSet(s) /\ t[j - Len(s)] \in ToSet(t)
    BY <2>1, <2>2, Members
  <2>5. Older(t[j - Len(s)], Last(s))
    BY <2>3, <2>4
  <2>6. Last(s) = s[i] \/ Older(Last(s), s[i])
    BY <2>3, <2>4, Oldest
  <2>7. /\ s[i] \in 1..MaxObjects /\ t[j - Len(s)] \in 1..MaxObjects
        /\ Last(s) \in 1..MaxObjects
    BY <2>3, <2>4, Members
  <2>8. QED
    BY <2>2, <2>5, <2>6, <2>7, OlderOrders
<1>6. QED
  BY <1>1, <1>3, <1>4, <1>5

-----------------------------------------------------------------------------
(* Answers, and the effect that asks for them *)

\* The page that the server answers with is in order and continues the list; it is whole.
LEMMA Answered ==
    ASSUME NEW query \in Queries, NEW elements \in Seq(1..MaxObjects),
           NEW a \in Answers(query, elements)
    PROVE  /\ a \in Loads
           /\ a.query = query
           /\ Descends(a.elements)
           /\ ToSet(a.elements) \subseteq Matches[query] \cap Below(elements)
           /\ a.ok => \A n \in Matches[query] \cap seen \cap Below(elements) :
                 n \in ToSet(a.elements) \/ (a.elements # <<>> /\ Older(n, Last(a.elements)))
<1> DEFINE found == Matches[query] \cap seen \cap Below(elements)
<1>1. found \subseteq 1..MaxObjects
  BY RecentAssumption
<1>2. CASE a = [query |-> query, ok |-> FALSE, elements |-> <<>>]
  <2>1. <<>> \in Seq(1..MaxObjects) /\ Len(<<>>) = 0
    BY EmptySeq
  <2>2. a \in Loads /\ a.query = query /\ a.ok = FALSE /\ a.elements = <<>>
    BY <1>2, <2>1 DEF Loads
  <2>3. Descends(<<>>)
    BY <2>1 DEF Descends
  <2>4. ToSet(<<>>) = {}
    <3>1. DOMAIN <<>> = {}
      OBVIOUS
    <3>2. QED
      BY <3>1 DEF ToSet
  <2>5. QED
    BY <2>2, <2>3, <2>4
<1>3. CASE \E page \in Page(query, elements) : a = [query |-> query, ok |-> TRUE, elements |-> page]
  <2>1. PICK page \in Page(query, elements) :
           a = [query |-> query, ok |-> TRUE, elements |-> page]
    BY <1>3
  <2>2. page \in BoundedSeq(found, PageSize) /\ Newest(page, found)
    BY <2>1 DEF Page
  <2>3. page \in Seq(found)
    <3>1. PICK n \in 0..PageSize : page \in [1..n -> found]
      BY <2>2 DEF BoundedSeq, SeqOf
    <3>2. n \in Nat
      BY RecentAssumption
    <3>3. QED
      BY <3>1, <3>2
  <2>4. page \in Seq(1..MaxObjects)
    <3> HIDE DEF found
    <3>1. QED
      BY <1>1, <2>3, SeqMonotonic
  <2>5. a \in Loads /\ a.query = query /\ a.elements = page
    BY <2>1, <2>4 DEF Loads
  <2>6. ToSet(page) \subseteq found
    BY <2>3, Members
  <2>7. page = <<>> => Len(page) # PageSize
    BY EmptySeq, RecentAssumption
  <2>8. /\ Descends(page)
        /\ \A n \in found : n \in ToSet(page) \/ (Len(page) = PageSize /\ Older(n, Last(page)))
    BY <2>2 DEF Newest
  <2>9. QED
    BY <2>5, <2>6, <2>7, <2>8
<1>4. QED
  BY <1>2, <1>3 DEF Answers

\* What TypeOK says of the list, its page and the objects.
ListType ==
    /\ list \in ListStates
    /\ load = None \/ load \in Loads
    /\ seen \subseteq 1..MaxObjects /\ steady \subseteq seen

LEMMA DispatchType ==
    ASSUME ListType, seen' = seen, NEW state \in ListStates, NEW query \in Queries,
           Dispatch(state, query)
    PROVE  ListType'
<1>1. state.elements \in Seq(1..MaxObjects)
  BY DEF ListStates
<1>2. list' = state
  BY DEF Dispatch
<1>3. load' = load \/ load' = None \/ load' \in Answers(query, state.elements)
  BY DEF Dispatch, Ask
<1>4. \A a \in Answers(query, state.elements) : a \in Loads
  BY <1>1, Answered
<1>5. steady' = steady \/ steady' = seen
  BY DEF Dispatch, Ask
<1>6. QED
  BY <1>2, <1>3, <1>4, <1>5 DEF ListType

\* The page on its way, if one is, continues the list and is whole.
Follows == load # None =>
    /\ Descends(load.elements)
    /\ ToSet(load.elements) \subseteq Matches[load.query] \cap Below(list.elements)
    /\ load.ok => Whole(load, list.elements)

\* The effect keeps this, if the list only changes its elements with its pages.
LEMMA DispatchFollows ==
    ASSUME ListType, seen' = seen, NEW state \in ListStates, NEW query \in Queries,
           Dispatch(state, query), PendingIsLoading, Follows,
           <<state.pageToLoad, state.loadedPages>> = <<list.pageToLoad, list.loadedPages>> =>
               state.elements = list.elements
    PROVE  PendingIsLoading' /\ Follows'
<1>1. state.elements \in Seq(1..MaxObjects)
  BY DEF ListStates
<1>2. list' = state
  BY DEF Dispatch
<1>3. CASE <<state.pageToLoad, state.loadedPages>> = <<list.pageToLoad, list.loadedPages>>
  <2>1. load' = load /\ list'.elements = list.elements /\ steady' = steady
    BY <1>2, <1>3 DEF Dispatch
  <2>2. list'.pageToLoad = list.pageToLoad /\ list'.loadedPages = list.loadedPages
    BY <1>2, <1>3
  <2>3. PendingIsLoading'
    BY <2>1, <2>2 DEF PendingIsLoading, PendingLoad
  <2>4. Follows'
    BY <2>1 DEF Follows, Whole
  <2>5. QED
    BY <2>3, <2>4
<1>4. CASE <<state.pageToLoad, state.loadedPages>> # <<list.pageToLoad, list.loadedPages>>
  <2>1. CASE PendingLoad(state)
    <3>1. load' \in Answers(query, state.elements) /\ steady' \subseteq seen
      BY <1>4, <2>1 DEF Dispatch, Ask, ListType
    <3>2. /\ load' \in Loads
          /\ load'.query = query
          /\ Descends(load'.elements)
          /\ ToSet(load'.elements) \subseteq Matches[query] \cap Below(state.elements)
          /\ load'.ok => \A n \in Matches[query] \cap seen \cap Below(state.elements) :
                \/ n \in ToSet(load'.elements)
                \/ load'.elements # <<>> /\ Older(n, Last(load'.elements))
      BY <1>1, <3>1, Answered
    <3>3. load' # None
      BY <3>2, NoneAssumption
    <3>4. PendingIsLoading'
      BY <1>2, <2>1, <3>3 DEF PendingIsLoading, PendingLoad
    <3>5. Follows'
      BY <1>2, <3>1, <3>2 DEF Follows, Whole
    <3>6. QED
      BY <3>4, <3>5
  <2>2. CASE ~PendingLoad(state)
    <3>1. load' = None
      BY <1>4, <2>2 DEF Dispatch
    <3>2. QED
      BY <1>2, <2>2, <3>1 DEF PendingIsLoading, PendingLoad, Follows
  <2>3. QED
    BY <2>1, <2>2
<1>5. QED
  BY <1>3, <1>4

-----------------------------------------------------------------------------
(* The states of the list between which its reducer moves *)

\* What ListInv says of the list alone.
Orderly(state) ==
    /\ state.loadedPages <= state.pageToLoad /\ state.pageToLoad <= state.loadedPages + 1
    /\ state.loadedPages = 0 => state.elements = <<>>
    /\ Descends(state.elements)

IInv == TypeOK /\ ListInv /\ EndInv

LEMMA Parts ==
    ASSUME IInv
    PROVE  /\ ListType /\ Orderly(list) /\ PendingIsLoading /\ Follows
           /\ list.elements \in Seq(1..MaxObjects)
           /\ list.pageToLoad \in Nat /\ list.loadedPages \in Nat
<1>1. ListType
  BY DEF IInv, TypeOK, ListType, ListStates
<1>2. Orderly(list) /\ PendingIsLoading
  BY DEF IInv, ListInv, Orderly
<1>3. Follows
  BY DEF IInv, ListInv, EndInv, Follows
<1>4. /\ list.elements \in Seq(1..MaxObjects)
      /\ list.pageToLoad \in Nat /\ list.loadedPages \in Nat
  BY <1>1 DEF ListType, ListStates
<1>5. QED
  BY <1>1, <1>2, <1>3, <1>4

\* A step of the reducer into an orderly state keeps ListInv and the first part of EndInv.
LEMMA DispatchInv ==
    ASSUME IInv, seen' = seen, NEW state \in ListStates, NEW query \in Queries,
           Dispatch(state, query), Orderly(state),
           <<state.pageToLoad, state.loadedPages>> = <<list.pageToLoad, list.loadedPages>> =>
               state.elements = list.elements
    PROVE  ListType' /\ ListInv' /\ (load # None /\ load.ok => Whole(load, list.elements))'
<1>1. ListType /\ PendingIsLoading /\ Follows
  BY Parts
<1>2. ListType'
  BY <1>1, DispatchType
<1>3. PendingIsLoading' /\ Follows'
  BY <1>1, DispatchFollows
<1>4. list' = state
  BY DEF Dispatch
<1>5. ListInv'
  BY <1>3, <1>4 DEF ListInv, Orderly, Follows
<1>6. (load # None /\ load.ok => Whole(load, list.elements))'
  BY <1>3 DEF Follows
<1>7. QED
  BY <1>2, <1>5, <1>6

\* The list after a change of the query.
LEMMA Restarted ==
    ASSUME IInv, NEW state \in {Unloaded, Reloaded}
    PROVE  /\ state \in ListStates /\ Orderly(state) /\ state.elements = <<>>
           /\ <<state.pageToLoad, state.loadedPages>> = <<list.pageToLoad, list.loadedPages>> =>
                  state.elements = list.elements
<1>1. /\ state.pageToLoad \in {0, 1} /\ state.loadedPages = 0 /\ state.hasMorePages = FALSE
      /\ state.error = FALSE /\ state.elements = <<>>
  BY DEF Unloaded, Reloaded, NextPage
<1>2. <<>> \in Seq(1..MaxObjects) /\ Len(<<>>) = 0
  BY EmptySeq
<1>3. state \in ListStates
  <2>1. Unloaded \in ListStates
    BY <1>2 DEF Unloaded, ListStates
  <2>2. Reloaded \in ListStates
    <3>1. Unloaded.loadedPages = 0
      BY DEF Unloaded
    <3>2. Reloaded = [Unloaded EXCEPT !.pageToLoad = 0 + 1]
      BY <3>1 DEF Reloaded, NextPage
    <3>3. ASSUME NEW n \in Nat PROVE [Unloaded EXCEPT !.pageToLoad = n] \in ListStates
      BY <2>1 DEF ListStates
    <3>4. QED
      BY <3>2, <3>3
  <2>3. QED
    BY <2>1, <2>2
<1>4. Descends(<<>>)
  BY <1>2 DEF Descends
<1>6. Orderly(state)
  BY <1>1, <1>4 DEF Orderly
<1>7. list.loadedPages = 0 => list.elements = <<>>
  BY Parts DEF Orderly
<1>8. QED
  BY <1>1, <1>3, <1>6, <1>7

\* The list when its next page is asked for.
LEMMA Scrolled ==
    ASSUME IInv, HasMore(list)
    PROVE  /\ NextPage(list) \in ListStates /\ Orderly(NextPage(list))
           /\ NextPage(list).pageToLoad # list.pageToLoad
           /\ NextPage(list).elements = list.elements
           /\ PendingLoad(NextPage(list))
<1>1. /\ list \in ListStates /\ Orderly(list)
      /\ list.pageToLoad \in Nat /\ list.loadedPages \in Nat
  BY Parts DEF ListType
<1>2. ~PendingLoad(list)
  BY DEF HasMore
<1>3. /\ NextPage(list) \in ListStates
      /\ NextPage(list).pageToLoad = list.loadedPages + 1
      /\ NextPage(list).loadedPages = list.loadedPages
      /\ NextPage(list).elements = list.elements
  BY <1>1 DEF NextPage, ListStates
<1>4. QED
  BY <1>1, <1>2, <1>3 DEF Orderly, PendingLoad

\* The list when its page has come.
LEMMA Delivered ==
    ASSUME IInv, load # None, load.ok
    PROVE  /\ PageLoaded(list, load.elements) \in ListStates
           /\ Orderly(PageLoaded(list, load.elements))
           /\ PageLoaded(list, load.elements).loadedPages # list.loadedPages
           /\ ~PendingLoad(PageLoaded(list, load.elements))
           /\ PageLoaded(list, load.elements).elements = list.elements \o load.elements
           /\ load.elements \in Seq(1..MaxObjects) /\ load.query \in Queries
           /\ load.elements = <<>> => list.elements \o load.elements = list.elements
<1> DEFINE state == PageLoaded(list, load.elements)
<1>0. MaxObjects \in Nat
  BY RecentAssumption
<1>1. /\ list \in ListStates /\ Orderly(list) /\ PendingIsLoading /\ Follows
      /\ list.pageToLoad \in Nat /\ list.loadedPages \in Nat
      /\ list.elements \in Seq(1..MaxObjects)
  BY Parts DEF ListType
<1>2. load.elements \in Seq(1..MaxObjects) /\ load.query \in Queries
  BY Parts DEF ListType, Loads
<1>3. list.elements \o load.elements \in Seq(1..MaxObjects)
  BY <1>1, <1>2, ConcatProperties
<1>4. /\ state \in ListStates
      /\ state.pageToLoad = list.pageToLoad
      /\ state.loadedPages = list.loadedPages + 1
      /\ state.elements = list.elements \o load.elements
  <2>1. state = [list EXCEPT !.loadedPages = list.loadedPages + 1,
                             !.hasMorePages = (load.elements # <<>>),
                             !.elements = list.elements \o load.elements]
    BY DEF PageLoaded
  <2>2. (load.elements # <<>>) \in BOOLEAN /\ list.loadedPages + 1 \in Nat
    BY <1>1
  <2>3. ASSUME NEW b \in BOOLEAN, NEW s \in Seq(1..MaxObjects), NEW n \in Nat
        PROVE  [list EXCEPT !.loadedPages = n, !.hasMorePages = b, !.elements = s] \in ListStates
    BY <1>1 DEF ListStates
  <2>4. state \in ListStates
    BY <1>3, <2>1, <2>2, <2>3
  <2>5. /\ state.pageToLoad = list.pageToLoad
        /\ state.loadedPages = list.loadedPages + 1
        /\ state.elements = list.elements \o load.elements
    BY <1>1, <2>1 DEF ListStates
  <2>6. QED
    BY <2>4, <2>5
<1>5. list.pageToLoad = list.loadedPages + 1
  BY <1>1 DEF PendingIsLoading, PendingLoad, Orderly
<1>6. load.elements = <<>> => list.elements \o load.elements = list.elements
  BY <1>1, ConcatEmptySeq
<1>7. /\ Descends(load.elements)
      /\ ToSet(load.elements) \subseteq Below(list.elements)
  BY <1>1 DEF Follows
<1>8. Descends(list.elements \o load.elements)
  <2>1. Descends(list.elements)
    BY <1>1 DEF Orderly
  <2>2. CASE load.elements = <<>>
    BY <1>6, <2>1, <2>2
  <2>3. CASE load.elements # <<>>
    <3>1. list.elements # <<>> => \A n \in ToSet(load.elements) : Older(n, Last(list.elements))
      BY <1>1, <1>7, Members, BelowOlder
    <3>2. QED
      BY <1>1, <1>2, <1>7, <2>1, <2>3, <3>1, JoinedDescends
  <2>4. QED
    BY <2>2, <2>3
<1>9. Orderly(state) /\ ~PendingLoad(state)
  BY <1>1, <1>4, <1>5, <1>8 DEF Orderly, PendingLoad
<1>10. state.loadedPages # list.loadedPages
  BY <1>1, <1>4
<1> HIDE DEF state
<1>11. QED
  BY <1>2, <1>4, <1>6, <1>9, <1>10 DEF state

\* The list when its page has failed.
LEMMA DeliveredError ==
    ASSUME IInv, load # None
    PROVE  /\ Failed(list) \in ListStates /\ Orderly(Failed(list))
           /\ Failed(list).loadedPages # list.loadedPages
           /\ Failed(list).elements = list.elements
           /\ Failed(list).error
           /\ ~PendingLoad(Failed(list))
           /\ load.query \in Queries
<1>1. /\ list \in ListStates /\ Orderly(list) /\ PendingIsLoading
      /\ list.pageToLoad \in Nat /\ list.loadedPages \in Nat
  BY Parts DEF ListType
<1>2. load.query \in Queries
  BY Parts DEF ListType, Loads
<1>3. /\ Failed(list) \in ListStates
      /\ Failed(list).pageToLoad = list.pageToLoad
      /\ Failed(list).loadedPages = list.loadedPages + 1
      /\ Failed(list).elements = list.elements
      /\ Failed(list).error
  <2>1. Failed(list) = [list EXCEPT !.loadedPages = list.loadedPages + 1,
                                    !.hasMorePages = FALSE, !.error = TRUE]
    BY DEF Failed
  <2>2. list.loadedPages + 1 \in Nat
    BY <1>1
  <2>3. ASSUME NEW n \in Nat
        PROVE  [list EXCEPT !.loadedPages = n, !.hasMorePages = FALSE, !.error = TRUE] \in ListStates
    BY <1>1 DEF ListStates
  <2>4. QED
    BY <1>1, <2>1, <2>2, <2>3 DEF ListStates
<1>4. list.pageToLoad = list.loadedPages + 1
  BY <1>1 DEF PendingIsLoading, PendingLoad, Orderly
<1>5. QED
  BY <1>1, <1>2, <1>3, <1>4 DEF Orderly, PendingLoad

-----------------------------------------------------------------------------
(* The inductive invariant *)

LEMMA InitInv == Init => IInv
<1> SUFFICES ASSUME Init PROVE IInv
  OBVIOUS
<1>0. seen \subseteq 1..MaxObjects /\ steady = seen /\ q \in Queries /\ late = FALSE
  BY DEF Init
<1>1. <<>> \in Seq(1..MaxObjects) /\ Len(<<>>) = 0
  BY EmptySeq
<1>2. Descends(<<>>)
  BY <1>1 DEF Descends
<1>3. ToSet(<<>>) = {}
  <2>1. DOMAIN <<>> = {}
    OBVIOUS
  <2>2. QED
    BY <2>1 DEF ToSet
<1>4. /\ list \in ListStates /\ list.elements = <<>> /\ list.loadedPages = 0
      /\ list.pageToLoad \in {0, 1}
  <2>1. /\ Unloaded \in ListStates /\ Unloaded.elements = <<>> /\ Unloaded.loadedPages = 0
        /\ Unloaded.pageToLoad = 0
    BY <1>1 DEF Unloaded, ListStates
  <2>2. /\ Reloaded \in ListStates /\ Reloaded.elements = <<>> /\ Reloaded.loadedPages = 0
        /\ Reloaded.pageToLoad = 1
    <3>1. Reloaded = [Unloaded EXCEPT !.pageToLoad = 0 + 1]
      BY <2>1 DEF Reloaded, NextPage
    <3>2. ASSUME NEW n \in Nat PROVE [Unloaded EXCEPT !.pageToLoad = n] \in ListStates
      BY <2>1 DEF ListStates
    <3>3. Reloaded \in ListStates
      BY <3>1, <3>2
    <3>4. QED
      BY <2>1, <3>1, <3>3 DEF ListStates
  <2>3. list = Unloaded \/ list = Reloaded
    BY DEF Init
  <2>4. QED
    BY <2>1, <2>2, <2>3
<1>5. (load = None \/ load \in Loads) /\ PendingIsLoading /\ Follows
  <2>1. CASE q = Empty /\ disallowEmpty
    <3>1. list = Unloaded /\ load = None
      BY <2>1 DEF Init
    <3>2. QED
      BY <3>1 DEF Unloaded, PendingIsLoading, PendingLoad, Follows
  <2>2. CASE ~(q = Empty /\ disallowEmpty)
    <3>1. list = Reloaded /\ load \in Answers(q, <<>>)
      BY <2>2 DEF Init
    <3>2. /\ load \in Loads
          /\ load.query = q
          /\ Descends(load.elements)
          /\ ToSet(load.elements) \subseteq Matches[q] \cap Below(<<>>)
          /\ load.ok => \A n \in Matches[q] \cap seen \cap Below(<<>>) :
                n \in ToSet(load.elements) \/ (load.elements # <<>> /\ Older(n, Last(load.elements)))
      BY <1>0, <1>1, <3>1, Answered
    <3>3. load # None
      BY <3>2, NoneAssumption
    <3>4. PendingLoad(list)
      BY <3>1 DEF Reloaded, NextPage, Unloaded, PendingLoad
    <3>5. Follows
      BY <1>0, <1>4, <3>2 DEF Follows, Whole
    <3>6. QED
      BY <3>2, <3>3, <3>4, <3>5 DEF PendingIsLoading
  <2>3. QED
    BY <2>1, <2>2
<1>6. TypeOK
  <2>1. /\ q \in Queries /\ counting \in BOOLEAN /\ disallowEmpty \in BOOLEAN /\ late \in BOOLEAN
        /\ counts \subseteq [query : Queries, ok : BOOLEAN]
        /\ {count, queryError} \subseteq Queries \cup {None}
    BY <1>0 DEF Init
  <2>2. QED
    BY <1>0, <1>4, <1>5, <2>1 DEF TypeOK, ListStates
<1>7. ListInv
  BY <1>2, <1>4, <1>5 DEF ListInv, Follows
<1>8. EndInv
  <2>1. load # None /\ load.ok => Whole(load, list.elements)
    BY <1>5 DEF Follows
  <2>2. Listed = {} /\ Below(list.elements) = 1..MaxObjects
    BY <1>3, <1>4, BelowEmpty DEF Listed
  <2>3. Listed \subseteq Matches[q] /\ steady \subseteq Below(list.elements)
    BY <1>0, <2>2
  <2>4. ~(list.loadedPages > 0)
    BY <1>4
  <2>5. QED
    BY <2>1, <2>3, <2>4 DEF EndInv
<1>9. QED
  BY <1>6, <1>7, <1>8 DEF IInv

\* The count is asked for or not: both keep their types.
LEMMA SubmitType ==
    ASSUME TypeOK, NEW query \in Queries, NEW on \in BOOLEAN, SubmitQuery(query, on)
    PROVE  /\ counts' \subseteq [query : Queries, ok : BOOLEAN]
           /\ {count', queryError'} \subseteq Queries \cup {None}
<1>1. queryError' = None
  BY DEF SubmitQuery
<1>2. CASE on
  <2>1. count' = None
    BY <1>2 DEF SubmitQuery, MakeCount
  <2>2. PICK ok \in BOOLEAN : counts' = counts \cup {[query |-> query, ok |-> ok]}
    BY <1>2 DEF SubmitQuery, MakeCount
  <2>3. [query |-> query, ok |-> ok] \in [query : Queries, ok : BOOLEAN]
    OBVIOUS
  <2>4. QED
    BY <1>1, <2>1, <2>2, <2>3 DEF TypeOK
<1>3. CASE ~on
  BY <1>1, <1>3 DEF SubmitQuery, TypeOK
<1>4. QED
  BY <1>2, <1>3

\* From the parts of the type invariant.
LEMMA TypeFrom ==
    ASSUME ListType', q' \in Queries, counting' \in BOOLEAN, disallowEmpty' \in BOOLEAN,
           late' \in BOOLEAN, counts' \subseteq [query : Queries, ok : BOOLEAN],
           {count', queryError'} \subseteq Queries \cup {None}
    PROVE  TypeOK'
BY DEF TypeOK, ListType, ListStates

\* A step that leaves the list and its page alone, while objects may go.
LEMMA Undisturbed ==
    ASSUME IInv, UNCHANGED <<q, list, load>>, steady' \subseteq steady, late => late'
    PROVE  ListInv' /\ EndInv'
<1>1. ListInv'
  BY DEF IInv, ListInv, PendingIsLoading
<1>2. \A page, elements : Whole(page, elements) => Whole(page, elements)'
  BY DEF Whole
<1>3. Listed' = Listed /\ \A n : PassedOver(n)' <=> PassedOver(n)
  BY DEF Listed, PassedOver
<1>4. EndInv'
  BY <1>2, <1>3 DEF IInv, EndInv
<1>5. QED
  BY <1>1, <1>4

LEMMA SetCurrentQueryInv ==
    ASSUME IInv, NEW query \in Queries, SetCurrentQuery(query)
    PROVE  IInv'
<1>1. /\ q' = query /\ UNCHANGED <<counting, disallowEmpty, seen, late>>
      /\ TypeOK /\ ListType
  BY Parts DEF SetCurrentQuery, IInv
<1>2. CASE query = q
  <2>1. q' = q /\ queryError' = None /\ UNCHANGED <<list, load, steady, counts, count>>
    BY <1>2 DEF SetCurrentQuery
  <2>2. TypeOK'
    BY <1>1, <2>1, TypeFrom DEF TypeOK, ListType, ListStates
  <2>3. ListInv' /\ EndInv'
    BY <1>1, <2>1, Undisturbed
  <2>4. QED
    BY <2>2, <2>3 DEF IInv
<1>3. CASE query # q
  <2>1. PICK state \in {Unloaded, Reloaded} : Dispatch(state, query)
    BY <1>3 DEF SetCurrentQuery
  <2>2. /\ state \in ListStates /\ Orderly(state) /\ state.elements = <<>>
        /\ <<state.pageToLoad, state.loadedPages>> = <<list.pageToLoad, list.loadedPages>> =>
               state.elements = list.elements
    BY Restarted
  <2>3. ListType' /\ ListInv' /\ (load # None /\ load.ok => Whole(load, list.elements))'
    BY <1>1, <2>1, <2>2, DispatchInv
  <2>4. SubmitQuery(query, counting) /\ counting \in BOOLEAN
    BY <1>1, <1>3 DEF SetCurrentQuery, TypeOK
  <2>5. TypeOK'
    BY <1>1, <2>3, <2>4, SubmitType, TypeFrom DEF TypeOK
  <2>6. list'.elements = <<>> /\ list'.loadedPages = 0
    <3>1. state.loadedPages = 0
      BY DEF Unloaded, Reloaded, NextPage
    <3>2. QED
      BY <2>1, <2>2, <3>1 DEF Dispatch
  <2>7. EndInv'
    <3>1. Listed' = {}
      BY <2>6, EmptyMembers DEF Listed
    <3>2. steady' \subseteq Below(list'.elements)
      BY <2>3, <2>6, BelowEmpty DEF ListType
    <3>3. QED
      BY <2>3, <2>6, <3>1, <3>2 DEF EndInv
  <2>8. QED
    BY <2>3, <2>5, <2>7 DEF IInv
<1>4. QED
  BY <1>2, <1>3

LEMMA ToggleCountInv == ASSUME IInv, ToggleCount PROVE IInv'
<1>1. /\ UNCHANGED <<q, disallowEmpty, list, load, seen, steady, late>>
      /\ counting' = ~counting /\ SubmitQuery(q, counting') /\ TypeOK
  BY DEF ToggleCount, IInv
<1>2. counting' \in BOOLEAN /\ q \in Queries
  BY <1>1 DEF TypeOK
<1>3. /\ counts' \subseteq [query : Queries, ok : BOOLEAN]
      /\ {count', queryError'} \subseteq Queries \cup {None}
  BY <1>1, <1>2, SubmitType
<1>4. TypeOK'
  BY <1>1, <1>2, <1>3 DEF TypeOK
<1>5. ListInv' /\ EndInv'
  BY <1>1, Undisturbed
<1>6. QED
  BY <1>4, <1>5 DEF IInv

LEMMA DeliverCountInv == ASSUME IInv, NEW c \in counts, DeliverCount(c) PROVE IInv'
<1>1. /\ UNCHANGED <<q, counting, disallowEmpty, list, load, seen, steady>>
      /\ counts' = counts \ {c} /\ TypeOK /\ (late' <=> late \/ c.query # q) /\ late' \in BOOLEAN
  BY DEF DeliverCount, IInv, TypeOK
<1>2. c.query \in Queries
  BY <1>1 DEF TypeOK
<1>3. count' \in {count, c.query} /\ queryError' \in {queryError, c.query}
  BY DEF DeliverCount
<1>4. TypeOK'
  BY <1>1, <1>2, <1>3 DEF TypeOK
<1>5. ListInv' /\ EndInv'
  BY <1>1, Undisturbed
<1>6. QED
  BY <1>4, <1>5 DEF IInv

LEMMA LoadMoreInv == ASSUME IInv, LoadMore PROVE IInv'
<1>1. /\ UNCHANGED <<q, counting, disallowEmpty, counts, count, queryError, seen, late>>
      /\ HasMore(list) /\ Dispatch(NextPage(list), q) /\ TypeOK
  BY DEF LoadMore, IInv
<1>2. q \in Queries
  BY <1>1 DEF TypeOK
<1>3. /\ NextPage(list) \in ListStates /\ Orderly(NextPage(list))
      /\ NextPage(list).pageToLoad # list.pageToLoad
      /\ NextPage(list).elements = list.elements
      /\ PendingLoad(NextPage(list))
  BY <1>1, Scrolled
<1>4. ListType' /\ ListInv' /\ (load # None /\ load.ok => Whole(load, list.elements))'
  BY <1>1, <1>2, <1>3, DispatchInv
<1>5. TypeOK'
  BY <1>1, <1>4, TypeFrom DEF TypeOK
<1>6. list'.elements = list.elements /\ PendingLoad(list')
  BY <1>1, <1>3 DEF Dispatch
<1>7. \A n \in steady' : n \in steady \/ n \in Below(list.elements)
  <2>1. steady' = steady \/ (list.elements = <<>> /\ steady' = seen)
    BY <1>1, <1>3 DEF Dispatch, Ask
  <2>2. seen \subseteq 1..MaxObjects
    BY Parts DEF ListType
  <2>3. QED
    BY <2>1, <2>2, BelowEmpty
<1>8. EndInv'
  <2>1. Listed' = Listed /\ \A n : PassedOver(n)' <=> PassedOver(n)
    BY <1>6 DEF Listed, PassedOver
  <2>2. ~late => /\ Listed \subseteq Matches[q]
                 /\ \A n \in steady \cap Matches[q] :
                       n \in Listed \/ PassedOver(n) \/ n \in Below(list.elements)
    BY DEF IInv, EndInv
  <2>3. QED
    BY <1>1, <1>4, <1>6, <1>7, <2>1, <2>2 DEF EndInv
<1>9. QED
  BY <1>4, <1>5, <1>8 DEF IInv

LEMMA AppearInv == ASSUME IInv, NEW n \in Changing, Appear(n) PROVE IInv'
<1>1. /\ UNCHANGED <<q, counting, disallowEmpty, list, load, counts, count, queryError>>
      /\ UNCHANGED <<steady, late>> /\ seen' = seen \cup {n} /\ TypeOK
  BY DEF Appear, IInv
<1>2. TypeOK'
  BY <1>1, RecentAssumption DEF TypeOK
<1>3. ListInv' /\ EndInv'
  BY <1>1, Undisturbed
<1>4. QED
  BY <1>2, <1>3 DEF IInv

LEMMA VanishInv == ASSUME IInv, NEW n \in Changing, Vanish(n) PROVE IInv'
<1>1. /\ UNCHANGED <<q, counting, disallowEmpty, list, load, counts, count, queryError, late>>
      /\ seen' = seen \ {n} /\ steady' = steady \ {n} /\ TypeOK
  BY DEF Vanish, IInv
<1>2. TypeOK'
  BY <1>1 DEF TypeOK
<1>3. ListInv' /\ EndInv'
  BY <1>1, Undisturbed
<1>4. QED
  BY <1>2, <1>3 DEF IInv

LEMMA AddQuickQueryInv == ASSUME IInv, AddQuickQuery PROVE IInv'
<1>1. /\ UNCHANGED <<q, counting, disallowEmpty, list, load, counts, count, seen, steady, late>>
      /\ queryError' \in {None, q} /\ TypeOK
  BY DEF AddQuickQuery, IInv
<1>2. TypeOK'
  BY <1>1 DEF TypeOK
<1>3. ListInv' /\ EndInv'
  BY <1>1, Undisturbed
<1>4. QED
  BY <1>2, <1>3 DEF IInv

\* Where the list is when its page has come: EndInv, but for the page that it asks for next.
LEMMA DeliverEnd ==
    ASSUME IInv, load # None, load.ok, ~(late \/ load.query # q)
    PROVE  LET s == list.elements \o load.elements
           IN  /\ ToSet(s) \subseteq Matches[q]
               /\ \A n \in steady \cap Matches[q] :
                     \/ n \in ToSet(s) \/ n \in Below(s)
                     \/ \E m \in ToSet(s) : Older(n, m) /\ m < n
               /\ load.elements = <<>> => steady \cap Matches[q] \cap Below(s) = {}
<1> DEFINE s == list.elements \o load.elements
<1>1. /\ load.elements \in Seq(1..MaxObjects) /\ list.elements \in Seq(1..MaxObjects)
      /\ load.elements = <<>> => s = list.elements
      /\ Follows /\ load.query = q /\ ~late
  BY Delivered, Parts
<1>2. /\ ToSet(load.elements) \subseteq Matches[q]
      /\ \A n \in steady \cap Matches[q] \cap Below(list.elements) :
            \/ n \in ToSet(load.elements)
            \/ load.elements # <<>> /\ Older(n, Last(load.elements))
  BY <1>1 DEF Follows, Whole
<1>3. /\ ToSet(list.elements) \subseteq Matches[q]
      /\ \A n \in steady \cap Matches[q] :
            \/ n \in ToSet(list.elements) \/ n \in Below(list.elements)
            \/ \E m \in ToSet(list.elements) : Older(n, m) /\ m < n
  BY <1>1 DEF IInv, EndInv, Listed, PassedOver
<1>4. CASE load.elements = <<>>
  <2>1. s = list.elements
    BY <1>1, <1>4
  <2>2. steady \cap Matches[q] \cap Below(list.elements) = {}
    BY <1>2, <1>4, EmptyMembers
  <2> HIDE DEF s
  <2>3. QED
    BY <1>3, <2>1, <2>2 DEF s
<1>5. CASE load.elements # <<>>
  <2>1. ToSet(s) = ToSet(list.elements) \cup ToSet(load.elements)
    BY <1>1, <1>5, JoinedMembers
  <2>2. s \in Seq(1..MaxObjects) /\ s # <<>> /\ Last(s) = Last(load.elements)
    BY <1>1, <1>5, Joined
  <2>3. Last(load.elements) \in 1..MaxObjects /\ Last(load.elements) \in ToSet(load.elements)
    BY <1>1, <1>5, Members
  <2> HIDE DEF s
  <2>4. ASSUME NEW n \in steady \cap Matches[q]
        PROVE  \/ n \in ToSet(s) \/ n \in Below(s)
               \/ \E m \in ToSet(s) : Older(n, m) /\ m < n
    <3>1. CASE n \notin Below(list.elements)
      BY <1>3, <2>1, <3>1
    <3>2. CASE n \in Below(list.elements) /\ n \notin ToSet(load.elements)
      <4>1. Older(n, Last(s)) /\ n \in 1..MaxObjects
        BY <1>2, <2>2, <3>2 DEF Below
      <4>2. n \in Below(s) \/ Last(s) < n
        BY <2>2, <2>3, <4>1, OlderBelow
      <4>3. QED
        BY <2>1, <2>2, <2>3, <4>1, <4>2
    <3>3. QED
      BY <2>1, <3>1, <3>2
  <2>5. ToSet(s) \subseteq Matches[q]
    BY <1>2, <1>3, <2>1
  <2>6. QED
    BY <1>5, <2>4, <2>5 DEF s
<1>6. QED
  BY <1>4, <1>5

LEMMA DeliverPageInv == ASSUME IInv, DeliverPage PROVE IInv'
<1>1. /\ UNCHANGED <<q, counting, disallowEmpty, counts, count, seen>>
      /\ load # None /\ TypeOK
      /\ (late' <=> late \/ load.query # q) /\ late' \in BOOLEAN
  BY DEF DeliverPage, IInv, TypeOK
<1>2. q \in Queries
  BY <1>1 DEF TypeOK
<1>3. ASSUME load.ok PROVE IInv'
  <2> DEFINE state == PageLoaded(list, load.elements)
  <2>1. Dispatch(state, q) /\ queryError' = queryError
    BY <1>3 DEF DeliverPage
  <2>2. /\ state \in ListStates /\ Orderly(state)
        /\ state.loadedPages # list.loadedPages
        /\ ~PendingLoad(state)
        /\ state.elements = list.elements \o load.elements
        /\ state.hasMorePages <=> load.elements # <<>>
    <3>1. list \in ListStates
      BY Parts DEF ListType
    <3>2. state.hasMorePages <=> load.elements # <<>>
      BY <3>1 DEF PageLoaded, ListStates
    <3>3. QED
      BY <1>1, <1>3, <3>2, Delivered
  <2>3. list' = state
    BY <2>1 DEF Dispatch
  <2> HIDE DEF state
  <2>4. ListType' /\ ListInv' /\ (load # None /\ load.ok => Whole(load, list.elements))'
    BY <1>1, <1>2, <2>1, <2>2, DispatchInv
  <2>5. TypeOK'
    BY <1>1, <2>1, <2>4, TypeFrom DEF TypeOK
  <2>6. EndInv'
    <3> DEFINE s == list.elements \o load.elements
    <3>1. list'.elements = s /\ steady' = steady
      BY <2>1, <2>2, <2>3 DEF Dispatch
    <3>2. ASSUME ~late'
          PROVE  /\ ToSet(s) \subseteq Matches[q]
                 /\ \A n \in steady \cap Matches[q] :
                       \/ n \in ToSet(s) \/ n \in Below(s)
                       \/ \E m \in ToSet(s) : Older(n, m) /\ m < n
                 /\ ~list'.hasMorePages => steady \cap Matches[q] \cap Below(s) = {}
      BY <1>1, <1>3, <2>2, <2>3, <3>2, DeliverEnd
    <3> HIDE DEF s
    <3>3. QED
      BY <1>1, <2>4, <3>1, <3>2 DEF EndInv, Listed, PassedOver
  <2>7. QED
    BY <2>4, <2>5, <2>6 DEF IInv
<1>4. ASSUME ~load.ok PROVE IInv'
  <2>1. Dispatch(Failed(list), q) /\ queryError' = load.query
    BY <1>4 DEF DeliverPage
  <2>2. /\ Failed(list) \in ListStates /\ Orderly(Failed(list))
        /\ Failed(list).loadedPages # list.loadedPages
        /\ Failed(list).elements = list.elements
        /\ Failed(list).error
        /\ ~PendingLoad(Failed(list))
        /\ load.query \in Queries
    BY <1>1, DeliveredError
  <2>3. ListType' /\ ListInv' /\ (load # None /\ load.ok => Whole(load, list.elements))'
    BY <1>1, <1>2, <2>1, <2>2, DispatchInv
  <2>4. TypeOK'
    BY <1>1, <2>1, <2>2, <2>3, TypeFrom DEF TypeOK
  <2>5. list'.elements = list.elements /\ list'.error /\ steady' = steady
    BY <2>1, <2>2 DEF Dispatch
  <2>6. EndInv'
    <3>1. Listed' = Listed /\ \A n : PassedOver(n)' <=> PassedOver(n)
      BY <2>5 DEF Listed, PassedOver
    <3>2. ~late => /\ Listed \subseteq Matches[q]
                   /\ \A n \in steady \cap Matches[q] :
                         n \in Listed \/ PassedOver(n) \/ n \in Below(list.elements)
      BY DEF IInv, EndInv
    <3>3. QED
      BY <1>1, <2>3, <2>5, <3>1, <3>2 DEF EndInv
  <2>7. QED
    BY <2>3, <2>4, <2>6 DEF IInv
<1>5. QED
  BY <1>3, <1>4

LEMMA NextInv == IInv /\ [Next]_vars => IInv'
<1> SUFFICES ASSUME IInv, [Next]_vars PROVE IInv'
  OBVIOUS
<1>1. CASE UNCHANGED vars
  <2>1. TypeOK' /\ UNCHANGED <<q, list, load, steady, late>>
    BY <1>1 DEF vars, IInv, TypeOK
  <2>2. QED
    BY <2>1, Undisturbed DEF IInv
<1>2. ASSUME NEW query \in Queries, SetCurrentQuery(query) PROVE IInv'
  BY <1>2, SetCurrentQueryInv
<1>3. CASE ToggleCount
  BY <1>3, ToggleCountInv
<1>4. CASE LoadMore
  BY <1>4, LoadMoreInv
<1>5. CASE DeliverPage
  BY <1>5, DeliverPageInv
<1>6. ASSUME NEW n \in Changing, Appear(n) \/ Vanish(n) PROVE IInv'
  BY <1>6, AppearInv, VanishInv
<1>7. ASSUME NEW c \in counts, DeliverCount(c) PROVE IInv'
  BY <1>7, DeliverCountInv
<1>8. CASE AddQuickQuery
  BY <1>8, AddQuickQueryInv
<1>9. QED
  BY <1>1, <1>2, <1>3, <1>4, <1>5, <1>6, <1>7, <1>8 DEF Next

LEMMA Invariance == Spec => []IInv
BY InitInv, NextInv, PTL DEF Spec

-----------------------------------------------------------------------------
(* What follows *)

(* The variables keep their types, for any queries, page size and objects. *)
THEOREM TypeCorrect == Spec => []TypeOK
<1>1. IInv => TypeOK
  BY DEF IInv
<1>2. QED
  BY <1>1, Invariance, PTL

(* The list says that it is loading exactly while a page is on its way     *)
(* that it will take, whatever queries, scrolling and answers overlap: the *)
(* effect of RecentViewList starts or gives up a load whenever the         *)
(* reducer's numbers of pages come apart or together.                      *)
THEOREM PendingIsLoadingCorrect == Spec => []PendingIsLoading
<1>1. IInv => PendingIsLoading
  BY DEF IInv, ListInv
<1>2. QED
  BY <1>1, Invariance, PTL

(* When no more are offered and nothing failed, the list is in order and   *)
(* shows all that the query matches and that has been there since the list *)
(* began, but for objects whose identifier is greater than that of a newer *)
(* one listed: for any page size and times, whatever appears or goes       *)
(* between the pages, unless an answer for another query was taken.        *)
THEOREM SerialEndCorrect == Spec => []SerialEnd
<1>1. ASSUME IInv PROVE SerialEnd
  <2>1. SUFFICES ASSUME ~late, list.loadedPages > 0, ~list.error, ~HasMore(list),
                        ~PendingLoad(list)
                 PROVE  /\ Descends(list.elements)
                        /\ Listed \subseteq Matches[q]
                        /\ \A n \in steady \cap Matches[q] : n \in Listed \/ PassedOver(n)
    BY DEF SerialEnd
  <2>2. ~list.hasMorePages
    BY <2>1 DEF HasMore
  <2>3. /\ Listed \subseteq Matches[q]
        /\ \A n \in steady \cap Matches[q] :
              n \in Listed \/ PassedOver(n) \/ n \in Below(list.elements)
        /\ steady \cap Matches[q] \cap Below(list.elements) = {}
    BY <1>1, <2>1, <2>2 DEF IInv, EndInv
  <2>4. Descends(list.elements)
    BY <1>1 DEF IInv, ListInv
  <2>5. QED
    BY <2>3, <2>4
<1>2. QED
  BY <1>1, Invariance, PTL

(* The error that is shown is of the query in the address, and so is the   *)
(* count while the counting is on, unless an answer came late: each change *)
(* of the query removes them before it asks.                               *)
THEOREM SerialCountCorrect == Spec => []SerialCount
<1>1. Init => SerialCount
  BY DEF Init, SerialCount
<1>2. SerialCount /\ [Next]_vars => SerialCount'
  <2> DEFINE Right == queryError' \in {q', None} /\ (counting' => count' \in {q', None})
  <2> SUFFICES ASSUME SerialCount, [Next]_vars, ~late' PROVE Right
    BY DEF SerialCount
  <2>1. CASE UNCHANGED vars
    BY <2>1 DEF vars, SerialCount
  <2>2. ASSUME NEW query \in Queries, SetCurrentQuery(query) PROVE Right
    BY <2>2 DEF SetCurrentQuery, SubmitQuery, MakeCount, SerialCount
  <2>3. CASE ToggleCount
    BY <2>3 DEF ToggleCount, SubmitQuery, MakeCount, SerialCount
  <2>4. CASE LoadMore
    BY <2>4 DEF LoadMore, SerialCount
  <2>5. CASE DeliverPage
    BY <2>5 DEF DeliverPage, SerialCount
  <2>6. CASE AddQuickQuery
    BY <2>6 DEF AddQuickQuery, SerialCount
  <2>7. ASSUME NEW c \in counts, DeliverCount(c) PROVE Right
    BY <2>7 DEF DeliverCount, SerialCount
  <2>8. ASSUME NEW n \in Changing, Appear(n) \/ Vanish(n) PROVE Right
    BY <2>8 DEF Appear, Vanish, SerialCount
  <2> HIDE DEF Right
  <2>9. QED
    BY <2>1, <2>2, <2>3, <2>4, <2>5, <2>6, <2>7, <2>8 DEF Next
<1>3. QED
  BY <1>1, <1>2, PTL DEF Spec

-----------------------------------------------------------------------------
(* The list implements ResultList *)

LEMMA InitMaps == Init => Promise!Init
BY DEF Init, Unloaded, Reloaded, NextPage, Promise!Init

\* Only a page that is taken, or another query, changes what is listed.
LEMMA StepMaps == IInv /\ [Next]_vars => [Promise!Next]_<<q, list.elements>>
<1> SUFFICES ASSUME IInv, [Next]_vars PROVE [Promise!Next]_<<q, list.elements>>
  OBVIOUS
<1>1. CASE UNCHANGED vars
  BY <1>1 DEF vars
<1>2. ASSUME NEW query \in Queries, SetCurrentQuery(query)
      PROVE  [Promise!Next]_<<q, list.elements>>
  <2>1. CASE query = q
    BY <1>2, <2>1 DEF SetCurrentQuery
  <2>2. CASE query # q
    <3>1. PICK state \in {Unloaded, Reloaded} : Dispatch(state, query)
      BY <1>2, <2>2 DEF SetCurrentQuery
    <3>2. list'.elements = <<>>
      BY <3>1, Restarted DEF Dispatch
    <3>3. Promise!Ask(query)
      BY <1>2, <3>2 DEF SetCurrentQuery, Promise!Ask
    <3>4. QED
      BY <3>3 DEF Promise!Next
  <2>3. QED
    BY <2>1, <2>2
<1>3. CASE LoadMore
  <2>1. list' = NextPage(list) /\ q' = q
    BY <1>3 DEF LoadMore, Dispatch
  <2>2. NextPage(list).elements = list.elements
    BY <1>3, Scrolled DEF LoadMore
  <2>3. QED
    BY <2>1, <2>2
<1>4. CASE DeliverPage
  <2>1. load # None /\ q' = q
    BY <1>4 DEF DeliverPage
  <2>2. CASE ~load.ok
    <3>1. list' = Failed(list)
      BY <1>4, <2>2 DEF DeliverPage, Dispatch
    <3>2. QED
      BY <2>1, <3>1, DeliveredError
  <2>3. CASE load.ok
    <3> DEFINE s == list.elements
    <3> DEFINE t == load.elements
    <3>1. list' = PageLoaded(list, t)
      BY <1>4, <2>3 DEF DeliverPage, Dispatch
    <3>2. /\ list'.elements = s \o t
          /\ Orderly(PageLoaded(list, t))
          /\ t \in Seq(1..MaxObjects) /\ load.query \in Queries
          /\ t = <<>> => s \o t = s
      BY <2>1, <2>3, <3>1, Delivered
    <3>3. s \in Seq(1..MaxObjects) /\ Follows
      BY Parts
    <3>4. CASE t = <<>>
      BY <2>1, <3>2, <3>4
    <3>5. CASE t # <<>>
      <4>1. /\ s \o t \in Seq(1..MaxObjects)
            /\ Len(s \o t) = Len(s) + Len(t) /\ Len(s) \in Nat /\ Len(t) \in Nat /\ Len(t) > 0
            /\ \A i \in Len(s) + 1..Len(s) + Len(t) :
                  i - Len(s) \in 1..Len(t) /\ (s \o t)[i] = t[i - Len(s)]
            /\ SubSeq(s \o t, 1, Len(s)) = s
        <5>1. s \in Seq(1..MaxObjects) /\ t \in Seq(1..MaxObjects) /\ t # <<>>
          BY <3>2, <3>3, <3>5
        <5> HIDE DEF s, t
        <5>2. QED
          BY <5>1, Joined
      <4>2. Descends(s \o t)
        BY <3>1, <3>2 DEF Orderly
      <4> DEFINE u == s \o t
      <4>10. u \in Seq(1..MaxObjects) /\ Len(u) \in Nat /\ Len(u) > Len(s) /\ Len(s) \in Nat
        <5>1. Len(u) = Len(s) + Len(t) /\ Len(s) \in Nat /\ Len(t) \in Nat /\ Len(t) > 0
          BY <4>1
        <5> HIDE DEF s, t, u
        <5>2. Len(u) \in Nat /\ Len(u) > Len(s)
          BY <5>1
        <5>3. QED
          BY <4>1, <5>1, <5>2 DEF u
      <4>3. Promise!Descends(s \o t)
        <5>1. ASSUME NEW i \in 1..Len(u), i > 1 PROVE Promise!Older(u[i], u[i - 1])
          <6>1. i - 1 \in 1..Len(u) /\ i - 1 < i
            <7> HIDE DEF u, s, t
            <7>1. QED
              BY <4>10, <5>1
          <6>2. Older(u[i], u[i - 1])
            BY <4>2, <6>1 DEF Descends
          <6>3. QED
            BY <6>2 DEF Older, Promise!Older
        <5>2. QED
          BY <5>1 DEF Promise!Descends
      <4>4. ToSet(t) \subseteq Matches[load.query]
        BY <2>1, <3>3 DEF Follows
      <4>5. \A i \in Len(s) + 1..Len(s \o t) : (s \o t)[i] \in Matches[load.query]
        <5>1. TAKE i \in Len(s) + 1..Len(s \o t)
        <5>2. i - Len(s) \in 1..Len(t) /\ (s \o t)[i] = t[i - Len(s)]
          BY <4>1, <5>1
        <5>3. t[i - Len(s)] \in ToSet(t)
          BY <3>2, <5>2, Members
        <5>4. QED
          BY <4>4, <5>2, <5>3
      <4>6. Len(s \o t) > Len(s)
        BY <4>10
      <4>7. Promise!Grow
        BY <2>1, <3>2, <4>1, <4>3, <4>5, <4>6 DEF Promise!Grow
      <4>8. QED
        BY <4>7 DEF Promise!Next
    <3>6. QED
      BY <3>4, <3>5
  <2>4. QED
    BY <2>2, <2>3
<1>5. CASE ToggleCount \/ AddQuickQuery \/ \E c \in counts : DeliverCount(c)
  BY <1>5 DEF ToggleCount, AddQuickQuery, DeliverCount
<1>6. ASSUME NEW n \in Changing, Appear(n) \/ Vanish(n)
      PROVE  [Promise!Next]_<<q, list.elements>>
  BY <1>6 DEF Appear, Vanish
<1>7. QED
  BY <1>1, <1>2, <1>3, <1>4, <1>5, <1>6 DEF Next

(* Whatever overlaps, the list implements ResultList, for any queries,     *)
(* page size and objects: it starts again when another query is asked, and *)
(* otherwise grows at its end by older results of one query.               *)
THEOREM PromiseKept == Spec => KeepsPromise
<1>1. IInv /\ [Next]_vars => [Promise!Next]_<<q, list.elements>>
  BY StepMaps
<1>2. QED
  BY <1>1, InitMaps, Invariance, PTL DEF Spec, KeepsPromise, Promise!Spec
=============================================================================
