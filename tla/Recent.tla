-------------------------------- MODULE Recent --------------------------------
(***************************************************************************)
(* A list of objects in the web frontend: RecentView, which keeps the      *)
(* query in the address and counts its results, and RecentViewList, which  *)
(* loads page after page of them (mwdb/web/src/components/RecentView).     *)
(*                                                                         *)
(* Objects are numbered by their identifiers, in the order in which their  *)
(* rows were inserted.  The time of the upload is that of the worker's     *)
(* clock, taken before the row is inserted, and the row is seen by others  *)
(* once it is committed, or shared: neither follows the numbers.  A query  *)
(* is the set of numbers that match it.  A request is served when it is    *)
(* sent, and its answer comes later.                                       *)
(***************************************************************************)
EXTENDS Integers, Sequences, FiniteSets, SequencesExt

CONSTANTS
    Queries, Empty,     \* queries, and the one of an empty input
    Matches,            \* what every query matches
    UploadTime,         \* of every object
    None,
    PageSize,
    MaxObjects,         \* bound: objects on the server
    Changing            \* bound: those that may appear and vanish while the list is shown

ASSUME RecentAssumption ==
    /\ Empty \in Queries
    /\ PageSize \in Nat \ {0} /\ MaxObjects \in Nat
    /\ Matches \in [Queries -> SUBSET (1..MaxObjects)]
    /\ UploadTime \in [1..MaxObjects -> Nat]
    /\ Changing \subseteq 1..MaxObjects

\* The answers of the server.
Loads == [query : Queries, ok : BOOLEAN, elements : Seq(1..MaxObjects)]

ASSUME NoneAssumption == None \notin Queries /\ None \notin Loads

VARIABLES
    q,              \* currentQuery, of the address
    counting,       \* countingEnabled, of the address
    disallowEmpty,  \* whether the view wants a query (SearchView)
    list,           \* the state of RecentViewList
    load,           \* the page whose answer will be taken, with the query it was asked for
    counts,         \* the counts on their way
    count,          \* the query whose count is shown
    queryError,     \* the query whose error is shown
    seen,           \* the objects on the server that the user has access to
    steady,         \* history: those that were there when the list began, and have stayed
    late            \* history: an answer was taken for a query no longer in the address

vars ==
    <<q, counting, disallowEmpty, list, load, counts, count, queryError, seen, steady, late>>

-----------------------------------------------------------------------------
(* The server: ObjectResource.get *)

\* The order of the list.
Older(m, n) ==
    \/ UploadTime[m] < UploadTime[n]
    \/ UploadTime[m] = UploadTime[n] /\ m < n
Descends(s) == \A i, j \in 1..Len(s) : i < j => Older(s[j], s[i])
\* older_than, the last element of the list: not what is older, but what has neither a later
\* time nor a greater identifier.
Below(elements) ==
    {n \in 1..MaxObjects :
        elements # <<>> => UploadTime[n] <= UploadTime[Last(elements)] /\ n < Last(elements)}
\* The first results of those found, in their order; what is left out is older, and is
\* left out only by the limit.
Newest(page, found) ==
    /\ Descends(page)
    /\ \A n \in found : n \in ToSet(page) \/ (Len(page) = PageSize /\ Older(n, Last(page)))
PageOlder(query, elements) ==                     \* mutant: no identifier is compared
    LET found == {n \in Matches[query] \cap seen :
                    elements # <<>> => UploadTime[n] <= UploadTime[Last(elements)]}
    IN  {page \in BoundedSeq(found, PageSize) : Newest(page, found)}
\* The page below the elements: there is one.
Page(query, elements) ==
    LET found == Matches[query] \cap seen \cap Below(elements)
    IN  {page \in BoundedSeq(found, PageSize) : Newest(page, found)}
\* getObjectList: the page, unless the last element is gone, or an error.
Answers(query, elements) ==
    {[query |-> query, ok |-> TRUE, elements |-> page] :
        page \in IF elements = <<>> \/ Last(elements) \in seen THEN Page(query, elements) ELSE {}}
    \cup {[query |-> query, ok |-> FALSE, elements |-> <<>>]}

-----------------------------------------------------------------------------
(* listStateReducer *)

Unloaded == [pageToLoad |-> 0, loadedPages |-> 0, hasMorePages |-> FALSE, error |-> FALSE,
             elements |-> <<>>]
NextPage(state) == [state EXCEPT !.pageToLoad = state.loadedPages + 1]
Reloaded == NextPage(Unloaded)
PageLoadedShort(state, elements) ==               \* mutant: off by one
    [state EXCEPT !.loadedPages = @ + 1, !.hasMorePages = Len(elements) > PageSize,
                  !.elements = @ \o elements]
PageLoaded(state, elements) ==
    [state EXCEPT !.loadedPages = @ + 1, !.hasMorePages = elements # <<>>,
                  !.elements = @ \o elements]
Failed(state) == [state EXCEPT !.loadedPages = @ + 1, !.hasMorePages = FALSE, !.error = TRUE]

PendingLoad(state) == state.pageToLoad > state.loadedPages
HasMore(state) == state.hasMorePages /\ ~PendingLoad(state)

Ask(state, query) ==
    /\ load' \in Answers(query, state.elements)
    /\ steady' = IF state.elements = <<>> THEN seen ELSE steady
DispatchOnPending(state, query) ==                \* mutant: only pages to load are watched
    /\ list' = state
    /\ IF state.pageToLoad = list.pageToLoad
       THEN load' = (IF PendingLoad(state) THEN load ELSE None) /\ UNCHANGED steady
       ELSE IF PendingLoad(state)
            THEN Ask(state, query)
            ELSE load' = None /\ UNCHANGED steady
\* The effect that loads a page runs when the number of pages to load or loaded changes.
\* The load that was on its way is cancelled then, and only then.
Dispatch(state, query) ==
    /\ list' = state
    /\ IF <<state.pageToLoad, state.loadedPages>> = <<list.pageToLoad, list.loadedPages>>
       THEN UNCHANGED <<load, steady>>
       ELSE IF PendingLoad(state)
            THEN Ask(state, query)
            ELSE load' = None /\ UNCHANGED steady

-----------------------------------------------------------------------------
(* RecentView *)

MakeCountKeeping(query) ==                        \* mutant: the old count is not removed
    /\ UNCHANGED count
    /\ \E ok \in BOOLEAN : counts' = counts \cup {[query |-> query, ok |-> ok]}
\* makeCountForQuery; its answer is never cancelled.
MakeCount(query) ==
    /\ count' = None
    /\ \E ok \in BOOLEAN : counts' = counts \cup {[query |-> query, ok |-> ok]}

\* The effect of submitQuery, when the query or the counting has changed.
SubmitQuery(query, on) ==
    /\ queryError' = None
    /\ IF on THEN MakeCount(query) ELSE UNCHANGED <<counts, count>>

\* The search button, a quick query, addToQuery, a link: setCurrentQuery.  If the query
\* stays the same nothing is loaded again.
SetCurrentQuery(query) ==
    /\ q' = query
    /\ IF query = q
       THEN queryError' = None /\ UNCHANGED <<list, load, steady, counts, count>>
       ELSE /\ SubmitQuery(query, counting)
            /\ Dispatch(IF query = Empty /\ disallowEmpty THEN Unloaded ELSE Reloaded, query)
    /\ UNCHANGED <<counting, disallowEmpty, seen, late>>

ToggleCount ==
    /\ counting' = ~counting
    /\ SubmitQuery(q, counting')
    /\ UNCHANGED <<q, disallowEmpty, list, load, seen, steady, late>>

DeliverCount(c) ==
    /\ counts' = counts \ {c}
    /\ IF c.ok THEN count' = c.query /\ UNCHANGED queryError
               ELSE queryError' = c.query /\ UNCHANGED count
    /\ late' = (late \/ c.query # q)
    /\ UNCHANGED <<q, counting, disallowEmpty, list, load, seen, steady>>

\* The button that keeps the query removes an error, or says that it must be submitted first.
AddQuickQuery ==
    /\ queryError' \in {None, q}
    /\ UNCHANGED <<q, counting, disallowEmpty, list, load, counts, count, seen, steady, late>>

LoadMoreFromZero ==                               \* mutant: pages are counted from zero
    /\ HasMore(list)
    /\ Dispatch([list EXCEPT !.pageToLoad = list.loadedPages], q)
    /\ UNCHANGED <<q, counting, disallowEmpty, counts, count, queryError, seen, late>>
\* InfiniteScroll, when the end of the list is seen.
LoadMore ==
    /\ HasMore(list)
    /\ Dispatch(NextPage(list), q)
    /\ UNCHANGED <<q, counting, disallowEmpty, counts, count, queryError, seen, late>>

DeliverPage ==
    /\ load # None
    /\ Dispatch(IF load.ok THEN PageLoaded(list, load.elements) ELSE Failed(list), q)
    /\ queryError' = IF load.ok THEN queryError ELSE load.query
    /\ late' = (late \/ load.query # q)
    /\ UNCHANGED <<q, counting, disallowEmpty, counts, count, seen>>

\* An upload is committed, or an object is shared.
Appear(n) ==
    /\ n \notin seen
    /\ seen' = seen \cup {n}
    /\ UNCHANGED <<q, counting, disallowEmpty, list, load, counts, count, queryError, steady, late>>

\* An object is deleted, or no longer shared.
Vanish(n) ==
    /\ n \in seen
    /\ seen' = seen \ {n}
    /\ steady' = steady \ {n}
    /\ UNCHANGED <<q, counting, disallowEmpty, list, load, counts, count, queryError, late>>

-----------------------------------------------------------------------------
Init ==
    /\ q \in Queries
    /\ counting = FALSE
    /\ disallowEmpty \in BOOLEAN
    /\ seen \in SUBSET (1..MaxObjects) /\ steady = seen
    /\ IF q = Empty /\ disallowEmpty
       THEN list = Unloaded /\ load = None
       ELSE list = Reloaded /\ load \in Answers(q, <<>>)
    /\ counts = {} /\ count = None /\ queryError = None
    /\ late = FALSE

Next ==
    \/ \E query \in Queries : SetCurrentQuery(query)
    \/ ToggleCount \/ AddQuickQuery \/ LoadMore \/ DeliverPage
    \/ \E n \in Changing : Appear(n) \/ Vanish(n)
    \/ \E c \in counts : DeliverCount(c)

Spec == Init /\ [][Next]_vars

\* Answers come, and the user scrolls.
FairSpec == Spec /\ WF_vars(LoadMore) /\ WF_vars(DeliverPage)

-----------------------------------------------------------------------------
(* Properties *)

TypeOK ==
    /\ q \in Queries
    /\ counting \in BOOLEAN /\ disallowEmpty \in BOOLEAN /\ late \in BOOLEAN
    /\ list \in [pageToLoad : Nat, loadedPages : Nat, hasMorePages : BOOLEAN, error : BOOLEAN,
                 elements : Seq(1..MaxObjects)]
    /\ load = None \/ load \in Loads
    /\ counts \subseteq [query : Queries, ok : BOOLEAN]
    /\ {count, queryError} \subseteq Queries \cup {None}
    /\ seen \subseteq 1..MaxObjects /\ steady \subseteq seen

(* The list says that it is loading exactly while a page is on its way     *)
(* that it will take: it neither waits for ever nor loads behind one's     *)
(* back.                                                                   *)
PendingIsLoading == PendingLoad(list) <=> load # None

(* When no more are offered and nothing failed, the list is in order and   *)
(* shows every object that the query matches and that was there from the   *)
(* beginning of the list to its end, whatever appeared or went meanwhile.  *)
(* Left out may be uploads that overlapped: an object that is older than   *)
(* one listed, but has the greater identifier.                             *)
Listed == ToSet(list.elements)
PassedOver(n) == \E m \in Listed : Older(n, m) /\ m < n
SerialEnd ==
    ~late /\ list.loadedPages > 0 /\ ~list.error /\ ~HasMore(list) /\ ~PendingLoad(list) =>
        /\ Descends(list.elements)
        /\ Listed \subseteq Matches[q]
        /\ \A n \in steady \cap Matches[q] : n \in Listed \/ PassedOver(n)

(* Whatever overlaps, the list implements ResultList: it is newest first,  *)
(* shows nothing twice, and only grows until another query is asked.       *)
Promise == INSTANCE ResultList WITH query <- q, elements <- list.elements
KeepsPromise == Promise!Spec

(* The error that is shown is of the query in the address, and so is the   *)
(* count while the counting is on, unless an answer came late.             *)
SerialCount ==
    ~late => /\ queryError \in {q, None}
             /\ counting => count \in {q, None}

(* RecentViewList.tsx:105 says that the state is reset if the query        *)
(* changes: nothing is listed that the query does not match.               *)
QueryChangeResets == Listed \subseteq Matches[q]

(* Who stays with a query and scrolls, sees the list end or fail, and      *)
(* stay so.                                                                *)
ListEnds ==
    \A query \in Queries : <>[](q = query) => <>[](~HasMore(list) /\ ~PendingLoad(list))

-----------------------------------------------------------------------------
(* Why PendingIsLoading, KeepsPromise and SerialEnd hold: inductive        *)
(* invariants.                                                             *)

(* One page at a time is loaded, the list is in order, and the page on its *)
(* way continues it: what the list ends with cannot change before that     *)
(* page is taken or given up.                                              *)
ListInv ==
    /\ list.loadedPages <= list.pageToLoad /\ list.pageToLoad <= list.loadedPages + 1
    /\ list.loadedPages = 0 => list.elements = <<>>
    /\ PendingIsLoading
    /\ Descends(list.elements)
    /\ load # None => /\ Descends(load.elements)
                      /\ ToSet(load.elements) \subseteq Matches[load.query] \cap Below(list.elements)

(* What the page on its way leaves out is older than it.                   *)
Whole(page, elements) ==
    \A n \in steady \cap Matches[page.query] \cap Below(elements) :
        \/ n \in ToSet(page.elements)
        \/ page.elements # <<>> /\ Older(n, Last(page.elements))

(* The list has no gap but what it passed over, and when it has ended      *)
(* nothing is below it.                                                    *)
EndInv ==
    /\ load # None /\ load.ok => Whole(load, list.elements)
    /\ ~late =>
        /\ Listed \subseteq Matches[q]
        /\ \A n \in steady \cap Matches[q] :
              n \in Listed \/ PassedOver(n) \/ n \in Below(list.elements)
        /\ list.loadedPages > 0 /\ ~list.error /\ ~list.hasMorePages /\ ~PendingLoad(list) =>
              steady \cap Matches[q] \cap Below(list.elements) = {}
=============================================================================
