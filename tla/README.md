# mwdb-core in TLA+

mwdb-core is a repository of malware: files, configurations and text blobs ("objects"),
linked as parents and children, shared between groups of users, analysed by the Karton
pipeline.  The server is a Flask application; every request runs in one of several worker
processes, against one PostgreSQL database (isolation READ COMMITTED), a blob store
(disk or S3), Karton's Redis, and a Redis of its own for rate limits.  No two requests
share memory: all interaction goes through the tables, the store and the queues.  Its
client, in the same repository, is a React application that keeps a session, decides by it
what to show, and talks to the server by asynchronous calls whose answers come in any order.

## Components, their state, and what is hard about them

| component | state | operations | hard behaviour | correct when |
|---|---|---|---|---|
| Object access control (`model/object.py`, `model/object_permission.py`, `resources/share.py`, `relations.py`) | tables `object`, `relation`, `permission` | upload, share, access by hash, link, unlink, delete | recursive hand-over and revocation over cyclic graphs; READ COMMITTED interleavings | who sees a parent sees the child; rows come from uploads, shares, queries of the object or an ancestor; unlinking removes what came through the link and nothing else |
| Upload pipeline (`resources/object.py`, `model/file.py`) | object row, blob, analysis row, task, scheduled hooks | `create_object` | five systems changed one after the other, the transaction commits three times; concurrent uploads of the same content | a committed file has its content; a created object is analysed; hooks only tell of what is committed |
| Karton analyses (`model/karton.py`, `resources/karton.py`) | tables `karton_analysis`, `karton_object`, Karton's queues | spawn, assign, unassign, status | the task runs before its row is written; last-object clean-up races with assignment | an analysis has an object; an assignment answered 200 is there |
| Hooks (`core/hooks.py`) | list of the request | schedule, execute after a 200 | order with commits | after successful transactions only |
| Tags, comments, attributes | tables `tag`, `object_tag_table`, `comment`, `attribute`, ACLs | add, remove, define, grant | get-or-create races | no duplicate, no change without the key's ACL |
| Configs and blobs | `static_config`, `text_blob` | upload with nested blobs | a config uploads its blobs in the same transaction | a blob named by a config is its child |
| Storage and download | blob store, download tokens | store, open with fallback, ranges, zip | content and row are not atomic; ranges at boundaries | content served is the object's |
| Accounts, groups, sessions | `user`, `group`, `member`, `api_key`, signed tokens | register, accept, edit, login, refresh, set password | versions carried in tokens | tokens die with the versions they carry |
| OpenID Connect | `openid_provider`, `openid_identity`, group links | authorise, bind, register, synchronise groups | one identity per user and provider | membership equals the provider's claim |
| Search and listing | none of its own | parse, translate, paginate | page boundaries while objects arrive; order by time, pivot by identifier too | no object is listed twice; only what is older and has a greater identifier is left out |
| Remotes, rate limits, quick queries, favorites, mail, metrics, plugins, migrations | — | — | I/O, start-up wiring or single inserts | — |
| Web: session (`commons/auth`) | localStorage item, React state and axios header of every tab | log in and out, refresh, synchronise, authorise | three copies, several tabs, closures of old renders, late answers | tabs show and send the session in storage; signed out stays signed out |
| Web: routes, capabilities, remotes (`AppRoutes.tsx` and about 120 components) | route, capabilities of the session | open, follow a link, call the API | conditions written twice: once in a component, once at an endpoint | what is offered is allowed, what is loaded is served, links arrive, a remote page stays remote |
| Web: page of an object (`components/ShowObject`) | one object, merged from many answers | navigate, change, refresh, poll | no answer is compared with the page it comes to | the page shows one object, with the user's own changes |
| Web: lists (`components/RecentView`) | pages, count and query | query, scroll, count | a page of one query arrives in another | the list is in order, of one query, and has no gap but what its pages pass over |
| Web: upload forms (`components/Upload`) | the form, the groups that load late | fill in, submit | groups that override a choice; submissions before they come; keys the server drops | the rows are what the user saw and chose |

On the server requests interact through shared tables only; within a request the handlers
call the model's methods, these call `ObjectPermission.create`, `KartonAnalysis.get_or_create`
and the hooks, and `app.py` runs the scheduled hooks after a response with status 200.  In the
browser the tabs share localStorage, and within a tab all components share the session
(`AuthContext`), the object's page its state (`ObjectContext`), and every component the API.

## Modules

| module | models | as |
|---|---|---|
| `Sharing` | `Object.give_access`, `add_parent`, `remove_parent`, `uninherit_share`, `access`, `ObjectPermission`, and the handlers of upload, share, link, unlink, delete | requests one at a time; the recursive revocation call by call |
| `SharingTxn` | `give_access`, `add_parent`, `ObjectPermission.create` | overlapping transactions, statement by statement |
| `Upload` | `ObjectUploader.create_object`, the `get_or_create` of the models, the blob store, `spawn_analysis`, `assign_analysis` as uploads use it, the hooks | overlapping requests, with crashes and refusals |
| `Karton` | `assign_analysis`, `remove_analysis`, `KartonAnalysis.get_or_create` and their handlers | overlapping transactions, statement by statement |
| `Session` | `AuthProvider`, the login and OpenID Connect views, the tokens of `resources/auth.py` | tabs of one browser, requests and storage events in flight |
| `Api` | the calls of `commons/api/index.tsx`, and what every endpoint of `resources/` demands | functions from calls to requests to demands |
| `Page`, `ObjectPages`, `AccountPages` | the components: what each loads, offers and links | sets, composed as the components are |
| `Access` | `AppRoutes`, the guards, the navigation bar | one tab whose rights change; composes `Api` and the pages |
| `ObjectPage` | `ShowObject` and its boxes over time | answers in any order |
| `Recent` | `RecentView`, `RecentViewList` and the listing of `resources/object.py` | a list with pages and counts in flight |
| `ResultList` | what a list promises | abstract specification, implemented by `Recent` |
| `UploadForm` | the three upload forms, `useGroup`, and how the server reads what they send | a form, its submissions and the rows they make |
| `MC...` | — | model values and tables for TLC |
| `Sharing_proofs`, `SharingTxn_proofs`, `Upload_proofs`, `Karton_proofs`, `Session_proofs`, `ObjectPage_proofs`, `Recent_proofs`, `Frontend_proofs` | — | theorems and proofs |

`Sharing` and `SharingTxn` look at the same methods from two sides: the first has the whole
content of a `permission` row and all operations, and shows what a sequence of requests does;
the second keeps of a row only that it exists, and shows what happens between the statements
of several requests.  `Upload` and `Karton` share the tables `karton_analysis` and
`karton_object`: `Upload` has the path of a new object to its analysis, `Karton` the
assignments and removals afterwards.  `Access` and `ObjectPage` look at the same components:
the first at all of them in one moment, the second at those of one page through time.
`UploadForm` joins client and server: what the form shows at one end, the rows at the other.

### Sharing

State: `objects`, `relation` and `perm` are the three tables.  A row of `permission` is keyed
by object and group; what remains of it is its reason and its origin (`related_object_id`),
which is exactly what `ObjectPermission.inherits` compares.  `related_user_id` is determined
by the other two in the questions asked here, `access_time` is not read by any rule.  The
reason `migrated`, found only in rows from before version 2, is left out.

`Upload`, `Share`, `Query`, `AddParent`, `DeleteObject` are whole requests.  `Query` is the
part of `Object.access` that commits on its own, before the handler continues.  `Spread` is
the set of objects that the breadth-first loop of `give_access` reaches: children of objects
that get a row, stopping at objects that have one.  It is defined as the least closed set, so
that it can be reasoned about; the queue itself is in `SharingTxn`.

`RemoveParent` begins a removal and the actions under `Uninherit` carry it out: `NextShare`
is the loop over `parent.shares`, `Skip` and `Descend` a call of `uninherit_share` that
returns early or goes into the children, `Return` its end, `Commit` the deletion of the
relation.  The call stack is explicit (`unlink.stack`) and the work is done on the
transaction's copy of the table (`unlink.draft`).  The order in which children are visited
and the choice among several devisors are left open: the code takes them in the order of
rows and of `creation_time`.

### SharingTxn

One record per request: the position in the handler (`stage`), the queue and the visited set
of `give_access`, the rows written and not committed, and the children lists that the ORM
session has loaded (it does not read them again until the session is rolled back).  An
`INSERT` waits for the transaction that holds the same key (`WaitsFor`), and a transaction in
a circle of waits may be aborted (`DeadlockAbort`).  What makes this module necessary is
`object_permission.py:144`: on `IntegrityError` the code calls `session.rollback()` without a
savepoint, which takes back everything that the request has done, and then goes on.
`InsertPermission` does just that.

### Upload

One record per request, with the queue of `get_or_create` calls to come: the embedded blobs
in the order of the configuration's keys, and the object last.  `Insert` is the savepoint with
its lost race; `AssignAnalysis` is a commit in the middle, because `_get_or_create` calls
`assign_analysis` with its default `commit=True`; `StoreBegin` and `StoreEnd` are the two ends
of a write that a crash may leave half done; `Commit` is the commit of `create_object`;
`OnCreated`, `SendTask`, `InsertAnalysis` are `on_created` and the two halves of
`spawn_analysis`; `RunHooks` is the answer and `app.run_hooks`.  A task bears the name of the
request that sent it, and an upload may name any analysis that was sent before: an artifact
of the analysis.  Shares and parents given with an upload are part of `Sharing.Upload`, with one
exception: `LinkFails` is the bare rollback of `ObjectPermission.create` while `Commit` is under
way.  `add_parent` hands the groups of the config to a blob that was there before; if another
request gives it one of them first, the whole upload is rolled back, and linking the next blob
fails.

### Karton

One record per request, with the four things its transaction may have written.  `Create`,
`InsertLink`, `DeleteLink` and `DeleteAnalysis` wait as PostgreSQL makes them wait, for the
key or for the row that a foreign key names; `Commit` applies the cascade.

### Session

`stored` is the localStorage item, `tab` what every tab holds, `requests` the calls in flight.
A call is served when it is sent and answered later, in the closures of the render that sent
it: `seen` is the session of that render, which decides in `setSession` whether React is told
at all, and `booted` the one of the first render, in which both interceptors and the listener
of storage events stay for good.  A token carries user, password version and time; an account
has a version and one capability (`admin`), which stands for any.

### Api, Page, ObjectPages, AccountPages, Access

A component is a record of four sets: the calls it makes when it appears, the calls it offers,
its links, and its links with a query.  Components are composed with `++` and guarded with
`If` as in the source (`ShowIf`, `RequiresCapability`, `&&`).  `Api` gives each call its request
and each request its demand, written down from the decorators and the explicit checks of the
handlers, independently of the components; `Access` is a tab that opens pages by links,
addresses and guards, while an administrator changes the user's capabilities and the session
is refreshed later.  Rights are three: what the server gives (`rights`), what the tab knows
(`session`), and what the instance is configured for (`features`).

### ObjectPage

`object` is the state of the reducer of `ShowObject`; of its content there remain the
identifier and, for one watched field, the object and version that the field was read from.
The boxes touch separate fields, so that each behaviour watches one.  `Load` wipes, `Update`
merges, `AskLazily` is the effect of the boxes, `Refresh` what a box does after a change.
`LoadMoreAnalyses` puts older analyses below those the page showed when it asked, so that its
answer brings back the version of that moment.

Relations have a box for each type of object among the rows (`RelationBoxes`), and each box a
flag of its own that disables the button of its confirmation (`disabled` is the set of boxes
whose flag is up; `button` of a request names the box that waits for it).  An answer that brings
other rows takes boxes off the page: their flags are gone, and an answer to an earlier box of the
type does not reach a later one (`Detach`).  While one removal is on its way its window can be
closed, and another box may begin a second.
`history` remembers which disturbances there have been; the invariants say what holds without
them.

### Recent and ResultList

`list` is the state of the reducer, `load` the one page whose answer will be taken, with the
query it was asked for, `counts` all counts on their way.  `Dispatch` is the reducer together
with the effect on `[pageToLoad, loadedPages]` that cancels a load and starts another.

Objects are numbered by their identifiers.  `UploadTime` gives each the time that its worker
read before the row was inserted, in any order; `seen` are those whose rows are committed and
that the user may see, and `Appear` and `Vanish` change it at any time.  `Page` is the query of
`ObjectResource.get`: of what is `Below` the last element (no later time *and* a smaller
identifier), a page in descending order (`Older`: time, then identifier) that leaves something
out only when it is full, and then only what is older.  `steady` remembers which objects have
been there since the first page was asked for; it is what a complete list can be measured by.
`AddQuickQuery` is the button that writes a message of its own in the place of the error.

`ResultList` is what the reader of any list may rely on; `Recent` implements it with
`query <- q, elements <- list.elements` (`KeepsPromise`).

### UploadForm

`form` has the fields, `url` the parent in the address, `groups` the answer of `useGroup`, or
none yet.  `Submit` sends the body that the form of this kind builds, together with `Seen`,
what the user saw at that moment; `Accept` is the server's side, the shares of
`get_shares_for_upload`, the parent and the consent of `_get_or_create`.

A parent in the upload has two effects on shares.  Looking it up (`Accessed`) shares it with the
user's groups that have `share_queried_objects`, if he did not see it before, even when the
upload is then refused.  Linking it (`Inherited`, from `add_parent`) gives the object all groups
of the parent, if the two were not linked yet.  So `SharedAsChosen` says that the groups are
those chosen and those of the parents.  `Workgroups` offers every group the user may name, of
which only the `Workspaces` are meant by the default.  `Back` is the browser's: clearing a parent
that came with the address pushes a new address, and going back restores the old one, while the
field stays empty (`past`, `returned`).

## Runs

| run | question | instance | properties |
|---|---|---|---|
| `sharing` | Do shares, links, accesses by hash, deletions and the revocation leave access consistent, and is the revocation exact where it can be, and does it end on cycles? | 3 objects, 2 users, at most 3 relations | `TypeOK ParentsImplyChildren TidyJustified AddedByOwner TidyOwnSharesKept UnlinkOnlyBelow UnlinkProgress` |
| `txn` | What can overlapping shares and links lose, what does a request alone write, and do they end? | 3 shares in trees of 3 objects, or 2 shares or links of 2 objects for 2 groups, cycles included | `TreeClosed LostOnlyToBelow SerialClosed SerialIsAtomic RequestsEnd` |
| `txn_half_share` | Is access to a parent always access to its children? | 4 objects, one with two parents, 2 requests; violated | `ParentsImplyChildren` |
| `upload` | Does an upload keep its promises under overlap, crashes, refusals and early commits, and does it end? | a file, two configs with the same two blobs in opposite orders, 3 requests | `ContentStored EmbeddedLinked CreatedMeansAnalyzed OneTaskPerUpload UploadsEnd` |
| `karton` | Do overlapping assignments and removals keep the two tables consistent? | 3 objects, 1 analysis, 3 requests | `SerialClean AssignsClean RequestsEnd` |
| `session` | Do all tabs agree on who is signed in? | 2 tabs, 2 users, 1 flow, 2 requests | `HeadersFollowStorage SerialSessionsAgree SerialSignedOutStays` |
| `access` | Does every page offer what is allowed, load what is served and link to what exists, here and remotely, and is everything to be found? | 39 sets of capabilities, 4 configurations, 1 change of rights | `OfferedIsAllowed LoadsAreServed LinksArrive RemoteStaysRemote EverythingFound` |
| `page` | Is what the page shows one object, complete and with the user's changes, and may its buttons be pressed just when they should? | 2 objects, 2 types of relations, 3 requests, 2 changes of address | `SerialOneObject SerialOwnChanges SerialBoxesFilled RemovalPending` |
| `recent` | Is the list what the query asks for, and does it end? | 2 queries, 4 objects whose times and identifiers disagree, two of which appear and vanish, pages of 2 | `PendingIsLoading SerialEnd SerialCount KeepsPromise ListEnds` |
| `recent_stale` | Does the list reset when the query changes? | the same; violated | `QueryChangeResets` |
| `upload_form` | Are the rows what the user chose? | 1 object, 2 parents, 2 groups of which one is a workspace, 7 users, 2 submissions, every kind of form | `SharedAsChosen ParentsAsShown FileConsent` |
| `upload_consent` | Is the consent of every form kept? | the same; violated | `ConsentKept` |

Properties whose name begins with `Serial` hold as long as no request overtook or overlapped
another in the way that their comment names; the module remembers it in a history variable.
What is lost when it did is told under "What does not hold".  `TypeOK` of the modules in which
no run lists it was checked in the same way and is left in the modules for their proofs.

### Bounds

- Sharing.  The revocation treats groups independently (`unlink.todo` is worked off group by
  group, and no guard compares rows of two groups), so two groups show what any number does;
  two users are needed for what one does to the other.  Three objects are the least with a
  parent, a child and another parent.  `FewRelations` keeps chains, fans, two parents, the
  triangle, self-links and cycles.  `SmallSystems` keeps accesses by hash and the rows of deleted
  objects to systems of two objects; neither takes part in the walk over the third.
- Transactions.  Rows written by different requests conflict in pairs, so two transactions show
  each conflict; three are there where a third may come between.  `MCInit` of `MCSharingTxn` and
  `MCUpload` orders requests that differ in nothing else, and `TwoWithLinks` leaves the third
  request out where links are among them.  Analyses do not affect each other: no statement
  touches the rows of two.
- Session.  `OneEvent`: of an expiry, a change of password, a flow and a change of capabilities a
  behaviour has one, and two requests in flight only without any; each is exercised with every
  interleaving of the tabs.
- Access.  The conditions of the components ask for one capability each, or for one besides
  `adding_parents`; no, one, all but one, all, and those pairs distinguish them.  The four
  configurations switch every feature on and off.
- ObjectPage.  Two objects are what an address can move between, two moves are there and back;
  three requests are a change, what it asks for, and a load.  Two types of relations are two
  boxes at once, one of which goes with the change and one that stays.
- Recent.  Pages of two of four objects: a full, a short and an empty page.  `MCUploadTime` has
  two objects of one time, and two whose times are in the other order than their identifiers, so
  that a page does pass over an object; objects 2 and 3, in the middle of the order, appear and
  vanish as often as they like.  Two queries are the one of the list and another.
- UploadForm.  Two submissions show what one does to another.  Besides the user's own group and
  `public` there is a workspace, and a group that is none and has `share_queried_objects`; one
  parent is shared with the workspace, one with everybody.  The users are of all memberships, with
  one more for each capability.

Symmetry is used for safety only, on values that the instance does not tell apart (in `sharing`
`UnlinkProgress` is an action property).  Deadlock checking is off where every request is
served once, or every bound used up, and the system then rests.

### Fairness

`Fairness` of `SharingTxn`, `Upload` and `Karton` asks for weak fairness of the steps of each
request: a worker runs its handler to the end, PostgreSQL grants a lock once it is free and
breaks circles of waits.  Nothing says that requests arrive; a crash is a step that is allowed
and never required, and a request that died has ended.  `UnlinkProgress` needs none: it says
that every step of the revocation brings it nearer its end.  `FairSpec` of `Recent` asks that
answers come and that the user scrolls (`LoadMore`), which is what `ListEnds` is about; that
the user keeps a query for ever is part of its statement, and what follows is that from some time
on his list no longer loads and has no more pages: `<>[]`, so that the end of an earlier list does
not count.  Nothing is assumed of sessions and pages,
whose properties are all about safety.

## What is proved

Every invariant and action property of the passing runs, and the refinement of `ResultList`
by `Recent`.  All of it holds for every set of objects, users,
groups, analyses, tabs, queries and requests and for every bound, from the named assumptions of
the modules: constants are of their types, the values for "nobody" and "nothing" are none of the
others (`GroupsAssumption`, `NoValuesAssumption`, `KindsAssumption`, `SharingAssumption`,
`SessionAssumption`, `RecentAssumption`, `ObjectPageAssumption`, `UploadFormAssumption`,
`AccessAssumption`, `NoneAssumption`), and besides:

- `FiniteAssumption` (`Sharing`): objects and groups are finitely many, as rows of tables are;
  the lemmas that count them for `UnlinkProgress` ask for it;
- `UploadAssumption`: embedded blobs embed nothing, because a blob is a `TextBlob`;
- `NamesAssumption` (`UploadForm`): no group is named like a value of `upload_as` that means
  something else; the server's rule for names of groups allows `private`, and a workgroup of
  that name cannot be chosen in the form.

The inductive invariants stand at the end of each module, `IInv` being their conjunction or the
most important of them; TLC has found all of them true on the small instances.

### `Sharing_proofs`

`TypeCorrect` needs nothing but itself.  `ParentsImplyChildrenCorrect` and
`RecursionBoundedCorrect` need each other and what happens *during* a revocation, where the
draft table is not closed: `UnlinkInv` says that the one exception is the row of an object whose
call is still going to delete it (`Doomed`), that a call which will delete was called by one
which will delete, and that such an object has no other parent with a row (`CallOK`).  So when
the last call returns the draft is closed, but for the relation that is about to go.  The lemmas
before it say what `give_access` returns: `SpreadProperties`, `GiveAccessCloses` (a closed table
stays closed for a new root), `InheritCloses` (for a new relation).

`AddedByOwnerCorrect`: `AddedInv` says it of the rows of the table, of the draft, and of the
devisors that the calls of `uninherit_share` carry down.
`UnlinkOnlyBelowCorrect`: `BelowInv` says that a draft differs from the table only below the child
and for groups that hold the parent, and that every call is for an object below the child.
`TidyJustifiedCorrect`, `TidyOwnSharesKeptCorrect`: `TidyInv` says that a row comes from its origin
from parent to child (`Rooted`, `HandedOn`), and that in a forest nothing stops a revocation
(`ForestInv`): no call finds a devisor, and a child which has the row of the parent is still
to be called, is being called, or has lost it (`ForestCall`).  When the stack is empty, all that
came through the relation is gone, and nothing else.
`UnlinkProgressCorrect`: every step makes `Cost` smaller, on every graph: a call uses up an object
not yet visited, which weighs more than the children the call brings; a return, a passed-over
child and a finished group use up what is counted for them.

### `SharingTxn_proofs`

`TypeCorrect`, `SerialClosedCorrect`, `TreeClosedCorrect`, `LostOnlyToBelowCorrect`,
`SerialIsAtomicCorrect`.  Each has its own part of the inductive invariant.  `AloneOf`: for a request that is alone what it can see is closed but for
the rows that are due (`Due`): those of objects in its queue, and of a relation whose shares it
is still to hand over.  `TreeOf`: in a forest an object is queued by its one parent, so that
visited means dealt with, and what a rollback takes back is not missed below rows that are
inserted later, however many shares overlap.  `ShareOf`: a share that has gone past its target
sees a row of its group at the target or below, its own or the one it lost to.
The proof of `TreeClosed` showed that it needs relations without cycles (on one, two overlapping
shares lose a row in the way of `txn_half_share`), so `TreeOfShares` now says so; `LostOnlyToBelow`
holds on every graph and no longer asks for anything.

`SerialIsAtomicCorrect` joins this module to `Sharing`: the commit of a request that was alone adds
to the tables the rows that `Sharing` computes in one step, and no step before it changes them
(`Given` is `Spread` for one group, the least closed set of objects).  `WroteOf` has one half,
that no row is inserted and no object queued which is not to get one; the other half is that what
the request sees is closed when its queue is empty (`AloneOf`), so that nothing of a least set is
missing.

### `Upload_proofs`

`TypeCorrect`, `ContentStoredCorrect`, `EmbeddedLinkedCorrect`, `CreatedOnceCorrect`,
`CreatedMeansAnalyzedCorrect`, `OneTaskPerUploadCorrect`.  One idea carries all: an uncommitted
row belongs to one request, the one that found the object new, and this request alone stores,
sends and announces (`ClaimsInv`).  `PendingInv` says how far `get_or_create` has come,
`RowsInv` and `StoreInv` what the open transaction has written, `HistoryInv` what may be
concluded from a task that was sent or a hook that has run.  A request that is rolled back
gives its claim up unless its task was sent, and the task is only sent after the commit; the bare
rollback of `LinkFails` gives it up like any other.

### `Karton_proofs`

`TypeCorrect`, `SerialCleanCorrect`, `AssignsCleanCorrect`.  `WritesOf` says for each stage which
rows a request has written, `LocksOf` that a link which is not committed keeps the analysis it
names.  Both properties then follow from what a request relies on when the tables are as it has
seen them (`Calm`: requests do not overlap, or all are assignments): an assignment about to
commit has its link, whoever wrote the row (`AssignOf`), and a removal deletes the analysis
exactly when it has taken the last object (`RemoveOf`).

### `Session_proofs`

`TypeCorrect`, `HeadersFollow`, `SessionsAgreeSerially`, `SignedOutStaysSerially`.  The three
properties are inductive together, once it is known what an answer may carry (`RequestOf`: a
login was sent by a tab that showed nobody, a session only answers a login, a callback or a refresh
that had a token) and that after a logout no login is on its way (`NobodyLogsIn`): every write of
the item is followed by an event to the other tabs, which makes them read it again, and within
the tab by `setTokenForAPI`, which reads it back.

### `ObjectPage_proofs`

`TypeCorrect`, `RemovalPendingCorrect`, `SerialOneObjectCorrect`: `RequestsInv` says that boxes
ask only once there is an object (so that an answer always finds a page to be merged into) and
that only changes have a button waiting for them.  With it `RemovalPending` is inductive: a box
that goes takes its flag along, and the request that waited for it no longer names it, so that
flags and requests stay in step for each type, whichever rows an answer brings.  `Arrives` says that the object of the address is shown or on its
way, which makes "at rest" follow; `OfItself` that fields are those of the object shown.

`SerialBoxesFilledCorrect`, `SerialOwnChangesCorrect`: a lazy field that is empty has been asked
for (`Filling`), and a change of one's own is shown or is brought by an answer on its way, or by
what will be asked when that comes (`Refreshes`, `OwnOnItsWay`).  Nothing can be changed on a
page that is not shown, so the load of the page in the address is as new as the last change
made there (`ArrivesFresh`).  The proof found `SerialOwnChanges` wrong as it stood, beyond the
bounds of the run: with four changes of the address, a load of the object already shown wipes a
lazy field, and an answer from an earlier stay then fills it with what was there before the
user's change, overtaking nothing, since nothing is shown.  The property now leaves that case
(`wiped`) out and says so.

### `Recent_proofs`

`TypeCorrect`, `PendingIsLoadingCorrect`, `SerialEndCorrect`, `SerialCountCorrect`, `PromiseKept`.
`ListInv` says that pages are loaded one by one and that the page on its way continues the
list: it is in order and below the last element, because what the list ends with changes
only together with `loadedPages`, and then the page is given up.  A reload that leaves both
numbers as they are finds the list empty, so that a page of another query continues it too: that
is why the list keeps `ResultList` even in the behaviour of `recent_stale`.  `EndInv` adds what
is not there: a page leaves out only what is older than its last element (`Whole`), and what was
there from the beginning (`steady`) is listed, passed over, or still below the end; after an empty
page nothing is below.  `Below` compares two keys and the list is ordered by one after the other:
what an element leaves below it is older and has a smaller identifier, what is older but has a
greater one is passed over for good (`PassedOver`).  `PromiseKept` is the refinement,
step by step: a taken page is `Grow`, another query is `Ask`, everything else is a stutter.

### `Frontend_proofs`

About `Access`: `AccessInvariant`, `OfferedCallsAreAllowed`, `LoadedCallsAreServed`,
`EveryLinkArrives`, `RemotePagesStayRemote`, `EverythingIsFound`, for every set of capabilities
and every configuration, where the run has 39 and four.  The inductive invariant is what the
guards of the routes see to (`PageFits`): without a session an open page is shown, and with one a
page whose capability the session has, never the login form.  Without it `LinksArrive` and
`OfferedIsAllowed` fail: `UserCreateView` asks for no capability, because its route has.
`session` and `rights` differ while an administrator's change has not arrived, which is why the
properties about what the server allows speak of a session that is up to date (`Fresh`).

The rest of the argument is by views.  The tables of `Api` have no name in common, so that a
call's request and a request's demand can be looked up table by table (`CallTables`, the
`...Entries`), and every call has the demand that its group is named for (`OpenCalls`,
`FreeCalls`, `CallsFor`).  `OffersOf`, `LoadsOf`, `LinksOf`, `SearchesOf` and `CallsOf` take a
page apart: what `A ++ B` or `If(p, A)` has, one of its parts has, with `p`.  Above them are one
lemma per component and one per route, and for `EverythingFound` the paths: which pages each
guard of the navigation, of a profile and of the settings leads to, one link after another.  The
proof asked for two changes of the model: `Arrive` was a CASE with guards that overlap, whose
meaning was TLC's order of trying them, and is now the order of the guards in the source; and the
value of a tab that is signed out has to be none of the sets of capabilities.

About `UploadForm`: `FormTypeCorrect`, `SharedAsChosenCorrect`, `ParentsAsShownCorrect`,
`FileConsentCorrect`.  The inductive invariant follows the data from end to end: what the form
would send is what the user sees (`FormAsShown`: the address and the field agree on the parent,
the mode is his choice or the default as far as he is in a group), what was sent is what he saw
(`SentAsShown`), and what is stored is what was sent.  The groups of the parents stay in step with
those of the object because a parent that was accepted is one the user has access to
(`LinkedSeen`): the only way in which a parent's groups change here, a first look by somebody with
`share_queried_objects`, is behind it.

### Only model-checked

- `RequestsEnd`, `UploadsEnd`, `ListEnds`: liveness under fairness is beyond the prover, and so
  is `ENABLED`.
- What a recursive definition computes for every input: induction over data is beyond it too.
  `Spread` and `Above` of `Sharing` are least sets rather than recursive definitions for this
  reason, and so is `Given` of `SharingTxn`.
- The properties of the runs that find a violation.

## What does not hold

Shown by a run, with the line of the documentation that says otherwise in `PROJECT.json`:

- `txn_half_share`: the bare rollback of `ObjectPermission.create` in the middle of
  `give_access` takes back rows of objects that its visited set still holds.
- `recent_stale`: a query that changes while the first page of another is on its way resets the
  list to the state it already had, so the load is neither cancelled nor repeated, and the list
  shows the results of the old query (`RecentViewList.tsx:154`).
- `upload_consent`: uploads of blobs and configs send the consent to automatic sharing under a
  key that the server drops, and it takes its default, which is consent.

Stated in the modules and found violated when put in the place of the invariants of the
configuration named:

- `OwnUploadsKept` (`Sharing.cfg`): an upload of an object that one already inherits leaves the
  inherited row as it is; when the relation to the parent is removed later, the uploader loses
  access to his own upload.
- `NewObjectsAnalyzed` (`Upload.cfg`): a blob that comes inside a configuration is never sent to
  Karton, and no hook tells of it; and a worker that dies between the first commit and the task
  leaves an object that a repeated upload does not analyse either.
- `TasksTracked` (`Upload.cfg`): the task is sent before its row is written; an artifact that is
  quicker than the request makes that INSERT fail.
- `NoEmptyAnalyses`, `AssignedKept` (`Karton.cfg`): two overlapping removals of the last two
  objects of an analysis each see the other's row and leave an empty analysis; a removal that
  overlaps an assignment may delete the analysis with the new assignment.
- `SessionsAgree`, `SignedOutStays` (`Session.cfg`): a refresh that is answered after a logout,
  or after a login as another user, brings the old session back in every tab.
- `RemoteIsReadOnly` (`Access.cfg`): `docs/remotes-guide.rst:53` says that remote pages are
  limited to read-only actions; they offer removals and changes, which the server forwards with
  the key of the remote (`resources/remotes.py:106-119`).

Further:

- The visited set of `uninherit_share` spans the whole traversal.  In a triangle below the child,
  an object reached first by the edge whose other parent still has its row is passed over, marked
  visited, and keeps the row for good (`TidyJustified` is about forests for this reason).
- Two overlapping shares of an object and a descendant may lose the one of the object, though it
  was answered with 200; a link may be lost in the same way.  `LostOnlyToBelow` bounds the loss.
  A share that overlaps a link may miss the new child, and the link the new row.
- The page of an object shows a mixture of two objects after an answer that comes when the user
  has gone on; its boxes stay empty after there and back; an older answer hides the user's own
  change until the next reading (`crossed`, `wiped`, `overtaken` of `ObjectPage`).
- A mode of sharing chosen before the groups have come is replaced by the default.
- Whoever clears a parent that came with the address and goes back in the browser sends that
  parent again, though the field of the form is empty (`UploadFileView.tsx:66,76`).
- Pages pass objects over.  A listing is ordered by upload time, but continues where both the time
  and the identifier of the last element are greater (`resources/object.py:238-242`).  Of two
  uploads that overlapped, the older one may have the greater identifier; if a page ends with the
  newer one, the older is in no page.  `SerialEnd` says that nothing else is missing.
- An upload of a config that loses a race for a permission of an embedded blob is rolled back in
  the middle (`object_permission.py:144`) and fails at the next blob.

## Not modelled

- Search translates queries into SQL, and query input, rich attributes and previews are pure
  functions over strings: nothing in them outlives a call.
- Remotes forward, rate limits count in a library, mail, metrics, plugins and configuration are
  wiring; migrations and the command line run while the server is stopped.  Serialisation schemas
  are declarative, except for the keys of an upload, which `UploadForm` has.
- Rows of tags, comments, attributes, quick queries, favorites and API keys are inserted and
  deleted by single statements under unique indexes.  `Api` has what they demand.
- Accounts on the server: registration, password links, membership and the synchronisation of
  groups with OpenID providers.  `Session` has the tokens as the browser meets them.
- Ranges and archives of a download: arithmetic on byte counts.
- Of uploads: `enable_karton`, taken as on; blobs that a config names by their hash, which are
  looked up and not uploaded (`resources/config.py:113-117`); and what follows when the race of
  `LinkFails` is lost at the last blob, where the handler goes on with an object that its session
  has dropped.  Groups whose registration is pending are not among those of the upload form.
- Objects that lose shares while the form that names them as parents is open.
- Unlinks that overlap with shares (the revocation is one request at a time in `Sharing`), and the
  deletion of groups.
- In the frontend: wording, layout, validation of fields, boxes with a copy of their own state
  (`Share3rdPartyBox`), and the plugins that may add to any page.
- Database recovery is PostgreSQL's.

## Plan

1. Unlinks that overlap with shares.
2. The accounts of the server: versions carried in tokens, groups synchronised with a provider.
