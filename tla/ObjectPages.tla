----------------------------- MODULE ObjectPages -----------------------------
(***************************************************************************)
(* Lists of objects, the page of one object and the upload forms: what     *)
(* each component of mwdb/web/src/components renders, under the name of    *)
(* the component.  A list or a relation box is taken as not empty.         *)
(***************************************************************************)
EXTENDS Page

(* Boxes of ShowObject *)

TagForm(c) == Loads({"getTags"}) ++ Offers({"addObjectTag"})      \* suggestions, as one types
TagBoxForAll(c, endpoint) ==                      \* mutant: removal for everyone
    Offers({"getObjectTags", "removeObjectTag"}) ++ Tags(endpoint)
        ++ If(Can(c, "adding_tags") /\ ~c.remote, TagForm(c))
TagBox(c, endpoint) ==
    Offers({"getObjectTags"}) ++ Tags(endpoint)
        ++ If(Can(c, "removing_tags"), Offers({"removeObjectTag"}))
        ++ If(Can(c, "adding_tags") /\ ~c.remote, TagForm(c))

\* The tags of a parent are searched everywhere, those of a child on the page shown.
RelationRows(c) ==
    ObjectLink(c, "file") ++ ObjectLink(c, "config") ++ ObjectLink(c, "blob")
        ++ Tags(Here(c, "search")) ++ Tags(Here(c, c.view))
RelationsAddModal(c) == Offers({"addObjectRelation"})
RelationsBox(c) ==
    RelationRows(c)
        ++ If(Can(c, "removing_parents"), Offers({"removeObjectRelation"}))
        ++ If(~c.remote, RelationsAddModal(c))
\* From 100 parents or children on, a link that queries them all.
RelationsHeader(c, type) == Searches({Local(SearchPath(type))})
TypedRelationsBox(c, type) == RelationsHeader(c, type) ++ RelationsBox(c)
MultiRelationsBox(c) ==
    TypedRelationsBox(c, "file") ++ TypedRelationsBox(c, "config") ++ TypedRelationsBox(c, "blob")

AttributesAddModal(c) == Loads({"setAttributeDefinitions"})
AttributeValue(c) == Searches({Local("search")})
RichAttributeValue(c, endpoint) == Searches({endpoint})
AttributeRenderer(c, endpoint) == RichAttributeValue(c, endpoint) ++ AttributeValue(c)
AttributesBox(c, endpoint) ==
    Loads({"readAttributeDefinitions"}) ++ AttributeRenderer(c, endpoint) ++ AttributesAddModal(c)
        ++ If(~c.remote, Offers({"addObjectAttribute", "getObjectAttributes"}))
        ++ If(Can(c, "removing_attributes"), Offers({"removeObjectAttribute", "getObjectAttributes"}))

CommentForm(c) == Offers({"addObjectComment"})
CommentItem(c) == Offers({"removeObjectComment"})
CommentBox(c) ==
    Loads({"getObjectComments"})
        ++ If(Can(c, "removing_comments") /\ ~c.remote, CommentItem(c))
        ++ If(Can(c, "adding_comments") /\ ~c.remote, CommentForm(c))

ShareReasonString(c) ==
    Links({Here(c, t) : t \in ObjectViews}) ++ Searches({Here(c, "search")})
ShareGroupItem(c) == ShareReasonString(c) ++ Searches({Here(c, "search")})
ShareForm(c) == Offers({"shareObjectWith"})
\* The form stands below the direct shares, and is left out with them.
SharesList(c) == ShareGroupItem(c) ++ If(Is(c, "direct") /\ ~c.remote, ShareForm(c))
SharesBox(c) == Loads({"getObjectShares"}) ++ SharesList(c)

KartonAnalysisRow(c) ==
    Searches({Local("search")})
        ++ If(Can(c, "karton_unassign"), Offers({"removeKartonAnalysisFromObject"}))
\* Without the capability the link to reanalyse is muted, and works.
KartonAnalysisBox(c) ==
    Loads({"getKartonAnalysesList"}) ++ Offers({"resubmitKartonAnalysis"}) ++ KartonAnalysisRow(c)

Share3rdPartyBox(c) ==
    If(Can(c, "modify_3rd_party_sharing"), Offers({"enableSharing3rdParty"}))

(* Actions of the tabs *)

FavoriteAction(c) ==
    If(Can(c, "personalize") /\ ~c.remote, Offers({"addObjectFavorite", "removeObjectFavorite"}))
UploadChildAction(c) ==
    If(Can(c, "adding_parents") /\ Can(c, "adding_files") /\ ~c.remote, Links({Local("upload")}))
PullAction(c, type) ==
    If(c.remote,
       Offers({[file |-> "pullFileRemote", config |-> "pullConfigRemote",
                blob |-> "pullBlobRemote"][type]})
           ++ Links({Local(type)}))
PushAction(c, type) ==
    If(Is(c, "remotes") /\ ~c.remote,
       Offers({"pushObjectRemote"}) ++ Links({[view |-> type, remote |-> TRUE]}))
RemoveAction(c, endpoint) ==
    If(Can(c, "removing_objects") /\ ~c.remote, Offers({"removeObject"}) ++ Links({endpoint}))
DownloadAction(c, calls) == Offers(calls)
ZipAction(c) == Offers({"requestZipFileDownloadLink"})
BlobDiffAction(c) == Links({Here(c, "blobs")})

\* What the three views of an object have in each of their tabs.
ObjectActions(c, type, endpoint) ==
    FavoriteAction(c) ++ PullAction(c, type) ++ PushAction(c, type) ++ RemoveAction(c, endpoint)

RelationsNode(c) == Links({Here(c, t) : t \in ObjectViews})
RelationsPlotView(c) == Loads({"getObject"}) ++ Offers({"getObject"}) ++ RelationsNode(c)
RelationsTab(c) == Links({Local("relations")}) ++ RelationsPlotView(c)

ConfigRow(c) == ObjectLink(c, "blob") ++ Searches({Here(c, "configs")})
ConfigTable(c) == Searches({Here(c, "configs")}) ++ ConfigRow(c)
LatestConfigTab(c) == Links({Here(c, "config")}) ++ ConfigTable(c)

SampleDetails(c) == Searches({Here(c, "/")})
SamplePreview(c) == Loads({"downloadFile"})
TextBlobDetails(c) == Searches({Here(c, "blobs")})

(* Views of an object *)

ShowObject(c, endpoint) ==
    Loads({"getObject"}) ++ AttributesBox(c, endpoint)
        ++ If(Is(c, "consent"), Share3rdPartyBox(c))
        ++ TagBox(c, endpoint) ++ MultiRelationsBox(c)
        ++ If(Is(c, "karton"), KartonAnalysisBox(c))
        ++ SharesBox(c) ++ CommentBox(c) ++ RelationsTab(c)

ShowSampleView(c) ==
    ShowObject(c, Here(c, "/")) ++ ObjectActions(c, "file", Here(c, "/"))
        ++ SampleDetails(c) ++ SamplePreview(c)
        ++ DownloadAction(c, {"requestFileDownloadLink"}) ++ ZipAction(c)
        ++ UploadChildAction(c) ++ LatestConfigTab(c)

ShowConfigView(c) ==
    ShowObject(c, Here(c, "configs")) ++ ObjectActions(c, "config", Here(c, "configs"))
        ++ ConfigTable(c) ++ DownloadAction(c, {})          \* of data it has

ShowTextBlobView(c) ==
    ShowObject(c, Here(c, "blobs")) ++ ObjectActions(c, "blob", Here(c, "blobs"))
        ++ TextBlobDetails(c) ++ DownloadAction(c, {}) ++ BlobDiffAction(c) ++ LatestConfigTab(c)

DiffTextBlobView(c) == Loads({"getObject"}) ++ Links({Here(c, "blob"), Here(c, "diff")})

(* Lists *)

\* The badges of the user's own queries are left out on a remote page, not their loading.
QuickQuery(c) ==
    Loads({"getQuickQueries"})
        ++ If(~c.remote /\ Can(c, "personalize"), Offers({"addQuickQuery", "deleteQuickQuery"}))
RecentView(c) == Loads({"getObjectList", "getObjectCount"}) ++ QuickQuery(c)
RecentFileRow(c) == ObjectLink(c, "file")
RecentConfigRow(c) == ObjectLink(c, "config")
\* A blob to diff with, in ?diff, turns the rows into links to the diff.
RecentBlobRow(c) == Links({Here(c, "diff")}) ++ ObjectLink(c, "blob")
RecentObjectRow(c) == Links({Here(c, t) : t \in ObjectViews})

RecentSamplesView(c) == RecentView(c) ++ RecentFileRow(c)
RecentConfigsView(c) == RecentView(c) ++ RecentConfigRow(c)
RecentBlobsView(c) == RecentView(c) ++ RecentBlobRow(c)
SearchView(c) == RecentView(c) ++ RecentObjectRow(c)

ConfigStatsItem(c) == Searches({Here(c, "configs")})
ConfigStatsView(c) == Loads({"getConfigStats"}) ++ ConfigStatsItem(c)
DocsView(c) == Loads({"getServerDocs"})
AboutView(c) == Nothing

(* Uploads *)

\* The parent is a field of the form for those who may add parents.
Upload(c, plain, withParent) ==
    Offers({plain}) ++ If(Can(c, "adding_parents"), Offers({withParent})) ++ AttributesAddModal(c)
UploadFileView(c) ==
    Loads({"getShareInfo"}) ++ Upload(c, "uploadFile", "uploadFileWithParent")
        ++ Links({Local("file")})
UploadBlobView(c) ==
    Loads({"getShareInfo"}) ++ Upload(c, "uploadBlob", "uploadBlobWithParent")
        ++ Links({Local("blob")})
UploadConfigView(c) ==
    Upload(c, "uploadConfig", "uploadConfigWithParent") ++ Links({Local("config")})
=============================================================================
