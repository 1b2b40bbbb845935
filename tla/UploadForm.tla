------------------------------ MODULE UploadForm ------------------------------
(***************************************************************************)
(* The upload forms of the web frontend (components/Upload) with the part  *)
(* of the server that reads them: from what the user sees and chooses to   *)
(* the rows of the uploaded object.                                        *)
(*                                                                         *)
(* The groups to share with are asked for when the form opens and come     *)
(* while it is being filled in.  Nothing keeps the form from being         *)
(* submitted again before it is answered.                                  *)
(***************************************************************************)
EXTENDS Naturals, FiniteSets

CONSTANTS
    Objects, Parents,   \* objects to be uploaded, and those that may be given as parents
    Own, PublicGroup,   \* the private group of the user, and everybody's
    OtherGroups,        \* those of which he may be a member
    Workspaces,         \* the workspaces of them; "registered" is none
    Querying,           \* the groups with the capability share_queried_objects
    SharedWith,         \* the groups each parent is shared with, none if it does not exist
    Users,              \* those to be considered, by memberships and capabilities
    None,               \* an empty field, a key that is not sent
    MaxSubmissions      \* bound: submissions of one form

ASSUME UploadFormAssumption ==
    /\ Objects \cap Parents = {}
    /\ Workspaces \subseteq OtherGroups
    /\ Querying \subseteq OtherGroups \cup {Own, PublicGroup}
    /\ SharedWith \in [Parents -> SUBSET (OtherGroups \cup {Own, PublicGroup})]
    /\ Users \subseteq [member : SUBSET OtherGroups, sharesWithAll : BOOLEAN, addsParents : BOOLEAN,
                        accessesAll : BOOLEAN, consentEnabled : BOOLEAN]
    /\ Own # PublicGroup /\ OtherGroups \cap {Own, PublicGroup} = {}
    /\ None \notin Objects \cup Parents \cup OtherGroups \cup {Own, PublicGroup}
    /\ MaxSubmissions \in Nat

Groups == OtherGroups \cup {Own, PublicGroup}
Kinds == {"file", "blob", "config"}
Modes == {"default", "single", "public", "private"}

\* No group has the name of an option of upload_as, and no string stands for an absent value.
ASSUME NamesAssumption ==
    /\ Groups \cap {"*", "private", ""} = {}
    /\ None \notin Modes \cup {"*", ""}
    /\ Objects \cap {"form", "elsewhere"} = {}

VARIABLES
    kind,        \* which form it is
    user,        \* who fills it in
    url,         \* the parent in the address
    past,        \* the parent in the address before, where Back leads
    form,        \* the values of the form
    groups,      \* the workgroups offered, None until they come
    requests,    \* submissions on their way, and answers on theirs
    submissions, \* how many there have been
    screen,      \* "form", the page of an object, or "elsewhere"
    perm,        \* the groups every object is shared with
    relation,    \* <<parent, object>>
    thirdParty,  \* share_3rd_party of every object
    choice,      \* history: the mode the user has chosen himself
    overridden,  \* history: the groups came after that
    returned,    \* history: the user went back to an address whose parent he had cleared
    accepted     \* history: uploads the server accepted, as the user saw them

server == <<perm, relation, thirdParty, accepted>>
formVars ==
    <<kind, user, url, past, returned, form, groups, requests, submissions, screen, choice,
      overridden, server>>
\* Where the form was opened from, and for whom.
place == <<kind, user, url, past, returned>>

Forms == [shareWith : Modes \cup {None}, group : Groups \cup {""},
          share3rdParty : BOOLEAN, parent : Parents \cup {None}]
Views == [choice : Modes \cup {None}, group : Groups \cup {""}, parent : Parents \cup {None},
          share3rdParty : BOOLEAN, overridden : BOOLEAN]
Bodies == [upload_as : {"*", "private", "", None} \cup Groups, parent : Parents \cup {None},
           share_3rd_party : BOOLEAN \cup {None}]

-----------------------------------------------------------------------------
(* The form *)

\* Edits that no submission can follow are left out.
Editing == screen = "form" /\ submissions < MaxSubmissions

\* getShareInfo without the user's own group and "public": workspaces or not.
Workgroups == IF user.sharesWithAll THEN OtherGroups ELSE user.member

\* useGroup: whatever is selected by then gives way to the default.
GetGroups ==
    /\ groups = None /\ kind # "config" /\ Editing
    /\ groups' = Workgroups
    /\ form' = [form EXCEPT !.shareWith = IF Workgroups # {} THEN "default" ELSE "private"]
    /\ overridden' = (overridden \/ choice # None)
    /\ UNCHANGED <<place, requests, submissions, screen, choice, server>>

OfferedModes == {"public", "private"} \cup
           (IF groups \in {None, {}} THEN {} ELSE {"default", "single"})

\* A group that was typed before is forgotten.
UpdateSharingMode(mode) ==
    /\ Editing /\ kind # "config"
    /\ mode \in OfferedModes
    /\ form' = [form EXCEPT !.shareWith = mode, !.group = ""]
    /\ choice' = mode
    /\ overridden' = FALSE
    /\ UNCHANGED <<place, groups, requests, submissions, screen, server>>

TypeGroup(g) ==
    /\ Editing /\ form.shareWith = "single"
    /\ form' = [form EXCEPT !.group = g]
    /\ UNCHANGED <<place, groups, requests, submissions, screen, choice, overridden, server>>

\* Sharing: the switch is there unless the server asks for consent.
Sharing ==
    /\ Editing /\ ~user.consentEnabled
    /\ form' = [form EXCEPT !.share3rdParty = ~@]
    /\ UNCHANGED <<place, groups, requests, submissions, screen, choice, overridden, server>>

\* A parent in the address fixes the field.
TypeParent(p) ==
    /\ Editing /\ user.addsParents /\ url = None
    /\ form' = [form EXCEPT !.parent = p]
    /\ UNCHANGED <<place, groups, requests, submissions, screen, choice, overridden, server>>
ParentClearOfField ==                             \* mutant: the address stays
    /\ Editing /\ user.addsParents
    /\ form' = [form EXCEPT !.parent = None]
    /\ UNCHANGED <<place, groups, requests, submissions, screen, choice, overridden, server>>
ParentClear ==
    /\ Editing /\ user.addsParents
    /\ url' = None
    /\ past' = IF url # None THEN url ELSE past
    /\ form' = [form EXCEPT !.parent = None]
    /\ UNCHANGED <<kind, user, returned, groups, requests, submissions, screen, choice, overridden,
                   server>>
\* The form stays as it is, the address does not.
Back ==
    /\ Editing /\ past # None
    /\ url' = past
    /\ past' = None
    /\ returned' = TRUE
    /\ UNCHANGED <<kind, user, form, groups, requests, submissions, screen, choice, overridden, server>>

UploadParamWithoutPrivate(f) ==                   \* mutant: a mode without a translation
    CASE f.shareWith = "default" -> "*"
      [] f.shareWith = "public" -> PublicGroup
      [] f.shareWith = "single" -> f.group
      [] OTHER -> None
\* sharingModeToUploadParam; undefined is not sent.
UploadParam(f) ==
    CASE f.shareWith = "default" -> "*"
      [] f.shareWith = "public" -> PublicGroup
      [] f.shareWith = "private" -> "private"
      [] f.shareWith = "single" -> f.group
      [] OTHER -> None

ParentToSend == IF url # None THEN url ELSE form.parent

FileBodyLikeBlob ==                               \* mutant: the key of the other forms
    [upload_as |-> UploadParam(form), parent |-> ParentToSend, share_3rd_party |-> None]
FileBody ==
    [upload_as |-> UploadParam(form), parent |-> ParentToSend,
     share_3rd_party |-> form.share3rdParty]
\* "...body": the switch is sent as share3rdParty, which BlobCreateRequestSchema has not.
BlobBody == [FileBody EXCEPT !.share_3rd_party = None]
\* The values as they are, without a mode.
ConfigBody == [upload_as |-> None, parent |-> form.parent, share_3rd_party |-> None]

Body == CASE kind = "file" -> FileBody
          [] kind = "blob" -> BlobBody
          [] kind = "config" -> ConfigBody

\* What is on the screen when the form is submitted.
Seen == [choice |-> choice, group |-> form.group, parent |-> form.parent,
         share3rdParty |-> form.share3rdParty, overridden |-> overridden]

\* onSubmit.
Submit(o) ==
    /\ screen = "form"
    /\ submissions < MaxSubmissions
    /\ submissions' = submissions + 1
    /\ requests' = requests \cup
         {[number |-> submissions', object |-> o, stage |-> "sent", body |-> Body, seen |-> Seen]}
    /\ UNCHANGED <<place, form, groups, screen, choice, overridden, server>>

\* Another page is opened; the submissions are not cancelled.
Leave ==
    /\ screen # "elsewhere"
    /\ screen' = "elsewhere"
    /\ UNCHANGED <<place, form, groups, requests, submissions, choice, overridden, server>>

-----------------------------------------------------------------------------
(* The server *)

At(q, stage) == (requests \ {q}) \cup {[q EXCEPT !.stage = stage]}

\* The groups of the user.
Mine == user.member \cup {Own, PublicGroup}
\* Object.access: an object that the user does not see yet may become his by being asked for.
HasAccess(p) == perm[p] # {} /\ (user.accessesAll \/ perm[p] \cap Mine # {})
Accessible(p) == HasAccess(p) \/ (perm[p] # {} /\ Querying \cap Mine # {})
Accessed(p) ==
    IF user.addsParents /\ p # None /\ Accessible(p) /\ ~HasAccess(p)
    THEN [perm EXCEPT ![p] = @ \cup (Querying \cap Mine)]
    ELSE perm

\* get_shares_for_upload, after the defaults of the schema.
SharesForUpload(upload_as) ==
    CASE upload_as \in {"*", None} -> (user.member \cap Workspaces) \cup {Own}
      [] upload_as = "private" -> {Own}
      [] OTHER -> {upload_as, Own}
MayUploadAs(upload_as) ==
    upload_as \in OtherGroups => upload_as \in user.member \/ user.sharesWithAll

\* A group that is not typed in is sent as no name, and is no group.
Refused(q) ==
    \/ q.body.upload_as = ""
    \/ ~MayUploadAs(q.body.upload_as)
    \/ q.body.parent # None /\ ~(user.addsParents /\ Accessible(q.body.parent))

\* add_parent: what a parent is shared with, its new child is.
Inherited(q) ==
    IF q.body.parent # None /\ <<q.body.parent, q.object>> \notin relation
    THEN Accessed(q.body.parent)[q.body.parent]
    ELSE {}

\* create_object: rows are added to those there are, and share_3rd_party is only raised.
Accept(q) ==
    /\ q.stage = "sent" /\ ~Refused(q)
    /\ perm' = [Accessed(q.body.parent) EXCEPT
                  ![q.object] = @ \cup SharesForUpload(q.body.upload_as) \cup Inherited(q)]
    /\ relation' = relation \cup ({q.body.parent} \ {None}) \X {q.object}
    /\ thirdParty' = [thirdParty EXCEPT ![q.object] = @ \/ q.body.share_3rd_party # FALSE]
    /\ accepted' = accepted \cup {<<q.object, q.seen>>}
    /\ requests' = At(q, "served")
    /\ UNCHANGED <<place, form, groups, submissions, screen, choice, overridden>>

\* The parent is looked up before upload_as.
RefuseUpload(q) ==
    /\ q.stage = "sent" /\ Refused(q)
    /\ perm' = Accessed(q.body.parent)
    /\ requests' = At(q, "refused")
    /\ UNCHANGED <<place, form, groups, submissions, screen, choice, overridden, relation,
                   thirdParty, accepted>>

\* navigate("/file/" + id), wherever the user is by then; an error is only shown.
Answer(q) ==
    /\ q.stage \in {"served", "refused"}
    /\ requests' = requests \ {q}
    /\ screen' = IF q.stage = "served" THEN q.object ELSE screen
    /\ UNCHANGED <<place, form, groups, submissions, choice, overridden, server>>

-----------------------------------------------------------------------------
FormInit ==
    /\ kind \in Kinds
    /\ user \in Users
    /\ perm = [o \in Objects \cup Parents |-> IF o \in Parents THEN SharedWith[o] ELSE {}]
    /\ url \in {p \in Parents : HasAccess(p)} \cup {None} /\ past = None /\ returned = FALSE
    /\ form = [shareWith |-> None, group |-> "", share3rdParty |-> FALSE, parent |-> url]
    /\ groups = None
    /\ requests = {}
    /\ submissions = 0
    /\ screen = "form"
    /\ relation = {}
    /\ thirdParty = [o \in Objects |-> FALSE]
    /\ choice = None
    /\ overridden = FALSE
    /\ accepted = {}

FormNext ==
    \/ GetGroups \/ Sharing \/ ParentClear \/ Back \/ Leave
    \/ \E mode \in Modes : UpdateSharingMode(mode)
    \/ \E g \in Groups : TypeGroup(g)
    \/ \E p \in Parents : TypeParent(p)
    \/ \E o \in Objects : Submit(o)
    \/ \E q \in requests : Accept(q) \/ RefuseUpload(q) \/ Answer(q)

FormSpec == FormInit /\ [][FormNext]_formVars

-----------------------------------------------------------------------------
(* Properties *)

FormTypeOK ==
    /\ kind \in Kinds
    /\ user \in Users
    /\ {url, past} \subseteq Parents \cup {None} /\ returned \in BOOLEAN
    /\ form \in Forms
    /\ groups = None \/ groups \subseteq OtherGroups
    /\ requests \subseteq
         [number : 1..MaxSubmissions, object : Objects, body : Bodies, seen : Views,
          stage : {"sent", "served", "refused"}]
    /\ submissions \in 0..MaxSubmissions
    /\ screen \in {"form", "elsewhere"} \cup Objects
    /\ perm \in [Objects \cup Parents -> SUBSET Groups]
    /\ relation \subseteq Parents \X Objects
    /\ thirdParty \in [Objects -> BOOLEAN]
    /\ choice \in Modes \cup {None}
    /\ overridden \in BOOLEAN
    /\ accepted \subseteq Objects \X Views

\* The four options as docs/user-guide/9-Sharing-objects.rst:24-36 explains them; without
\* a choice, the default.
Chosen(view) ==
    CASE view.choice \in {"default", None} -> (user.member \cap Workspaces) \cup {Own}
      [] view.choice = "single" -> {view.group, Own}
      [] view.choice = "public" -> {PublicGroup, Own}
      [] view.choice = "private" -> {Own}

\* The accepted uploads of an object, as they were seen, and its parents.
ViewsOf(o) == {a[2] : a \in {x \in accepted : x[1] = o}}
ParentsOf(o) == {p \in Parents : <<p, o>> \in relation}
FromViews(o) == UNION {Chosen(v) : v \in ViewsOf(o)}
FromParents(o) == UNION {perm[p] : p \in ParentsOf(o)}

(* An object is shared with the groups its uploader has chosen, upload by  *)
(* upload, with those its parents are shared with, and with no other: also *)
(* when the form was submitted before the groups came, and when a parent   *)
(* became the user's by being given.  The one exception is a choice that   *)
(* was made before the groups came, and that the default replaced.         *)
SharedAsChosen ==
    \A o \in Objects :
        (\A v \in ViewsOf(o) : ~v.overridden) =>
            perm[o] = FromViews(o) \cup FromParents(o)

(* Objects get the parents that the form showed when it was submitted, and *)
(* no parent that was in the address and cleared, unless the user has gone *)
(* back to that address: its parent is sent then, and not the field.       *)
ParentsAsShown ==
    ~returned => relation = {<<a[2].parent, a[1]>> : a \in {x \in accepted : x[2].parent # None}}

(* "If you want your upload not to be shared with third parties, you can   *)
(* specify it during upload" (docs/user-guide/9-Sharing-objects.rst:284).  *)
ConsentKept ==
    \A o \in Objects : thirdParty[o] => \E a \in accepted : a[1] = o /\ a[2].share3rdParty

(* It holds of files, and consent once given stays: "If one object was     *)
(* uploaded multiple times and at least one of them was marked ..., the    *)
(* object will be marked as shareable" (line 288).                         *)
FileConsent ==
    kind = "file" => \A o \in Objects :
        thirdParty[o] <=> \E a \in accepted : a[1] = o /\ a[2].share3rdParty

-----------------------------------------------------------------------------
(* The inductive invariant behind them *)

\* What would be sent now is what the user sees: the address and the field agree on the
\* parent, and the mode is his choice, or the default as far as he is in any group.
FormAsShown ==
    /\ ~returned /\ url # None => form.parent = url
    /\ kind = "config" => choice = None
    /\ choice # None /\ ~overridden => form.shareWith = choice
    /\ choice = None /\ kind # "config" =>
          \/ form.shareWith \in {None, "default"}
          \/ form.shareWith = "private" /\ user.member \cap Workspaces = {}

\* What was sent is what the user saw.
SentAsShown ==
    \A q \in requests :
        /\ ~returned => q.body.parent = q.seen.parent
        /\ kind = "file" => q.body.share_3rd_party = q.seen.share3rdParty
        /\ q.body.upload_as # "" /\ ~q.seen.overridden =>
              SharesForUpload(q.body.upload_as) = Chosen(q.seen)

\* The user sees the parents he has given: they no longer change.
LinkedSeen == \A r \in relation : HasAccess(r[1])

FormIInv ==
    /\ FormTypeOK /\ FormAsShown /\ SentAsShown /\ LinkedSeen
    /\ SharedAsChosen /\ ParentsAsShown /\ FileConsent
===============================================================================
