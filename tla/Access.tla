-------------------------------- MODULE Access --------------------------------
(***************************************************************************)
(* One tab of the web frontend: the routes and their guards                *)
(* (commons/navigation/AppRoutes.tsx), the navigation bar, and what the    *)
(* user can open and do there, against what the server allows.             *)
(*                                                                         *)
(* The tab decides by the capabilities of its session, which the server    *)
(* gave when the session began or was last refreshed.                      *)
(***************************************************************************)
EXTENDS Api, ObjectPages, AccountPages, Naturals

CONSTANTS RightsCases,  \* the sets of capabilities that users have
          Volatile,     \* bound: the capabilities that an administrator changes
          MaxChanges,   \* bound: on such changes
          FeatureCases, \* the configurations of the instance
          Nobody        \* the session of a tab that is signed out

ASSUME AccessAssumption ==
    /\ RightsCases \subseteq SUBSET Caps
    /\ Volatile \subseteq Caps
    /\ MaxChanges \in Nat
    /\ \A caps \in SUBSET Caps : Nobody # caps

VARIABLES rights,       \* the capabilities that the server gives the user
          session,      \* the capabilities the tab has, or Nobody
          page,         \* the route it shows
          features,     \* the configuration
          changes       \* changes of rights so far

vars == <<rights, session, page, features, changes>>

-----------------------------------------------------------------------------
(* Routes *)

OpenViews == {"login", "register", "recover_password", "setpasswd", "oauth/callback"}
ListViews == {"/", "configs", "blobs", "search"}
UploadViews == {"upload", "blob_upload", "config_upload"}
ProfileViews ==
    {"profile", "profile/user", "profile/group", "profile/group/members", "profile/groups",
     "profile/capabilities", "profile/api-keys", "profile/reset-password", "profile/oauth"}
SettingsViews ==
    {"settings", "settings/pending", "settings/users", "settings/user/new", "settings/user",
     "settings/user/capabilities", "settings/user/api-keys", "settings/user/password",
     "settings/user/groups", "settings/groups", "settings/group/new", "settings/group",
     "settings/group/capabilities", "settings/group/members", "settings/capabilities",
     "settings/oauth", "settings/oauth/register", "settings/oauth/provider",
     "settings/attributes", "settings/attribute/new", "settings/attribute",
     "settings/attribute/permissions", "settings/attribute/edit-template"}
RemoteViews == ListViews \cup ObjectViews \cup {"diff"}
LocalViews ==
    OpenViews \cup RemoteViews \cup UploadViews \cup ProfileViews \cup SettingsViews
        \cup {"configs/stats", "about", "docs", "relations"}
Pages == Locals(LocalViews) \cup {[view |-> v, remote |-> TRUE] : v \in RemoteViews}

Home == Local("/")

\* Pages inside RequiresCapability.
Required(view) ==
    CASE view = "upload" -> {"adding_files"}
      [] view = "blob_upload" -> {"adding_blobs"}
      [] view = "config_upload" -> {"adding_configs"}
      [] view \in SettingsViews -> {"manage_users"}
      [] OTHER -> {}

\* The page that a tab with the session s shows at an address: NavigateFor404,
\* RequiresAuth, RequiresCapability, and the login view that leaves when signed in.
Arrive(s, to) ==
    IF to \in Pages /\ to.view \in OpenViews
    THEN IF to.view = "login" /\ s # Nobody THEN Home ELSE to
    ELSE IF s = Nobody THEN Local("login")
    ELSE IF to \in Pages /\ Required(to.view) \subseteq s THEN to ELSE Home

ListRoutes(c) ==
    CASE c.view = "/" -> RecentSamplesView(c)
      [] c.view = "configs" -> RecentConfigsView(c)
      [] c.view = "blobs" -> RecentBlobsView(c)
      [] c.view = "search" -> SearchView(c)

ObjectRoutes(c) ==
    CASE c.view = "file" -> ShowSampleView(c)
      [] c.view = "config" -> ShowConfigView(c)
      [] c.view = "blob" -> ShowTextBlobView(c)
      [] c.view = "diff" -> DiffTextBlobView(c)

ProfileRoutes(c) ==
    ProfileView(c,
        CASE c.view \in {"profile", "profile/user"} -> ProfileDetails(c)
          [] c.view = "profile/group" -> ProfileGroup(c)
          [] c.view = "profile/group/members" -> ProfileGroupMembers(c)
          [] c.view = "profile/groups" -> ProfileGroups(c)
          [] c.view = "profile/capabilities" -> ProfileCapabilities(c)
          [] c.view = "profile/api-keys" -> ProfileAPIKeys(c)
          [] c.view = "profile/reset-password" -> ProfileResetPassword(c)
          [] c.view = "profile/oauth" -> ProfileOAuth(c))

SettingsRoutes(c) ==
    SettingsView(c,
        CASE c.view = "settings" -> SettingsOverviewView(c)
          [] c.view = "settings/pending" -> UsersPendingListView(c)
          [] c.view = "settings/users" -> UsersListView(c)
          [] c.view = "settings/user/new" -> UserCreateView(c)
          [] c.view = "settings/user" -> UserView(c, UserDetailsView(c))
          [] c.view = "settings/user/capabilities" -> UserView(c, ProfileCapabilities(c))
          [] c.view = "settings/user/api-keys" -> UserView(c, ProfileAPIKeys(c))
          [] c.view = "settings/user/password" -> UserView(c, UserResetPasswordView(c))
          [] c.view = "settings/user/groups" -> UserView(c, UserSingleGroupsView(c))
          [] c.view = "settings/groups" -> GroupsListView(c)
          [] c.view = "settings/group/new" -> GroupCreateView(c)
          [] c.view = "settings/group" -> GroupView(c, GroupDetailsView(c))
          [] c.view = "settings/group/capabilities" -> GroupView(c, ProfileCapabilities(c))
          [] c.view = "settings/group/members" -> GroupView(c, GroupMembersView(c))
          [] c.view = "settings/capabilities" -> AccessControlView(c)
          [] c.view = "settings/oauth" -> OAuthListProvidersView(c)
          [] c.view = "settings/oauth/register" -> OAuthRegisterView(c)
          [] c.view = "settings/oauth/provider" -> OAuthProviderView(c)
          [] c.view = "settings/attributes" -> AttributesListView(c)
          [] c.view = "settings/attribute/new" -> AttributeCreateView(c)
          [] c.view = "settings/attribute" -> AttributeView(c, AttributeDetailsView(c))
          [] c.view = "settings/attribute/permissions" ->
                 AttributeView(c, AttributesPermissionsView(c))
          [] c.view = "settings/attribute/edit-template" ->
                 AttributeView(c, AttributeEditTemplateView(c)))

OpenRoutes(c) ==
    CASE c.view = "login" -> UserLoginView(c)
      [] c.view = "register" -> UserRegisterView(c)
      [] c.view = "recover_password" -> UserPasswordRecoverView(c)
      [] c.view = "setpasswd" -> UserSetPasswordView(c)
      [] c.view = "oauth/callback" -> OAuthAuthorizeView(c)

AppRoutes(c) ==
    CASE c.view \in OpenViews -> OpenRoutes(c)
      [] c.view \in ListViews -> ListRoutes(c)
      [] c.view \in ObjectViews \cup {"diff"} -> ObjectRoutes(c)
      [] c.view \in ProfileViews -> ProfileRoutes(c)
      [] c.view \in SettingsViews -> SettingsRoutes(c)
      [] c.view = "upload" -> UploadFileView(c)
      [] c.view = "blob_upload" -> UploadBlobView(c)
      [] c.view = "config_upload" -> UploadConfigView(c)
      [] c.view = "configs/stats" -> ConfigStatsView(c)
      [] c.view = "about" -> AboutView(c)
      [] c.view = "docs" -> DocsView(c)
      [] c.view = "relations" -> RelationsPlotView(c)

(* The navigation bar *)

UploadCapability == [upload |-> "adding_files", blob_upload |-> "adding_blobs",
                     config_upload |-> "adding_configs"]
UploadNavAll(c) == Links(Locals(UploadViews))     \* mutant: not by capability
\* One link, or a dropdown of links that are each shown by the capability.
UploadNav(c) == Links({Local(v) : v \in {w \in UploadViews : Can(c, UploadCapability[w])}})
AdminNav(c) == If(Can(c, "manage_users"), Links({Local("settings")}))
RemoteDropdown(c) == If(Is(c, "remotes"), Links({[view |-> "/", remote |-> TRUE]}))
LocalNav(c) ==
    Links(Locals(ListViews \cup {"configs/stats", "about", "docs", "profile"}))
        ++ UploadNav(c) ++ AdminNav(c)
RemoteNav(c) == Links(AllHere(c, ListViews))
Navigation(c) ==
    Links({Home})
        ++ If(c.signedIn, RemoteDropdown(c) ++ IF c.remote THEN RemoteNav(c) ELSE LocalNav(c))

Context(s, at, f) ==
    [caps |-> IF s = Nobody THEN {} ELSE s, signedIn |-> s # Nobody,
     view |-> at.view, remote |-> at.remote, features |-> f]
ConfigProviderPending(c) ==                       \* mutant: the pending users for everyone
    Loads({"getServerInfo"}) ++ If(c.signedIn, Loads({"getRemoteNames"}))
        ++ If(c.signedIn /\ (Is(c, "registration") \/ Is(c, "oidc_registration")),
              Loads({"getPendingUsers"}))
\* What the frontend asks for on every page.
ConfigProvider(c) ==
    Loads({"getServerInfo"}) ++ If(c.signedIn, Loads({"getRemoteNames"}))
        ++ If(Can(c, "manage_users") /\ (Is(c, "registration") \/ Is(c, "oidc_registration")),
              Loads({"getPendingUsers"}))

Shown(s, at, f) ==
    LET c == Context(s, at, f) IN ConfigProvider(c) ++ Navigation(c) ++ AppRoutes(c)

-----------------------------------------------------------------------------
(* Calls *)

\* A call under /remote/:remote is that of RemoteAPI.
Request(at, call) == IF at.remote THEN RemoteApi[call] ELSE LocalApi[call]

\* Resources that the server has only in some configurations (mwdb/app.py).
OnlyWith ==
    [feature \in {"oidc", "consent"} |->
        IF feature = "oidc" THEN {LocalApi[call] : call \in
               {"oauthAuthenticate", "oauthCallback", "oauthBind", "oauthRegisterProvider",
                "oauthGetProviders", "oauthGetSingleProvider", "oauthUpdateSingleProvider",
                "oauthRemoveSingleProvider", "oauthGetIdentities", "oauthGetLogoutLink"}}
        ELSE {LocalApi.enableSharing3rdParty}]
Serves(f, request) ==
    \A feature \in DOMAIN OnlyWith : request \in OnlyWith[feature] => feature \in f

Allowed(r, f, request) ==
    \/ Server[request].caps \subseteq r
    \/ request \in ByGroupAdmin /\ "groupAdmin" \in f

-----------------------------------------------------------------------------
Init ==
    /\ rights \in RightsCases
    /\ session = Nobody
    /\ page = Local("login")
    /\ features \in FeatureCases
    /\ changes = 0

\* A link, a search link, or an address typed in.
Open(to) ==
    /\ page' = Arrive(session, to)
    /\ UNCHANGED <<rights, session, features, changes>>

SignIn ==
    /\ session = Nobody
    /\ page.view = "login"
    /\ session' = rights
    /\ page' = Home
    /\ UNCHANGED <<rights, features, changes>>

SignOut ==
    /\ session # Nobody
    /\ ~page.remote
    /\ session' = Nobody
    /\ page' = Arrive(Nobody, page)
    /\ UNCHANGED <<rights, features, changes>>

\* The timer of AuthProvider, or its answer to a call refused with 403.
RefreshSession ==
    /\ session' = rights
    /\ page' = Arrive(rights, page)
    /\ UNCHANGED <<rights, features, changes>>
Timer == session # Nobody /\ RefreshSession

\* A call of the page that the server refuses; others change nothing that is modelled here.
Refuse(call) ==
    /\ session # Nobody
    /\ ~Allowed(rights, features, Request(page, call))
    /\ RefreshSession

\* Administrators change the user's groups or their capabilities.
ChangeRights(capability) ==
    /\ changes < MaxChanges
    /\ rights' = IF capability \in rights THEN rights \ {capability} ELSE rights \cup {capability}
    /\ changes' = changes + 1
    /\ UNCHANGED <<session, page, features>>

Next ==
    LET shown == Shown(session, page, features) IN
    \/ \E to \in [view : LocalViews, remote : BOOLEAN] : Open(to)
    \/ SignIn \/ SignOut \/ Timer
    \/ \E call \in shown.loads \cup shown.offers : Refuse(call)
    \/ \E capability \in Volatile : ChangeRights(capability)

Spec == Init /\ [][Next]_vars

-----------------------------------------------------------------------------
TypeOK ==
    /\ rights \subseteq Caps
    /\ session \in (SUBSET Caps) \cup {Nobody}
    /\ page \in Pages
    /\ features \in FeatureCases
    /\ changes \in 0..MaxChanges

Fresh == session = rights
Asks(call) == Request(page, call)

\* Controls that the code shows to everyone, where the server demands a capability.
Unguarded ==
    {"apiKeyAdd", "apiKeyRemove", "authRequestPasswordChange", "addObjectRelation",
     "resubmitKartonAnalysis", "pullFileRemote", "pullConfigRemote", "pullBlobRemote"}

\* What the guards of the routes have seen to.
PageFits ==
    /\ session = Nobody => page.view \in OpenViews
    /\ session # Nobody => Required(page.view) \subseteq session /\ page.view # "login"
IInv == TypeOK /\ PageFits

(* A user whose session is up to date is offered nothing that the server   *)
(* refuses, except by the controls named above: what the conditions in the *)
(* components ask for is what the decorators of the resources demand.      *)
OfferedIsAllowed ==
    Fresh => \A call \in Shown(session, page, features).offers \ Unguarded :
                Allowed(rights, features, Asks(call))

(* What a page asks for when it opens, the server has and allows, whatever *)
(* its configuration.  The page of a group asks for the identity providers *)
(* of an instance that may have none (GroupView.tsx:50), and an address    *)
(* typed in leads to the pages of OpenID Connect there.                    *)
OidcViews == {"profile/oauth", "oauth/callback", "settings/oauth", "settings/oauth/register",
              "settings/oauth/provider"}
GroupPages == {"settings/group", "settings/group/capabilities", "settings/group/members"}
LoadsAreServed ==
    \A call \in Shown(session, page, features).loads :
        /\ session = Nobody => ~Server[Asks(call)].login
        /\ Fresh => Allowed(rights, features, Asks(call))
        /\ \/ Serves(features, Asks(call))
           \/ page.view \in OidcViews
           \/ page.view \in GroupPages /\ call = "oauthGetProviders"

(* No link leads to a page that its guard turns away, or that no route     *)
(* has, with the capabilities the page was rendered with.                  *)
LinksArrive ==
    session # Nobody =>
        LET shown == Shown(session, page, features) IN
        \A to \in (shown.links \cup shown.searches) \ {Local("login")} : Arrive(session, to) = to

\* Calls on a remote page that ask the local instance.
AsksLocal ==
    {"getKartonAnalysesList", "readAttributeDefinitions", "setAttributeDefinitions",
     "requestZipFileDownloadLink", "getQuickQueries", "getServerInfo", "getRemoteNames",
     "getPendingUsers"}
PullCalls == {"pullFileRemote", "pullConfigRemote", "pullBlobRemote"}
Writes == {"removeObjectTag", "removeObjectRelation", "removeObjectAttribute",
           "removeKartonAnalysisFromObject", "resubmitKartonAnalysis", "enableSharing3rdParty"}

(* A page of a remote instance shows the objects of that instance: what it *)
(* reads goes there, and its links to lists and to objects stay there,     *)
(* except those named: the analyses, the attributes' definitions and the   *)
(* archive of a file are asked of the local instance by the remote         *)
(* object's identifier, and four kinds of links are written without the    *)
(* prefix of the remote.                                                   *)
RemoteStaysRemote ==
    page.remote =>
        LET shown == Shown(session, page, features) IN
        /\ \A call \in (shown.loads \cup shown.offers) \ (AsksLocal \cup PullCalls \cup Writes) :
              Asks(call) \in RemoteRequests
        /\ page.view \notin ObjectViews => shown.searches \cap Locals(RemoteViews) = {}
        /\ \A to \in shown.links : ~to.remote => to.view \in {"/", "relations", page.view}

(* docs/remotes-guide.rst:53 says that the remote view is limited to       *)
(* read-only actions.                                                      *)
RemoteIsReadOnly == page.remote => Shown(session, page, features).offers \cap Writes = {}

(* Whatever the user may do, he finds by links from the page he signs in   *)
(* to.  A new password needs "personalize" besides "manage_profile".       *)
Neighbours(s, f, pages) ==
    pages \cup UNION {{Arrive(s, to) : to \in Shown(s, at, f).links} : at \in pages}
Within(s, f) ==
    LET Next2(pages) == Neighbours(s, f, Neighbours(s, f, pages))
    IN Next2(Next2(Next2({Home})))
\* The pages that an instance with these features is meant to show.
Meant(f) ==
    {at \in Pages :
        /\ at.view \notin OpenViews
        /\ at.remote => "remotes" \in f
        /\ at.view \in OidcViews => "oidc" \in f
        /\ at.view = "settings/pending" => f \cap {"registration", "oidc_registration"} # {}}
Offered == UNION {Shown(Caps, at, features).offers : at \in Meant(features)}
EverythingFound ==
    Fresh /\ page = Home =>
        LET pages == Within(session, features)
            found == UNION {Shown(session, at, features).offers : at \in pages}
        IN \A call \in Offered : \/ call \in found
                                \/ ~Allowed(rights, features, LocalApi[call])
                                \/ call = "authRequestPasswordChange"
=============================================================================
