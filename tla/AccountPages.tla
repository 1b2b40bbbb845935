---------------------------- MODULE AccountPages ----------------------------
(***************************************************************************)
(* Signing in, the profile and the settings: what each component of        *)
(* mwdb/web/src/components renders, under the name of the component.  A    *)
(* view that goes on to another page when a call succeeds has a link to    *)
(* it.                                                                     *)
(***************************************************************************)
EXTENDS Page

(* Signing in *)

ProviderButton(c) == Offers({"oauthAuthenticate"})
ProvidersSelectList(c) == Offers({"oauthAuthenticate"})
UserLoginView(c) ==
    If(Is(c, "password"),
       Offers({"authLogin"}) ++ Links(Locals({"/", "recover_password"}))
           ++ If(Is(c, "registration"), Links({Local("register")})))
    ++ If(Is(c, "oidc"),
          Loads({"oauthGetProviders"}) ++ ProviderButton(c) ++ ProvidersSelectList(c))
UserRegisterView(c) == Offers({"registerUser"}) ++ Links({Local("login")})
UserPasswordRecoverView(c) == Offers({"authRecoverPassword"}) ++ Links({Local("login")})
UserSetPasswordView(c) == Offers({"authSetPassword"})        \* linked from a mail
\* Shown by the provider's redirection; where it leads depends on what was asked of it.
OAuthAuthorizeView(c) ==
    Loads({"oauthCallback"}) ++ Links(Locals({"/", "login", "profile/oauth"}))

(* Profile *)

ProfileNavPersonal(c) ==                          \* mutant: keys as in ProfileDetails
    Links(Locals({"profile", "profile/capabilities", "profile/groups"}))
        ++ If(Can(c, "personalize"), Links({Local("profile/api-keys")}))
        ++ If(Is(c, "oidc"), Links({Local("profile/oauth")}))
ProfileNav(c) ==
    Links(Locals({"profile", "profile/capabilities", "profile/groups", "profile/api-keys"}))
        ++ If(Is(c, "oidc"), Links({Local("profile/oauth")}))
CapabilitiesSelect(c) == Offers({"updateGroup"})
CapabilitiesTable(c) ==
    GroupBadges("profile") ++ If(Can(c, "manage_users"), Offers({"updateGroup"}))
ProfileCapabilities(c) ==
    If(Can(c, "manage_users"), CapabilitiesSelect(c)) ++ CapabilitiesTable(c)
ProfileView(c, inside) == Loads({"getUserProfile"}) ++ ProfileNav(c) ++ inside

\* Only the user's own profile links the keys and the password: the user is at "profile".
ProfileDetails(c) ==
    GroupBadges("profile") ++ Searches({Local("/")})
        ++ If(c.view = "profile" /\ Can(c, "personalize"),
              Links(Locals({"profile/api-keys", "profile/reset-password"})))
        ++ If(Can(c, "manage_users"), Links({Local("settings/user")}))
\* Whether the user administers the group is a feature of the context: "groupAdmin".
MayManageMembers(c) == Is(c, "groupAdmin") \/ Can(c, "manage_users")
ProfileGroup(c) ==
    Loads({"authGroups"}) ++ Links({Local("profile/user")}) ++ Searches({Local("/")})
        ++ If(MayManageMembers(c), Links({Local("profile/group/members")}))
        ++ If(Can(c, "manage_users"), Links({Local("settings/group")}))
ProfileGroupItems(c) == Offers({"removeGroupMember"}) ++ GroupBadges("profile")
ProfileGroupMembers(c) ==
    Loads({"authGroups"})
        ++ If(MayManageMembers(c), ProfileGroupItems(c))
        ++ If(~MayManageMembers(c), Links({Local("profile/group")}))
ProfileGroups(c) == Loads({"authGroups"}) ++ GroupBadges("profile")
ProfileAPIKeys(c) == Offers({"apiKeyAdd", "apiKeyRemove"})
ProfileResetPassword(c) == Offers({"authRequestPasswordChange"}) ++ Links({Local("profile")})
ProfileOAuth(c) ==
    Loads({"oauthGetProviders", "oauthGetIdentities"}) ++ Offers({"oauthAuthenticate"})

(* Settings *)

SettingsNav(c) ==
    Links(Locals({"settings", "settings/capabilities", "settings/users", "settings/groups",
                  "settings/attributes"}))
        ++ If(Is(c, "registration") \/ Is(c, "oidc_registration"), Links({Local("settings/pending")}))
        ++ If(Is(c, "oidc"), Links({Local("settings/oauth")}))
SettingsView(c, inside) == SettingsNav(c) ++ inside
SettingsOverviewView(c) == Loads({"getServerAdminInfo"})
AccessControlView(c) ==
    Loads({"getGroups"}) ++ Offers({"updateGroup"}) ++ Links({Local("settings/user")})

UsersPendingListView(c) ==
    Loads({"getPendingUsers"}) ++ Offers({"acceptPendingUser", "rejectPendingUser"})
        ++ Links({Local("settings/user")})
UserItem(c) == Links({Local("settings/user")}) ++ GroupBadges("settings")
UsersListView(c) == Loads({"getUsers"}) ++ UserItem(c) ++ Links({Local("settings/user/new")})
UserCreateView(c) == Offers({"createUser"}) ++ Links({Local("settings/user")})
\* The outer view of one user: its breadcrumbs, and the deletion of a capability.
UserView(c, inside) ==
    Loads({"getUser"}) ++ Offers({"updateGroup"}) ++ Links({Local("settings/user")}) ++ inside
UserDetailsView(c) ==
    Offers({"updateUser", "setUserDisabled", "removeUser"}) ++ GroupBadges("settings")
        ++ Searches({Local("/")})
        ++ Links(Locals({"settings/users", "settings/user/groups", "settings/user/capabilities",
                         "settings/user/api-keys", "settings/user/password"}))
UserResetPasswordView(c) ==
    Offers({"userRequestPasswordChange", "generateSetPasswordToken"})
        ++ Links({Local("settings/user")})
UserSingleGroupsView(c) ==
    Loads({"getGroups"}) ++ Offers({"addGroupMember", "removeGroupMember"}) ++ GroupBadges("settings")

GroupItem(c) == Links({Local("settings/group")}) ++ GroupBadges("settings")
GroupsListView(c) == Loads({"getGroups"}) ++ GroupItem(c) ++ Links({Local("settings/group/new")})
GroupCreateView(c) == Offers({"registerGroup"}) ++ Links({Local("settings/group")})
GroupView(c, inside) ==
    Loads({"getGroup", "oauthGetProviders"})
        ++ Offers({"updateGroup"}) ++ Links({Local("settings/group")}) ++ inside
GroupDetailsView(c) ==
    Offers({"updateGroup", "removeGroup"}) ++ GroupBadges("settings") ++ Searches({Local("/")})
        ++ Links(Locals({"settings/groups", "settings/group/members",
                         "settings/group/capabilities"}))
MemberList(c) == Offers({"removeGroupMember", "setGroupAdmin"}) ++ GroupBadges("settings")
GroupMembersView(c) == Loads({"getUsers"}) ++ Offers({"addGroupMember"}) ++ MemberList(c)

OAuthListProvidersView(c) ==
    Loads({"oauthGetProviders"}) ++ Links(Locals({"settings/oauth/provider", "settings/oauth/register"}))
OAuthRegisterView(c) == Offers({"oauthRegisterProvider"}) ++ Links({Local("settings/oauth")})
OAuthProviderView(c) ==
    Loads({"oauthGetSingleProvider"})
        ++ Offers({"oauthUpdateSingleProvider", "oauthRemoveSingleProvider"})
        ++ Links({Local("settings/oauth")})

AttributesListView(c) ==
    Loads({"manageAttributeDefinitions"})
        ++ Links(Locals({"settings/attribute", "settings/attribute/new"}))
AttributeCreateView(c) == Offers({"addAttributeDefinition"}) ++ Links({Local("settings/attribute")})
AttributeView(c, inside) ==
    Loads({"getAttributeDefinition"}) ++ Links({Local("settings/attribute")}) ++ inside
AttributeDetailsView(c) ==
    Offers({"updateAttributeDefinition", "removeAttributeDefinition"})
        ++ Links(Locals({"settings/attributes", "settings/attribute/permissions",
                         "settings/attribute/edit-template"}))
AttributesPermissionsView(c) ==
    Loads({"getAttributePermissions", "getGroups"})
        ++ Offers({"setAttributePermission", "removeAttributePermission"})
        ++ Links({Local("settings/group")})
AttributeEditTemplateView(c) ==
    Offers({"updateAttributeDefinition"}) ++ Links({Local("settings/attribute")})
=============================================================================
