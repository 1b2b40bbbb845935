--------------------------------- MODULE Api ---------------------------------
(***************************************************************************)
(* The calls of the web frontend (commons/api/index.tsx) as requests, and  *)
(* what the server demands of the user who makes one (the decorators and   *)
(* explicit checks in mwdb/resources).                                     *)
(*                                                                         *)
(* A request is its method and path; parameters and bodies are left out,   *)
(* except a parent given to an upload, written "?parent": the server       *)
(* demands more for it.  An object's path is object/:id for any type.      *)
(***************************************************************************)

\* Two tables as one; an entry of the first hides one of the second.
t (+) u == [x \in DOMAIN t \cup DOMAIN u |-> IF x \in DOMAIN t THEN t[x] ELSE u[x]]

Caps ==
    {"adding_blobs", "adding_comments", "adding_configs", "adding_files",
     "adding_parents", "adding_tags", "karton_reanalyze", "karton_unassign",
     "manage_profile", "manage_users", "modify_3rd_party_sharing", "personalize",
     "removing_attributes", "removing_comments", "removing_objects",
     "removing_parents", "removing_tags"}

-----------------------------------------------------------------------------
(* Calls: commons/api/index.tsx *)

ServerCalls ==
    [getServerDocs |-> "GET/docs", getServerInfo |-> "GET/server",
     getServerAdminInfo |-> "GET/server/admin"]

AuthCalls ==
    [authLogin |-> "POST/auth/login", authRefresh |-> "POST/auth/refresh",
     authSetPassword |-> "POST/auth/change_password",
     authRequestPasswordChange |-> "POST/auth/request_password_change",
     authRecoverPassword |-> "POST/auth/recover_password", authGroups |-> "GET/auth/groups",
     oauthAuthenticate |-> "POST/oauth/:provider/authenticate",
     oauthCallback |-> "POST/oauth/:provider/callback",
     oauthBind |-> "POST/oauth/:provider/bind_account",     \* oauthCallback, by its action
     oauthRegisterProvider |-> "POST/oauth", oauthGetProviders |-> "GET/oauth",
     oauthGetSingleProvider |-> "GET/oauth/:provider",
     oauthUpdateSingleProvider |-> "PUT/oauth/:provider",
     oauthRemoveSingleProvider |-> "DELETE/oauth/:provider",
     oauthGetIdentities |-> "GET/oauth/identities",
     oauthGetLogoutLink |-> "GET/oauth/:provider/logout",
     apiKeyAdd |-> "POST/user/:login/api_key", apiKeyRemove |-> "DELETE/api_key/:id"]

ObjectCalls ==
    [getObject |-> "GET/object/:id", getObjectList |-> "GET/object",
     getObjectCount |-> "GET/object/count", getTags |-> "GET/tag",
     getShareInfo |-> "GET/share", getObjectTags |-> "GET/object/:id/tag",
     getObjectComments |-> "GET/object/:id/comment",
     getObjectRelations |-> "GET/object/:id/relations",
     addObjectRelation |-> "PUT/object/:id/child/:id",
     removeObjectRelation |-> "DELETE/object/:id/child/:id",
     getObjectShares |-> "GET/object/:id/share",
     getObjectAttributes |-> "GET/object/:id/attribute",
     removeObject |-> "DELETE/object/:id", addObjectTag |-> "PUT/object/:id/tag",
     removeObjectTag |-> "DELETE/object/:id/tag",
     addObjectComment |-> "POST/object/:id/comment",
     removeObjectComment |-> "DELETE/object/:id/comment/:comment",
     addObjectAttribute |-> "POST/object/:id/attribute",
     removeObjectAttribute |-> "DELETE/object/:id/attribute/:attribute",
     addObjectFavorite |-> "PUT/object/:id/favorite",
     removeObjectFavorite |-> "DELETE/object/:id/favorite",
     shareObjectWith |-> "PUT/object/:id/share",
     addQuickQuery |-> "POST/object/quick_query", getQuickQueries |-> "GET/object/quick_query",
     deleteQuickQuery |-> "DELETE/quick_query/:id"]

AccountCalls ==
    [getGroups |-> "GET/group", getGroup |-> "GET/group/:name",
     registerGroup |-> "POST/group/:name", updateGroup |-> "PUT/group/:name",
     removeGroup |-> "DELETE/group/:name",
     addGroupMember |-> "POST/group/:name/member/:login",
     removeGroupMember |-> "DELETE/group/:name/member/:login",
     setGroupAdmin |-> "PUT/group/:name/member/:login",
     getUsers |-> "GET/user", getPendingUsers |-> "GET/user",
     acceptPendingUser |-> "POST/user/:login/pending",
     rejectPendingUser |-> "DELETE/user/:login/pending",
     getUser |-> "GET/user/:login", getUserProfile |-> "GET/profile/:login",
     generateSetPasswordToken |-> "GET/user/:login/change_password",
     userRequestPasswordChange |-> "POST/user/:login/request_password_change",
     setUserDisabled |-> "PUT/user/:login", createUser |-> "POST/user/:login",
     registerUser |-> "POST/auth/register", updateUser |-> "PUT/user/:login",
     removeUser |-> "DELETE/user/:login"]

AttributeCalls ==
    [readAttributeDefinitions |-> "GET/attribute",          \* getAttributeDefinitions, by access
     setAttributeDefinitions |-> "GET/attribute",
     manageAttributeDefinitions |-> "GET/attribute?access=manage",
     getAttributeDefinition |-> "GET/attribute/:key",
     addAttributeDefinition |-> "POST/attribute",
     updateAttributeDefinition |-> "PUT/attribute/:key",
     removeAttributeDefinition |-> "DELETE/attribute/:key",
     getAttributePermissions |-> "GET/attribute/:key/permissions",
     setAttributePermission |-> "PUT/attribute/:key/permissions",
     removeAttributePermission |-> "DELETE/attribute/:key/permissions"]

TransferCalls ==
    [downloadFile |-> "GET/file/:id/download",
     requestFileDownloadLink |-> "POST/file/:id/download",
     requestZipFileDownloadLink |-> "POST/file/:id/download/zip",
     uploadFile |-> "POST/file", uploadFileWithParent |-> "POST/file?parent",
     uploadBlob |-> "POST/blob", uploadBlobWithParent |-> "POST/blob?parent",
     uploadConfig |-> "POST/config", uploadConfigWithParent |-> "POST/config?parent",
     getRemoteNames |-> "GET/remote",
     pushObjectRemote |-> "POST/remote/:remote/push/:type/:id",
     pullFileRemote |-> "POST/remote/:remote/pull/file/:id",       \* pullObjectRemote, by type
     pullConfigRemote |-> "POST/remote/:remote/pull/config/:id",
     pullBlobRemote |-> "POST/remote/:remote/pull/blob/:id",
     getConfigStats |-> "GET/config/stats"]

\* Any of them is passed on to the remote instance, with the API key kept for it.
RemoteCalls ==
    [getRemoteObject |-> "GET/remote/:remote/api/object/:id",
     getRemoteObjectList |-> "GET/remote/:remote/api/object",
     getRemoteObjectCount |-> "GET/remote/:remote/api/object/count",
     getRemoteObjectTags |-> "GET/remote/:remote/api/object/:id/tag",
     getRemoteObjectComments |-> "GET/remote/:remote/api/object/:id/comment",
     getRemoteObjectRelations |-> "GET/remote/:remote/api/object/:id/relations",
     getRemoteObjectShares |-> "GET/remote/:remote/api/object/:id/share",
     getRemoteObjectAttributes |-> "GET/remote/:remote/api/object/:id/attribute",
     downloadRemoteFile |-> "GET/remote/:remote/api/file/:id/download",
     requestRemoteFileDownloadLink |-> "POST/remote/:remote/api/file/:id/download",
     requestRemoteZipFileDownloadLink |-> "POST/remote/:remote/api/file/:id/download/zip"]

KartonCalls ==
    [getKartonAnalysesList |-> "GET/object/:id/karton",
     getKartonAnalysisStatus |-> "GET/object/:id/karton/:analysis",
     resubmitKartonAnalysis |-> "POST/object/:id/karton",
     removeKartonAnalysisFromObject |-> "DELETE/object/:id/karton/:analysis",
     enableSharing3rdParty |-> "PUT/object/:id/share_3rd_party"]

\* The api object that APIProvider hands to the views.
LocalApi ==
    ServerCalls (+) AuthCalls (+) ObjectCalls (+) AccountCalls (+) AttributeCalls
        (+) TransferCalls (+) RemoteCalls (+) KartonCalls

\* RemoteAPI: under /remote/:remote some of the calls go to the remote instance.  The
\* link of a zipped file is overridden under the name of the remote call, and the name
\* that views use keeps its local meaning.
RemoteOverrides ==
    [getObjectCount |-> LocalApi.getRemoteObjectCount,
     getObjectList |-> LocalApi.getRemoteObjectList,
     getObject |-> LocalApi.getRemoteObject, getObjectTags |-> LocalApi.getRemoteObjectTags,
     getObjectComments |-> LocalApi.getRemoteObjectComments,
     getObjectRelations |-> LocalApi.getRemoteObjectRelations,
     getObjectShares |-> LocalApi.getRemoteObjectShares,
     getObjectAttributes |-> LocalApi.getRemoteObjectAttributes,
     downloadFile |-> LocalApi.downloadRemoteFile,
     requestFileDownloadLink |-> LocalApi.requestRemoteFileDownloadLink,
     requestRemoteZipFileDownloadLink |-> LocalApi.requestZipFileDownloadLink]

RemoteApi == RemoteOverrides (+) LocalApi

RemoteRequests == {RemoteCalls[c] : c \in DOMAIN RemoteCalls}

-----------------------------------------------------------------------------
(* What the server demands: mwdb/resources *)

Demanding(caps, requests) == [r \in requests |-> [login |-> TRUE, caps |-> caps]]
Authorized(requests) == Demanding({}, requests)
OpenToAll(requests) == [r \in requests |-> [login |-> FALSE, caps |-> {}]]

ServesServer ==
    OpenToAll({"GET/server"}) (+) Authorized({"GET/docs"})
        (+) Demanding({"manage_users"}, {"GET/server/admin"})

ServesAuth ==
    OpenToAll({"POST/auth/login", "POST/auth/register", "POST/auth/change_password",
            "POST/auth/recover_password"})
    (+) Authorized({"POST/auth/refresh", "GET/auth/groups"})
    (+) Demanding({"manage_profile"}, {"POST/auth/request_password_change"})

ServesApiKeys ==
    Demanding({"manage_profile"}, {"POST/user/:login/api_key", "DELETE/api_key/:id"})

ServesOAuth ==
    OpenToAll({"GET/oauth", "POST/oauth/:provider/authenticate", "POST/oauth/:provider/callback"})
    (+) Authorized({"POST/oauth/:provider/bind_account", "GET/oauth/identities",
                   "GET/oauth/:provider/logout"})
    (+) Demanding({"manage_users"}, {"POST/oauth", "GET/oauth/:provider", "PUT/oauth/:provider",
                                    "DELETE/oauth/:provider"})

ServesObjects ==
    Authorized({"GET/object", "GET/object/:id", "GET/object/count"})
    (+) Demanding({"removing_objects"}, {"DELETE/object/:id"})
    (+) Demanding({"personalize"}, {"PUT/object/:id/favorite", "DELETE/object/:id/favorite"})
    (+) Demanding({"modify_3rd_party_sharing"}, {"PUT/object/:id/share_3rd_party"})

ServesFiles ==
    Demanding({"adding_files"}, {"POST/file"})
    (+) Authorized({"GET/file/:id/download", "POST/file/:id/download",
                   "POST/file/:id/download/zip"})
ServesConfigs ==
    Demanding({"adding_configs"}, {"POST/config"}) (+) Authorized({"GET/config/stats"})
ServesBlobs == Demanding({"adding_blobs"}, {"POST/blob"})

\* ObjectUploader, which the three kinds of objects share, checks a given parent.
ServesChildren ==
    Demanding({"adding_files", "adding_parents"}, {"POST/file?parent"})
    (+) Demanding({"adding_configs", "adding_parents"}, {"POST/config?parent"})
    (+) Demanding({"adding_blobs", "adding_parents"}, {"POST/blob?parent"})

ServesTags ==
    Authorized({"GET/tag", "GET/object/:id/tag"})
    (+) Demanding({"adding_tags"}, {"PUT/object/:id/tag"})
    (+) Demanding({"removing_tags"}, {"DELETE/object/:id/tag"})

ServesComments ==
    Authorized({"GET/object/:id/comment"})
    (+) Demanding({"adding_comments"}, {"POST/object/:id/comment"})
    (+) Demanding({"removing_comments"}, {"DELETE/object/:id/comment/:comment"})

ServesRelations ==
    Authorized({"GET/object/:id/relations"})
    (+) Demanding({"adding_parents"}, {"PUT/object/:id/child/:id"})
    (+) Demanding({"removing_parents"}, {"DELETE/object/:id/child/:id"})

\* Which groups a user may share with is not a matter of the pages.
ServesShares == Authorized({"GET/share", "GET/object/:id/share", "PUT/object/:id/share"})

\* Whether a user may set an attribute is a matter of its definition.
ServesAttributes ==
    Authorized({"GET/attribute", "GET/object/:id/attribute", "POST/object/:id/attribute"})
    (+) Demanding({"removing_attributes"}, {"DELETE/object/:id/attribute/:attribute"})
    (+) Demanding({"manage_users"},
           {"GET/attribute?access=manage", "POST/attribute", "GET/attribute/:key",
            "PUT/attribute/:key", "DELETE/attribute/:key", "GET/attribute/:key/permissions",
            "PUT/attribute/:key/permissions", "DELETE/attribute/:key/permissions"})

ServesQuickQueries ==
    Authorized({"GET/object/quick_query"})
    (+) Demanding({"personalize"}, {"POST/object/quick_query", "DELETE/quick_query/:id"})

\* A member may also be removed by an admin of the group: ByGroupAdmin.
ServesGroups ==
    Demanding({"manage_users"},
        {"GET/group", "GET/group/:name", "POST/group/:name", "PUT/group/:name",
         "DELETE/group/:name", "POST/group/:name/member/:login",
         "PUT/group/:name/member/:login", "DELETE/group/:name/member/:login"})
ByGroupAdmin == {"DELETE/group/:name/member/:login"}

ServesUsers ==
    Authorized({"GET/profile/:login"})
    (+) Demanding({"manage_users"},
           {"GET/user", "GET/user/:login", "POST/user/:login", "PUT/user/:login",
            "DELETE/user/:login", "POST/user/:login/pending", "DELETE/user/:login/pending",
            "POST/user/:login/request_password_change", "GET/user/:login/change_password"})

ServesRemotes ==
    Authorized({"GET/remote", "POST/remote/:remote/push/:type/:id"} \cup RemoteRequests)
    (+) Demanding({"adding_files"}, {"POST/remote/:remote/pull/file/:id"})
    (+) Demanding({"adding_configs"}, {"POST/remote/:remote/pull/config/:id"})
    (+) Demanding({"adding_blobs"}, {"POST/remote/:remote/pull/blob/:id"})

ServesKarton ==
    Authorized({"GET/object/:id/karton", "GET/object/:id/karton/:analysis"})
    (+) Demanding({"karton_reanalyze"}, {"POST/object/:id/karton"})
    (+) Demanding({"karton_unassign"}, {"DELETE/object/:id/karton/:analysis"})

ServesAccounts == ServesAuth (+) ServesApiKeys (+) ServesOAuth (+) ServesGroups (+) ServesUsers
ServesKinds == ServesObjects (+) ServesFiles (+) ServesConfigs (+) ServesBlobs (+) ServesChildren
ServesDetails ==
    ServesTags (+) ServesComments (+) ServesRelations (+) ServesShares (+) ServesAttributes
Server ==
    ServesServer (+) ServesAccounts (+) ServesKinds (+) ServesDetails (+) ServesQuickQueries
        (+) ServesRemotes (+) ServesKarton
=============================================================================
