--------------------------- MODULE Frontend_proofs ---------------------------
(***************************************************************************)
(* Proofs about the web frontend: Access and UploadForm.                   *)
(*                                                                         *)
(* Access, for every set of capabilities and every configuration: what a   *)
(* page offers, loads and links to is looked up in the tables of Api,      *)
(* view by view, from what the guards of the routes have seen to.          *)
(*                                                                         *)
(* UploadForm, for any groups, parents and number of submissions: what the *)
(* server stores is what the user saw.                                     *)
(***************************************************************************)
EXTENDS Access, UploadForm, TLAPS

-----------------------------------------------------------------------------
(* Tables *)

LEMMA TableDomain ==
    ASSUME NEW t, NEW u, NEW x
    PROVE  x \in DOMAIN (t (+) u) <=> x \in DOMAIN t \/ x \in DOMAIN u
  BY DEF (+)

LEMMA TableFirst == ASSUME NEW t, NEW u, NEW x \in DOMAIN t PROVE (t (+) u)[x] = t[x]
  BY DEF (+)

LEMMA TableSecond ==
    ASSUME NEW t, NEW u, NEW x \in DOMAIN u, x \notin DOMAIN t PROVE (t (+) u)[x] = u[x]
  BY DEF (+)

\* The tables of the calls have no name in common.
LEMMA CallTables ==
    ASSUME NEW call
    PROVE
      /\ call \in DOMAIN ServerCalls => call \in DOMAIN LocalApi
            /\ LocalApi[call] = ServerCalls[call]
      /\ call \in DOMAIN AuthCalls => call \in DOMAIN LocalApi
            /\ LocalApi[call] = AuthCalls[call]
      /\ call \in DOMAIN ObjectCalls => call \in DOMAIN LocalApi
            /\ LocalApi[call] = ObjectCalls[call]
      /\ call \in DOMAIN AccountCalls => call \in DOMAIN LocalApi
            /\ LocalApi[call] = AccountCalls[call]
      /\ call \in DOMAIN AttributeCalls => call \in DOMAIN LocalApi
            /\ LocalApi[call] = AttributeCalls[call]
      /\ call \in DOMAIN TransferCalls => call \in DOMAIN LocalApi
            /\ LocalApi[call] = TransferCalls[call]
      /\ call \in DOMAIN RemoteCalls => call \in DOMAIN LocalApi
            /\ LocalApi[call] = RemoteCalls[call]
      /\ call \in DOMAIN KartonCalls => call \in DOMAIN LocalApi
            /\ LocalApi[call] = KartonCalls[call]
<1>1. call \in DOMAIN ServerCalls => call \in DOMAIN LocalApi
      /\ LocalApi[call] = ServerCalls[call]
  BY TableDomain, TableFirst DEF LocalApi
<1>2. call \in DOMAIN AuthCalls => call \in DOMAIN LocalApi /\ LocalApi[call] = AuthCalls[call]
  <2>1. call \in DOMAIN AuthCalls => call \notin DOMAIN ServerCalls
    BY DEF ServerCalls, AuthCalls
  <2>2. QED
    BY <2>1, TableDomain, TableFirst, TableSecond DEF LocalApi
<1>3. call \in DOMAIN ObjectCalls => call \in DOMAIN LocalApi
      /\ LocalApi[call] = ObjectCalls[call]
  <2>1. call \in DOMAIN ObjectCalls => call \notin DOMAIN ServerCalls
        /\ call \notin DOMAIN AuthCalls
    BY DEF ServerCalls, AuthCalls, ObjectCalls
  <2>2. QED
    BY <2>1, TableDomain, TableFirst, TableSecond DEF LocalApi
<1>4. call \in DOMAIN AccountCalls => call \in DOMAIN LocalApi
      /\ LocalApi[call] = AccountCalls[call]
  <2>1. call \in DOMAIN AccountCalls => call \notin DOMAIN ServerCalls
        /\ call \notin DOMAIN AuthCalls /\ call \notin DOMAIN ObjectCalls
    BY DEF ServerCalls, AuthCalls, ObjectCalls, AccountCalls
  <2>2. QED
    BY <2>1, TableDomain, TableFirst, TableSecond DEF LocalApi
<1>5. call \in DOMAIN AttributeCalls => call \in DOMAIN LocalApi
      /\ LocalApi[call] = AttributeCalls[call]
  <2>1. call \in DOMAIN AttributeCalls => call \notin DOMAIN ServerCalls
        /\ call \notin DOMAIN AuthCalls /\ call \notin DOMAIN ObjectCalls
        /\ call \notin DOMAIN AccountCalls
    BY DEF ServerCalls, AuthCalls, ObjectCalls, AccountCalls, AttributeCalls
  <2>2. QED
    BY <2>1, TableDomain, TableFirst, TableSecond DEF LocalApi
<1>6. call \in DOMAIN TransferCalls => call \in DOMAIN LocalApi
      /\ LocalApi[call] = TransferCalls[call]
  <2>1. call \in DOMAIN TransferCalls => call \notin DOMAIN ServerCalls
        /\ call \notin DOMAIN AuthCalls /\ call \notin DOMAIN ObjectCalls
        /\ call \notin DOMAIN AccountCalls /\ call
          \notin DOMAIN AttributeCalls
    BY DEF ServerCalls, AuthCalls, ObjectCalls, AccountCalls, AttributeCalls, TransferCalls
  <2>2. QED
    BY <2>1, TableDomain, TableFirst, TableSecond DEF LocalApi
<1>7. call \in DOMAIN RemoteCalls => call \in DOMAIN LocalApi
      /\ LocalApi[call] = RemoteCalls[call]
  <2>1. call \in DOMAIN RemoteCalls => call \notin DOMAIN ServerCalls
        /\ call \notin DOMAIN AuthCalls /\ call \notin DOMAIN ObjectCalls
        /\ call \notin DOMAIN AccountCalls /\ call
          \notin DOMAIN AttributeCalls /\ call \notin DOMAIN TransferCalls
    BY DEF ServerCalls, AuthCalls, ObjectCalls, AccountCalls, AttributeCalls, TransferCalls,
           RemoteCalls
  <2>2. QED
    BY <2>1, TableDomain, TableFirst, TableSecond DEF LocalApi
<1>8. call \in DOMAIN KartonCalls => call \in DOMAIN LocalApi
      /\ LocalApi[call] = KartonCalls[call]
  <2>1. call \in DOMAIN KartonCalls => call \notin DOMAIN ServerCalls
        /\ call \notin DOMAIN AuthCalls /\ call \notin DOMAIN ObjectCalls
        /\ call \notin DOMAIN AccountCalls /\ call
          \notin DOMAIN AttributeCalls /\ call \notin DOMAIN TransferCalls
              /\ call \notin DOMAIN RemoteCalls
    BY DEF ServerCalls, AuthCalls, ObjectCalls, AccountCalls, AttributeCalls, TransferCalls,
           RemoteCalls, KartonCalls
  <2>2. QED
    BY <2>1, TableDomain, TableFirst, TableSecond DEF LocalApi
<1>9. QED
  BY <1>1, <1>2, <1>3, <1>4, <1>5, <1>6, <1>7, <1>8

LEMMA DemandingDomain == ASSUME NEW caps, NEW R, NEW r PROVE r \in DOMAIN Demanding(caps,
    R) <=> r \in R
  BY DEF Demanding
LEMMA OpenToAllDomain == ASSUME NEW R, NEW r PROVE r \in DOMAIN OpenToAll(R) <=> r \in R
  BY DEF OpenToAll

LEMMA DemandingEntry ==
    ASSUME NEW caps, NEW R, NEW r \in R
    PROVE  Demanding(caps, R)[r].login /\ Demanding(caps, R)[r].caps = caps
  BY DEF Demanding
LEMMA PublicEntry ==
    ASSUME NEW R, NEW r \in R PROVE ~OpenToAll(R)[r].login /\ OpenToAll(R)[r].caps = {}
  BY DEF OpenToAll

LEMMA RemoteRequestsAre ==
    RemoteRequests =
        {"GET/remote/:remote/api/object/:id", "GET/remote/:remote/api/object",
         "GET/remote/:remote/api/object/count", "GET/remote/:remote/api/object/:id/tag",
         "GET/remote/:remote/api/object/:id/comment",
         "GET/remote/:remote/api/object/:id/relations",
         "GET/remote/:remote/api/object/:id/share",
         "GET/remote/:remote/api/object/:id/attribute",
         "GET/remote/:remote/api/file/:id/download",
         "POST/remote/:remote/api/file/:id/download",
         "POST/remote/:remote/api/file/:id/download/zip"}
  BY DEF RemoteRequests, RemoteCalls

AccountRequests ==
    {"POST/auth/login", "POST/auth/register", "POST/auth/change_password",
     "POST/auth/recover_password", "POST/auth/refresh", "GET/auth/groups",
     "POST/auth/request_password_change", "POST/user/:login/api_key", "DELETE/api_key/:id",
     "GET/oauth", "POST/oauth/:provider/authenticate", "POST/oauth/:provider/callback",
     "POST/oauth/:provider/bind_account", "GET/oauth/identities",
     "GET/oauth/:provider/logout", "POST/oauth", "GET/oauth/:provider", "PUT/oauth/:provider",
     "DELETE/oauth/:provider", "GET/group", "GET/group/:name", "POST/group/:name",
     "PUT/group/:name", "DELETE/group/:name", "POST/group/:name/member/:login",
     "PUT/group/:name/member/:login", "DELETE/group/:name/member/:login",
     "GET/profile/:login", "GET/user", "GET/user/:login", "POST/user/:login",
     "PUT/user/:login", "DELETE/user/:login", "POST/user/:login/pending",
     "DELETE/user/:login/pending", "POST/user/:login/request_password_change",
     "GET/user/:login/change_password"}
KindRequests ==
    {"GET/object", "GET/object/:id", "GET/object/count", "DELETE/object/:id",
     "PUT/object/:id/favorite", "DELETE/object/:id/favorite",
     "PUT/object/:id/share_3rd_party", "POST/file", "GET/file/:id/download",
     "POST/file/:id/download", "POST/file/:id/download/zip", "POST/config",
     "GET/config/stats", "POST/blob", "POST/file?parent", "POST/config?parent",
     "POST/blob?parent"}
DetailRequests ==
    {"GET/tag", "GET/object/:id/tag", "PUT/object/:id/tag", "DELETE/object/:id/tag",
     "GET/object/:id/comment", "POST/object/:id/comment",
     "DELETE/object/:id/comment/:comment", "GET/object/:id/relations",
     "PUT/object/:id/child/:id", "DELETE/object/:id/child/:id", "GET/share",
     "GET/object/:id/share", "PUT/object/:id/share", "GET/attribute",
     "GET/object/:id/attribute", "POST/object/:id/attribute",
     "DELETE/object/:id/attribute/:attribute", "GET/attribute?access=manage",
     "POST/attribute", "GET/attribute/:key", "PUT/attribute/:key", "DELETE/attribute/:key",
     "GET/attribute/:key/permissions", "PUT/attribute/:key/permissions",
     "DELETE/attribute/:key/permissions"}

LEMMA AccountDomain == ASSUME NEW r, r \in DOMAIN ServesAccounts PROVE r \in AccountRequests
<1>1. r \in DOMAIN ServesAuth => r \in AccountRequests
  BY TableDomain, DemandingDomain, OpenToAllDomain DEF ServesAuth, Authorized, AccountRequests
<1>2. r \in DOMAIN ServesApiKeys => r \in AccountRequests
  BY TableDomain, DemandingDomain, OpenToAllDomain DEF ServesApiKeys, Authorized,
     AccountRequests
<1>3. r \in DOMAIN ServesOAuth => r \in AccountRequests
  BY TableDomain, DemandingDomain, OpenToAllDomain DEF ServesOAuth, Authorized, AccountRequests
<1>4. r \in DOMAIN ServesGroups => r \in AccountRequests
  BY TableDomain, DemandingDomain, OpenToAllDomain DEF ServesGroups, Authorized, AccountRequests
<1>5. r \in DOMAIN ServesUsers => r \in AccountRequests
  BY TableDomain, DemandingDomain, OpenToAllDomain DEF ServesUsers, Authorized, AccountRequests
<1>6. QED
  BY <1>1, <1>2, <1>3, <1>4, <1>5, TableDomain DEF ServesAccounts

LEMMA KindDomain == ASSUME NEW r, r \in DOMAIN ServesKinds PROVE r \in KindRequests
<1>1. r \in DOMAIN ServesObjects => r \in KindRequests
  BY TableDomain, DemandingDomain, OpenToAllDomain DEF ServesObjects, Authorized, KindRequests
<1>2. r \in DOMAIN ServesFiles => r \in KindRequests
  BY TableDomain, DemandingDomain, OpenToAllDomain DEF ServesFiles, Authorized, KindRequests
<1>3. r \in DOMAIN ServesConfigs => r \in KindRequests
  BY TableDomain, DemandingDomain, OpenToAllDomain DEF ServesConfigs, Authorized, KindRequests
<1>4. r \in DOMAIN ServesBlobs => r \in KindRequests
  BY TableDomain, DemandingDomain, OpenToAllDomain DEF ServesBlobs, Authorized, KindRequests
<1>5. r \in DOMAIN ServesChildren => r \in KindRequests
  BY TableDomain, DemandingDomain, OpenToAllDomain DEF ServesChildren, Authorized, KindRequests
<1>6. QED
  BY <1>1, <1>2, <1>3, <1>4, <1>5, TableDomain DEF ServesKinds

LEMMA DetailDomain == ASSUME NEW r, r \in DOMAIN ServesDetails PROVE r \in DetailRequests
<1>1. r \in DOMAIN ServesTags => r \in DetailRequests
  BY TableDomain, DemandingDomain, OpenToAllDomain DEF ServesTags, Authorized, DetailRequests
<1>2. r \in DOMAIN ServesComments => r \in DetailRequests
  BY TableDomain, DemandingDomain, OpenToAllDomain DEF ServesComments, Authorized,
     DetailRequests
<1>3. r \in DOMAIN ServesRelations => r \in DetailRequests
  BY TableDomain, DemandingDomain, OpenToAllDomain DEF ServesRelations, Authorized,
     DetailRequests
<1>4. r \in DOMAIN ServesShares => r \in DetailRequests
  BY TableDomain, DemandingDomain, OpenToAllDomain DEF ServesShares, Authorized, DetailRequests
<1>5. r \in DOMAIN ServesAttributes => r \in DetailRequests
  BY TableDomain, DemandingDomain, OpenToAllDomain DEF ServesAttributes, Authorized,
     DetailRequests
<1>6. QED
  BY <1>1, <1>2, <1>3, <1>4, <1>5, TableDomain DEF ServesDetails


\* Nor have the tables of the server a request in common.
LEMMA AccountTables ==
    ASSUME NEW r
    PROVE
      /\ r \in DOMAIN ServesAuth => r \in DOMAIN ServesAccounts
            /\ ServesAccounts[r] = ServesAuth[r]
      /\ r \in DOMAIN ServesApiKeys => r \in DOMAIN ServesAccounts
            /\ ServesAccounts[r] = ServesApiKeys[r]
      /\ r \in DOMAIN ServesOAuth => r \in DOMAIN ServesAccounts
            /\ ServesAccounts[r] = ServesOAuth[r]
      /\ r \in DOMAIN ServesGroups => r \in DOMAIN ServesAccounts
            /\ ServesAccounts[r] = ServesGroups[r]
      /\ r \in DOMAIN ServesUsers => r \in DOMAIN ServesAccounts
            /\ ServesAccounts[r] = ServesUsers[r]
<1>1. r \in DOMAIN ServesAuth => r \in DOMAIN ServesAccounts
      /\ ServesAccounts[r] = ServesAuth[r]
  BY TableDomain, TableFirst DEF ServesAccounts
<1>2. r \in DOMAIN ServesApiKeys => r \in DOMAIN ServesAccounts
      /\ ServesAccounts[r] = ServesApiKeys[r]
  <2>1. r \in DOMAIN ServesApiKeys => r \notin DOMAIN ServesAuth
    BY TableDomain, DemandingDomain, OpenToAllDomain DEF ServesAuth, ServesApiKeys, Authorized
  <2>2. QED
    BY <2>1, TableDomain, TableFirst, TableSecond DEF ServesAccounts
<1>3. r \in DOMAIN ServesOAuth => r \in DOMAIN ServesAccounts
      /\ ServesAccounts[r] = ServesOAuth[r]
  <2>1. r \in DOMAIN ServesOAuth => r \notin DOMAIN ServesAuth /\ r \notin DOMAIN ServesApiKeys
    BY TableDomain, DemandingDomain, OpenToAllDomain DEF ServesAuth, ServesApiKeys, ServesOAuth,
           Authorized
  <2>2. QED
    BY <2>1, TableDomain, TableFirst, TableSecond DEF ServesAccounts
<1>4. r \in DOMAIN ServesGroups => r \in DOMAIN ServesAccounts
      /\ ServesAccounts[r] = ServesGroups[r]
  <2>1. r \in DOMAIN ServesGroups => r \notin DOMAIN ServesAuth /\ r \notin DOMAIN ServesApiKeys
          /\ r \notin DOMAIN ServesOAuth
    BY TableDomain, DemandingDomain, OpenToAllDomain DEF ServesAuth, ServesApiKeys, ServesOAuth,
           ServesGroups, Authorized
  <2>2. QED
    BY <2>1, TableDomain, TableFirst, TableSecond DEF ServesAccounts
<1>5. r \in DOMAIN ServesUsers => r \in DOMAIN ServesAccounts
      /\ ServesAccounts[r] = ServesUsers[r]
  <2>1. r \in DOMAIN ServesUsers => r \notin DOMAIN ServesAuth /\ r \notin DOMAIN ServesApiKeys
          /\ r \notin DOMAIN ServesOAuth /\ r \notin DOMAIN ServesGroups
    BY TableDomain, DemandingDomain, OpenToAllDomain DEF ServesAuth, ServesApiKeys, ServesOAuth,
           ServesGroups, ServesUsers, Authorized
  <2>2. QED
    BY <2>1, TableDomain, TableFirst, TableSecond DEF ServesAccounts
<1>6. QED
  BY <1>1, <1>2, <1>3, <1>4, <1>5

LEMMA KindTables ==
    ASSUME NEW r
    PROVE
      /\ r \in DOMAIN ServesObjects => r \in DOMAIN ServesKinds
            /\ ServesKinds[r] = ServesObjects[r]
      /\ r \in DOMAIN ServesFiles => r \in DOMAIN ServesKinds /\ ServesKinds[r] = ServesFiles[r]
      /\ r \in DOMAIN ServesConfigs => r \in DOMAIN ServesKinds
            /\ ServesKinds[r] = ServesConfigs[r]
      /\ r \in DOMAIN ServesBlobs => r \in DOMAIN ServesKinds /\ ServesKinds[r] = ServesBlobs[r]
      /\ r \in DOMAIN ServesChildren => r \in DOMAIN ServesKinds
            /\ ServesKinds[r] = ServesChildren[r]
<1>1. r \in DOMAIN ServesObjects => r \in DOMAIN ServesKinds
      /\ ServesKinds[r] = ServesObjects[r]
  BY TableDomain, TableFirst DEF ServesKinds
<1>2. r \in DOMAIN ServesFiles => r \in DOMAIN ServesKinds /\ ServesKinds[r] = ServesFiles[r]
  <2>1. r \in DOMAIN ServesFiles => r \notin DOMAIN ServesObjects
    BY TableDomain, DemandingDomain, OpenToAllDomain DEF ServesObjects, ServesFiles, Authorized
  <2>2. QED
    BY <2>1, TableDomain, TableFirst, TableSecond DEF ServesKinds
<1>3. r \in DOMAIN ServesConfigs => r \in DOMAIN ServesKinds
      /\ ServesKinds[r] = ServesConfigs[r]
  <2>1. r \in DOMAIN ServesConfigs => r \notin DOMAIN ServesObjects
        /\ r \notin DOMAIN ServesFiles
    BY TableDomain, DemandingDomain, OpenToAllDomain DEF ServesObjects, ServesFiles,
       ServesConfigs,
           Authorized
  <2>2. QED
    BY <2>1, TableDomain, TableFirst, TableSecond DEF ServesKinds
<1>4. r \in DOMAIN ServesBlobs => r \in DOMAIN ServesKinds /\ ServesKinds[r] = ServesBlobs[r]
  <2>1. r \in DOMAIN ServesBlobs => r \notin DOMAIN ServesObjects /\ r \notin DOMAIN ServesFiles
          /\ r \notin DOMAIN ServesConfigs
    BY TableDomain, DemandingDomain, OpenToAllDomain DEF ServesObjects, ServesFiles,
       ServesConfigs,
           ServesBlobs, Authorized
  <2>2. QED
    BY <2>1, TableDomain, TableFirst, TableSecond DEF ServesKinds
<1>5. r \in DOMAIN ServesChildren => r \in DOMAIN ServesKinds
      /\ ServesKinds[r] = ServesChildren[r]
  <2>1. r \in DOMAIN ServesChildren => r \notin DOMAIN ServesObjects
        /\ r \notin DOMAIN ServesFiles /\ r \notin DOMAIN ServesConfigs
        /\ r \notin DOMAIN ServesBlobs
    BY TableDomain, DemandingDomain, OpenToAllDomain DEF ServesObjects, ServesFiles,
       ServesConfigs,
           ServesBlobs, ServesChildren, Authorized
  <2>2. QED
    BY <2>1, TableDomain, TableFirst, TableSecond DEF ServesKinds
<1>6. QED
  BY <1>1, <1>2, <1>3, <1>4, <1>5

LEMMA DetailTables ==
    ASSUME NEW r
    PROVE
      /\ r \in DOMAIN ServesTags => r \in DOMAIN ServesDetails
            /\ ServesDetails[r] = ServesTags[r]
      /\ r \in DOMAIN ServesComments => r \in DOMAIN ServesDetails
            /\ ServesDetails[r] = ServesComments[r]
      /\ r \in DOMAIN ServesRelations => r \in DOMAIN ServesDetails
            /\ ServesDetails[r] = ServesRelations[r]
      /\ r \in DOMAIN ServesShares => r \in DOMAIN ServesDetails
            /\ ServesDetails[r] = ServesShares[r]
      /\ r \in DOMAIN ServesAttributes => r \in DOMAIN ServesDetails
            /\ ServesDetails[r] = ServesAttributes[r]
<1>1. r \in DOMAIN ServesTags => r \in DOMAIN ServesDetails /\ ServesDetails[r] = ServesTags[r]
  BY TableDomain, TableFirst DEF ServesDetails
<1>2. r \in DOMAIN ServesComments => r \in DOMAIN ServesDetails
      /\ ServesDetails[r] = ServesComments[r]
  <2>1. r \in DOMAIN ServesComments => r \notin DOMAIN ServesTags
    BY TableDomain, DemandingDomain, OpenToAllDomain DEF ServesTags, ServesComments, Authorized
  <2>2. QED
    BY <2>1, TableDomain, TableFirst, TableSecond DEF ServesDetails
<1>3. r \in DOMAIN ServesRelations => r \in DOMAIN ServesDetails
      /\ ServesDetails[r] = ServesRelations[r]
  <2>1. r \in DOMAIN ServesRelations => r \notin DOMAIN ServesTags
        /\ r \notin DOMAIN ServesComments
    BY TableDomain, DemandingDomain, OpenToAllDomain DEF ServesTags, ServesComments,
           ServesRelations, Authorized
  <2>2. QED
    BY <2>1, TableDomain, TableFirst, TableSecond DEF ServesDetails
<1>4. r \in DOMAIN ServesShares => r \in DOMAIN ServesDetails
      /\ ServesDetails[r] = ServesShares[r]
  <2>1. r \in DOMAIN ServesShares => r \notin DOMAIN ServesTags
        /\ r \notin DOMAIN ServesComments /\ r \notin DOMAIN ServesRelations
    BY TableDomain, DemandingDomain, OpenToAllDomain DEF ServesTags, ServesComments,
           ServesRelations, ServesShares, Authorized
  <2>2. QED
    BY <2>1, TableDomain, TableFirst, TableSecond DEF ServesDetails
<1>5. r \in DOMAIN ServesAttributes => r \in DOMAIN ServesDetails
      /\ ServesDetails[r] = ServesAttributes[r]
  <2>1. r \in DOMAIN ServesAttributes => r \notin DOMAIN ServesTags
        /\ r \notin DOMAIN ServesComments /\ r \notin DOMAIN ServesRelations
        /\ r \notin DOMAIN ServesShares
    BY TableDomain, DemandingDomain, OpenToAllDomain DEF ServesTags, ServesComments,
           ServesRelations, ServesShares, ServesAttributes, Authorized
  <2>2. QED
    BY <2>1, TableDomain, TableFirst, TableSecond DEF ServesDetails
<1>6. QED
  BY <1>1, <1>2, <1>3, <1>4, <1>5

LEMMA ServerTables ==
    ASSUME NEW r
    PROVE
      /\ r \in DOMAIN ServesServer => r \in DOMAIN Server /\ Server[r] = ServesServer[r]
      /\ r \in DOMAIN ServesAccounts => r \in DOMAIN Server /\ Server[r] = ServesAccounts[r]
      /\ r \in DOMAIN ServesKinds => r \in DOMAIN Server /\ Server[r] = ServesKinds[r]
      /\ r \in DOMAIN ServesDetails => r \in DOMAIN Server /\ Server[r] = ServesDetails[r]
      /\ r \in DOMAIN ServesQuickQueries => r \in DOMAIN Server
            /\ Server[r] = ServesQuickQueries[r]
      /\ r \in DOMAIN ServesRemotes => r \in DOMAIN Server /\ Server[r] = ServesRemotes[r]
      /\ r \in DOMAIN ServesKarton => r \in DOMAIN Server /\ Server[r] = ServesKarton[r]
<1>1. r \in DOMAIN ServesServer => r \in DOMAIN Server /\ Server[r] = ServesServer[r]
  BY TableDomain, TableFirst DEF Server
<1>2. r \in DOMAIN ServesAccounts => r \in DOMAIN Server /\ Server[r] = ServesAccounts[r]
  <2>1. r \in DOMAIN ServesAccounts => r \notin DOMAIN ServesServer
    BY AccountDomain, TableDomain, DemandingDomain, OpenToAllDomain DEF ServesServer,
           AccountRequests, Authorized
  <2>2. QED
    BY <2>1, TableDomain, TableFirst, TableSecond
       DEF Server
<1>3. r \in DOMAIN ServesKinds => r \in DOMAIN Server /\ Server[r] = ServesKinds[r]
  <2>1. r \in DOMAIN ServesKinds => r \notin DOMAIN ServesServer
    BY KindDomain, TableDomain, DemandingDomain, OpenToAllDomain DEF ServesServer, KindRequests,
           Authorized
  <2>2. r \in DOMAIN ServesKinds => r \notin DOMAIN ServesAccounts
    BY AccountDomain, KindDomain DEF AccountRequests, KindRequests
  <2>3. QED
    BY <2>1, <2>2, TableDomain, TableFirst, TableSecond
       DEF Server
<1>4. r \in DOMAIN ServesDetails => r \in DOMAIN Server /\ Server[r] = ServesDetails[r]
  <2>1. r \in DOMAIN ServesDetails => r \notin DOMAIN ServesServer
    BY DetailDomain, TableDomain, DemandingDomain, OpenToAllDomain DEF ServesServer,
           DetailRequests, Authorized
  <2>2. r \in DOMAIN ServesDetails => r \notin DOMAIN ServesAccounts
    BY AccountDomain, DetailDomain DEF AccountRequests, DetailRequests
  <2>3. r \in DOMAIN ServesDetails => r \notin DOMAIN ServesKinds
    BY KindDomain, DetailDomain DEF KindRequests, DetailRequests
  <2>4. QED
    BY <2>1, <2>2, <2>3, TableDomain, TableFirst, TableSecond
       DEF Server
<1>5. r \in DOMAIN ServesQuickQueries => r \in DOMAIN Server
      /\ Server[r] = ServesQuickQueries[r]
  <2>1. r \in DOMAIN ServesQuickQueries => r \notin DOMAIN ServesServer
    BY TableDomain, DemandingDomain, OpenToAllDomain DEF ServesServer, ServesQuickQueries,
           Authorized
  <2>2. r \in DOMAIN ServesQuickQueries => r \notin DOMAIN ServesAccounts
    BY AccountDomain, TableDomain, DemandingDomain, OpenToAllDomain DEF AccountRequests,
           ServesQuickQueries, Authorized
  <2>3. r \in DOMAIN ServesQuickQueries => r \notin DOMAIN ServesKinds
    BY KindDomain, TableDomain, DemandingDomain, OpenToAllDomain DEF KindRequests,
           ServesQuickQueries, Authorized
  <2>4. r \in DOMAIN ServesQuickQueries => r \notin DOMAIN ServesDetails
    BY DetailDomain, TableDomain, DemandingDomain, OpenToAllDomain DEF DetailRequests,
           ServesQuickQueries, Authorized
  <2>5. QED
    BY <2>1, <2>2, <2>3, <2>4, TableDomain, TableFirst, TableSecond
       DEF Server
<1>6. r \in DOMAIN ServesRemotes => r \in DOMAIN Server /\ Server[r] = ServesRemotes[r]
  <2>1. r \in DOMAIN ServesRemotes => r \notin DOMAIN ServesServer
    BY TableDomain, DemandingDomain, OpenToAllDomain, RemoteRequestsAre DEF ServesServer,
           ServesRemotes, Authorized
  <2>2. r \in DOMAIN ServesRemotes => r \notin DOMAIN ServesAccounts
    BY AccountDomain, TableDomain, DemandingDomain, OpenToAllDomain, RemoteRequestsAre DEF
           AccountRequests, ServesRemotes, Authorized
  <2>3. r \in DOMAIN ServesRemotes => r \notin DOMAIN ServesKinds
    BY KindDomain, TableDomain, DemandingDomain, OpenToAllDomain, RemoteRequestsAre DEF
           KindRequests, ServesRemotes, Authorized
  <2>4. r \in DOMAIN ServesRemotes => r \notin DOMAIN ServesDetails
    BY DetailDomain, TableDomain, DemandingDomain, OpenToAllDomain, RemoteRequestsAre DEF
           DetailRequests, ServesRemotes, Authorized
  <2>5. r \in DOMAIN ServesRemotes => r \notin DOMAIN ServesQuickQueries
    BY TableDomain, DemandingDomain, OpenToAllDomain, RemoteRequestsAre DEF ServesQuickQueries,
           ServesRemotes, Authorized
  <2>6. QED
    BY <2>1, <2>2, <2>3, <2>4, <2>5, TableDomain, TableFirst, TableSecond
       DEF Server
<1>7. r \in DOMAIN ServesKarton => r \in DOMAIN Server /\ Server[r] = ServesKarton[r]
  <2>1. r \in DOMAIN ServesKarton => r \notin DOMAIN ServesServer
    BY TableDomain, DemandingDomain, OpenToAllDomain DEF ServesServer, ServesKarton, Authorized
  <2>2. r \in DOMAIN ServesKarton => r \notin DOMAIN ServesAccounts
    BY AccountDomain, TableDomain, DemandingDomain, OpenToAllDomain DEF AccountRequests,
           ServesKarton, Authorized
  <2>3. r \in DOMAIN ServesKarton => r \notin DOMAIN ServesKinds
    BY KindDomain, TableDomain, DemandingDomain, OpenToAllDomain DEF KindRequests, ServesKarton,
           Authorized
  <2>4. r \in DOMAIN ServesKarton => r \notin DOMAIN ServesDetails
    BY DetailDomain, TableDomain, DemandingDomain, OpenToAllDomain DEF DetailRequests,
           ServesKarton, Authorized
  <2>5. r \in DOMAIN ServesKarton => r \notin DOMAIN ServesQuickQueries
    BY TableDomain, DemandingDomain, OpenToAllDomain DEF ServesQuickQueries, ServesKarton,
           Authorized
  <2>6. r \in DOMAIN ServesKarton => r \notin DOMAIN ServesRemotes
    BY TableDomain, DemandingDomain, OpenToAllDomain, RemoteRequestsAre DEF ServesRemotes,
           ServesKarton, Authorized
  <2>7. QED
    BY <2>1, <2>2, <2>3, <2>4, <2>5, <2>6, TableDomain, TableFirst, TableSecond
       DEF Server
<1>8. QED
  BY <1>1, <1>2, <1>3, <1>4, <1>5, <1>6, <1>7

(* What the server demands *)

LEMMA ServerEntries ==
    /\ \A r \in {"GET/server"} :
         r \in DOMAIN ServesServer /\ ~ServesServer[r].login /\ ServesServer[r].caps = {}
    /\ \A r \in {"GET/docs"} :
         r \in DOMAIN ServesServer /\ ServesServer[r].login /\ ServesServer[r].caps = {}
    /\ \A r \in {"GET/server/admin"} :
         r \in DOMAIN ServesServer /\ ServesServer[r].login
             /\ ServesServer[r].caps = {"manage_users"}
  BY TableDomain, TableFirst, TableSecond, DemandingDomain, DemandingEntry, OpenToAllDomain,
     PublicEntry DEF ServesServer, Authorized

LEMMA AuthEntries ==
    /\ \A r \in {"POST/auth/login", "POST/auth/register", "POST/auth/change_password",
          "POST/auth/recover_password"} :
         r \in DOMAIN ServesAuth /\ ~ServesAuth[r].login /\ ServesAuth[r].caps = {}
    /\ \A r \in {"POST/auth/refresh", "GET/auth/groups"} :
         r \in DOMAIN ServesAuth /\ ServesAuth[r].login /\ ServesAuth[r].caps = {}
    /\ \A r \in {"POST/auth/request_password_change"} :
         r \in DOMAIN ServesAuth /\ ServesAuth[r].login
             /\ ServesAuth[r].caps = {"manage_profile"}
  BY TableDomain, TableFirst, TableSecond, DemandingDomain, DemandingEntry, OpenToAllDomain,
     PublicEntry DEF ServesAuth, Authorized

LEMMA ApiKeysEntries ==
    /\ \A r \in {"POST/user/:login/api_key", "DELETE/api_key/:id"} :
         r \in DOMAIN ServesApiKeys /\ ServesApiKeys[r].login
             /\ ServesApiKeys[r].caps = {"manage_profile"}
  BY TableDomain, TableFirst, TableSecond, DemandingDomain, DemandingEntry, OpenToAllDomain,
     PublicEntry DEF ServesApiKeys, Authorized

LEMMA OAuthEntries ==
    /\ \A r \in {"GET/oauth", "POST/oauth/:provider/authenticate",
          "POST/oauth/:provider/callback"} :
         r \in DOMAIN ServesOAuth /\ ~ServesOAuth[r].login /\ ServesOAuth[r].caps = {}
    /\ \A r \in {"POST/oauth/:provider/bind_account", "GET/oauth/identities",
          "GET/oauth/:provider/logout"} :
         r \in DOMAIN ServesOAuth /\ ServesOAuth[r].login /\ ServesOAuth[r].caps = {}
    /\ \A r \in {"POST/oauth", "GET/oauth/:provider", "PUT/oauth/:provider",
          "DELETE/oauth/:provider"} :
         r \in DOMAIN ServesOAuth /\ ServesOAuth[r].login
             /\ ServesOAuth[r].caps = {"manage_users"}
  BY TableDomain, TableFirst, TableSecond, DemandingDomain, DemandingEntry, OpenToAllDomain,
     PublicEntry DEF ServesOAuth, Authorized

LEMMA ObjectsEntries ==
    /\ \A r \in {"GET/object", "GET/object/:id", "GET/object/count"} :
         r \in DOMAIN ServesObjects /\ ServesObjects[r].login /\ ServesObjects[r].caps = {}
    /\ \A r \in {"DELETE/object/:id"} :
         r \in DOMAIN ServesObjects /\ ServesObjects[r].login
             /\ ServesObjects[r].caps = {"removing_objects"}
    /\ \A r \in {"PUT/object/:id/favorite", "DELETE/object/:id/favorite"} :
         r \in DOMAIN ServesObjects /\ ServesObjects[r].login
             /\ ServesObjects[r].caps = {"personalize"}
    /\ \A r \in {"PUT/object/:id/share_3rd_party"} :
         r \in DOMAIN ServesObjects /\ ServesObjects[r].login
             /\ ServesObjects[r].caps = {"modify_3rd_party_sharing"}
  BY TableDomain, TableFirst, TableSecond, DemandingDomain, DemandingEntry, OpenToAllDomain,
     PublicEntry DEF ServesObjects, Authorized

LEMMA FilesEntries ==
    /\ \A r \in {"POST/file"} :
         r \in DOMAIN ServesFiles /\ ServesFiles[r].login
             /\ ServesFiles[r].caps = {"adding_files"}
    /\ \A r \in {"GET/file/:id/download", "POST/file/:id/download",
          "POST/file/:id/download/zip"} :
         r \in DOMAIN ServesFiles /\ ServesFiles[r].login /\ ServesFiles[r].caps = {}
  BY TableDomain, TableFirst, TableSecond, DemandingDomain, DemandingEntry, OpenToAllDomain,
     PublicEntry DEF ServesFiles, Authorized

LEMMA ConfigsEntries ==
    /\ \A r \in {"POST/config"} :
         r \in DOMAIN ServesConfigs /\ ServesConfigs[r].login
             /\ ServesConfigs[r].caps = {"adding_configs"}
    /\ \A r \in {"GET/config/stats"} :
         r \in DOMAIN ServesConfigs /\ ServesConfigs[r].login /\ ServesConfigs[r].caps = {}
  BY TableDomain, TableFirst, TableSecond, DemandingDomain, DemandingEntry, OpenToAllDomain,
     PublicEntry DEF ServesConfigs, Authorized

LEMMA BlobsEntries ==
    /\ \A r \in {"POST/blob"} :
         r \in DOMAIN ServesBlobs /\ ServesBlobs[r].login
             /\ ServesBlobs[r].caps = {"adding_blobs"}
  BY TableDomain, TableFirst, TableSecond, DemandingDomain, DemandingEntry, OpenToAllDomain,
     PublicEntry DEF ServesBlobs, Authorized

LEMMA ChildrenEntries ==
    /\ \A r \in {"POST/file?parent"} :
         r \in DOMAIN ServesChildren /\ ServesChildren[r].login
             /\ ServesChildren[r].caps = {"adding_files", "adding_parents"}
    /\ \A r \in {"POST/config?parent"} :
         r \in DOMAIN ServesChildren /\ ServesChildren[r].login
             /\ ServesChildren[r].caps = {"adding_configs", "adding_parents"}
    /\ \A r \in {"POST/blob?parent"} :
         r \in DOMAIN ServesChildren /\ ServesChildren[r].login
             /\ ServesChildren[r].caps = {"adding_blobs", "adding_parents"}
  BY TableDomain, TableFirst, TableSecond, DemandingDomain, DemandingEntry, OpenToAllDomain,
     PublicEntry DEF ServesChildren, Authorized

LEMMA TagsEntries ==
    /\ \A r \in {"GET/tag", "GET/object/:id/tag"} :
         r \in DOMAIN ServesTags /\ ServesTags[r].login /\ ServesTags[r].caps = {}
    /\ \A r \in {"PUT/object/:id/tag"} :
         r \in DOMAIN ServesTags /\ ServesTags[r].login /\ ServesTags[r].caps = {"adding_tags"}
    /\ \A r \in {"DELETE/object/:id/tag"} :
         r \in DOMAIN ServesTags /\ ServesTags[r].login
             /\ ServesTags[r].caps = {"removing_tags"}
  BY TableDomain, TableFirst, TableSecond, DemandingDomain, DemandingEntry, OpenToAllDomain,
     PublicEntry DEF ServesTags, Authorized

LEMMA CommentsEntries ==
    /\ \A r \in {"GET/object/:id/comment"} :
         r \in DOMAIN ServesComments /\ ServesComments[r].login /\ ServesComments[r].caps = {}
    /\ \A r \in {"POST/object/:id/comment"} :
         r \in DOMAIN ServesComments /\ ServesComments[r].login
             /\ ServesComments[r].caps = {"adding_comments"}
    /\ \A r \in {"DELETE/object/:id/comment/:comment"} :
         r \in DOMAIN ServesComments /\ ServesComments[r].login
             /\ ServesComments[r].caps = {"removing_comments"}
  BY TableDomain, TableFirst, TableSecond, DemandingDomain, DemandingEntry, OpenToAllDomain,
     PublicEntry DEF ServesComments, Authorized

LEMMA RelationsEntries ==
    /\ \A r \in {"GET/object/:id/relations"} :
         r \in DOMAIN ServesRelations /\ ServesRelations[r].login
             /\ ServesRelations[r].caps = {}
    /\ \A r \in {"PUT/object/:id/child/:id"} :
         r \in DOMAIN ServesRelations /\ ServesRelations[r].login
             /\ ServesRelations[r].caps = {"adding_parents"}
    /\ \A r \in {"DELETE/object/:id/child/:id"} :
         r \in DOMAIN ServesRelations /\ ServesRelations[r].login
             /\ ServesRelations[r].caps = {"removing_parents"}
  BY TableDomain, TableFirst, TableSecond, DemandingDomain, DemandingEntry, OpenToAllDomain,
     PublicEntry DEF ServesRelations, Authorized

LEMMA SharesEntries ==
    /\ \A r \in {"GET/share", "GET/object/:id/share", "PUT/object/:id/share"} :
         r \in DOMAIN ServesShares /\ ServesShares[r].login /\ ServesShares[r].caps = {}
  BY TableDomain, TableFirst, TableSecond, DemandingDomain, DemandingEntry, OpenToAllDomain,
     PublicEntry DEF ServesShares, Authorized

LEMMA AttributesEntries ==
    /\ \A r \in {"GET/attribute", "GET/object/:id/attribute", "POST/object/:id/attribute"} :
         r \in DOMAIN ServesAttributes /\ ServesAttributes[r].login
             /\ ServesAttributes[r].caps = {}
    /\ \A r \in {"DELETE/object/:id/attribute/:attribute"} :
         r \in DOMAIN ServesAttributes /\ ServesAttributes[r].login
             /\ ServesAttributes[r].caps = {"removing_attributes"}
    /\ \A r \in {"GET/attribute?access=manage", "POST/attribute", "GET/attribute/:key",
          "PUT/attribute/:key", "DELETE/attribute/:key", "GET/attribute/:key/permissions",
          "PUT/attribute/:key/permissions", "DELETE/attribute/:key/permissions"} :
         r \in DOMAIN ServesAttributes /\ ServesAttributes[r].login
             /\ ServesAttributes[r].caps = {"manage_users"}
  BY TableDomain, TableFirst, TableSecond, DemandingDomain, DemandingEntry, OpenToAllDomain,
     PublicEntry DEF ServesAttributes, Authorized

LEMMA QuickQueriesEntries ==
    /\ \A r \in {"GET/object/quick_query"} :
         r \in DOMAIN ServesQuickQueries /\ ServesQuickQueries[r].login
             /\ ServesQuickQueries[r].caps = {}
    /\ \A r \in {"POST/object/quick_query", "DELETE/quick_query/:id"} :
         r \in DOMAIN ServesQuickQueries /\ ServesQuickQueries[r].login
             /\ ServesQuickQueries[r].caps = {"personalize"}
  BY TableDomain, TableFirst, TableSecond, DemandingDomain, DemandingEntry, OpenToAllDomain,
     PublicEntry DEF ServesQuickQueries, Authorized

LEMMA GroupsEntries ==
    /\ \A r \in {"GET/group", "GET/group/:name", "POST/group/:name", "PUT/group/:name",
          "DELETE/group/:name", "POST/group/:name/member/:login",
          "PUT/group/:name/member/:login", "DELETE/group/:name/member/:login"} :
         r \in DOMAIN ServesGroups /\ ServesGroups[r].login
             /\ ServesGroups[r].caps = {"manage_users"}
  BY TableDomain, TableFirst, TableSecond, DemandingDomain, DemandingEntry, OpenToAllDomain,
     PublicEntry DEF ServesGroups, Authorized

LEMMA UsersEntries ==
    /\ \A r \in {"GET/profile/:login"} :
         r \in DOMAIN ServesUsers /\ ServesUsers[r].login /\ ServesUsers[r].caps = {}
    /\ \A r \in {"GET/user", "GET/user/:login", "POST/user/:login", "PUT/user/:login",
          "DELETE/user/:login", "POST/user/:login/pending", "DELETE/user/:login/pending",
          "POST/user/:login/request_password_change", "GET/user/:login/change_password"} :
         r \in DOMAIN ServesUsers /\ ServesUsers[r].login
             /\ ServesUsers[r].caps = {"manage_users"}
  BY TableDomain, TableFirst, TableSecond, DemandingDomain, DemandingEntry, OpenToAllDomain,
     PublicEntry DEF ServesUsers, Authorized

LEMMA RemotesEntries ==
    /\ \A r \in {"GET/remote", "POST/remote/:remote/push/:type/:id"} \cup RemoteRequests :
         r \in DOMAIN ServesRemotes /\ ServesRemotes[r].login /\ ServesRemotes[r].caps = {}
    /\ \A r \in {"POST/remote/:remote/pull/file/:id"} :
         r \in DOMAIN ServesRemotes /\ ServesRemotes[r].login
             /\ ServesRemotes[r].caps = {"adding_files"}
    /\ \A r \in {"POST/remote/:remote/pull/config/:id"} :
         r \in DOMAIN ServesRemotes /\ ServesRemotes[r].login
             /\ ServesRemotes[r].caps = {"adding_configs"}
    /\ \A r \in {"POST/remote/:remote/pull/blob/:id"} :
         r \in DOMAIN ServesRemotes /\ ServesRemotes[r].login
             /\ ServesRemotes[r].caps = {"adding_blobs"}
  BY TableDomain, TableFirst, TableSecond, DemandingDomain, DemandingEntry, OpenToAllDomain,
     PublicEntry, RemoteRequestsAre DEF ServesRemotes, Authorized

LEMMA KartonEntries ==
    /\ \A r \in {"GET/object/:id/karton", "GET/object/:id/karton/:analysis"} :
         r \in DOMAIN ServesKarton /\ ServesKarton[r].login /\ ServesKarton[r].caps = {}
    /\ \A r \in {"POST/object/:id/karton"} :
         r \in DOMAIN ServesKarton /\ ServesKarton[r].login
             /\ ServesKarton[r].caps = {"karton_reanalyze"}
    /\ \A r \in {"DELETE/object/:id/karton/:analysis"} :
         r \in DOMAIN ServesKarton /\ ServesKarton[r].login
             /\ ServesKarton[r].caps = {"karton_unassign"}
  BY TableDomain, TableFirst, TableSecond, DemandingDomain, DemandingEntry, OpenToAllDomain,
     PublicEntry DEF ServesKarton, Authorized

(* What the calls demand of the user *)

OpenCalls == {"getServerInfo", "authLogin", "authSetPassword", "authRecoverPassword",
    "oauthAuthenticate", "oauthCallback", "oauthGetProviders", "registerUser"}
FreeCalls == {"getServerDocs", "authRefresh", "authGroups", "oauthBind", "oauthGetIdentities",
    "oauthGetLogoutLink", "getObject", "getObjectList", "getObjectCount", "getTags",
    "getShareInfo", "getObjectTags", "getObjectComments", "getObjectRelations",
    "getObjectShares", "getObjectAttributes", "addObjectAttribute", "shareObjectWith",
    "getQuickQueries", "getUserProfile", "readAttributeDefinitions", "setAttributeDefinitions",
    "downloadFile", "requestFileDownloadLink", "requestZipFileDownloadLink", "getRemoteNames",
    "pushObjectRemote", "getConfigStats", "getRemoteObject", "getRemoteObjectList",
    "getRemoteObjectCount", "getRemoteObjectTags", "getRemoteObjectComments",
    "getRemoteObjectRelations", "getRemoteObjectShares", "getRemoteObjectAttributes",
    "downloadRemoteFile", "requestRemoteFileDownloadLink", "requestRemoteZipFileDownloadLink",
    "getKartonAnalysesList", "getKartonAnalysisStatus"}
CallsFor ==
    [manage_users |-> {"getServerAdminInfo", "oauthRegisterProvider", "oauthGetSingleProvider",
         "oauthUpdateSingleProvider", "oauthRemoveSingleProvider", "getGroups", "getGroup",
         "registerGroup", "updateGroup", "removeGroup", "addGroupMember", "removeGroupMember",
         "setGroupAdmin", "getUsers", "getPendingUsers", "acceptPendingUser",
         "rejectPendingUser", "getUser", "generateSetPasswordToken",
         "userRequestPasswordChange", "setUserDisabled", "createUser", "updateUser",
         "removeUser", "manageAttributeDefinitions", "getAttributeDefinition",
         "addAttributeDefinition", "updateAttributeDefinition", "removeAttributeDefinition",
         "getAttributePermissions", "setAttributePermission", "removeAttributePermission"},
     manage_profile |-> {"authRequestPasswordChange", "apiKeyAdd", "apiKeyRemove"},
     adding_parents |-> {"addObjectRelation"},
     removing_parents |-> {"removeObjectRelation"},
     removing_objects |-> {"removeObject"},
     adding_tags |-> {"addObjectTag"},
     removing_tags |-> {"removeObjectTag"},
     adding_comments |-> {"addObjectComment"},
     removing_comments |-> {"removeObjectComment"},
     removing_attributes |-> {"removeObjectAttribute"},
     personalize |-> {"addObjectFavorite", "removeObjectFavorite", "addQuickQuery",
         "deleteQuickQuery"},
     adding_files |-> {"uploadFile", "pullFileRemote"},
     adding_blobs |-> {"uploadBlob", "pullBlobRemote"},
     adding_configs |-> {"uploadConfig", "pullConfigRemote"},
     karton_reanalyze |-> {"resubmitKartonAnalysis"},
     karton_unassign |-> {"removeKartonAnalysisFromObject"},
     modify_3rd_party_sharing |-> {"enableSharing3rdParty"}]

LEMMA OpenDemands ==
    ASSUME NEW call \in OpenCalls
    PROVE  /\ call \in DOMAIN LocalApi
           /\ ~Server[LocalApi[call]].login /\ Server[LocalApi[call]].caps = {}
<1>1. CASE call \in {"getServerInfo"}
  BY <1>1, CallTables, ServerTables, ServerEntries DEF ServerCalls
<1>2. CASE call \in {"authLogin", "authSetPassword", "authRecoverPassword"}
  BY <1>2, CallTables, ServerTables, AccountTables, AuthEntries DEF AuthCalls
<1>3. CASE call \in {"oauthAuthenticate", "oauthCallback", "oauthGetProviders"}
  BY <1>3, CallTables, ServerTables, AccountTables, OAuthEntries DEF AuthCalls
<1>4. CASE call \in {"registerUser"}
  BY <1>4, CallTables, ServerTables, AccountTables, AuthEntries DEF AccountCalls
<1>5. QED BY <1>1, <1>2, <1>3, <1>4 DEF OpenCalls

LEMMA FreeDemands ==
    ASSUME NEW call \in FreeCalls
    PROVE  /\ call \in DOMAIN LocalApi
           /\ Server[LocalApi[call]].login /\ Server[LocalApi[call]].caps = {}
<1>1. CASE call \in {"getServerDocs"}
  BY <1>1, CallTables, ServerTables, ServerEntries DEF ServerCalls
<1>2. CASE call \in {"authRefresh", "authGroups"}
  BY <1>2, CallTables, ServerTables, AccountTables, AuthEntries DEF AuthCalls
<1>3. CASE call \in {"oauthBind", "oauthGetIdentities", "oauthGetLogoutLink"}
  BY <1>3, CallTables, ServerTables, AccountTables, OAuthEntries DEF AuthCalls
<1>4. CASE call \in {"getObject", "getObjectList", "getObjectCount"}
  BY <1>4, CallTables, ServerTables, KindTables, ObjectsEntries DEF ObjectCalls
<1>5. CASE call \in {"getTags", "getObjectTags"}
  BY <1>5, CallTables, ServerTables, DetailTables, TagsEntries DEF ObjectCalls
<1>6. CASE call \in {"getShareInfo", "getObjectShares", "shareObjectWith"}
  BY <1>6, CallTables, ServerTables, DetailTables, SharesEntries DEF ObjectCalls
<1>7. CASE call \in {"getObjectComments"}
  BY <1>7, CallTables, ServerTables, DetailTables, CommentsEntries DEF ObjectCalls
<1>8. CASE call \in {"getObjectRelations"}
  BY <1>8, CallTables, ServerTables, DetailTables, RelationsEntries DEF ObjectCalls
<1>9. CASE call \in {"getObjectAttributes", "addObjectAttribute"}
  BY <1>9, CallTables, ServerTables, DetailTables, AttributesEntries DEF ObjectCalls
<1>10. CASE call \in {"getQuickQueries"}
  BY <1>10, CallTables, ServerTables, QuickQueriesEntries DEF ObjectCalls
<1>11. CASE call \in {"getUserProfile"}
  BY <1>11, CallTables, ServerTables, AccountTables, UsersEntries DEF AccountCalls
<1>12. CASE call \in {"readAttributeDefinitions", "setAttributeDefinitions"}
  BY <1>12, CallTables, ServerTables, DetailTables, AttributesEntries DEF AttributeCalls
<1>13. CASE call \in {"downloadFile", "requestFileDownloadLink", "requestZipFileDownloadLink"}
  BY <1>13, CallTables, ServerTables, KindTables, FilesEntries DEF TransferCalls
<1>14. CASE call \in {"getRemoteNames", "pushObjectRemote"}
  BY <1>14, CallTables, ServerTables, RemotesEntries, RemoteRequestsAre DEF TransferCalls
<1>15. CASE call \in {"getConfigStats"}
  BY <1>15, CallTables, ServerTables, KindTables, ConfigsEntries DEF TransferCalls
<1>16. CASE call \in {"getRemoteObject", "getRemoteObjectList", "getRemoteObjectCount",
                "getRemoteObjectTags", "getRemoteObjectComments", "getRemoteObjectRelations",
                "getRemoteObjectShares", "getRemoteObjectAttributes", "downloadRemoteFile",
                "requestRemoteFileDownloadLink", "requestRemoteZipFileDownloadLink"}
  BY <1>16, CallTables, ServerTables, RemotesEntries, RemoteRequestsAre DEF RemoteCalls
<1>17. CASE call \in {"getKartonAnalysesList", "getKartonAnalysisStatus"}
  BY <1>17, CallTables, ServerTables, KartonEntries DEF KartonCalls
<1>18. QED BY <1>1, <1>2, <1>3, <1>4, <1>5, <1>6, <1>7, <1>8, <1>9, <1>10, <1>11, <1>12, <1>13,
    <1>14, <1>15, <1>16, <1>17 DEF FreeCalls

LEMMA CapDemands ==
    ASSUME NEW cap \in DOMAIN CallsFor, NEW call \in CallsFor[cap]
    PROVE  /\ call \in DOMAIN LocalApi
           /\ Server[LocalApi[call]].login /\ Server[LocalApi[call]].caps = {cap}
<1>1. CASE cap = "manage_users" /\ call \in {"getServerAdminInfo"}
  BY <1>1, CallTables, ServerTables, ServerEntries DEF ServerCalls
<1>2. CASE cap = "manage_users" /\ call \in {"oauthRegisterProvider", "oauthGetSingleProvider",
                                        "oauthUpdateSingleProvider",
                                        "oauthRemoveSingleProvider"}
  BY <1>2, CallTables, ServerTables, AccountTables, OAuthEntries DEF AuthCalls
<1>3. CASE cap = "manage_users" /\ call \in {"getGroups", "getGroup", "registerGroup",
                                        "updateGroup", "removeGroup", "addGroupMember",
                                        "removeGroupMember", "setGroupAdmin"}
  BY <1>3, CallTables, ServerTables, AccountTables, GroupsEntries DEF AccountCalls
<1>4. CASE cap = "manage_users" /\ call \in {"getUsers", "getPendingUsers", "acceptPendingUser",
                                        "rejectPendingUser", "getUser",
                                        "generateSetPasswordToken", "userRequestPasswordChange",
                                        "setUserDisabled", "createUser", "updateUser",
                                        "removeUser"}
  BY <1>4, CallTables, ServerTables, AccountTables, UsersEntries DEF AccountCalls
<1>5. CASE cap = "manage_users" /\ call \in {"manageAttributeDefinitions",
                                        "getAttributeDefinition", "addAttributeDefinition",
                                        "updateAttributeDefinition",
                                        "removeAttributeDefinition", "getAttributePermissions",
                                        "setAttributePermission", "removeAttributePermission"}
  BY <1>5, CallTables, ServerTables, DetailTables, AttributesEntries DEF AttributeCalls
<1>6. CASE cap = "manage_profile" /\ call \in {"authRequestPasswordChange"}
  BY <1>6, CallTables, ServerTables, AccountTables, AuthEntries DEF AuthCalls
<1>7. CASE cap = "manage_profile" /\ call \in {"apiKeyAdd", "apiKeyRemove"}
  BY <1>7, CallTables, ServerTables, AccountTables, ApiKeysEntries DEF AuthCalls
<1>8. CASE cap = "adding_parents" /\ call \in {"addObjectRelation"}
  BY <1>8, CallTables, ServerTables, DetailTables, RelationsEntries DEF ObjectCalls
<1>9. CASE cap = "removing_parents" /\ call \in {"removeObjectRelation"}
  BY <1>9, CallTables, ServerTables, DetailTables, RelationsEntries DEF ObjectCalls
<1>10. CASE cap = "removing_objects" /\ call \in {"removeObject"}
  BY <1>10, CallTables, ServerTables, KindTables, ObjectsEntries DEF ObjectCalls
<1>11. CASE cap = "adding_tags" /\ call \in {"addObjectTag"}
  BY <1>11, CallTables, ServerTables, DetailTables, TagsEntries DEF ObjectCalls
<1>12. CASE cap = "removing_tags" /\ call \in {"removeObjectTag"}
  BY <1>12, CallTables, ServerTables, DetailTables, TagsEntries DEF ObjectCalls
<1>13. CASE cap = "adding_comments" /\ call \in {"addObjectComment"}
  BY <1>13, CallTables, ServerTables, DetailTables, CommentsEntries DEF ObjectCalls
<1>14. CASE cap = "removing_comments" /\ call \in {"removeObjectComment"}
  BY <1>14, CallTables, ServerTables, DetailTables, CommentsEntries DEF ObjectCalls
<1>15. CASE cap = "removing_attributes" /\ call \in {"removeObjectAttribute"}
  BY <1>15, CallTables, ServerTables, DetailTables, AttributesEntries DEF ObjectCalls
<1>16. CASE cap = "personalize" /\ call \in {"addObjectFavorite", "removeObjectFavorite"}
  BY <1>16, CallTables, ServerTables, KindTables, ObjectsEntries DEF ObjectCalls
<1>17. CASE cap = "personalize" /\ call \in {"addQuickQuery", "deleteQuickQuery"}
  BY <1>17, CallTables, ServerTables, QuickQueriesEntries DEF ObjectCalls
<1>18. CASE cap = "adding_files" /\ call \in {"uploadFile"}
  BY <1>18, CallTables, ServerTables, KindTables, FilesEntries DEF TransferCalls
<1>19. CASE cap = "adding_files" /\ call \in {"pullFileRemote"}
  BY <1>19, CallTables, ServerTables, RemotesEntries, RemoteRequestsAre DEF TransferCalls
<1>20. CASE cap = "adding_blobs" /\ call \in {"uploadBlob"}
  BY <1>20, CallTables, ServerTables, KindTables, BlobsEntries DEF TransferCalls
<1>21. CASE cap = "adding_blobs" /\ call \in {"pullBlobRemote"}
  BY <1>21, CallTables, ServerTables, RemotesEntries, RemoteRequestsAre DEF TransferCalls
<1>22. CASE cap = "adding_configs" /\ call \in {"uploadConfig"}
  BY <1>22, CallTables, ServerTables, KindTables, ConfigsEntries DEF TransferCalls
<1>23. CASE cap = "adding_configs" /\ call \in {"pullConfigRemote"}
  BY <1>23, CallTables, ServerTables, RemotesEntries, RemoteRequestsAre DEF TransferCalls
<1>24. CASE cap = "karton_reanalyze" /\ call \in {"resubmitKartonAnalysis"}
  BY <1>24, CallTables, ServerTables, KartonEntries DEF KartonCalls
<1>25. CASE cap = "karton_unassign" /\ call \in {"removeKartonAnalysisFromObject"}
  BY <1>25, CallTables, ServerTables, KartonEntries DEF KartonCalls
<1>26. CASE cap = "modify_3rd_party_sharing" /\ call \in {"enableSharing3rdParty"}
  BY <1>26, CallTables, ServerTables, KindTables, ObjectsEntries DEF KartonCalls
<1>27. QED BY <1>1, <1>2, <1>3, <1>4, <1>5, <1>6, <1>7, <1>8, <1>9, <1>10, <1>11, <1>12, <1>13,
    <1>14, <1>15, <1>16, <1>17, <1>18, <1>19, <1>20, <1>21, <1>22, <1>23, <1>24, <1>25, <1>26
    DEF CallsFor

LEMMA ChildDemands ==
    /\ "uploadFileWithParent" \in DOMAIN LocalApi
    /\ Server[LocalApi["uploadFileWithParent"]].login
          /\ Server[LocalApi["uploadFileWithParent"]].caps = {"adding_files", "adding_parents"}
    /\ "uploadBlobWithParent" \in DOMAIN LocalApi
    /\ Server[LocalApi["uploadBlobWithParent"]].login
          /\ Server[LocalApi["uploadBlobWithParent"]].caps = {"adding_blobs", "adding_parents"}
    /\ "uploadConfigWithParent" \in DOMAIN LocalApi
    /\ Server[LocalApi["uploadConfigWithParent"]].login
          /\ Server[LocalApi["uploadConfigWithParent"]].caps = {"adding_configs", "adding_parents"}
  BY CallTables, ServerTables, KindTables, ChildrenEntries DEF TransferCalls
-----------------------------------------------------------------------------
(* What a page asks for *)

Ok(c, call) == Allowed(c.caps, c.features, Request(c, call))

LEMMA RemoteRequest ==
    ASSUME NEW call \in DOMAIN LocalApi
    PROVE  /\ call \in DOMAIN RemoteApi
           /\ call \notin DOMAIN RemoteOverrides => RemoteApi[call] = LocalApi[call]
           /\ call \in DOMAIN RemoteOverrides /\ call # "requestRemoteZipFileDownloadLink" =>
                 RemoteApi[call] \in RemoteRequests
           /\ RemoteApi["requestRemoteZipFileDownloadLink"] = LocalApi["requestZipFileDownloadLink"]
<1>1. call \in DOMAIN RemoteApi
  BY TableDomain DEF RemoteApi
<1>2. call \notin DOMAIN RemoteOverrides => RemoteApi[call] = LocalApi[call]
  BY TableSecond DEF RemoteApi
<1>3. ASSUME call \in DOMAIN RemoteOverrides, call # "requestRemoteZipFileDownloadLink"
      PROVE  RemoteApi[call] \in RemoteRequests
  <2>1. RemoteApi[call] = RemoteOverrides[call]
    BY <1>3, TableFirst DEF RemoteApi
  <2>2. \A name \in DOMAIN RemoteCalls : LocalApi[name] \in RemoteRequests
    BY CallTables DEF RemoteRequests
  <2>3. \E name \in DOMAIN RemoteCalls : RemoteOverrides[call] = LocalApi[name]
    BY <1>3 DEF RemoteOverrides, RemoteCalls
  <2>4. QED
    BY <2>1, <2>2, <2>3
<1>4. RemoteApi["requestRemoteZipFileDownloadLink"] = LocalApi["requestZipFileDownloadLink"]
  <2>1. "requestRemoteZipFileDownloadLink" \in DOMAIN RemoteOverrides
    BY DEF RemoteOverrides
  <2>2. RemoteOverrides["requestRemoteZipFileDownloadLink"] = LocalApi["requestZipFileDownloadLink"]
    BY DEF RemoteOverrides
  <2>3. QED
    BY <2>1, <2>2, TableFirst DEF RemoteApi
<1>5. QED
  BY <1>1, <1>2, <1>3, <1>4

LEMMA RemoteDemands == \A r \in RemoteRequests : Server[r].login /\ Server[r].caps = {}
  BY RemotesEntries, ServerTables

LEMMA OkFree == ASSUME NEW c, NEW call \in OpenCalls \cup FreeCalls PROVE Ok(c, call)
<1>1. call \in DOMAIN LocalApi /\ Server[LocalApi[call]].caps = {}
  BY OpenDemands, FreeDemands
<1>2. "requestZipFileDownloadLink" \in FreeCalls
  BY DEF FreeCalls
<1>3. Server[LocalApi["requestZipFileDownloadLink"]].caps = {}
  BY <1>2, FreeDemands
<1>4. Server[RemoteApi[call]].caps = {}
  BY <1>1, <1>3, RemoteRequest, RemoteDemands
<1>5. QED
  BY <1>1, <1>4 DEF Ok, Allowed, Request

LEMMA OkFor ==
    ASSUME NEW c, NEW cap \in DOMAIN CallsFor, cap \in c.caps, NEW call \in CallsFor[cap]
    PROVE  Ok(c, call)
<1>1. call \in DOMAIN LocalApi /\ Server[LocalApi[call]].caps = {cap}
  BY CapDemands
<1>2. call \notin DOMAIN RemoteOverrides
  BY DEF CallsFor, RemoteOverrides
<1>3. Server[RemoteApi[call]].caps = {cap}
  BY <1>1, <1>2, RemoteRequest
<1>4. QED
  BY <1>1, <1>3 DEF Ok, Allowed, Request

LEMMA OkCalls ==
    ASSUME NEW c
    PROVE  /\ \A call \in OpenCalls \cup FreeCalls : Ok(c, call)
           /\ Can(c, "manage_users") => \A call \in CallsFor.manage_users : Ok(c, call)
           /\ Can(c, "personalize") => \A call \in CallsFor.personalize : Ok(c, call)
           /\ Can(c, "removing_parents") => Ok(c, "removeObjectRelation")
           /\ Can(c, "removing_objects") => Ok(c, "removeObject")
           /\ Can(c, "adding_tags") => Ok(c, "addObjectTag")
           /\ Can(c, "removing_tags") => Ok(c, "removeObjectTag")
           /\ Can(c, "adding_comments") => Ok(c, "addObjectComment")
           /\ Can(c, "removing_comments") => Ok(c, "removeObjectComment")
           /\ Can(c, "removing_attributes") => Ok(c, "removeObjectAttribute")
           /\ Can(c, "karton_unassign") => Ok(c, "removeKartonAnalysisFromObject")
           /\ Can(c, "modify_3rd_party_sharing") => Ok(c, "enableSharing3rdParty")
           /\ Can(c, "adding_files") => Ok(c, "uploadFile")
           /\ Can(c, "adding_blobs") => Ok(c, "uploadBlob")
           /\ Can(c, "adding_configs") => Ok(c, "uploadConfig")
  BY OkFree, OkFor DEF CallsFor, Can

\* A parent given to an upload, and a member removed by an admin of the group.
LEMMA OkMore ==
    ASSUME NEW c, c.remote = FALSE
    PROVE  /\ Can(c, "adding_files") /\ Can(c, "adding_parents") => Ok(c, "uploadFileWithParent")
           /\ Can(c, "adding_blobs") /\ Can(c, "adding_parents")
                 => Ok(c, "uploadBlobWithParent")
           /\ Can(c, "adding_configs") /\ Can(c, "adding_parents")
                 => Ok(c, "uploadConfigWithParent")
           /\ Is(c, "groupAdmin") => Ok(c, "removeGroupMember")
<1>1. LocalApi["removeGroupMember"] \in ByGroupAdmin
  BY CallTables DEF AccountCalls, ByGroupAdmin
<1>2. QED
  BY <1>1, ChildDemands DEF Ok, Allowed, Request, Can, Is


-----------------------------------------------------------------------------
(* The parts of a page *)

LEMMA OffersOf ==
    /\ \A p, q : (p ++ q).offers = p.offers \cup q.offers
    /\ \A S : /\ Offers(S).offers = S /\ Loads(S).offers = {}
              /\ Links(S).offers = {} /\ Searches(S).offers = {}
    /\ Nothing.offers = {}
<1>1. ASSUME NEW p, NEW q PROVE (p ++ q).offers = p.offers \cup q.offers
  BY DEF ++
<1>2. ASSUME NEW S PROVE Offers(S).offers = S
  BY DEF Offers
<1>3. ASSUME NEW S PROVE Loads(S).offers = {} /\ Links(S).offers = {} /\ Searches(S).offers = {}
  BY DEF Loads, Links, Searches
<1>4. Nothing.offers = {}
  BY DEF Nothing
<1>5. QED
  BY <1>1, <1>2, <1>3, <1>4

LEMMA LoadsOf ==
    /\ \A p, q : (p ++ q).loads = p.loads \cup q.loads
    /\ \A S : /\ Loads(S).loads = S /\ Offers(S).loads = {}
              /\ Links(S).loads = {} /\ Searches(S).loads = {}
    /\ Nothing.loads = {}
<1>1. ASSUME NEW p, NEW q PROVE (p ++ q).loads = p.loads \cup q.loads
  BY DEF ++
<1>2. ASSUME NEW S PROVE Loads(S).loads = S
  BY DEF Loads
<1>3. ASSUME NEW S PROVE Offers(S).loads = {} /\ Links(S).loads = {} /\ Searches(S).loads = {}
  BY DEF Offers, Links, Searches
<1>4. Nothing.loads = {}
  BY DEF Nothing
<1>5. QED
  BY <1>1, <1>2, <1>3, <1>4

LEMMA LinksOf ==
    /\ \A p, q : (p ++ q).links = p.links \cup q.links
    /\ \A S : /\ Links(S).links = S /\ Searches(S).links = {}
              /\ Loads(S).links = {} /\ Offers(S).links = {}
    /\ Nothing.links = {}
<1>1. ASSUME NEW p, NEW q PROVE (p ++ q).links = p.links \cup q.links
  BY DEF ++
<1>2. ASSUME NEW S PROVE Links(S).links = S
  BY DEF Links
<1>3. ASSUME NEW S PROVE Offers(S).links = {} /\ Loads(S).links = {} /\ Searches(S).links = {}
  BY DEF Offers, Loads, Searches
<1>4. Nothing.links = {}
  BY DEF Nothing
<1>5. QED
  BY <1>1, <1>2, <1>3, <1>4

LEMMA SearchesOf ==
    /\ \A p, q : (p ++ q).searches = p.searches \cup q.searches
    /\ \A S : /\ Searches(S).searches = S /\ Links(S).searches = {}
              /\ Loads(S).searches = {} /\ Offers(S).searches = {}
    /\ Nothing.searches = {}
<1>1. ASSUME NEW p, NEW q PROVE (p ++ q).searches = p.searches \cup q.searches
  BY DEF ++
<1>2. ASSUME NEW S PROVE Searches(S).searches = S
  BY DEF Searches
<1>3. ASSUME NEW S PROVE Offers(S).searches = {} /\ Loads(S).searches = {} /\ Links(S).searches = {}
  BY DEF Offers, Loads, Links
<1>4. Nothing.searches = {}
  BY DEF Nothing
<1>5. QED
  BY <1>1, <1>2, <1>3, <1>4

-----------------------------------------------------------------------------
(* What is offered is allowed *)

Offerable(c, call) == call \in Unguarded \/ Ok(c, call)

LEMMA ShowObjectOffers ==
    ASSUME NEW c, NEW endpoint, NEW call \in ShowObject(c, endpoint).offers
    PROVE  Offerable(c, call)
<1>1. call \in AttributesBox(c, endpoint).offers => Offerable(c, call)
  BY OffersOf, OkCalls
  DEF AttributesBox, AttributeRenderer, RichAttributeValue, AttributeValue, AttributesAddModal,
      If, Offerable, FreeCalls
<1>2. call \in TagBox(c, endpoint).offers \cup Share3rdPartyBox(c).offers => Offerable(c, call)
  BY OffersOf, OkCalls DEF TagBox, Tags, TagForm, Share3rdPartyBox, If, Offerable, FreeCalls
<1>3. call \in MultiRelationsBox(c).offers => Offerable(c, call)
  <2>1. RelationRows(c).offers = {}
    BY OffersOf DEF RelationRows, ObjectLink, Tags, If
  <2>2. \A x \in RelationsBox(c).offers :
           \/ x = "addObjectRelation"
           \/ x = "removeObjectRelation" /\ Can(c, "removing_parents")
    BY <2>1, OffersOf DEF RelationsBox, RelationsAddModal, If
  <2>3. call \in RelationsBox(c).offers => Offerable(c, call)
    BY <2>2, OkCalls DEF Offerable, Unguarded
  <2>4. QED
    BY <2>3, OffersOf DEF MultiRelationsBox, TypedRelationsBox, RelationsHeader
<1>4. call \in KartonAnalysisBox(c).offers => Offerable(c, call)
  <2>1. call \in KartonAnalysisBox(c).offers =>
           \/ call = "resubmitKartonAnalysis"
           \/ call = "removeKartonAnalysisFromObject" /\ Can(c, "karton_unassign")
    BY OffersOf DEF KartonAnalysisBox, KartonAnalysisRow, If
  <2>2. QED
    BY <2>1, OkCalls DEF Offerable, Unguarded
<1>5. call \in SharesBox(c).offers \cup CommentBox(c).offers => Offerable(c, call)
  <2>1. ShareReasonString(c).offers = {}
    BY OffersOf DEF ShareReasonString
  <2>2. call \in SharesBox(c).offers => call = "shareObjectWith"
    BY <2>1, OffersOf DEF SharesBox, SharesList, ShareGroupItem, ShareForm, If
  <2>3. call \in CommentBox(c).offers => Offerable(c, call)
    BY OffersOf, OkCalls DEF CommentBox, CommentItem, CommentForm, If, Offerable
  <2>4. QED
    BY <2>2, <2>3, OkCalls DEF Offerable, FreeCalls
<1>6. call \in RelationsTab(c).offers => Offerable(c, call)
  <2>1. RelationsNode(c).offers = {}
    BY OffersOf DEF RelationsNode
  <2>2. QED
    BY <2>1, OffersOf, OkCalls DEF RelationsTab, RelationsPlotView, Offerable, FreeCalls
<1>7. QED
  BY <1>1, <1>2, <1>3, <1>4, <1>5, <1>6, OffersOf DEF ShowObject, If

LEMMA ObjectActionsOffers ==
    ASSUME NEW c, NEW type \in ObjectViews, NEW endpoint,
           NEW call \in ObjectActions(c, type, endpoint).offers
    PROVE  Offerable(c, call)
  BY OffersOf, OkCalls
  DEF ObjectActions, FavoriteAction, PullAction, PushAction, RemoveAction, ObjectViews, If,
      Offerable, Unguarded, FreeCalls, CallsFor

LEMMA ObjectRoutesOffers ==
    ASSUME NEW c, c.view \in ObjectViews \cup {"diff"}, NEW call \in ObjectRoutes(c).offers
    PROVE  Offerable(c, call)
<1>1. CASE c.view = "file"
  BY <1>1, OffersOf, OkCalls, ShowObjectOffers, ObjectActionsOffers
  DEF ObjectRoutes, ShowSampleView, SampleDetails, SamplePreview, DownloadAction, ZipAction,
      UploadChildAction, LatestConfigTab, ConfigTable, ConfigRow, ObjectLink, ObjectViews, If,
      Offerable, FreeCalls
<1>2. CASE c.view = "config"
  BY <1>2, OffersOf, OkCalls, ShowObjectOffers, ObjectActionsOffers
  DEF ObjectRoutes, ShowConfigView, DownloadAction, ConfigTable, ConfigRow, ObjectLink,
      ObjectViews, If
<1>3. CASE c.view = "blob"
  BY <1>3, OffersOf, OkCalls, ShowObjectOffers, ObjectActionsOffers
  DEF ObjectRoutes, ShowTextBlobView, TextBlobDetails, DownloadAction, BlobDiffAction,
      LatestConfigTab, ConfigTable, ConfigRow, ObjectLink, ObjectViews, If
<1>4. CASE c.view = "diff"
  BY <1>4, OffersOf DEF ObjectRoutes, DiffTextBlobView
<1>5. QED
  BY <1>1, <1>2, <1>3, <1>4 DEF ObjectViews


LEMMA ListRoutesOffers ==
    ASSUME NEW c, c.view \in ListViews, NEW call \in ListRoutes(c).offers
    PROVE  Offerable(c, call)
<1>1. call \in RecentView(c).offers => Offerable(c, call)
  BY OffersOf, OkCalls DEF RecentView, QuickQuery, If, Offerable, CallsFor
<1>2. RecentObjectRow(c).offers = {}
  BY OffersOf DEF RecentObjectRow
<1>3. QED
  BY <1>1, <1>2, OffersOf
  DEF ListViews, ListRoutes, RecentSamplesView, RecentConfigsView, RecentBlobsView, SearchView,
      RecentFileRow, RecentConfigRow, RecentBlobRow, ObjectLink, If

LEMMA OpenRoutesOffers ==
    ASSUME NEW c, c.view \in OpenViews, NEW call \in OpenRoutes(c).offers
    PROVE  Offerable(c, call)
<1>1. call \in {"authLogin", "oauthAuthenticate", "registerUser", "authRecoverPassword",
               "authSetPassword"}
  BY OffersOf
  DEF OpenViews, OpenRoutes, UserLoginView, ProviderButton, ProvidersSelectList,
      UserRegisterView, UserPasswordRecoverView, UserSetPasswordView, OAuthAuthorizeView, If
<1>2. QED
  BY <1>1, OkCalls DEF Offerable, OpenCalls

LEMMA ProfileRoutesOffers ==
    ASSUME NEW c, c.view \in ProfileViews, c.remote = FALSE,
        NEW call \in ProfileRoutes(c).offers
    PROVE  Offerable(c, call)
<1>1. \A base : GroupBadges(base).offers = {}
  BY OffersOf DEF GroupBadges
<1>2. ProfileNav(c).offers = {}
  BY OffersOf DEF ProfileNav, If
<1>3. CASE c.view \in {"profile", "profile/user"}
  BY <1>1, <1>2, <1>3, OffersOf DEF ProfileRoutes, ProfileView, ProfileDetails, If
<1>4. CASE c.view \in {"profile/group", "profile/groups"}
  BY <1>1, <1>2, <1>4, OffersOf DEF ProfileRoutes, ProfileView, ProfileGroup, ProfileGroups, If
<1>5. CASE c.view = "profile/group/members"
  <2>1. call = "removeGroupMember" /\ MayManageMembers(c)
    BY <1>1, <1>2, <1>5, OffersOf
    DEF ProfileRoutes, ProfileView, ProfileGroupMembers, ProfileGroupItems, If
  <2>2. QED
    BY <2>1, OkCalls, OkMore DEF MayManageMembers, Offerable, CallsFor
<1>6. CASE c.view = "profile/capabilities"
  BY <1>1, <1>2, <1>6, OffersOf, OkCalls
  DEF ProfileRoutes, ProfileView, ProfileCapabilities, CapabilitiesSelect, CapabilitiesTable,
      If,
      Offerable, CallsFor
<1>7. CASE c.view \in {"profile/api-keys", "profile/reset-password", "profile/oauth"}
  <2>1. call \in {"apiKeyAdd", "apiKeyRemove", "authRequestPasswordChange", "oauthAuthenticate"}
    BY <1>2, <1>7, OffersOf
    DEF ProfileRoutes, ProfileView, ProfileAPIKeys, ProfileResetPassword, ProfileOAuth
  <2>2. QED
    BY <2>1, OkCalls DEF Offerable, Unguarded, OpenCalls
<1>8. QED
  BY <1>3, <1>4, <1>5, <1>6, <1>7 DEF ProfileViews

LEMMA SettingsRoutesOffers ==
    ASSUME NEW c, c.view \in SettingsViews, c.remote = FALSE, Can(c, "manage_users"),
           NEW call \in SettingsRoutes(c).offers
    PROVE  Offerable(c, call)
<1>1. \A base : GroupBadges(base).offers = {}
  BY OffersOf DEF GroupBadges
<1>2. SettingsNav(c).offers = {}
  BY OffersOf DEF SettingsNav, If
<1>3. SUFFICES call \in CallsFor.manage_users \cup {"apiKeyAdd", "apiKeyRemove"}
  BY OkCalls DEF Offerable, Unguarded
<1>4. CASE c.view \in {"settings", "settings/pending", "settings/users", "settings/user/new",
                      "settings/capabilities"}
  BY <1>1, <1>2, <1>4, OffersOf
  DEF SettingsRoutes, SettingsView, SettingsOverviewView, UsersPendingListView, UsersListView,
      UserItem, UserCreateView, AccessControlView, CallsFor
<1>5. CASE c.view \in {"settings/user", "settings/user/capabilities", "settings/user/api-keys",
                      "settings/user/password", "settings/user/groups"}
  BY <1>1, <1>2, <1>5, OffersOf
  DEF SettingsRoutes, SettingsView, UserView, UserDetailsView, ProfileCapabilities,
      CapabilitiesSelect, CapabilitiesTable, ProfileAPIKeys, UserResetPasswordView,
      UserSingleGroupsView, If, CallsFor
<1>6. CASE c.view \in {"settings/groups", "settings/group/new", "settings/group",
                      "settings/group/capabilities", "settings/group/members"}
  BY <1>1, <1>2, <1>6, OffersOf
  DEF SettingsRoutes, SettingsView, GroupsListView, GroupItem, GroupCreateView, GroupView,
      GroupDetailsView, ProfileCapabilities, CapabilitiesSelect, CapabilitiesTable,
      GroupMembersView, MemberList, If, CallsFor
<1>7. CASE c.view \in {"settings/oauth", "settings/oauth/register", "settings/oauth/provider"}
  BY <1>2, <1>7, OffersOf
  DEF SettingsRoutes, SettingsView, OAuthListProvidersView, OAuthRegisterView,
      OAuthProviderView,
      CallsFor
<1>8. CASE c.view \in {"settings/attributes", "settings/attribute/new", "settings/attribute",
                      "settings/attribute/permissions", "settings/attribute/edit-template"}
  BY <1>2, <1>8, OffersOf
  DEF SettingsRoutes, SettingsView, AttributesListView, AttributeCreateView, AttributeView,
      AttributeDetailsView, AttributesPermissionsView, AttributeEditTemplateView, CallsFor
<1>9. QED
  BY <1>4, <1>5, <1>6, <1>7, <1>8 DEF SettingsViews


\* The context of a page that its guard lets through.
Fits(c) ==
    /\ [view |-> c.view, remote |-> c.remote] \in Pages
    /\ ~c.signedIn => c.view \in OpenViews
    /\ Required(c.view) \subseteq c.caps

LEMMA UploadRoutesOffers ==
    ASSUME NEW c, c.view \in UploadViews, c.remote = FALSE, Required(c.view) \subseteq c.caps,
           NEW call \in AppRoutes(c).offers
    PROVE  Offerable(c, call)
<1>1. AttributesAddModal(c).offers = {}
  BY OffersOf DEF AttributesAddModal
<1>2. CASE c.view = "upload"
  <2>1. Can(c, "adding_files")
    BY <1>2 DEF Required, SettingsViews, Can
  <2>2. \/ call = "uploadFile"
        \/ call = "uploadFileWithParent" /\ Can(c, "adding_parents")
    BY <1>1, <1>2, OffersOf
    DEF AppRoutes, OpenViews, ListViews, ObjectViews, ProfileViews, SettingsViews,
        UploadFileView, Upload, If
  <2>3. QED
    BY <2>1, <2>2, OkCalls, OkMore DEF Offerable
<1>3. CASE c.view = "blob_upload"
  <2>1. Can(c, "adding_blobs")
    BY <1>3 DEF Required, SettingsViews, Can
  <2>2. \/ call = "uploadBlob"
        \/ call = "uploadBlobWithParent" /\ Can(c, "adding_parents")
    BY <1>1, <1>3, OffersOf
    DEF AppRoutes, OpenViews, ListViews, ObjectViews, ProfileViews, SettingsViews,
        UploadBlobView, Upload, If
  <2>3. QED
    BY <2>1, <2>2, OkCalls, OkMore DEF Offerable
<1>4. CASE c.view = "config_upload"
  <2>1. Can(c, "adding_configs")
    BY <1>4 DEF Required, SettingsViews, Can
  <2>2. \/ call = "uploadConfig"
        \/ call = "uploadConfigWithParent" /\ Can(c, "adding_parents")
    BY <1>1, <1>4, OffersOf
    DEF AppRoutes, OpenViews, ListViews, ObjectViews, ProfileViews, SettingsViews,
        UploadConfigView, Upload, If
  <2>3. QED
    BY <2>1, <2>2, OkCalls, OkMore DEF Offerable
<1>5. QED
  BY <1>2, <1>3, <1>4 DEF UploadViews

LEMMA AppRoutesAre ==
    ASSUME NEW c
    PROVE  /\ c.view \in OpenViews => AppRoutes(c) = OpenRoutes(c)
           /\ c.view \in ListViews => AppRoutes(c) = ListRoutes(c)
           /\ c.view \in ObjectViews \cup {"diff"} => AppRoutes(c) = ObjectRoutes(c)
           /\ c.view \in ProfileViews => AppRoutes(c) = ProfileRoutes(c)
           /\ c.view \in SettingsViews => AppRoutes(c) = SettingsRoutes(c)
           /\ c.view = "configs/stats" => AppRoutes(c) = ConfigStatsView(c)
           /\ c.view = "about" => AppRoutes(c) = AboutView(c)
           /\ c.view = "docs" => AppRoutes(c) = DocsView(c)
           /\ c.view = "relations" => AppRoutes(c) = RelationsPlotView(c)
           /\ c.view = "upload" => AppRoutes(c) = UploadFileView(c)
           /\ c.view = "blob_upload" => AppRoutes(c) = UploadBlobView(c)
           /\ c.view = "config_upload" => AppRoutes(c) = UploadConfigView(c)
  BY DEF AppRoutes, OpenViews, ListViews, ObjectViews, ProfileViews, SettingsViews

LEMMA AllViews ==
    ASSUME NEW c, Fits(c)
    PROVE  /\ c.view \in LocalViews
           /\ c.view \notin RemoteViews => c.remote = FALSE
           /\ c.remote \in BOOLEAN
  BY DEF Fits, Pages, Locals, Local, LocalViews

LEMMA AppRoutesOffers ==
    ASSUME NEW c, Fits(c), NEW call \in AppRoutes(c).offers
    PROVE  Offerable(c, call)
<1>1. CASE c.view \in OpenViews
  BY <1>1, AppRoutesAre, OpenRoutesOffers
<1>2. CASE c.view \in ListViews
  BY <1>2, AppRoutesAre, ListRoutesOffers
<1>3. CASE c.view \in ObjectViews \cup {"diff"}
  BY <1>3, AppRoutesAre, ObjectRoutesOffers
<1>4. CASE c.view \in ProfileViews
  <2>1. c.view \notin RemoteViews
    BY <1>4 DEF ProfileViews, RemoteViews, ListViews, ObjectViews
  <2>2. QED
    BY <1>4, <2>1, AllViews, AppRoutesAre, ProfileRoutesOffers
<1>5. CASE c.view \in SettingsViews
  <2>1. c.view \notin RemoteViews
    BY <1>5 DEF SettingsViews, RemoteViews, ListViews, ObjectViews
  <2>2. Can(c, "manage_users")
    BY <1>5 DEF Fits, Required, Can, SettingsViews
  <2>3. QED
    BY <1>5, <2>1, <2>2, AllViews, AppRoutesAre, SettingsRoutesOffers
<1>6. CASE c.view \in UploadViews
  <2>1. c.view \notin RemoteViews
    BY <1>6 DEF UploadViews, RemoteViews, ListViews, ObjectViews
  <2>2. QED
    BY <1>6, <2>1, AllViews, UploadRoutesOffers DEF Fits
<1>7. CASE c.view \in {"configs/stats", "about", "docs"}
  <2>1. AppRoutes(c) \in {ConfigStatsView(c), AboutView(c), DocsView(c)}
    BY <1>7, AppRoutesAre
  <2>2. ConfigStatsView(c).offers = {} /\ AboutView(c).offers = {} /\ DocsView(c).offers = {}
    BY OffersOf DEF ConfigStatsView, ConfigStatsItem, AboutView, DocsView
  <2>3. QED
    BY <2>1, <2>2
<1>8. CASE c.view = "relations"
  <2>1. RelationsNode(c).offers = {}
    BY OffersOf DEF RelationsNode
  <2>2. RelationsPlotView(c).offers = {"getObject"}
    BY <2>1, OffersOf DEF RelationsPlotView
  <2>3. call = "getObject"
    BY <1>8, <2>2, AppRoutesAre
  <2>4. QED
    BY <2>3, OkCalls DEF Offerable, FreeCalls
<1>9. QED
  BY <1>1, <1>2, <1>3, <1>4, <1>5, <1>6, <1>7, <1>8, AllViews DEF LocalViews, RemoteViews

LEMMA ShownOffers ==
    ASSUME NEW s, NEW at, NEW f, Fits(Context(s, at, f)), NEW call \in Shown(s, at, f).offers
    PROVE  Offerable(Context(s, at, f), call)
<1> DEFINE c == Context(s, at, f)
<1>1. ConfigProvider(c).offers = {}
  BY OffersOf DEF ConfigProvider, If
<1>2. Navigation(c).offers = {}
  BY OffersOf DEF Navigation, RemoteDropdown, RemoteNav, LocalNav, UploadNav, AdminNav, If
<1>3. call \in AppRoutes(c).offers
  BY <1>1, <1>2, OffersOf DEF Shown
<1>4. QED
  BY <1>3, AppRoutesOffers

-----------------------------------------------------------------------------
(* What the guards of the routes see to *)

LEMMA Arrived ==
    ASSUME NEW s \in (SUBSET Caps) \cup {Nobody}, NEW to
    PROVE  /\ Arrive(s, to) \in Pages
           /\ s = Nobody => Arrive(s, to).view \in OpenViews
           /\ s # Nobody => /\ Required(Arrive(s, to).view) \subseteq s
                            /\ Arrive(s, to).view # "login"
<1>1. Home \in Pages /\ Local("login") \in Pages
  BY DEF Home, Pages, Locals, Local, LocalViews, RemoteViews, OpenViews, ListViews
<1>2. \A v \in OpenViews \cup {"/"} : Required(v) = {}
  BY DEF OpenViews, Required, SettingsViews
<1>3. Home.view = "/" /\ Local("login").view = "login" /\ "login" \in OpenViews
  BY DEF Home, Local, OpenViews
<1>4. CASE to \in Pages /\ to.view \in OpenViews
  BY <1>1, <1>2, <1>3, <1>4 DEF Arrive
<1>5. CASE ~(to \in Pages /\ to.view \in OpenViews) /\ s = Nobody
  BY <1>1, <1>2, <1>3, <1>5 DEF Arrive
<1>6. CASE ~(to \in Pages /\ to.view \in OpenViews) /\ s # Nobody
  <2>1. \/ Arrive(s, to) = Home
        \/ Arrive(s, to) = to /\ to \in Pages /\ Required(to.view) \subseteq s
    BY <1>6 DEF Arrive
  <2>2. to \in Pages /\ to.view = "login" => to.view \in OpenViews
    BY <1>3
  <2>3. QED
    BY <2>2, <1>1, <1>2, <1>3, <1>6, <2>1
<1>7. QED
  BY <1>4, <1>5, <1>6

(* The guards of the routes: the page a tab shows is one that its session  *)
(* may open, whatever capabilities are given and taken in the meantime.    *)
THEOREM AccessInvariant == Spec => []IInv
<1>1. Init => IInv
  <2>1. Local("login") \in Pages
    BY DEF Pages, Locals, Local, LocalViews, OpenViews
  <2>2. Local("login").view \in OpenViews
    BY DEF Local, OpenViews
  <2>3. ASSUME Init PROVE rights \subseteq Caps /\ changes \in 0..MaxChanges
    BY <2>3, AccessAssumption DEF Init
  <2>4. QED
    BY <2>1, <2>2, <2>3 DEF Init, IInv, TypeOK, PageFits
<1>2. IInv /\ [Next]_vars => IInv'
  <2> SUFFICES ASSUME IInv, [Next]_vars
               PROVE  IInv'
    OBVIOUS
  <2> USE DEF IInv, TypeOK, PageFits
  <2>1. ASSUME NEW to, Open(to) PROVE IInv'
    BY <2>1, Arrived DEF Open
  <2>2. CASE SignIn
    <3>1. Home \in Pages /\ Home.view = "/" /\ Required("/") = {}
      BY DEF Home, Pages, Locals, Local, LocalViews, RemoteViews, ListViews, Required,
         SettingsViews
    <3>2. QED
      BY <2>2, <3>1, AccessAssumption DEF SignIn
  <2>3. CASE SignOut
    <3>1. Arrive(Nobody, page) \in Pages /\ Arrive(Nobody, page).view \in OpenViews
      BY Arrived
    <3>2. QED
      BY <2>3, <3>1 DEF SignOut
  <2>4. ASSUME RefreshSession PROVE IInv'
    <3>1. rights # Nobody
      BY AccessAssumption
    <3>2. QED
      BY <2>4, <3>1, Arrived DEF RefreshSession
  <2>5. ASSUME NEW capability \in Volatile, ChangeRights(capability) PROVE IInv'
    BY <2>5, AccessAssumption DEF ChangeRights
  <2>6. CASE UNCHANGED vars
    BY <2>6 DEF vars
  <2>7. QED
    BY <2>1, <2>2, <2>3, <2>4, <2>5, <2>6 DEF Next, Timer, Refuse
<1>3. QED
  BY <1>1, <1>2, PTL DEF Spec

LEMMA ShownFits ==
    ASSUME IInv
    PROVE  /\ Fits(Context(session, page, features))
           /\ Context(session, page, features).view = page.view
           /\ Context(session, page, features).remote = page.remote
           /\ Context(session, page, features).features = features
           /\ Context(session, page, features).signedIn = (session # Nobody)
           /\ session # Nobody => Context(session, page, features).caps = session
<1>1. \A v \in OpenViews : Required(v) = {}
  BY DEF OpenViews, Required, SettingsViews
<1>2. [view |-> page.view, remote |-> page.remote] = page
  BY DEF IInv, TypeOK, Pages, Locals, Local
<1>3. QED
  BY <1>1, <1>2 DEF IInv, TypeOK, PageFits, Fits, Context

(* For any capabilities and any configuration, the conditions in the       *)
(* components grant nothing that the decorators of the resources refuse,   *)
(* but for the controls that Unguarded names.                              *)
THEOREM OfferedCallsAreAllowed == Spec => []OfferedIsAllowed
<1>1. IInv => OfferedIsAllowed
  <2> SUFFICES ASSUME IInv, Fresh,
                      NEW call \in Shown(session, page, features).offers \ Unguarded
               PROVE  Allowed(rights, features, Asks(call))
    BY DEF OfferedIsAllowed
  <2> DEFINE c == Context(session, page, features)
  <2>1. session # Nobody
    BY AccessAssumption DEF IInv, TypeOK, Fresh
  <2>2. Ok(c, call)
    BY ShownFits, ShownOffers DEF Offerable
  <2>3. QED
    BY <2>1, <2>2, ShownFits DEF Ok, Fresh, Asks, Request
<1>2. QED
  BY <1>1, AccessInvariant, PTL


-----------------------------------------------------------------------------
(* What a page asks for when it opens *)

PlainLoads ==
    {"getServerInfo", "getServerDocs", "getRemoteNames", "getObject", "getObjectList",
     "getObjectCount", "getQuickQueries", "getTags", "readAttributeDefinitions",
     "setAttributeDefinitions", "getObjectComments", "getObjectShares",
     "getKartonAnalysesList", "downloadFile", "getConfigStats", "getShareInfo",
     "getUserProfile", "authGroups"}
ManagerLoads ==
    {"getServerAdminInfo", "getPendingUsers", "getUsers", "getUser", "getGroups", "getGroup",
     "manageAttributeDefinitions", "getAttributeDefinition", "getAttributePermissions"}

OptionalRequests ==
    {"POST/oauth/:provider/authenticate", "POST/oauth/:provider/callback",
     "POST/oauth/:provider/bind_account", "POST/oauth", "GET/oauth", "GET/oauth/:provider",
     "PUT/oauth/:provider", "DELETE/oauth/:provider", "GET/oauth/identities",
     "GET/oauth/:provider/logout", "PUT/object/:id/share_3rd_party"}

LEMMA OnlyWithOptional ==
    ASSUME NEW f, NEW request, request \notin OptionalRequests PROVE Serves(f, request)
<1>1. \A call \in {"oauthAuthenticate", "oauthCallback", "oauthBind", "oauthRegisterProvider",
                   "oauthGetProviders", "oauthGetSingleProvider", "oauthUpdateSingleProvider",
                   "oauthRemoveSingleProvider", "oauthGetIdentities", "oauthGetLogoutLink"} :
         LocalApi[call] \in OptionalRequests
  BY CallTables DEF AuthCalls, OptionalRequests
<1>2. LocalApi["enableSharing3rdParty"] \in OptionalRequests
  BY CallTables DEF KartonCalls, OptionalRequests
<1>3. QED
  BY <1>1, <1>2 DEF Serves, OnlyWith

LEMMA AlwaysServed ==
    ASSUME NEW f, NEW c, NEW call \in PlainLoads \cup ManagerLoads
    PROVE  Serves(f, Request(c, call))
<1>1. call \in DOMAIN LocalApi /\ LocalApi[call] \notin OptionalRequests
  <2>1. CASE call \in {"getServerInfo", "getServerDocs", "getServerAdminInfo"}
    BY <2>1, CallTables DEF ServerCalls, OptionalRequests
  <2>2. CASE call = "authGroups"
    BY <2>2, CallTables DEF AuthCalls, OptionalRequests
  <2>3. CASE call \in {"getObject", "getObjectList", "getObjectCount", "getQuickQueries",
                      "getTags", "getObjectComments", "getObjectShares", "getShareInfo"}
    BY <2>3, CallTables DEF ObjectCalls, OptionalRequests
  <2>4. CASE call \in {"getUserProfile", "getPendingUsers", "getUsers", "getUser", "getGroups",
                      "getGroup"}
    BY <2>4, CallTables DEF AccountCalls, OptionalRequests
  <2>5. CASE call \in {"readAttributeDefinitions", "setAttributeDefinitions",
                      "manageAttributeDefinitions", "getAttributeDefinition",
                      "getAttributePermissions"}
    BY <2>5, CallTables DEF AttributeCalls, OptionalRequests
  <2>6. CASE call \in {"getRemoteNames", "downloadFile", "getConfigStats"}
    BY <2>6, CallTables DEF TransferCalls, OptionalRequests
  <2>7. CASE call = "getKartonAnalysesList"
    BY <2>7, CallTables DEF KartonCalls, OptionalRequests
  <2>8. QED
    BY <2>1, <2>2, <2>3, <2>4, <2>5, <2>6, <2>7 DEF PlainLoads, ManagerLoads
<1>2. call # "requestRemoteZipFileDownloadLink"
  BY DEF PlainLoads, ManagerLoads
<1>3. RemoteRequests \cap OptionalRequests = {}
  BY RemoteRequestsAre DEF OptionalRequests
<1>4. Request(c, call) \notin OptionalRequests
  BY <1>1, <1>2, <1>3, RemoteRequest DEF Request
<1>5. QED
  BY <1>4, OnlyWithOptional

\* The identity providers are asked for by their own pages, by those of a group, and by the
\* sign-in page of an instance that has some.
Loadable(c, call) ==
    \/ call = "getServerInfo"
    \/ c.signedIn /\ call \in PlainLoads
    \/ Can(c, "manage_users") /\ call \in ManagerLoads
    \/ call = "oauthGetProviders" /\ c.view \in OidcViews \cup GroupPages
    \/ call = "oauthGetProviders" /\ Is(c, "oidc")
    \/ call = "oauthCallback" /\ c.view = "oauth/callback"
    \/ c.signedIn /\ call = "oauthGetIdentities" /\ c.view = "profile/oauth"
    \/ call = "oauthGetSingleProvider" /\ c.view = "settings/oauth/provider"
         /\ Can(c, "manage_users")

LEMMA ShowObjectLoads ==
    ASSUME NEW c, c.signedIn, NEW endpoint, NEW call \in ShowObject(c, endpoint).loads
    PROVE  call \in PlainLoads
<1>1. RelationRows(c).loads = {}
  BY LoadsOf DEF RelationRows, ObjectLink, Tags, If
<1>2. MultiRelationsBox(c).loads = {}
  BY <1>1, LoadsOf
  DEF MultiRelationsBox, TypedRelationsBox, RelationsHeader, RelationsBox, RelationsAddModal, If
<1>3. SharesBox(c).loads = {"getObjectShares"}
  <2>1. ShareReasonString(c).loads = {}
    BY LoadsOf DEF ShareReasonString
  <2>2. QED
    BY <2>1, LoadsOf DEF SharesBox, SharesList, ShareGroupItem, ShareForm, If
<1>4. RelationsTab(c).loads = {"getObject"}
  <2>1. RelationsNode(c).loads = {}
    BY LoadsOf DEF RelationsNode
  <2>2. QED
    BY <2>1, LoadsOf DEF RelationsTab, RelationsPlotView
<1>5. AttributesBox(c, endpoint).loads \subseteq PlainLoads
  BY LoadsOf
  DEF AttributesBox, AttributeRenderer, RichAttributeValue, AttributeValue, AttributesAddModal,
      If, PlainLoads
<1>6. TagBox(c, endpoint).loads \cup Share3rdPartyBox(c).loads \subseteq PlainLoads
  BY LoadsOf DEF TagBox, Tags, TagForm, Share3rdPartyBox, If, PlainLoads
<1>7. KartonAnalysisBox(c).loads \cup CommentBox(c).loads \subseteq PlainLoads
  BY LoadsOf
  DEF KartonAnalysisBox, KartonAnalysisRow, CommentBox, CommentItem, CommentForm, If, PlainLoads
<1>8. {"getObject", "getObjectShares"} \subseteq PlainLoads
  BY DEF PlainLoads
<1>9. QED
  BY <1>2, <1>3, <1>4, <1>5, <1>6, <1>7, <1>8, LoadsOf DEF ShowObject, If

LEMMA ObjectRoutesLoads ==
    ASSUME NEW c, c.signedIn, c.view \in ObjectViews \cup {"diff"},
        NEW call \in ObjectRoutes(c).loads
    PROVE  call \in PlainLoads
<1>1. \A type, endpoint : ObjectActions(c, type, endpoint).loads = {}
  BY LoadsOf DEF ObjectActions, FavoriteAction, PullAction, PushAction, RemoveAction, If
<1>2. LatestConfigTab(c).loads = {} /\ ConfigTable(c).loads = {}
  BY LoadsOf DEF LatestConfigTab, ConfigTable, ConfigRow, ObjectLink, If
<1>3. CASE c.view = "file"
  <2>1. call \in ShowObject(c, Here(c, "/")).loads \cup {"downloadFile"}
    BY <1>1, <1>2, <1>3, LoadsOf
    DEF ObjectRoutes, ShowSampleView, SampleDetails, SamplePreview, DownloadAction, ZipAction,
        UploadChildAction, ObjectViews, If
  <2>2. QED
    BY <2>1, ShowObjectLoads DEF PlainLoads
<1>4. CASE c.view = "config"
  BY <1>1, <1>2, <1>4, LoadsOf, ShowObjectLoads
  DEF ObjectRoutes, ShowConfigView, DownloadAction, ObjectViews
<1>5. CASE c.view = "blob"
  BY <1>1, <1>2, <1>5, LoadsOf, ShowObjectLoads
  DEF ObjectRoutes, ShowTextBlobView, TextBlobDetails, DownloadAction, BlobDiffAction,
      ObjectViews
<1>6. CASE c.view = "diff"
  BY <1>6, LoadsOf DEF ObjectRoutes, DiffTextBlobView, PlainLoads
<1>7. QED
  BY <1>3, <1>4, <1>5, <1>6 DEF ObjectViews

LEMMA ListRoutesLoads ==
    ASSUME NEW c, c.view \in ListViews, NEW call \in ListRoutes(c).loads
    PROVE  call \in PlainLoads
<1>1. RecentView(c).loads \subseteq PlainLoads
  BY LoadsOf DEF RecentView, QuickQuery, If, PlainLoads
<1>2. RecentObjectRow(c).loads = {}
  BY LoadsOf DEF RecentObjectRow
<1>3. QED
  BY <1>1, <1>2, LoadsOf
  DEF ListViews, ListRoutes, RecentSamplesView, RecentConfigsView, RecentBlobsView, SearchView,
      RecentFileRow, RecentConfigRow, RecentBlobRow, ObjectLink, If

LEMMA OpenRoutesLoads ==
    ASSUME NEW c, c.view \in OpenViews, NEW call \in OpenRoutes(c).loads
    PROVE  Loadable(c, call)
  BY LoadsOf
  DEF OpenViews, OpenRoutes, UserLoginView, ProviderButton, ProvidersSelectList,
      UserRegisterView, UserPasswordRecoverView, UserSetPasswordView, OAuthAuthorizeView, If,
      Loadable

LEMMA ProfileRoutesLoads ==
    ASSUME NEW c, c.signedIn, c.view \in ProfileViews, NEW call \in ProfileRoutes(c).loads
    PROVE  Loadable(c, call)
<1>1. \A base : GroupBadges(base).loads = {}
  BY LoadsOf DEF GroupBadges
<1>2. ProfileNav(c).loads = {}
  BY LoadsOf DEF ProfileNav, If
<1>3. {"getUserProfile", "authGroups"} \subseteq PlainLoads
  BY DEF PlainLoads
<1>4. CASE c.view # "profile/oauth"
  <2>1. call \in {"getUserProfile", "authGroups"}
    BY <1>1, <1>2, <1>4, LoadsOf
    DEF ProfileViews, ProfileRoutes, ProfileView, ProfileDetails, ProfileGroup, ProfileGroups,
        ProfileGroupMembers, ProfileGroupItems, ProfileCapabilities, CapabilitiesSelect,
        CapabilitiesTable, ProfileAPIKeys, ProfileResetPassword, If
  <2>2. QED
    BY <1>3, <2>1 DEF Loadable
<1>5. CASE c.view = "profile/oauth"
  <2>1. call \in {"getUserProfile", "oauthGetProviders", "oauthGetIdentities"}
    BY <1>2, <1>5, LoadsOf DEF ProfileRoutes, ProfileView, ProfileOAuth
  <2>2. QED
    BY <1>3, <1>5, <2>1 DEF Loadable, OidcViews
<1>6. QED
  BY <1>4, <1>5

LEMMA SettingsRoutesLoads ==
    ASSUME NEW c, c.view \in SettingsViews, Can(c, "manage_users"),
           NEW call \in SettingsRoutes(c).loads
    PROVE  Loadable(c, call)
<1>1. \A base : GroupBadges(base).loads = {}
  BY LoadsOf DEF GroupBadges
<1>2. SettingsNav(c).loads = {}
  BY LoadsOf DEF SettingsNav, If
<1>3. ProfileCapabilities(c).loads = {} /\ ProfileAPIKeys(c).loads = {}
  BY <1>1, LoadsOf
  DEF ProfileCapabilities, CapabilitiesSelect, CapabilitiesTable, ProfileAPIKeys, If
<1>4. CASE c.view \in {"settings", "settings/pending", "settings/users", "settings/user/new",
                      "settings/capabilities"}
  <2>1. call \in {"getServerAdminInfo", "getPendingUsers", "getUsers", "getGroups"}
    BY <1>1, <1>2, <1>4, LoadsOf
    DEF SettingsRoutes, SettingsView, SettingsOverviewView, UsersPendingListView, UsersListView,
        UserItem, UserCreateView, AccessControlView
  <2>2. QED
    BY <2>1 DEF Loadable, ManagerLoads
<1>5. CASE c.view \in {"settings/user", "settings/user/capabilities", "settings/user/api-keys",
                      "settings/user/password", "settings/user/groups"}
  <2>1. call \in {"getUser", "getGroups"}
    BY <1>1, <1>2, <1>3, <1>5, LoadsOf
    DEF SettingsRoutes, SettingsView, UserView, UserDetailsView, UserResetPasswordView,
        UserSingleGroupsView
  <2>2. QED
    BY <2>1 DEF Loadable, ManagerLoads
<1>6. CASE c.view \in {"settings/groups", "settings/group/new"}
  <2>1. call = "getGroups"
    BY <1>1, <1>2, <1>6, LoadsOf
    DEF SettingsRoutes, SettingsView, GroupsListView, GroupItem, GroupCreateView
  <2>2. QED
    BY <2>1 DEF Loadable, ManagerLoads
<1>7. CASE c.view \in GroupPages
  <2>1. call \in {"getGroup", "getUsers", "oauthGetProviders"}
    BY <1>1, <1>2, <1>3, <1>7, LoadsOf
    DEF GroupPages, SettingsRoutes, SettingsView, GroupView, GroupDetailsView, GroupMembersView,
        MemberList
  <2>2. QED
    BY <1>7, <2>1 DEF Loadable, ManagerLoads
<1>8. CASE c.view \in {"settings/oauth", "settings/oauth/register", "settings/oauth/provider"}
  BY <1>2, <1>8, LoadsOf
  DEF SettingsRoutes, SettingsView, OAuthListProvidersView, OAuthRegisterView,
      OAuthProviderView,
      Loadable, OidcViews
<1>9. CASE c.view \in {"settings/attributes", "settings/attribute/new", "settings/attribute",
                      "settings/attribute/permissions", "settings/attribute/edit-template"}
  <2>1. call \in {"manageAttributeDefinitions", "getAttributeDefinition",
                 "getAttributePermissions", "getGroups"}
    BY <1>2, <1>9, LoadsOf
    DEF SettingsRoutes, SettingsView, AttributesListView, AttributeCreateView, AttributeView,
        AttributeDetailsView, AttributesPermissionsView, AttributeEditTemplateView
  <2>2. QED
    BY <2>1 DEF Loadable, ManagerLoads
<1>10. QED
  BY <1>4, <1>5, <1>6, <1>7, <1>8, <1>9 DEF SettingsViews, GroupPages

LEMMA AppRoutesLoads ==
    ASSUME NEW c, Fits(c), NEW call \in AppRoutes(c).loads
    PROVE  Loadable(c, call)
<1>1. CASE c.view \in OpenViews
  BY <1>1, AppRoutesAre, OpenRoutesLoads
<1>2. SUFFICES ASSUME c.view \notin OpenViews, c.signedIn PROVE Loadable(c, call)
  BY <1>1 DEF Fits
<1>3. CASE c.view \in ListViews
  BY <1>2, <1>3, AppRoutesAre, ListRoutesLoads DEF Loadable
<1>4. CASE c.view \in ObjectViews \cup {"diff"}
  BY <1>2, <1>4, AppRoutesAre, ObjectRoutesLoads DEF Loadable
<1>5. CASE c.view \in ProfileViews
  BY <1>2, <1>5, AppRoutesAre, ProfileRoutesLoads
<1>6. CASE c.view \in SettingsViews
  <2>1. Can(c, "manage_users")
    BY <1>6 DEF Fits, Required, Can, SettingsViews
  <2>2. QED
    BY <1>6, <2>1, AppRoutesAre, SettingsRoutesLoads
<1>7. CASE c.view \in UploadViews
  <2>1. AppRoutes(c) \in {UploadFileView(c), UploadBlobView(c), UploadConfigView(c)}
    BY <1>7, AppRoutesAre DEF UploadViews
  <2>2. call \in {"getShareInfo", "setAttributeDefinitions"}
    BY <2>1, LoadsOf
    DEF UploadFileView, UploadBlobView, UploadConfigView, Upload, AttributesAddModal, If
  <2>3. QED
    BY <1>2, <2>2 DEF Loadable, PlainLoads
<1>8. CASE c.view \in {"configs/stats", "about", "docs", "relations"}
  <2>1. AppRoutes(c) \in {ConfigStatsView(c), AboutView(c), DocsView(c), RelationsPlotView(c)}
    BY <1>8, AppRoutesAre
  <2>2. RelationsNode(c).loads = {}
    BY LoadsOf DEF RelationsNode
  <2>3. call \in {"getConfigStats", "getServerDocs", "getObject"}
    BY <2>1, <2>2, LoadsOf
    DEF ConfigStatsView, ConfigStatsItem, AboutView, DocsView, RelationsPlotView
  <2>4. QED
    BY <1>2, <2>3 DEF Loadable, PlainLoads
<1>9. QED
  BY <1>2, <1>3, <1>4, <1>5, <1>6, <1>7, <1>8, AllViews DEF LocalViews, RemoteViews

LEMMA ShownLoads ==
    ASSUME NEW s, NEW at, NEW f, Fits(Context(s, at, f)), NEW call \in Shown(s, at, f).loads
    PROVE  Loadable(Context(s, at, f), call)
<1> DEFINE c == Context(s, at, f)
<1>1. call \in ConfigProvider(c).loads => Loadable(c, call)
  BY LoadsOf DEF ConfigProvider, If, Loadable, PlainLoads, ManagerLoads
<1>2. Navigation(c).loads = {}
  BY LoadsOf DEF Navigation, RemoteDropdown, RemoteNav, LocalNav, UploadNav, AdminNav, If
<1>3. call \in ConfigProvider(c).loads \cup AppRoutes(c).loads
  BY <1>2, LoadsOf DEF Shown
<1>4. QED
  BY <1>1, <1>3, AppRoutesLoads

LEMMA LoadableServed ==
    ASSUME NEW c, NEW call, Loadable(c, call), Can(c, "manage_users") => c.signedIn
    PROVE  /\ Ok(c, call)
           /\ c.signedIn \/ c.remote \/ ~Server[LocalApi[call]].login
           /\ \/ Serves(c.features, Request(c, call))
              \/ c.view \in OidcViews
              \/ c.view \in GroupPages /\ call = "oauthGetProviders"
<1>1. PlainLoads \subseteq OpenCalls \cup FreeCalls
      /\ ManagerLoads \subseteq CallsFor.manage_users
  BY DEF PlainLoads, ManagerLoads, OpenCalls, FreeCalls, CallsFor
<1>2. {"getServerInfo", "oauthGetProviders", "oauthCallback"} \subseteq OpenCalls
  BY DEF OpenCalls
<1>3. "oauthGetIdentities" \in FreeCalls /\ "oauthGetSingleProvider" \in CallsFor.manage_users
  BY DEF FreeCalls, CallsFor
<1>4. Ok(c, call)
  BY <1>1, <1>2, <1>3, OkCalls DEF Loadable
<1>5. c.signedIn \/ c.remote \/ ~Server[LocalApi[call]].login
  BY <1>2, OpenDemands DEF Loadable
<1>6. "getServerInfo" \in PlainLoads
  BY DEF PlainLoads
<1>7. CASE call \in PlainLoads \cup ManagerLoads
  BY <1>4, <1>5, <1>7, AlwaysServed
<1>8. CASE call = "oauthGetProviders" /\ Is(c, "oidc")
  <2>1. LocalApi["oauthGetProviders"] = "GET/oauth"
    BY CallTables DEF AuthCalls
  <2>2. "oauthGetProviders" \in DOMAIN LocalApi
        /\ "oauthGetProviders" \notin DOMAIN RemoteOverrides
    BY OpenDemands, <1>2 DEF RemoteOverrides
  <2>3. Request(c, call) = "GET/oauth"
    BY <1>8, <2>1, <2>2, RemoteRequest DEF Request
  <2>4. LocalApi["enableSharing3rdParty"] # "GET/oauth"
    BY CallTables DEF KartonCalls
  <2>5. Serves(c.features, Request(c, call))
    BY <1>8, <2>3, <2>4 DEF Serves, OnlyWith, Is
  <2>6. QED
    BY <1>4, <1>5, <2>5
<1>9. CASE c.view \in OidcViews \/ (c.view \in GroupPages /\ call = "oauthGetProviders")
  BY <1>4, <1>5, <1>9
<1>10. QED
  BY <1>6, <1>7, <1>8, <1>9 DEF Loadable, OidcViews

(* What any page asks for when it opens, the server has and allows, but    *)
(* for the pages of OpenID Connect and of a group where there is none.     *)
THEOREM LoadedCallsAreServed == Spec => []LoadsAreServed
<1>1. IInv => LoadsAreServed
  <2> SUFFICES ASSUME IInv, NEW call \in Shown(session, page, features).loads
               PROVE  /\ session = Nobody => ~Server[Asks(call)].login
                      /\ Fresh => Allowed(rights, features, Asks(call))
                      /\ \/ Serves(features, Asks(call))
                         \/ page.view \in OidcViews
                         \/ page.view \in GroupPages /\ call = "oauthGetProviders"
    BY DEF LoadsAreServed
  <2> DEFINE c == Context(session, page, features)
  <2>1. Can(c, "manage_users") => c.signedIn
    BY DEF Context, Can
  <2>2. /\ Ok(c, call)
        /\ c.signedIn \/ c.remote \/ ~Server[LocalApi[call]].login
        /\ \/ Serves(c.features, Request(c, call))
           \/ c.view \in OidcViews
           \/ c.view \in GroupPages /\ call = "oauthGetProviders"
    BY <2>1, ShownFits, ShownLoads, LoadableServed
  <2>3. Request(c, call) = Asks(call)
    BY ShownFits DEF Request, Asks
  <2>4. session = Nobody => ~Server[Asks(call)].login
    <3>1. ASSUME session = Nobody PROVE page.remote = FALSE
      <4>1. page.view \notin RemoteViews
        BY <3>1 DEF IInv, PageFits, OpenViews, RemoteViews, ListViews, ObjectViews
      <4>2. QED
        BY <4>1, ShownFits, AllViews
    <3>2. QED
      BY <2>2, <3>1, ShownFits DEF Asks, Request
  <2>5. Fresh => Allowed(rights, features, Asks(call))
    <3>1. Fresh => session # Nobody
      BY AccessAssumption DEF IInv, TypeOK, Fresh
    <3>2. QED
      BY <2>2, <2>3, <3>1, ShownFits DEF Ok, Fresh
  <2>6. QED
    BY <2>2, <2>3, <2>4, <2>5, ShownFits
<1>2. QED
  BY <1>1, AccessInvariant, PTL


-----------------------------------------------------------------------------
(* Where the links of a page lead *)

Targets(p) == p.links \cup p.searches

LEMMA TargetsOf ==
    /\ \A p, q : Targets(p ++ q) = Targets(p) \cup Targets(q)
    /\ \A S : /\ Targets(Links(S)) = S /\ Targets(Searches(S)) = S
              /\ Targets(Loads(S)) = {} /\ Targets(Offers(S)) = {}
    /\ Targets(Nothing) = {}
  BY LinksOf, SearchesOf DEF Targets

Reachable(c, to) ==
    \/ to = Local("login")
    \/ to \in Pages /\ to.view # "login" /\ Required(to.view) \subseteq c.caps

FreeViews == (OpenViews \cup RemoteViews \cup ProfileViews)
                 \cup {"configs/stats", "about", "docs", "relations"}

Remotely(view) == [view |-> view, remote |-> TRUE]

LEMMA FreeReachable ==
    ASSUME NEW c, c.remote \in BOOLEAN
    PROVE  /\ \A v \in FreeViews : Reachable(c, Local(v))
           /\ \A v \in RemoteViews : /\ Reachable(c, Here(c, v))
                                     /\ Reachable(c, Remotely(v))
<1>1. \A v \in FreeViews : Required(v) = {}
  BY DEF FreeViews, OpenViews, RemoteViews, ListViews, ObjectViews, ProfileViews, Required,
         SettingsViews
<1>2. \A v \in RemoteViews : v # "login" /\ v \in FreeViews
  BY DEF FreeViews, RemoteViews, ListViews, ObjectViews
<1>3. \A v \in FreeViews : Local(v) \in Pages
  BY DEF FreeViews, Pages, Locals, Local, LocalViews
<1>4. \A v \in RemoteViews : Remotely(v) \in Pages
  BY DEF Pages, Remotely
<1>5. \A v : Here(c, v) = Local(v) \/ Here(c, v) = Remotely(v)
  BY DEF Here, Local, Remotely
<1>6. \A v : Local(v).view = v /\ Remotely(v).view = v
  BY DEF Local, Remotely
<1>7. \A v \in FreeViews : Reachable(c, Local(v))
  BY <1>1, <1>3, <1>6 DEF Reachable
<1>8. \A v \in RemoteViews : Reachable(c, Remotely(v))
  BY <1>1, <1>2, <1>4, <1>6 DEF Reachable
<1>9. QED
  BY <1>2, <1>5, <1>7, <1>8

LEMMA GuardedReachable ==
    ASSUME NEW c
    PROVE  /\ Can(c, "manage_users") => \A v \in SettingsViews : Reachable(c, Local(v))
           /\ Can(c, "adding_files") => Reachable(c, Local("upload"))
           /\ Can(c, "adding_blobs") => Reachable(c, Local("blob_upload"))
           /\ Can(c, "adding_configs") => Reachable(c, Local("config_upload"))
<1>1. \A v \in SettingsViews : v # "login" /\ Required(v) = {"manage_users"}
  BY DEF SettingsViews, Required
<1>2. \A v \in SettingsViews \cup UploadViews : Local(v) \in Pages /\ Local(v).view = v
  BY DEF Pages, Locals, Local, LocalViews
<1>3. /\ Required("upload") = {"adding_files"}
      /\ Required("blob_upload") = {"adding_blobs"}
      /\ Required("config_upload") = {"adding_configs"}
  BY DEF Required, SettingsViews
<1>4. {"upload", "blob_upload", "config_upload"} = UploadViews /\ "login" \notin UploadViews
  BY DEF UploadViews
<1>5. QED
  BY <1>1, <1>2, <1>3, <1>4 DEF Reachable, Can

\* What the components link most: lists and objects, on the instance that is shown.
LEMMA ObjectReachable ==
    ASSUME NEW c, c.remote \in BOOLEAN
    PROVE  /\ \A v \in {"/", "configs", "blobs", "search", "file", "config", "blob", "diff"} :
                 /\ Reachable(c, Local(v)) /\ Reachable(c, Here(c, v))
                 /\ Reachable(c, Remotely(v))
           /\ Reachable(c, Local("relations"))
           /\ \A type : \A to \in Targets(ObjectLink(c, type)) : Reachable(c, to)
<1>1. {"/", "configs", "blobs", "search", "file", "config", "blob", "diff"} = RemoteViews
  BY DEF RemoteViews, ListViews, ObjectViews
<1>2. RemoteViews \cup {"relations"} \subseteq FreeViews
  BY DEF FreeViews
<1>3. \A v \in RemoteViews : /\ Reachable(c, Local(v)) /\ Reachable(c, Here(c, v))
                             /\ Reachable(c, Remotely(v))
  <2>1. \A v \in RemoteViews : Reachable(c, Local(v))
    BY <1>2, FreeReachable
  <2>2. \A v \in RemoteViews : /\ Reachable(c, Here(c, v))
                               /\ Reachable(c, Remotely(v))
    BY FreeReachable
  <2>3. QED
    BY <2>1, <2>2
<1>4. \A type : \A to \in Targets(ObjectLink(c, type)) : Reachable(c, to)
  <2>1. \A type : Targets(ObjectLink(c, type)) = {} \/ type \in ObjectViews
    BY TargetsOf DEF ObjectLink, If
  <2>2. \A type \in ObjectViews : Targets(ObjectLink(c, type)) = {Here(c, type)}
    BY TargetsOf DEF ObjectLink, If
  <2>3. ObjectViews \subseteq RemoteViews
    BY DEF RemoteViews
  <2>4. QED
    BY <1>3, <2>1, <2>2, <2>3
<1>5. QED
  BY <1>1, <1>2, <1>3, <1>4, FreeReachable

LEMMA RowsReachable ==
    ASSUME NEW c, c.remote \in BOOLEAN
    PROVE  /\ \A to \in Targets(ShareReasonString(c)) : Reachable(c, to)
           /\ \A to \in Targets(RelationsNode(c)) : Reachable(c, to)
           /\ \A to \in Targets(RecentObjectRow(c)) : Reachable(c, to)
<1>1. \A t \in ObjectViews : Reachable(c, Here(c, t))
  BY ObjectReachable DEF ObjectViews
<1>2. \A to \in {Here(c, t) : t \in ObjectViews} : Reachable(c, to)
  BY <1>1
<1>3. Reachable(c, Here(c, "search"))
  BY ObjectReachable
<1>4. QED
  BY <1>2, <1>3, TargetsOf DEF ShareReasonString, RelationsNode, RecentObjectRow

LEMMA ShowObjectReachable ==
    ASSUME NEW c, c.remote \in BOOLEAN, c.view \in ObjectViews,
           NEW endpoint, Reachable(c, endpoint), NEW to \in Targets(ShowObject(c, endpoint))
    PROVE  Reachable(c, to)
<1>1. to \in Targets(AttributesBox(c, endpoint)) => Reachable(c, to)
  BY TargetsOf, ObjectReachable
  DEF AttributesBox, AttributeRenderer, RichAttributeValue, AttributeValue, AttributesAddModal,
      If
<1>2. to \in Targets(TagBox(c, endpoint)) \cup Targets(Share3rdPartyBox(c)) => Reachable(c, to)
  BY TargetsOf DEF TagBox, Tags, TagForm, Share3rdPartyBox, If
<1>3. to \in Targets(MultiRelationsBox(c)) => Reachable(c, to)
  <2>1. Reachable(c, Here(c, c.view))
    BY ObjectReachable DEF ObjectViews
  <2>2. \A x \in Targets(RelationRows(c)) : Reachable(c, x)
    BY <2>1, TargetsOf, ObjectReachable DEF RelationRows, Tags
  <2>3. \A type \in ObjectViews : \A x \in Targets(RelationsHeader(c, type)) : Reachable(c, x)
    BY TargetsOf, ObjectReachable DEF ObjectViews, RelationsHeader, SearchPath
  <2>4. \A x \in Targets(RelationsBox(c)) : Reachable(c, x)
    BY <2>2, TargetsOf DEF RelationsBox, RelationsAddModal, If
  <2>5. QED
    BY <2>3, <2>4, TargetsOf DEF MultiRelationsBox, TypedRelationsBox, ObjectViews
<1>4. to \in Targets(KartonAnalysisBox(c)) => Reachable(c, to)
  BY TargetsOf, ObjectReachable DEF KartonAnalysisBox, KartonAnalysisRow, If
<1>5. to \in Targets(SharesBox(c)) \cup Targets(CommentBox(c)) => Reachable(c, to)
  BY TargetsOf, ObjectReachable, RowsReachable
  DEF SharesBox, SharesList, ShareGroupItem, ShareForm, CommentBox, CommentItem, CommentForm, If
<1>6. to \in Targets(RelationsTab(c)) => Reachable(c, to)
  BY TargetsOf, ObjectReachable, RowsReachable DEF RelationsTab, RelationsPlotView
<1>7. QED
  BY <1>1, <1>2, <1>3, <1>4, <1>5, <1>6, TargetsOf DEF ShowObject, If

LEMMA ObjectActionsReachable ==
    ASSUME NEW c, c.remote \in BOOLEAN, NEW type \in ObjectViews,
           NEW endpoint, Reachable(c, endpoint), NEW to \in Targets(ObjectActions(c, type,
               endpoint))
    PROVE  Reachable(c, to)
<1>1. to \in {endpoint, Local(type), Remotely(type)}
  BY TargetsOf DEF ObjectActions, FavoriteAction, PullAction, PushAction, RemoveAction, If,
     Remotely
<1>2. Reachable(c, Local(type)) /\ Reachable(c, Remotely(type))
  BY ObjectReachable DEF ObjectViews
<1>3. QED
  BY <1>1, <1>2

LEMMA ObjectRoutesReachable ==
    ASSUME NEW c, c.remote \in BOOLEAN, c.view \in ObjectViews \cup {"diff"},
           NEW to \in Targets(ObjectRoutes(c))
    PROVE  Reachable(c, to)
<1>1. to \in Targets(LatestConfigTab(c)) \cup Targets(ConfigTable(c)) => Reachable(c, to)
  BY TargetsOf, ObjectReachable DEF LatestConfigTab, ConfigTable, ConfigRow
<1>2. \A calls : Targets(DownloadAction(c, calls)) = {}
  BY TargetsOf DEF DownloadAction
<1>3. CASE c.view = "file"
  <2>1. to \in Targets(UploadChildAction(c)) => Reachable(c, to)
    BY TargetsOf, GuardedReachable DEF UploadChildAction, If
  <2>2. QED
    BY <1>1, <1>2, <1>3, <2>1, TargetsOf, ObjectReachable, ShowObjectReachable,
       ObjectActionsReachable
    DEF ObjectRoutes, ShowSampleView, SampleDetails, SamplePreview, ZipAction, ObjectViews
<1>4. CASE c.view = "config"
  BY <1>1, <1>2, <1>4, TargetsOf, ObjectReachable, ShowObjectReachable, ObjectActionsReachable
  DEF ObjectRoutes, ShowConfigView, ObjectViews
<1>5. CASE c.view = "blob"
  BY <1>1, <1>2, <1>5, TargetsOf, ObjectReachable, ShowObjectReachable, ObjectActionsReachable
  DEF ObjectRoutes, ShowTextBlobView, TextBlobDetails, BlobDiffAction, ObjectViews
<1>6. CASE c.view = "diff"
  BY <1>6, TargetsOf, ObjectReachable DEF ObjectRoutes, DiffTextBlobView
<1>7. QED
  BY <1>3, <1>4, <1>5, <1>6 DEF ObjectViews

LEMMA ListRoutesReachable ==
    ASSUME NEW c, c.remote \in BOOLEAN, c.view \in ListViews, NEW to \in Targets(ListRoutes(c))
    PROVE  Reachable(c, to)
<1>1. Targets(RecentView(c)) = {}
  BY TargetsOf DEF RecentView, QuickQuery, If
<1>2. QED
  BY <1>1, TargetsOf, ObjectReachable, RowsReachable
  DEF ListViews, ListRoutes, RecentSamplesView, RecentConfigsView, RecentBlobsView, SearchView,
      RecentFileRow, RecentConfigRow, RecentBlobRow

LEMMA LocalsReachable ==
    ASSUME NEW c, NEW V, \A v \in V : Reachable(c, Local(v)), NEW to \in Locals(V)
    PROVE  Reachable(c, to)
  BY DEF Locals

LEMMA BadgesReachable ==
    ASSUME NEW c, c.remote \in BOOLEAN
    PROVE  /\ \A to \in Targets(GroupBadges("profile")) : Reachable(c, to)
           /\ Can(c, "manage_users") =>
                 \A to \in Targets(GroupBadges("settings")) : Reachable(c, to)
<1>1. {"profile/user", "profile/group"} \subseteq FreeViews
  BY DEF FreeViews, ProfileViews
<1>2. {"settings/user", "settings/group"} \subseteq SettingsViews
  BY DEF SettingsViews
<1>3. Targets(GroupBadges("profile")) = Locals({"profile/user", "profile/group"})
  BY TargetsOf DEF GroupBadges
<1>4. Targets(GroupBadges("settings")) = Locals({"settings/user", "settings/group"})
  BY TargetsOf DEF GroupBadges
<1>5. \A to \in Targets(GroupBadges("profile")) : Reachable(c, to)
  BY <1>1, <1>3, FreeReachable, LocalsReachable
<1>6. Can(c, "manage_users") => \A to \in Targets(GroupBadges("settings")) : Reachable(c, to)
  BY <1>2, <1>4, GuardedReachable, LocalsReachable
<1>7. QED
  BY <1>5, <1>6

LEMMA OpenRoutesReachable ==
    ASSUME NEW c, c.remote \in BOOLEAN, c.view \in OpenViews, NEW to \in Targets(OpenRoutes(c))
    PROVE  Reachable(c, to)
<1> DEFINE V == {"/", "login", "recover_password", "register", "profile/oauth"}
<1>1. to \in Locals(V)
  BY TargetsOf
  DEF OpenViews, OpenRoutes, UserLoginView, ProviderButton, ProvidersSelectList,
      UserRegisterView, UserPasswordRecoverView, UserSetPasswordView, OAuthAuthorizeView, If,
      Locals
<1>2. V \subseteq FreeViews
  BY DEF FreeViews, OpenViews, ProfileViews, RemoteViews, ListViews
<1>3. QED
  BY <1>1, <1>2, FreeReachable, LocalsReachable

LEMMA ProfileRoutesReachable ==
    ASSUME NEW c, c.remote \in BOOLEAN, c.view \in ProfileViews,
        NEW to \in Targets(ProfileRoutes(c))
    PROVE  Reachable(c, to)
<1> DEFINE V == ProfileViews \cup {"/"}
<1> DEFINE S == {"settings/user", "settings/group"}
<1>1. \A x \in Locals(V) : Reachable(c, x)
  <2>1. V \subseteq FreeViews
    BY DEF FreeViews, RemoteViews, ListViews
  <2>2. QED
    BY <2>1, FreeReachable, LocalsReachable
<1>2. Can(c, "manage_users") => Reachable(c, Local("settings/user"))
  BY GuardedReachable DEF SettingsViews
<1>3. Can(c, "manage_users") => Reachable(c, Local("settings/group"))
  BY GuardedReachable DEF SettingsViews
<1>4. \A W : W \subseteq V => Locals(W) \subseteq Locals(V)
  BY DEF Locals
<1>5. \A v \in V : Local(v) \in Locals(V)
  BY DEF Locals
<1>6. Targets(ProfileNav(c)) \subseteq Locals(V)
  BY <1>4, <1>5, TargetsOf DEF ProfileNav, ProfileViews, If
<1>13. ASSUME NEW inside, to \in Targets(ProfileView(c, inside)) \ Targets(inside)
       PROVE  Reachable(c, to)
  <2>1. to \in Targets(ProfileNav(c))
    BY <1>13, TargetsOf DEF ProfileView
  <2>2. QED
    BY <1>1, <1>6, <2>1
<1>7. CASE c.view \in {"profile", "profile/user"}
  <2>1. to \in Targets(ProfileDetails(c)) => Reachable(c, to)
    BY <1>1, <1>2, <1>4, <1>5, TargetsOf, BadgesReachable DEF ProfileDetails, ProfileViews, If
  <2>2. QED
    BY <1>13, <1>7, <2>1 DEF ProfileRoutes
<1>8. CASE c.view = "profile/group"
  <2>1. to \in Targets(ProfileGroup(c)) => Reachable(c, to)
    BY <1>1, <1>3, <1>5, TargetsOf DEF ProfileGroup, ProfileViews, If
  <2>2. QED
    BY <1>13, <1>8, <2>1 DEF ProfileRoutes
<1>9. CASE c.view \in {"profile/group/members", "profile/groups"}
  <2>1. to \in Targets(ProfileGroupMembers(c)) \cup Targets(ProfileGroups(c)) => Reachable(c,
        to)
    BY <1>1, <1>5, TargetsOf, BadgesReachable
    DEF ProfileGroupMembers, ProfileGroupItems, ProfileGroups, ProfileViews, If
  <2>2. QED
    BY <1>13, <1>9, <2>1 DEF ProfileRoutes
<1>10. CASE c.view = "profile/capabilities"
  <2>1. to \in Targets(ProfileCapabilities(c)) => Reachable(c, to)
    BY TargetsOf, BadgesReachable DEF ProfileCapabilities, CapabilitiesSelect,
       CapabilitiesTable, If
  <2>2. QED
    BY <1>13, <1>10, <2>1 DEF ProfileRoutes
<1>11. CASE c.view \in {"profile/api-keys", "profile/reset-password", "profile/oauth"}
  <2>1. to \in Targets(ProfileAPIKeys(c)) \cup Targets(ProfileResetPassword(c))
               \cup Targets(ProfileOAuth(c)) => Reachable(c, to)
    BY <1>1, <1>5, TargetsOf DEF ProfileAPIKeys, ProfileResetPassword, ProfileOAuth,
       ProfileViews
  <2>2. QED
    BY <1>13, <1>11, <2>1 DEF ProfileRoutes
<1>12. QED
  BY <1>7, <1>8, <1>9, <1>10, <1>11 DEF ProfileViews

LEMMA SettingsRoutesReachable ==
    ASSUME NEW c, c.remote \in BOOLEAN, c.view \in SettingsViews, Can(c, "manage_users"),
           NEW to \in Targets(SettingsRoutes(c))
    PROVE  Reachable(c, to)
<1>1. \A x \in Locals(SettingsViews) : Reachable(c, x)
  BY GuardedReachable, LocalsReachable
<1>2. \A W : W \subseteq SettingsViews => Locals(W) \subseteq Locals(SettingsViews)
  BY DEF Locals
<1>3. \A v \in SettingsViews : Local(v) \in Locals(SettingsViews)
  BY DEF Locals
<1>4. Reachable(c, Local("/"))
  BY ObjectReachable
<1>5. \A base \in {"profile", "settings"} : \A x \in Targets(GroupBadges(base)) : Reachable(c,
      x)
  BY BadgesReachable
<1>6. Targets(SettingsNav(c)) \subseteq Locals(SettingsViews)
  BY <1>2, <1>3, TargetsOf DEF SettingsNav, SettingsViews, If
<1>7. to \in Targets(ProfileCapabilities(c)) \cup Targets(ProfileAPIKeys(c)) => Reachable(c, to)
  BY <1>5, TargetsOf
  DEF ProfileCapabilities, CapabilitiesSelect, CapabilitiesTable, ProfileAPIKeys, If
<1>8. CASE c.view \in {"settings", "settings/pending", "settings/users", "settings/user/new",
                      "settings/capabilities"}
  BY <1>1, <1>3, <1>5, <1>6, <1>8, TargetsOf
  DEF SettingsRoutes, SettingsView, SettingsOverviewView, UsersPendingListView, UsersListView,
      UserItem, UserCreateView, AccessControlView, SettingsViews
<1>9. CASE c.view \in {"settings/user", "settings/user/capabilities", "settings/user/api-keys",
                      "settings/user/password", "settings/user/groups"}
  BY <1>1, <1>2, <1>3, <1>4, <1>5, <1>6, <1>7, <1>9, TargetsOf
  DEF SettingsRoutes, SettingsView, UserView, UserDetailsView, UserResetPasswordView,
      UserSingleGroupsView, SettingsViews
<1>10. CASE c.view \in {"settings/groups", "settings/group/new", "settings/group",
                       "settings/group/capabilities", "settings/group/members"}
  BY <1>1, <1>2, <1>3, <1>4, <1>5, <1>6, <1>7, <1>10, TargetsOf
  DEF SettingsRoutes, SettingsView, GroupsListView, GroupItem, GroupCreateView, GroupView,
      GroupDetailsView, GroupMembersView, MemberList, SettingsViews
<1>11. CASE c.view \in {"settings/oauth", "settings/oauth/register", "settings/oauth/provider"}
  BY <1>1, <1>2, <1>3, <1>6, <1>11, TargetsOf
  DEF SettingsRoutes, SettingsView, OAuthListProvidersView, OAuthRegisterView,
      OAuthProviderView,
      SettingsViews
<1>12. CASE c.view \in {"settings/attributes", "settings/attribute/new", "settings/attribute",
                       "settings/attribute/permissions", "settings/attribute/edit-template"}
  BY <1>1, <1>2, <1>3, <1>6, <1>12, TargetsOf
  DEF SettingsRoutes, SettingsView, AttributesListView, AttributeCreateView, AttributeView,
      AttributeDetailsView, AttributesPermissionsView, AttributeEditTemplateView, SettingsViews
<1>13. QED
  BY <1>8, <1>9, <1>10, <1>11, <1>12 DEF SettingsViews


LEMMA AppRoutesReachable ==
    ASSUME NEW c, Fits(c), NEW to \in Targets(AppRoutes(c))
    PROVE  Reachable(c, to)
<1>0. c.remote \in BOOLEAN
  BY AllViews
<1>1. CASE c.view \in OpenViews
  BY <1>0, <1>1, AppRoutesAre, OpenRoutesReachable
<1>2. CASE c.view \in ListViews
  BY <1>0, <1>2, AppRoutesAre, ListRoutesReachable
<1>3. CASE c.view \in ObjectViews \cup {"diff"}
  BY <1>0, <1>3, AppRoutesAre, ObjectRoutesReachable
<1>4. CASE c.view \in ProfileViews
  BY <1>0, <1>4, AppRoutesAre, ProfileRoutesReachable
<1>5. CASE c.view \in SettingsViews
  <2>1. Can(c, "manage_users")
    BY <1>5 DEF Fits, Required, Can, SettingsViews
  <2>2. QED
    BY <1>0, <1>5, <2>1, AppRoutesAre, SettingsRoutesReachable
<1>6. CASE c.view \in UploadViews
  <2>1. AppRoutes(c) \in {UploadFileView(c), UploadBlobView(c), UploadConfigView(c)}
    BY <1>6, AppRoutesAre DEF UploadViews
  <2>2. to \in {Local("file"), Local("blob"), Local("config")}
    BY <2>1, TargetsOf
    DEF UploadFileView, UploadBlobView, UploadConfigView, Upload, AttributesAddModal, If
  <2>3. QED
    BY <1>0, <2>2, ObjectReachable
<1>7. CASE c.view \in {"configs/stats", "about", "docs", "relations"}
  <2>1. AppRoutes(c) \in {ConfigStatsView(c), AboutView(c), DocsView(c), RelationsPlotView(c)}
    BY <1>7, AppRoutesAre
  <2>2. to \in Targets(RelationsNode(c)) \/ to = Here(c, "configs")
    BY <2>1, TargetsOf DEF ConfigStatsView, ConfigStatsItem, AboutView, DocsView,
       RelationsPlotView
  <2>3. QED
    BY <1>0, <2>2, ObjectReachable, RowsReachable
<1>8. QED
  BY <1>1, <1>2, <1>3, <1>4, <1>5, <1>6, <1>7, AllViews DEF LocalViews, RemoteViews

LEMMA NavigationReachable ==
    ASSUME NEW c, c.remote \in BOOLEAN, NEW to \in Targets(Navigation(c))
    PROVE  Reachable(c, to)
<1>1. Reachable(c, Home)
  BY ObjectReachable DEF Home
<1>2. to \in Targets(RemoteDropdown(c)) => Reachable(c, to)
  <2>1. to \in Targets(RemoteDropdown(c)) => to = Remotely("/")
    BY TargetsOf DEF RemoteDropdown, If, Remotely
  <2>2. QED
    BY <2>1, ObjectReachable
<1>3. to \in Targets(RemoteNav(c)) => Reachable(c, to)
  <2>1. \A x \in AllHere(c, ListViews) : \E v \in ListViews : x = Here(c, v)
    BY DEF AllHere
  <2>2. \A v \in ListViews : Reachable(c, Here(c, v))
    BY ObjectReachable DEF ListViews
  <2>3. QED
    BY <2>1, <2>2, TargetsOf DEF RemoteNav
<1>4. to \in Targets(LocalNav(c)) => Reachable(c, to)
  <2> DEFINE V == ListViews \cup {"configs/stats", "about", "docs", "profile"}
  <2>1. \A x \in Locals(V) : Reachable(c, x)
    <3>1. V \subseteq FreeViews
      BY DEF FreeViews, RemoteViews, ProfileViews
    <3>2. QED
      BY <3>1, FreeReachable, LocalsReachable
  <2>2. \A x \in Targets(UploadNav(c)) : Reachable(c, x)
    <3>1. \A w \in UploadViews : Can(c, UploadCapability[w]) => Reachable(c, Local(w))
      BY GuardedReachable DEF UploadViews, UploadCapability
    <3>2. \A x \in {Local(v) : v \in {w \in UploadViews : Can(c, UploadCapability[w])}} :
             Reachable(c, x)
      BY <3>1
    <3>3. QED
      BY <3>2, TargetsOf DEF UploadNav
  <2>3. \A x \in Targets(AdminNav(c)) : Reachable(c, x)
    BY TargetsOf, GuardedReachable DEF AdminNav, If, SettingsViews
  <2>4. QED
    BY <2>1, <2>2, <2>3, TargetsOf DEF LocalNav
<1>5. QED
  BY <1>1, <1>2, <1>3, <1>4, TargetsOf DEF Navigation, If

LEMMA ShownReachable ==
    ASSUME NEW s, NEW at, NEW f, Fits(Context(s, at, f)), NEW to \in Targets(Shown(s, at, f))
    PROVE  Reachable(Context(s, at, f), to)
<1> DEFINE c == Context(s, at, f)
<1>1. Targets(ConfigProvider(c)) = {}
  BY TargetsOf DEF ConfigProvider, If
<1>2. to \in Targets(Navigation(c)) \cup Targets(AppRoutes(c))
  BY <1>1, TargetsOf DEF Shown
<1>3. c.remote \in BOOLEAN
  BY AllViews
<1>4. to \in Targets(Navigation(c)) => Reachable(c, to)
  BY <1>3, NavigationReachable
<1>5. to \in Targets(AppRoutes(c)) => Reachable(c, to)
  BY AppRoutesReachable
<1>6. QED
  BY <1>2, <1>4, <1>5

(* Every link of a page leads to a page that the session's capabilities    *)
(* open.                                                                   *)
THEOREM EveryLinkArrives == Spec => []LinksArrive
<1>1. IInv => LinksArrive
  <2> SUFFICES ASSUME IInv, session # Nobody,
                      NEW to \in Targets(Shown(session, page, features)) \ {Local("login")}
               PROVE  Arrive(session, to) = to
    BY DEF LinksArrive, Targets
  <2>1. to \in Pages /\ to.view # "login" /\ Required(to.view) \subseteq session
    BY ShownFits, ShownReachable DEF Reachable
  <2>2. QED
    BY <2>1 DEF Arrive
<1>2. QED
  BY <1>1, AccessInvariant, PTL


-----------------------------------------------------------------------------
(* The pages of a remote instance *)

Calls(p) == p.loads \cup p.offers

LEMMA CallsOf ==
    /\ \A p, q : Calls(p ++ q) = Calls(p) \cup Calls(q)
    /\ \A S : /\ Calls(Loads(S)) = S /\ Calls(Offers(S)) = S
              /\ Calls(Links(S)) = {} /\ Calls(Searches(S)) = {}
    /\ Calls(Nothing) = {}
  BY LoadsOf, OffersOf DEF Calls

\* The calls that go to the remote instance, besides those that are known not to.
Passed == DOMAIN RemoteOverrides \ {"requestRemoteZipFileDownloadLink"}
RemoteMay == AsksLocal \cup PullCalls \cup Writes \cup Passed

\* A link of a remote page that stays there, or one of those known not to.
Stays(c, to) == to.remote \/ to.view \in {"/", "relations", c.view}

LEMMA HereStays ==
    ASSUME NEW c, c.remote
    PROVE  /\ \A v : Stays(c, Here(c, v)) /\ Stays(c, Remotely(v))
           /\ \A v \in {"/", "relations", c.view} : Stays(c, Local(v))
           /\ \A type : \A to \in ObjectLink(c, type).links : Stays(c, to)
<1>1. \A v : Stays(c, Here(c, v)) /\ Stays(c, Remotely(v))
  BY DEF Stays, Here, Remotely
<1>2. \A v \in {"/", "relations", c.view} : Stays(c, Local(v))
  BY DEF Stays, Local
<1>3. \A type : ObjectLink(c, type).links \subseteq {Here(c, type)}
  BY LinksOf DEF ObjectLink, If
<1>4. QED
  BY <1>1, <1>2, <1>3

LEMMA RowsStay ==
    ASSUME NEW c, c.remote
    PROVE  /\ \A to \in ShareReasonString(c).links : Stays(c, to)
           /\ \A to \in RelationsNode(c).links : Stays(c, to)
           /\ \A to \in RecentObjectRow(c).links : Stays(c, to)
           /\ \A to \in RemoteNav(c).links : Stays(c, to)
<1>1. \A to \in {Here(c, t) : t \in ObjectViews} : Stays(c, to)
  BY HereStays
<1>2. \A to \in AllHere(c, ListViews) : Stays(c, to)
  BY HereStays DEF AllHere
<1>3. QED
  BY <1>1, <1>2, LinksOf DEF ShareReasonString, RelationsNode, RecentObjectRow, RemoteNav

LEMMA ShowObjectRemote ==
    ASSUME NEW c, c.remote, NEW endpoint
    PROVE  /\ Calls(ShowObject(c, endpoint)) \subseteq RemoteMay
           /\ \A to \in ShowObject(c, endpoint).links : Stays(c, to)
<1>1. /\ Calls(AttributesBox(c, endpoint)) \subseteq RemoteMay
      /\ AttributesBox(c, endpoint).links = {}
  BY CallsOf, LinksOf
  DEF AttributesBox, AttributeRenderer, RichAttributeValue, AttributeValue, AttributesAddModal,
      If, RemoteMay, AsksLocal, Writes, Passed, RemoteOverrides
<1>2. /\ Calls(TagBox(c, endpoint)) \cup Calls(Share3rdPartyBox(c)) \subseteq RemoteMay
      /\ TagBox(c, endpoint).links = {} /\ Share3rdPartyBox(c).links = {}
  BY CallsOf, LinksOf
  DEF TagBox, Tags, TagForm, Share3rdPartyBox, If, RemoteMay, Writes, Passed, RemoteOverrides
<1>3. /\ Calls(MultiRelationsBox(c)) \subseteq RemoteMay
      /\ \A to \in MultiRelationsBox(c).links : Stays(c, to)
  <2>1. /\ Calls(RelationRows(c)) = {}
        /\ \A to \in RelationRows(c).links : Stays(c, to)
    <3>1. \A type : Calls(ObjectLink(c, type)) = {}
      BY CallsOf DEF ObjectLink, If
    <3>2. QED
      BY <3>1, CallsOf, LinksOf, HereStays DEF RelationRows, Tags
  <2>2. /\ Calls(RelationsBox(c)) \subseteq {"removeObjectRelation"}
        /\ \A to \in RelationsBox(c).links : Stays(c, to)
    BY <2>1, CallsOf, LinksOf DEF RelationsBox, RelationsAddModal, If
  <2>3. \A type : /\ Calls(TypedRelationsBox(c, type)) \subseteq Calls(RelationsBox(c))
                  /\ TypedRelationsBox(c, type).links \subseteq RelationsBox(c).links
    <3>1. \A type : Calls(RelationsHeader(c, type)) = {} /\ RelationsHeader(c, type).links = {}
      BY CallsOf, LinksOf DEF RelationsHeader
    <3>2. \A type : Calls(TypedRelationsBox(c, type)) \subseteq Calls(RelationsBox(c))
      BY <3>1, CallsOf DEF TypedRelationsBox
    <3>3. \A type : TypedRelationsBox(c, type).links \subseteq RelationsBox(c).links
      BY <3>1, LinksOf DEF TypedRelationsBox
    <3>4. QED
      BY <3>2, <3>3
  <2>4. Calls(MultiRelationsBox(c)) \subseteq Calls(RelationsBox(c))
    BY <2>3, CallsOf DEF MultiRelationsBox
  <2>5. MultiRelationsBox(c).links \subseteq RelationsBox(c).links
    BY <2>3, LinksOf DEF MultiRelationsBox
  <2>6. QED
    BY <2>2, <2>4, <2>5 DEF RemoteMay, Writes
<1>4. /\ Calls(KartonAnalysisBox(c)) \subseteq RemoteMay
      /\ KartonAnalysisBox(c).links = {}
  BY CallsOf, LinksOf DEF KartonAnalysisBox, KartonAnalysisRow, If, RemoteMay, AsksLocal, Writes
<1>5. /\ Calls(SharesBox(c)) \cup Calls(CommentBox(c)) \subseteq RemoteMay
      /\ \A to \in SharesBox(c).links \cup CommentBox(c).links : Stays(c, to)
  <2>1. Calls(ShareReasonString(c)) = {}
    BY CallsOf DEF ShareReasonString
  <2>2. /\ Calls(SharesBox(c)) \subseteq {"getObjectShares"}
        /\ SharesBox(c).links \subseteq ShareReasonString(c).links
    <3>1. If(Is(c, "direct") /\ ~c.remote, ShareForm(c)) = Nothing
      BY DEF If
    <3>2. Calls(SharesBox(c)) \subseteq {"getObjectShares"}
      BY <2>1, <3>1, CallsOf DEF SharesBox, SharesList, ShareGroupItem
    <3>3. SharesBox(c).links \subseteq ShareReasonString(c).links
      BY <3>1, LinksOf DEF SharesBox, SharesList, ShareGroupItem
    <3>4. QED
      BY <3>2, <3>3
  <2>3. Calls(CommentBox(c)) = {"getObjectComments"} /\ CommentBox(c).links = {}
    BY CallsOf, LinksOf DEF CommentBox, If
  <2>4. {"getObjectShares", "getObjectComments"} \subseteq RemoteMay
    BY DEF RemoteMay, Passed, RemoteOverrides
  <2>5. QED
    BY <2>2, <2>3, <2>4, RowsStay
<1>6. /\ Calls(RelationsTab(c)) \subseteq RemoteMay
      /\ \A to \in RelationsTab(c).links : Stays(c, to)
  <2>1. Calls(RelationsNode(c)) = {}
    BY CallsOf DEF RelationsNode
  <2>2. /\ Calls(RelationsTab(c)) = {"getObject"}
        /\ RelationsTab(c).links = {Local("relations")} \cup RelationsNode(c).links
    BY <2>1, CallsOf, LinksOf DEF RelationsTab, RelationsPlotView
  <2>3. QED
    BY <2>2, RowsStay, HereStays DEF RemoteMay, Passed, RemoteOverrides
<1>7. "getObject" \in RemoteMay
  BY DEF RemoteMay, Passed, RemoteOverrides
<1>8. Calls(ShowObject(c, endpoint)) \subseteq RemoteMay
  BY <1>1, <1>2, <1>3, <1>4, <1>5, <1>6, <1>7, CallsOf DEF ShowObject, If
<1>9. \A to \in ShowObject(c, endpoint).links : Stays(c, to)
  BY <1>1, <1>2, <1>3, <1>4, <1>5, <1>6, LinksOf DEF ShowObject, If
<1>10. QED
  BY <1>8, <1>9

LEMMA ObjectActionsRemote ==
    ASSUME NEW c, c.remote, c.view \in ObjectViews, NEW endpoint, Stays(c, endpoint)
    PROVE  /\ Calls(ObjectActions(c, c.view, endpoint)) \subseteq RemoteMay
           /\ \A to \in ObjectActions(c, c.view, endpoint).links : Stays(c, to)
<1>1. Calls(ObjectActions(c, c.view, endpoint)) \subseteq PullCalls
  BY CallsOf
  DEF ObjectActions, FavoriteAction, PullAction, PushAction, RemoveAction, If, ObjectViews,
      PullCalls
<1>2. ObjectActions(c, c.view, endpoint).links = {Local(c.view)}
  BY LinksOf DEF ObjectActions, FavoriteAction, PullAction, PushAction, RemoveAction, If
<1>3. QED
  BY <1>1, <1>2, HereStays DEF RemoteMay

LEMMA ObjectRoutesRemote ==
    ASSUME NEW c, c.remote, c.view \in ObjectViews \cup {"diff"}
    PROVE  /\ Calls(ObjectRoutes(c)) \subseteq RemoteMay
           /\ \A to \in ObjectRoutes(c).links : Stays(c, to)
<1>1. {"getObject", "downloadFile", "requestFileDownloadLink", "requestZipFileDownloadLink"}
         \subseteq RemoteMay
  BY DEF RemoteMay, Passed, RemoteOverrides, AsksLocal
<1>2. Calls(LatestConfigTab(c)) = {} /\ Calls(ConfigTable(c)) = {}
  BY CallsOf DEF LatestConfigTab, ConfigTable, ConfigRow, ObjectLink, If
<1>3. \A to \in LatestConfigTab(c).links \cup ConfigTable(c).links : Stays(c, to)
  BY LinksOf, HereStays DEF LatestConfigTab, ConfigTable, ConfigRow
<1>4. CASE c.view = "file"
  <2> DEFINE endpoint == Here(c, "/")
  <2>1. Calls(ObjectRoutes(c)) =
           Calls(ShowObject(c, endpoint)) \cup Calls(ObjectActions(c, c.view, endpoint))
             \cup {"downloadFile", "requestFileDownloadLink", "requestZipFileDownloadLink"}
    BY <1>2, <1>4, CallsOf
    DEF ObjectRoutes, ShowSampleView, SampleDetails, SamplePreview, DownloadAction, ZipAction,
        UploadChildAction, If
  <2>2. ObjectRoutes(c).links =
           ShowObject(c, endpoint).links \cup ObjectActions(c, c.view, endpoint).links
             \cup LatestConfigTab(c).links
    BY <1>4, LinksOf
    DEF ObjectRoutes, ShowSampleView, SampleDetails, SamplePreview, DownloadAction, ZipAction,
        UploadChildAction, If
  <2>3. QED
    BY <1>1, <1>3, <1>4, <2>1, <2>2, ShowObjectRemote, ObjectActionsRemote, HereStays
    DEF ObjectViews
<1>5. CASE c.view = "config"
  <2> DEFINE endpoint == Here(c, "configs")
  <2>1. Calls(ObjectRoutes(c)) =
           Calls(ShowObject(c, endpoint)) \cup Calls(ObjectActions(c, c.view, endpoint))
    BY <1>2, <1>5, CallsOf DEF ObjectRoutes, ShowConfigView, DownloadAction
  <2>2. ObjectRoutes(c).links =
           ShowObject(c, endpoint).links \cup ObjectActions(c, c.view, endpoint).links
             \cup ConfigTable(c).links
    BY <1>5, LinksOf DEF ObjectRoutes, ShowConfigView, DownloadAction
  <2>3. QED
    BY <1>3, <1>5, <2>1, <2>2, ShowObjectRemote, ObjectActionsRemote, HereStays DEF ObjectViews
<1>6. CASE c.view = "blob"
  <2> DEFINE endpoint == Here(c, "blobs")
  <2>1. Calls(ObjectRoutes(c)) =
           Calls(ShowObject(c, endpoint)) \cup Calls(ObjectActions(c, c.view, endpoint))
    BY <1>2, <1>6, CallsOf
    DEF ObjectRoutes, ShowTextBlobView, TextBlobDetails, DownloadAction, BlobDiffAction
  <2>2. ObjectRoutes(c).links =
           ShowObject(c, endpoint).links \cup ObjectActions(c, c.view, endpoint).links
             \cup {Here(c, "blobs")} \cup LatestConfigTab(c).links
    BY <1>6, LinksOf
    DEF ObjectRoutes, ShowTextBlobView, TextBlobDetails, DownloadAction, BlobDiffAction
  <2>3. QED
    BY <1>3, <1>6, <2>1, <2>2, ShowObjectRemote, ObjectActionsRemote, HereStays DEF ObjectViews
<1>7. CASE c.view = "diff"
  <2>1. /\ Calls(ObjectRoutes(c)) = {"getObject"}
        /\ ObjectRoutes(c).links = {Here(c, "blob"), Here(c, "diff")}
    BY <1>7, CallsOf, LinksOf DEF ObjectRoutes, DiffTextBlobView
  <2>2. QED
    BY <1>1, <2>1, HereStays
<1>8. QED
  BY <1>4, <1>5, <1>6, <1>7 DEF ObjectViews

LEMMA ListRoutesRemote ==
    ASSUME NEW c, c.remote, c.view \in ListViews
    PROVE  /\ Calls(ListRoutes(c)) \subseteq RemoteMay
           /\ \A to \in ListRoutes(c).links : Stays(c, to)
<1>1. Calls(RecentView(c)) \subseteq RemoteMay /\ RecentView(c).links = {}
  BY CallsOf, LinksOf
  DEF RecentView, QuickQuery, If, RemoteMay, Passed, RemoteOverrides, AsksLocal
<1>2. Calls(RecentObjectRow(c)) = {} /\ \A type : Calls(ObjectLink(c, type)) = {}
  BY CallsOf DEF RecentObjectRow, ObjectLink, If
<1>3. ListRoutes(c) \in {RecentSamplesView(c), RecentConfigsView(c), RecentBlobsView(c),
                        SearchView(c)}
  BY DEF ListRoutes, ListViews
<1>4. Calls(ListRoutes(c)) \subseteq Calls(RecentView(c))
  BY <1>2, <1>3, CallsOf
  DEF RecentSamplesView, RecentConfigsView, RecentBlobsView, SearchView, RecentFileRow,
      RecentConfigRow, RecentBlobRow
<1>5. \A to \in ListRoutes(c).links : Stays(c, to)
  BY <1>1, <1>3, LinksOf, HereStays, RowsStay
  DEF RecentSamplesView, RecentConfigsView, RecentBlobsView, SearchView, RecentFileRow,
      RecentConfigRow, RecentBlobRow
<1>6. QED
  BY <1>1, <1>4, <1>5

LEMMA ListSearches ==
    ASSUME NEW c, c.view \in ListViews \cup {"diff"}
    PROVE  AppRoutes(c).searches = {}
<1>1. RecentView(c).searches = {}
  BY SearchesOf DEF RecentView, QuickQuery, If
<1>2. RecentObjectRow(c).searches = {} /\ \A type : ObjectLink(c, type).searches = {}
  BY SearchesOf DEF RecentObjectRow, ObjectLink, If
<1>3. CASE c.view \in ListViews
  <2>1. AppRoutes(c) \in {RecentSamplesView(c), RecentConfigsView(c), RecentBlobsView(c),
                         SearchView(c)}
    BY <1>3, AppRoutesAre DEF ListRoutes, ListViews
  <2>2. QED
    BY <1>1, <1>2, <2>1, SearchesOf
    DEF RecentSamplesView, RecentConfigsView, RecentBlobsView, SearchView, RecentFileRow,
        RecentConfigRow, RecentBlobRow
<1>4. CASE c.view = "diff"
  <2>1. AppRoutes(c) = DiffTextBlobView(c)
    BY <1>4, AppRoutesAre DEF ObjectRoutes
  <2>2. QED
    BY <2>1, SearchesOf DEF DiffTextBlobView
<1>5. QED
  BY <1>3, <1>4

LEMMA ShownRemote ==
    ASSUME NEW s, NEW at, NEW f, Fits(Context(s, at, f)), at.remote
    PROVE  /\ Calls(Shown(s, at, f)) \subseteq RemoteMay
           /\ at.view \notin ObjectViews => Shown(s, at, f).searches = {}
           /\ \A to \in Shown(s, at, f).links : Stays(Context(s, at, f), to)
<1> DEFINE c == Context(s, at, f)
<1>1. c.remote /\ c.view = at.view
  BY DEF Context
<1>2. c.view \in RemoteViews
  BY <1>1, AllViews
<1>3. Calls(AppRoutes(c)) \subseteq RemoteMay /\ \A to \in AppRoutes(c).links : Stays(c, to)
  <2>1. CASE c.view \in ListViews
    <3>1. AppRoutes(c) = ListRoutes(c)
      BY <2>1, AppRoutesAre
    <3>2. QED
      BY <1>1, <2>1, <3>1, ListRoutesRemote
  <2>2. CASE c.view \in ObjectViews \cup {"diff"}
    <3>1. AppRoutes(c) = ObjectRoutes(c)
      BY <2>2, AppRoutesAre
    <3>2. QED
      BY <1>1, <2>2, <3>1, ObjectRoutesRemote
  <2>3. QED
    BY <1>2, <2>1, <2>2 DEF RemoteViews
<1>4. Calls(ConfigProvider(c)) \subseteq RemoteMay /\ ConfigProvider(c).links = {}
  BY CallsOf, LinksOf DEF ConfigProvider, If, RemoteMay, AsksLocal
<1>5. Calls(Navigation(c)) = {} /\ \A to \in Navigation(c).links : Stays(c, to)
  <2>1. RemoteDropdown(c).links \subseteq {Remotely("/")} /\ Calls(RemoteDropdown(c)) = {}
    BY LinksOf, CallsOf DEF RemoteDropdown, If, Remotely
  <2>2. Calls(RemoteNav(c)) = {}
    BY CallsOf DEF RemoteNav
  <2>3. Stays(c, Home)
    BY <1>1, HereStays DEF Home
  <2>4. Stays(c, Remotely("/")) /\ \A to \in RemoteNav(c).links : Stays(c, to)
    BY <1>1, HereStays, RowsStay
  <2>5. Calls(Navigation(c)) = {}
    BY <1>1, <2>1, <2>2, CallsOf DEF Navigation, If
  <2>6. Navigation(c).links \subseteq {Home} \cup RemoteDropdown(c).links
        \cup RemoteNav(c).links
    BY <1>1, LinksOf DEF Navigation, If
  <2>7. QED
    BY <2>1, <2>3, <2>4, <2>5, <2>6
<1>6. ASSUME at.view \notin ObjectViews PROVE Shown(s, at, f).searches = {}
  <2>1. AppRoutes(c).searches = {}
    BY <1>1, <1>2, <1>6, ListSearches DEF RemoteViews
  <2>2. ConfigProvider(c).searches = {} /\ Navigation(c).searches = {}
    BY SearchesOf
    DEF ConfigProvider, Navigation, RemoteDropdown, RemoteNav, LocalNav, UploadNav, AdminNav, If
  <2>3. QED
    BY <2>1, <2>2, SearchesOf DEF Shown
<1>7. Calls(Shown(s, at, f)) \subseteq RemoteMay
  BY <1>3, <1>4, <1>5, CallsOf DEF Shown
<1>8. \A to \in Shown(s, at, f).links : Stays(c, to)
  BY <1>3, <1>4, <1>5, LinksOf DEF Shown
<1>9. QED
  BY <1>6, <1>7, <1>8

(* A page of a remote instance asks it for what it shows, and its links    *)
(* stay there, except those named.                                         *)
THEOREM RemotePagesStayRemote == Spec => []RemoteStaysRemote
<1>1. IInv => RemoteStaysRemote
  <2> SUFFICES ASSUME IInv, page.remote PROVE RemoteStaysRemote
    BY DEF RemoteStaysRemote
  <2> DEFINE shown == Shown(session, page, features)
  <2>1. /\ Calls(shown) \subseteq RemoteMay
        /\ page.view \notin ObjectViews => shown.searches = {}
        /\ \A to \in shown.links : Stays(Context(session, page, features), to)
    BY ShownFits, ShownRemote
  <2>2. ASSUME NEW call \in Passed PROVE Asks(call) \in RemoteRequests
    <3>1. call \in DOMAIN RemoteOverrides /\ call # "requestRemoteZipFileDownloadLink"
      BY DEF Passed
    <3>2. call \in DOMAIN LocalApi
      BY <3>1, CallTables DEF RemoteOverrides, ObjectCalls, TransferCalls
    <3>3. QED
      BY <3>1, <3>2, RemoteRequest DEF Asks, Request
  <2>3. \A call \in (shown.loads \cup shown.offers) \ (AsksLocal \cup PullCalls \cup Writes) :
           Asks(call) \in RemoteRequests
    BY <2>1, <2>2 DEF Calls, RemoteMay
  <2>4. page.view \notin ObjectViews => shown.searches \cap Locals(RemoteViews) = {}
    BY <2>1
  <2>5. \A to \in shown.links : ~to.remote => to.view \in {"/", "relations", page.view}
    BY <2>1, ShownFits DEF Stays
  <2>6. QED
    BY <2>3, <2>4, <2>5 DEF RemoteStaysRemote
<1>2. QED
  BY <1>1, AccessInvariant, PTL


-----------------------------------------------------------------------------
(* What is found by links from the first page *)

Near(s, pages, at) == at \in pages /\ at \in Pages /\ Required(at.view) \subseteq s

Ring1(s, f) == Neighbours(s, f, {Home})
Ring2(s, f) == Neighbours(s, f, Ring1(s, f))
Ring3(s, f) == Neighbours(s, f, Ring2(s, f))
Ring4(s, f) == Neighbours(s, f, Ring3(s, f))

Found(s, f, call) == \E at \in Within(s, f) : call \in Shown(s, at, f).offers

LEMMA Rings ==
    ASSUME NEW s, NEW f
    PROVE  /\ Home \in Within(s, f)
           /\ Ring1(s, f) \subseteq Within(s, f) /\ Ring2(s, f) \subseteq Within(s, f)
           /\ Ring3(s, f) \subseteq Within(s, f) /\ Ring4(s, f) \subseteq Within(s, f)
<1> DEFINE Ring5 == Neighbours(s, f, Ring4(s, f))
<1>1. \A pages : pages \subseteq Neighbours(s, f, pages)
  BY DEF Neighbours
<1>2. Within(s, f) = Neighbours(s, f, Ring5)
  BY DEF Within, Ring1, Ring2, Ring3, Ring4
<1>3. Ring4(s, f) \subseteq Within(s, f)
  BY <1>1, <1>2
<1>4. Ring3(s, f) \subseteq Ring4(s, f) /\ Ring2(s, f) \subseteq Ring3(s, f)
  BY <1>1 DEF Ring4, Ring3
<1>5. Ring1(s, f) \subseteq Ring2(s, f) /\ Home \in Ring1(s, f)
  BY <1>1 DEF Ring2, Ring1
<1>6. QED
  BY <1>3, <1>4, <1>5

LEMMA Renders ==
    ASSUME NEW s \in SUBSET Caps, NEW at, NEW f
    PROVE  /\ Context(s, at, f).view = at.view /\ Context(s, at, f).remote = at.remote
           /\ Context(s, at, f).caps = s /\ Context(s, at, f).features = f
           /\ Context(s, at, f).signedIn
           /\ \A v : Context(s, Local(v), f).view = v /\ ~Context(s, Local(v), f).remote
           /\ \A v : Context(s, Remotely(v), f).view = v /\ Context(s, Remotely(v), f).remote
<1>1. s # Nobody
  BY AccessAssumption
<1>2. QED
  BY <1>1 DEF Context, Local, Remotely

LEMMA ShownParts ==
    ASSUME NEW s, NEW at, NEW f
    PROVE  /\ AppRoutes(Context(s, at, f)).links \subseteq Shown(s, at, f).links
           /\ Navigation(Context(s, at, f)).links \subseteq Shown(s, at, f).links
           /\ AppRoutes(Context(s, at, f)).offers \subseteq Shown(s, at, f).offers
  BY LinksOf, OffersOf DEF Shown

LEMMA NearFits ==
    ASSUME NEW s \in SUBSET Caps, NEW f, NEW pages, NEW at, Near(s, pages, at)
    PROVE  Fits(Context(s, at, f))
<1>1. [view |-> at.view, remote |-> at.remote] = at
  BY DEF Near, Pages, Locals, Local
<1>2. QED
  BY <1>1, Renders DEF Near, Fits

\* One link further.
LEMMA Onward ==
    ASSUME NEW s \in SUBSET Caps, NEW f, NEW pages, NEW at, Near(s, pages, at),
           NEW to, to # Local("login"),
           to \in AppRoutes(Context(s, at, f)).links \cup Navigation(Context(s, at, f)).links
    PROVE  Near(s, Neighbours(s, f, pages), to)
<1>1. to \in Shown(s, at, f).links
  BY ShownParts
<1>2. Reachable(Context(s, at, f), to)
  BY <1>1, NearFits, ShownReachable DEF Targets
<1>3. to \in Pages /\ to.view # "login" /\ Required(to.view) \subseteq s
  BY <1>2, Renders DEF Reachable
<1>4. s # Nobody
  BY AccessAssumption
<1>5. Arrive(s, to) = to
  BY <1>3, <1>4 DEF Arrive
<1>6. to \in Neighbours(s, f, pages)
  <2>1. to \in {Arrive(s, x) : x \in Shown(s, at, f).links}
    BY <1>1, <1>5
  <2>2. QED
    BY <2>1 DEF Neighbours, Near
<1>7. QED
  BY <1>3, <1>6 DEF Near

LEMMA FoundAt ==
    ASSUME NEW s, NEW f, NEW at,
           \/ at = Home \/ Near(s, Ring1(s, f), at) \/ Near(s, Ring2(s, f), at)
           \/ Near(s, Ring3(s, f), at) \/ Near(s, Ring4(s, f), at)
    PROVE  \A call \in AppRoutes(Context(s, at, f)).offers : Found(s, f, call)
<1>1. at \in Within(s, f)
  BY Rings DEF Near
<1>2. QED
  BY <1>1, ShownParts DEF Found

LEMMA InLocals ==
    /\ \A V : \A v \in V : Local(v) \in Locals(V)
    /\ \A v, w : v # w => Local(v) # Local(w)
    /\ \A v : Remotely(v) # Local("login")
  BY DEF Locals, Local, Remotely

\* One link further, to a page of this instance.
LEMMA OnwardLocal ==
    ASSUME NEW s \in SUBSET Caps, NEW f, NEW pages, NEW at, Near(s, pages, at),
           NEW to, to # "login", Local(to) \in AppRoutes(Context(s, at, f)).links
    PROVE  Near(s, Neighbours(s, f, pages), Local(to))
  BY Onward, InLocals

(* The links of a profile and of the settings *)

LEMMA HomeNear == ASSUME NEW s PROVE Near(s, {Home}, Home)
<1>1. Home \in Pages
  BY DEF Home, Pages, Locals, Local, LocalViews, RemoteViews, ListViews
<1>2. Home.view = "/" /\ Required("/") = {}
  BY DEF Home, Local, Required, SettingsViews
<1>3. QED
  BY <1>1, <1>2 DEF Near

LEMMA FirstRing ==
    ASSUME NEW s \in SUBSET Caps, NEW f
    PROVE  /\ Near(s, Ring1(s, f), Local("file"))
           /\ Near(s, Ring1(s, f), Local("profile"))
           /\ "manage_users" \in s => Near(s, Ring1(s, f), Local("settings"))
           /\ \A v \in UploadViews :
                 UploadCapability[v] \in s => Near(s, Ring1(s, f), Local(v))
           /\ "remotes" \in f => Near(s, Ring1(s, f), Remotely("/"))
<1> DEFINE c == Context(s, Home, f)
<1>1. /\ c.view = "/" /\ ~c.remote /\ c.signedIn /\ c.caps = s /\ c.features = f
  BY Renders DEF Home
<1>2. Local("file") \in AppRoutes(c).links
  <2>1. AppRoutes(c) = RecentSamplesView(c)
    BY <1>1, AppRoutesAre DEF ListViews, ListRoutes
  <2>2. Here(c, "file") = Local("file")
    BY <1>1, Renders DEF Here, Local, Home, Context
  <2>3. QED
    BY <2>1, <2>2, LinksOf DEF RecentSamplesView, RecentFileRow, ObjectLink, ObjectViews, If
<1>3. LocalNav(c).links \subseteq Navigation(c).links
  BY <1>1, LinksOf DEF Navigation, If
<1>4. Local("profile") \in Navigation(c).links
  BY <1>3, LinksOf, InLocals DEF LocalNav
<1>5. "manage_users" \in s => Local("settings") \in Navigation(c).links
  BY <1>1, <1>3, LinksOf DEF LocalNav, AdminNav, If, Can
<1>6. ASSUME NEW v \in UploadViews, UploadCapability[v] \in s
      PROVE  Local(v) \in Navigation(c).links
  <2>1. Local(v) \in {Local(u) : u \in {w \in UploadViews : Can(c, UploadCapability[w])}}
    BY <1>1, <1>6 DEF Can
  <2>2. Local(v) \in UploadNav(c).links
    BY <2>1, LinksOf DEF UploadNav
  <2>3. QED
    BY <1>3, <2>2, LinksOf DEF LocalNav
<1>7. "remotes" \in f => Remotely("/") \in Navigation(c).links
  BY <1>1, LinksOf DEF Navigation, RemoteDropdown, If, Is, Remotely
<1>8. "login" \notin UploadViews
  BY DEF UploadViews
<1>9. \A to \in AppRoutes(c).links \cup Navigation(c).links :
         to # Local("login") => Near(s, Ring1(s, f), to)
  BY HomeNear, Onward DEF Ring1
<1>10. Local("file") # Local("login") /\ Local("profile") # Local("login")
       /\ Local("settings") # Local("login")
  BY InLocals
<1>11. QED
  BY <1>2, <1>4, <1>5, <1>6, <1>7, <1>8, <1>9, <1>10, InLocals


LEMMA ProfileLinks ==
    ASSUME NEW c, c.view \in ProfileViews
    PROVE  /\ Local("profile/capabilities") \in AppRoutes(c).links
           /\ Local("profile/api-keys") \in AppRoutes(c).links
           /\ Is(c, "oidc") => Local("profile/oauth") \in AppRoutes(c).links
           /\ c.view = "profile" => Local("profile/group") \in AppRoutes(c).links
           /\ c.view = "profile/group" /\ MayManageMembers(c) =>
                 Local("profile/group/members") \in AppRoutes(c).links
<1>1. AppRoutes(c) = ProfileRoutes(c)
  BY AppRoutesAre
<1>2. \A inside : /\ ProfileNav(c).links \subseteq ProfileView(c, inside).links
                  /\ inside.links \subseteq ProfileView(c, inside).links
  BY LinksOf DEF ProfileView
<1>3. ProfileNav(c).links \subseteq AppRoutes(c).links
  BY <1>1, <1>2 DEF ProfileRoutes
<1>4. Locals({"profile", "profile/capabilities", "profile/groups", "profile/api-keys"})
         \subseteq ProfileNav(c).links
  BY LinksOf DEF ProfileNav
<1>5. Is(c, "oidc") => Local("profile/oauth") \in ProfileNav(c).links
  BY LinksOf DEF ProfileNav, If
<1>6. ASSUME c.view = "profile" PROVE Local("profile/group") \in AppRoutes(c).links
  <2>1. Local("profile/group") \in ProfileDetails(c).links
    BY LinksOf, InLocals DEF ProfileDetails, GroupBadges
  <2>2. QED
    BY <1>1, <1>2, <1>6, <2>1 DEF ProfileRoutes
<1>7. ASSUME c.view = "profile/group", MayManageMembers(c)
      PROVE  Local("profile/group/members") \in AppRoutes(c).links
  <2>1. Local("profile/group/members") \in ProfileGroup(c).links
    BY <1>7, LinksOf DEF ProfileGroup, If
  <2>2. QED
    BY <1>1, <1>2, <1>7, <2>1 DEF ProfileRoutes
<1>8. QED
  BY <1>3, <1>4, <1>5, <1>6, <1>7, InLocals

LEMMA SettingsLinks ==
    ASSUME NEW c, c.view \in SettingsViews
    PROVE  /\ \A v \in {"settings/capabilities", "settings/users", "settings/groups",
                       "settings/attributes"} : Local(v) \in AppRoutes(c).links
           /\ Is(c, "registration") \/ Is(c, "oidc_registration") =>
                 Local("settings/pending") \in AppRoutes(c).links
           /\ Is(c, "oidc") => Local("settings/oauth") \in AppRoutes(c).links
           /\ c.view = "settings/users" =>
                 /\ Local("settings/user") \in AppRoutes(c).links
                 /\ Local("settings/user/new") \in AppRoutes(c).links
           /\ c.view = "settings/user" =>
                 /\ Local("settings/user/password") \in AppRoutes(c).links
                 /\ Local("settings/user/groups") \in AppRoutes(c).links
           /\ c.view = "settings/groups" =>
                 /\ Local("settings/group") \in AppRoutes(c).links
                 /\ Local("settings/group/new") \in AppRoutes(c).links
           /\ c.view = "settings/group"
                 => Local("settings/group/members") \in AppRoutes(c).links
           /\ c.view = "settings/oauth" =>
                 /\ Local("settings/oauth/provider") \in AppRoutes(c).links
                 /\ Local("settings/oauth/register") \in AppRoutes(c).links
           /\ c.view = "settings/attributes" =>
                 /\ Local("settings/attribute") \in AppRoutes(c).links
                 /\ Local("settings/attribute/new") \in AppRoutes(c).links
           /\ c.view = "settings/attribute" =>
                 Local("settings/attribute/permissions") \in AppRoutes(c).links
<1>1. AppRoutes(c) = SettingsRoutes(c)
  BY AppRoutesAre
<1>2. \A inside : /\ SettingsNav(c).links \subseteq SettingsView(c, inside).links
                  /\ inside.links \subseteq SettingsView(c, inside).links
  BY LinksOf DEF SettingsView
<1>3. SettingsNav(c).links \subseteq AppRoutes(c).links
  BY <1>1, <1>2 DEF SettingsRoutes
<1>4. Locals({"settings", "settings/capabilities", "settings/users", "settings/groups",
              "settings/attributes"}) \subseteq SettingsNav(c).links
  BY LinksOf DEF SettingsNav
<1>5. /\ Is(c, "registration") \/ Is(c, "oidc_registration") =>
            Local("settings/pending") \in SettingsNav(c).links
      /\ Is(c, "oidc") => Local("settings/oauth") \in SettingsNav(c).links
  BY LinksOf DEF SettingsNav, If
<1>6. ASSUME c.view = "settings/users"
      PROVE  {Local("settings/user"), Local("settings/user/new")} \subseteq AppRoutes(c).links
  <2>1. {Local("settings/user"), Local("settings/user/new")} \subseteq UsersListView(c).links
    BY LinksOf DEF UsersListView, UserItem
  <2>2. QED
    BY <1>1, <1>2, <1>6, <2>1 DEF SettingsRoutes
<1>7. ASSUME c.view = "settings/user"
      PROVE  {Local("settings/user/password"), Local("settings/user/groups")}
                \subseteq AppRoutes(c).links
  <2>1. {Local("settings/user/password"), Local("settings/user/groups")}
           \subseteq UserDetailsView(c).links
    BY LinksOf, InLocals DEF UserDetailsView
  <2>2. \A inside : inside.links \subseteq UserView(c, inside).links
    BY LinksOf DEF UserView
  <2>3. SettingsRoutes(c) = SettingsView(c, UserView(c, UserDetailsView(c)))
    BY <1>7 DEF SettingsRoutes
  <2>4. QED
    BY <1>1, <1>2, <2>1, <2>2, <2>3
<1>8. ASSUME c.view = "settings/groups"
      PROVE  {Local("settings/group"), Local("settings/group/new")} \subseteq AppRoutes(c).links
  <2>1. {Local("settings/group"), Local("settings/group/new")} \subseteq GroupsListView(c).links
    BY LinksOf DEF GroupsListView, GroupItem
  <2>2. QED
    BY <1>1, <1>2, <1>8, <2>1 DEF SettingsRoutes
<1>9. ASSUME c.view = "settings/group"
      PROVE  Local("settings/group/members") \in AppRoutes(c).links
  <2>1. Local("settings/group/members") \in GroupDetailsView(c).links
    BY LinksOf, InLocals DEF GroupDetailsView
  <2>2. \A inside : inside.links \subseteq GroupView(c, inside).links
    BY LinksOf DEF GroupView
  <2>3. SettingsRoutes(c) = SettingsView(c, GroupView(c, GroupDetailsView(c)))
    BY <1>9 DEF SettingsRoutes
  <2>4. QED
    BY <1>1, <1>2, <2>1, <2>2, <2>3
<1>10. ASSUME c.view = "settings/oauth"
       PROVE  {Local("settings/oauth/provider"), Local("settings/oauth/register")}
                 \subseteq AppRoutes(c).links
  <2>1. {Local("settings/oauth/provider"), Local("settings/oauth/register")}
           \subseteq OAuthListProvidersView(c).links
    BY LinksOf, InLocals DEF OAuthListProvidersView
  <2>2. QED
    BY <1>1, <1>2, <1>10, <2>1 DEF SettingsRoutes
<1>11. ASSUME c.view = "settings/attributes"
       PROVE  {Local("settings/attribute"), Local("settings/attribute/new")}
                 \subseteq AppRoutes(c).links
  <2>1. {Local("settings/attribute"), Local("settings/attribute/new")}
           \subseteq AttributesListView(c).links
    BY LinksOf, InLocals DEF AttributesListView
  <2>2. QED
    BY <1>1, <1>2, <1>11, <2>1 DEF SettingsRoutes
<1>12. ASSUME c.view = "settings/attribute"
       PROVE  Local("settings/attribute/permissions") \in AppRoutes(c).links
  <2>1. Local("settings/attribute/permissions") \in AttributeDetailsView(c).links
    BY LinksOf, InLocals DEF AttributeDetailsView
  <2>2. \A inside : inside.links \subseteq AttributeView(c, inside).links
    BY LinksOf DEF AttributeView
  <2>3. SettingsRoutes(c) = SettingsView(c, AttributeView(c, AttributeDetailsView(c)))
    BY <1>12 DEF SettingsRoutes
  <2>4. QED
    BY <1>1, <1>2, <2>1, <2>2, <2>3
<1>13. \A v \in {"settings/capabilities", "settings/users", "settings/groups",
                "settings/attributes"} : Local(v) \in AppRoutes(c).links
  BY <1>3, <1>4, InLocals
<1>14. QED
  BY <1>3, <1>5, <1>6, <1>7, <1>8, <1>9, <1>10, <1>11, <1>12, <1>13


(* What the pages offer *)

LEMMA FilePageOffers ==
    ASSUME NEW c, c.view = "file", ~c.remote
    PROVE  LET offered == AppRoutes(c).offers IN
           /\ {"getObjectTags", "addObjectRelation", "addObjectAttribute",
              "getObjectAttributes",
               "getObject", "requestFileDownloadLink", "requestZipFileDownloadLink"}
                 \subseteq offered
           /\ Can(c, "removing_tags") => "removeObjectTag" \in offered
           /\ Can(c, "adding_tags") => "addObjectTag" \in offered
           /\ Can(c, "removing_parents") => "removeObjectRelation" \in offered
           /\ Can(c, "removing_attributes") => "removeObjectAttribute" \in offered
           /\ Can(c, "removing_comments") => "removeObjectComment" \in offered
           /\ Can(c, "adding_comments") => "addObjectComment" \in offered
           /\ Can(c, "personalize") => {"addObjectFavorite",
              "removeObjectFavorite"} \subseteq offered
           /\ Can(c, "removing_objects") => "removeObject" \in offered
           /\ Is(c, "karton") => "resubmitKartonAnalysis" \in offered
           /\ Is(c, "karton") /\ Can(c, "karton_unassign") =>
                 "removeKartonAnalysisFromObject" \in offered
           /\ Is(c, "consent") /\ Can(c, "modify_3rd_party_sharing") =>
                 "enableSharing3rdParty" \in offered
           /\ Is(c, "direct") => "shareObjectWith" \in offered
           /\ Is(c, "remotes") => "pushObjectRemote" \in offered
<1> DEFINE object == ShowObject(c, Here(c, "/"))
<1> DEFINE actions == ObjectActions(c, "file", Here(c, "/"))
<1>1. AppRoutes(c) = ShowSampleView(c)
  BY AppRoutesAre DEF ObjectViews, ObjectRoutes
<1>2. /\ object.offers \subseteq AppRoutes(c).offers
      /\ actions.offers \subseteq AppRoutes(c).offers
      /\ {"requestFileDownloadLink", "requestZipFileDownloadLink"} \subseteq AppRoutes(c).offers
  BY <1>1, OffersOf DEF ShowSampleView, DownloadAction, ZipAction
<1>3. /\ TagBox(c, Here(c, "/")).offers \subseteq object.offers
      /\ AttributesBox(c, Here(c, "/")).offers \subseteq object.offers
      /\ MultiRelationsBox(c).offers \subseteq object.offers
      /\ SharesBox(c).offers \subseteq object.offers
      /\ CommentBox(c).offers \subseteq object.offers
      /\ RelationsTab(c).offers \subseteq object.offers
      /\ Is(c, "karton") => KartonAnalysisBox(c).offers \subseteq object.offers
      /\ Is(c, "consent") => Share3rdPartyBox(c).offers \subseteq object.offers
  BY OffersOf DEF ShowObject, If
<1>4. /\ "getObjectTags" \in TagBox(c, Here(c, "/")).offers
      /\ Can(c, "removing_tags") => "removeObjectTag" \in TagBox(c, Here(c, "/")).offers
      /\ Can(c, "adding_tags") => "addObjectTag" \in TagBox(c, Here(c, "/")).offers
  BY OffersOf DEF TagBox, TagForm, If
<1>5. /\ {"addObjectAttribute", "getObjectAttributes"} \subseteq AttributesBox(c, Here(c, "/")).offers
      /\ Can(c, "removing_attributes") =>
            "removeObjectAttribute" \in AttributesBox(c, Here(c, "/")).offers
  BY OffersOf DEF AttributesBox, If
<1>6. /\ "addObjectRelation" \in MultiRelationsBox(c).offers
      /\ Can(c, "removing_parents") => "removeObjectRelation" \in MultiRelationsBox(c).offers
  <2>1. /\ "addObjectRelation" \in RelationsBox(c).offers
        /\ Can(c, "removing_parents") => "removeObjectRelation" \in RelationsBox(c).offers
    BY OffersOf DEF RelationsBox, RelationsAddModal, If
  <2>2. RelationsBox(c).offers \subseteq MultiRelationsBox(c).offers
    BY OffersOf DEF MultiRelationsBox, TypedRelationsBox
  <2>3. QED
    BY <2>1, <2>2
<1>7. Is(c, "direct") => "shareObjectWith" \in SharesBox(c).offers
  BY OffersOf DEF SharesBox, SharesList, ShareForm, If
<1>8. /\ Can(c, "removing_comments") => "removeObjectComment" \in CommentBox(c).offers
      /\ Can(c, "adding_comments") => "addObjectComment" \in CommentBox(c).offers
  BY OffersOf DEF CommentBox, CommentItem, CommentForm, If
<1>9. "getObject" \in RelationsTab(c).offers
  BY OffersOf DEF RelationsTab, RelationsPlotView
<1>10. /\ "resubmitKartonAnalysis" \in KartonAnalysisBox(c).offers
       /\ Can(c, "karton_unassign") =>
             "removeKartonAnalysisFromObject" \in KartonAnalysisBox(c).offers
  BY OffersOf DEF KartonAnalysisBox, KartonAnalysisRow, If
<1>11. Can(c, "modify_3rd_party_sharing")
      => "enableSharing3rdParty" \in Share3rdPartyBox(c).offers
  BY OffersOf DEF Share3rdPartyBox, If
<1>12. /\ Can(c, "personalize")
            => {"addObjectFavorite", "removeObjectFavorite"} \subseteq actions.offers
       /\ Can(c, "removing_objects") => "removeObject" \in actions.offers
       /\ Is(c, "remotes") => "pushObjectRemote" \in actions.offers
  BY OffersOf DEF ObjectActions, FavoriteAction, RemoveAction, PushAction, If
<1>13. QED
  BY <1>2, <1>3, <1>4, <1>5, <1>6, <1>7, <1>8, <1>9, <1>10, <1>11, <1>12

PullFor == [file |-> "pullFileRemote", config |-> "pullConfigRemote", blob |-> "pullBlobRemote"]

LEMMA PullOffers ==
    ASSUME NEW c, c.view \in ObjectViews, c.remote
    PROVE  PullFor[c.view] \in AppRoutes(c).offers
<1>1. \A endpoint : PullFor[c.view] \in ObjectActions(c, c.view, endpoint).offers
  BY OffersOf DEF ObjectActions, PullAction, PullFor, If
<1>2. AppRoutes(c) = ObjectRoutes(c)
  BY AppRoutesAre
<1>3. \E endpoint : ObjectActions(c, c.view, endpoint).offers \subseteq ObjectRoutes(c).offers
  <2>1. CASE c.view = "file"
    BY <2>1, OffersOf DEF ObjectRoutes, ShowSampleView
  <2>2. CASE c.view = "config"
    BY <2>2, OffersOf DEF ObjectRoutes, ShowConfigView
  <2>3. CASE c.view = "blob"
    BY <2>3, OffersOf DEF ObjectRoutes, ShowTextBlobView
  <2>4. QED
    BY <2>1, <2>2, <2>3 DEF ObjectViews
<1>4. QED
  BY <1>1, <1>2, <1>3

LEMMA ProfileOffers ==
    ASSUME NEW c
    PROVE  /\ c.view = "profile/api-keys" => {"apiKeyAdd", "apiKeyRemove"} \subseteq AppRoutes(c).offers
           /\ c.view = "profile/oauth" => "oauthAuthenticate" \in AppRoutes(c).offers
           /\ c.view = "profile/capabilities" /\ Can(c, "manage_users") =>
                 "updateGroup" \in AppRoutes(c).offers
           /\ c.view = "profile/group/members" /\ MayManageMembers(c) =>
                 "removeGroupMember" \in AppRoutes(c).offers
<1>1. c.view \in ProfileViews => AppRoutes(c) = ProfileRoutes(c)
  BY AppRoutesAre
<1>2. \A inside : inside.offers \subseteq ProfileView(c, inside).offers
  BY OffersOf DEF ProfileView
<1>3. {"apiKeyAdd", "apiKeyRemove"} \subseteq ProfileAPIKeys(c).offers
  BY OffersOf DEF ProfileAPIKeys
<1>4. "oauthAuthenticate" \in ProfileOAuth(c).offers
  BY OffersOf DEF ProfileOAuth
<1>5. Can(c, "manage_users") => "updateGroup" \in ProfileCapabilities(c).offers
  BY OffersOf DEF ProfileCapabilities, CapabilitiesTable, If
<1>6. MayManageMembers(c) => "removeGroupMember" \in ProfileGroupMembers(c).offers
  BY OffersOf DEF ProfileGroupMembers, ProfileGroupItems, If
<1>7. /\ c.view = "profile/api-keys" => ProfileRoutes(c) = ProfileView(c, ProfileAPIKeys(c))
      /\ c.view = "profile/oauth" => ProfileRoutes(c) = ProfileView(c, ProfileOAuth(c))
      /\ c.view = "profile/capabilities" => ProfileRoutes(c) = ProfileView(c,
         ProfileCapabilities(c))
      /\ c.view = "profile/group/members" => ProfileRoutes(c) = ProfileView(c,
         ProfileGroupMembers(c))
  BY DEF ProfileRoutes
<1>8. {"profile/api-keys", "profile/oauth", "profile/capabilities", "profile/group/members"}
         \subseteq ProfileViews
  BY DEF ProfileViews
<1>9. QED
  BY <1>1, <1>2, <1>3, <1>4, <1>5, <1>6, <1>7, <1>8

\* What each page of the settings is for.
SettingsCalls(view) ==
    CASE view = "settings/pending" -> {"acceptPendingUser", "rejectPendingUser"}
      [] view = "settings/user/new" -> {"createUser"}
      [] view = "settings/user" -> {"updateUser", "setUserDisabled", "removeUser"}
      [] view = "settings/user/password" -> {"userRequestPasswordChange",
          "generateSetPasswordToken"}
      [] view = "settings/group/new" -> {"registerGroup"}
      [] view = "settings/group" -> {"removeGroup"}
      [] view = "settings/group/members" -> {"addGroupMember", "setGroupAdmin"}
      [] view = "settings/oauth/register" -> {"oauthRegisterProvider"}
      [] view = "settings/oauth/provider" -> {"oauthUpdateSingleProvider",
          "oauthRemoveSingleProvider"}
      [] view = "settings/attribute/new" -> {"addAttributeDefinition"}
      [] view = "settings/attribute" -> {"updateAttributeDefinition",
          "removeAttributeDefinition"}
      [] view = "settings/attribute/permissions" -> {"setAttributePermission",
          "removeAttributePermission"}
      [] OTHER -> {}

LEMMA SettingsOffers ==
    ASSUME NEW c, c.view \in SettingsViews
    PROVE  SettingsCalls(c.view) \subseteq AppRoutes(c).offers
<1>1. AppRoutes(c) = SettingsRoutes(c)
  BY AppRoutesAre
<1>2. \A inside : /\ inside.offers \subseteq SettingsView(c, inside).offers
                  /\ inside.offers \subseteq UserView(c, inside).offers
                  /\ inside.offers \subseteq GroupView(c, inside).offers
                  /\ inside.offers \subseteq AttributeView(c, inside).offers
  BY OffersOf DEF SettingsView, UserView, GroupView, AttributeView
<1>3. CASE c.view = "settings/pending"
  <2>1. SettingsRoutes(c) = SettingsView(c, UsersPendingListView(c))
    BY <1>3 DEF SettingsRoutes
  <2>2. {"acceptPendingUser", "rejectPendingUser"} \subseteq UsersPendingListView(c).offers
    BY OffersOf DEF UsersPendingListView
  <2>3. SettingsCalls(c.view) = {"acceptPendingUser", "rejectPendingUser"}
    BY <1>3 DEF SettingsCalls
  <2>4. QED
    BY <1>1, <1>2, <2>1, <2>2, <2>3
<1>4. CASE c.view = "settings/user/new"
  <2>1. SettingsRoutes(c) = SettingsView(c, UserCreateView(c))
    BY <1>4 DEF SettingsRoutes
  <2>2. {"createUser"} \subseteq UserCreateView(c).offers
    BY OffersOf DEF UserCreateView
  <2>3. SettingsCalls(c.view) = {"createUser"}
    BY <1>4 DEF SettingsCalls
  <2>4. QED
    BY <1>1, <1>2, <2>1, <2>2, <2>3
<1>5. CASE c.view = "settings/user"
  <2>1. SettingsRoutes(c) = SettingsView(c, UserView(c, UserDetailsView(c)))
    BY <1>5 DEF SettingsRoutes
  <2>2. {"updateUser", "setUserDisabled", "removeUser"} \subseteq UserDetailsView(c).offers
    BY OffersOf DEF UserDetailsView
  <2>3. SettingsCalls(c.view) = {"updateUser", "setUserDisabled", "removeUser"}
    BY <1>5 DEF SettingsCalls
  <2>4. QED
    BY <1>1, <1>2, <2>1, <2>2, <2>3
<1>6. CASE c.view = "settings/user/password"
  <2>1. SettingsRoutes(c) = SettingsView(c, UserView(c, UserResetPasswordView(c)))
    BY <1>6 DEF SettingsRoutes
  <2>2. {"userRequestPasswordChange",
        "generateSetPasswordToken"} \subseteq UserResetPasswordView(c).offers
    BY OffersOf DEF UserResetPasswordView
  <2>3. SettingsCalls(c.view) = {"userRequestPasswordChange", "generateSetPasswordToken"}
    BY <1>6 DEF SettingsCalls
  <2>4. QED
    BY <1>1, <1>2, <2>1, <2>2, <2>3
<1>7. CASE c.view = "settings/group/new"
  <2>1. SettingsRoutes(c) = SettingsView(c, GroupCreateView(c))
    BY <1>7 DEF SettingsRoutes
  <2>2. {"registerGroup"} \subseteq GroupCreateView(c).offers
    BY OffersOf DEF GroupCreateView
  <2>3. SettingsCalls(c.view) = {"registerGroup"}
    BY <1>7 DEF SettingsCalls
  <2>4. QED
    BY <1>1, <1>2, <2>1, <2>2, <2>3
<1>8. CASE c.view = "settings/group"
  <2>1. SettingsRoutes(c) = SettingsView(c, GroupView(c, GroupDetailsView(c)))
    BY <1>8 DEF SettingsRoutes
  <2>2. {"removeGroup"} \subseteq GroupDetailsView(c).offers
    BY OffersOf DEF GroupDetailsView
  <2>3. SettingsCalls(c.view) = {"removeGroup"}
    BY <1>8 DEF SettingsCalls
  <2>4. QED
    BY <1>1, <1>2, <2>1, <2>2, <2>3
<1>9. CASE c.view = "settings/group/members"
  <2>1. SettingsRoutes(c) = SettingsView(c, GroupView(c, GroupMembersView(c)))
    BY <1>9 DEF SettingsRoutes
  <2>2. {"addGroupMember", "setGroupAdmin"} \subseteq GroupMembersView(c).offers
    BY OffersOf DEF GroupMembersView, MemberList
  <2>3. SettingsCalls(c.view) = {"addGroupMember", "setGroupAdmin"}
    BY <1>9 DEF SettingsCalls
  <2>4. QED
    BY <1>1, <1>2, <2>1, <2>2, <2>3
<1>10. CASE c.view = "settings/oauth/register"
  <2>1. SettingsRoutes(c) = SettingsView(c, OAuthRegisterView(c))
    BY <1>10 DEF SettingsRoutes
  <2>2. {"oauthRegisterProvider"} \subseteq OAuthRegisterView(c).offers
    BY OffersOf DEF OAuthRegisterView
  <2>3. SettingsCalls(c.view) = {"oauthRegisterProvider"}
    BY <1>10 DEF SettingsCalls
  <2>4. QED
    BY <1>1, <1>2, <2>1, <2>2, <2>3
<1>11. CASE c.view = "settings/oauth/provider"
  <2>1. SettingsRoutes(c) = SettingsView(c, OAuthProviderView(c))
    BY <1>11 DEF SettingsRoutes
  <2>2. {"oauthUpdateSingleProvider",
        "oauthRemoveSingleProvider"} \subseteq OAuthProviderView(c).offers
    BY OffersOf DEF OAuthProviderView
  <2>3. SettingsCalls(c.view) = {"oauthUpdateSingleProvider", "oauthRemoveSingleProvider"}
    BY <1>11 DEF SettingsCalls
  <2>4. QED
    BY <1>1, <1>2, <2>1, <2>2, <2>3
<1>12. CASE c.view = "settings/attribute/new"
  <2>1. SettingsRoutes(c) = SettingsView(c, AttributeCreateView(c))
    BY <1>12 DEF SettingsRoutes
  <2>2. {"addAttributeDefinition"} \subseteq AttributeCreateView(c).offers
    BY OffersOf DEF AttributeCreateView
  <2>3. SettingsCalls(c.view) = {"addAttributeDefinition"}
    BY <1>12 DEF SettingsCalls
  <2>4. QED
    BY <1>1, <1>2, <2>1, <2>2, <2>3
<1>13. CASE c.view = "settings/attribute"
  <2>1. SettingsRoutes(c) = SettingsView(c, AttributeView(c, AttributeDetailsView(c)))
    BY <1>13 DEF SettingsRoutes
  <2>2. {"updateAttributeDefinition",
        "removeAttributeDefinition"} \subseteq AttributeDetailsView(c).offers
    BY OffersOf DEF AttributeDetailsView
  <2>3. SettingsCalls(c.view) = {"updateAttributeDefinition", "removeAttributeDefinition"}
    BY <1>13 DEF SettingsCalls
  <2>4. QED
    BY <1>1, <1>2, <2>1, <2>2, <2>3
<1>14. CASE c.view = "settings/attribute/permissions"
  <2>1. SettingsRoutes(c) = SettingsView(c, AttributeView(c, AttributesPermissionsView(c)))
    BY <1>14 DEF SettingsRoutes
  <2>2. {"setAttributePermission",
        "removeAttributePermission"} \subseteq AttributesPermissionsView(c).offers
    BY OffersOf DEF AttributesPermissionsView
  <2>3. SettingsCalls(c.view) = {"setAttributePermission", "removeAttributePermission"}
    BY <1>14 DEF SettingsCalls
  <2>4. QED
    BY <1>1, <1>2, <2>1, <2>2, <2>3
<1>15. QED
  BY <1>3, <1>4, <1>5, <1>6, <1>7, <1>8, <1>9, <1>10, <1>11, <1>12, <1>13, <1>14
     DEF SettingsCalls


(* What is offered can be found *)

LEMMA AllowedFor ==
    ASSUME NEW s, NEW f, NEW cap \in DOMAIN CallsFor, NEW call \in CallsFor[cap],
           call # "removeGroupMember", Allowed(s, f, LocalApi[call])
    PROVE  cap \in s
<1> DEFINE removal == "DELETE/group/:name/member/:login"
<1>1. Server[LocalApi[call]].caps = {cap}
  BY CapDemands
<1>2. LocalApi["removeGroupMember"] = removal
  BY CallTables DEF AccountCalls
<1>3. Server[removal].caps = {"manage_users"}
  BY <1>2, CapDemands DEF CallsFor
<1>4. ASSUME cap = "manage_users" PROVE LocalApi[call] # removal
  <2>1. CASE call = "getServerAdminInfo"
    BY <2>1, CallTables DEF ServerCalls
  <2>2. CASE call \in {"oauthRegisterProvider", "oauthGetSingleProvider",
                      "oauthUpdateSingleProvider", "oauthRemoveSingleProvider"}
    BY <2>2, CallTables DEF AuthCalls
  <2>3. CASE call \in {"getGroups", "getGroup", "registerGroup", "updateGroup", "removeGroup",
                      "addGroupMember", "setGroupAdmin"}
    BY <2>3, CallTables DEF AccountCalls
  <2>4. CASE call \in {"getUsers", "getPendingUsers", "acceptPendingUser", "rejectPendingUser",
                      "getUser", "generateSetPasswordToken", "userRequestPasswordChange",
                      "setUserDisabled", "createUser", "updateUser", "removeUser"}
    BY <2>4, CallTables DEF AccountCalls
  <2>5. CASE call \in {"manageAttributeDefinitions", "getAttributeDefinition",
                      "addAttributeDefinition", "updateAttributeDefinition",
                      "removeAttributeDefinition", "getAttributePermissions",
                      "setAttributePermission", "removeAttributePermission"}
    BY <2>5, CallTables DEF AttributeCalls
  <2>6. QED
    BY <1>4, <2>1, <2>2, <2>3, <2>4, <2>5 DEF CallsFor
<1>5. LocalApi[call] # removal
  BY <1>1, <1>3, <1>4
<1>6. QED
  BY <1>1, <1>5 DEF Allowed, ByGroupAdmin

LEMMA ProfileFound ==
    ASSUME NEW s \in SUBSET Caps, NEW f
    PROVE  /\ Found(s, f, "apiKeyAdd") /\ Found(s, f, "apiKeyRemove")
           /\ "oidc" \in f => Found(s, f, "oauthAuthenticate")
           /\ "manage_users" \in s => Found(s, f, "updateGroup")
           /\ "manage_users" \in s \/ "groupAdmin" \in f => Found(s, f, "removeGroupMember")
<1> DEFINE c(v) == Context(s, Local(v), f)
<1>1. \A v : c(v).view = v /\ c(v).caps = s /\ c(v).features = f
  BY Renders
<1>2. Near(s, Ring1(s, f), Local("profile"))
  BY FirstRing
<1>3. "profile" \in ProfileViews /\ "profile/group" \in ProfileViews
  BY DEF ProfileViews
<1>4. /\ Near(s, Ring2(s, f), Local("profile/api-keys"))
      /\ Near(s, Ring2(s, f), Local("profile/capabilities"))
      /\ Near(s, Ring2(s, f), Local("profile/group"))
  <2>1. /\ Local("profile/api-keys") \in AppRoutes(c("profile")).links
        /\ Local("profile/capabilities") \in AppRoutes(c("profile")).links
        /\ Local("profile/group") \in AppRoutes(c("profile")).links
    BY <1>1, <1>3, ProfileLinks
  <2>2. QED
    BY <1>2, <2>1, OnwardLocal DEF Ring2
<1>5. "oidc" \in f => Near(s, Ring2(s, f), Local("profile/oauth"))
  BY <1>1, <1>2, <1>3, ProfileLinks, OnwardLocal DEF Ring2, Is
<1>6. ASSUME "manage_users" \in s \/ "groupAdmin" \in f
      PROVE  Found(s, f, "removeGroupMember")
  <2>1. \A v : MayManageMembers(c(v))
    BY <1>1, <1>6 DEF MayManageMembers, Is, Can
  <2>2. Near(s, Ring3(s, f), Local("profile/group/members"))
    BY <1>1, <1>3, <1>4, <2>1, ProfileLinks, OnwardLocal DEF Ring3
  <2>3. "removeGroupMember" \in AppRoutes(c("profile/group/members")).offers
    BY <1>1, <2>1, ProfileOffers
  <2>4. QED
    BY <2>2, <2>3, FoundAt
<1>7. Found(s, f, "apiKeyAdd") /\ Found(s, f, "apiKeyRemove")
  <2>1. {"apiKeyAdd", "apiKeyRemove"} \subseteq AppRoutes(c("profile/api-keys")).offers
    BY <1>1, ProfileOffers
  <2>2. QED
    BY <1>4, <2>1, FoundAt
<1>8. ASSUME "oidc" \in f PROVE Found(s, f, "oauthAuthenticate")
  <2>1. "oauthAuthenticate" \in AppRoutes(c("profile/oauth")).offers
    BY <1>1, ProfileOffers
  <2>2. QED
    BY <1>5, <1>8, <2>1, FoundAt
<1>9. ASSUME "manage_users" \in s PROVE Found(s, f, "updateGroup")
  <2>1. "updateGroup" \in AppRoutes(c("profile/capabilities")).offers
    BY <1>1, <1>9, ProfileOffers DEF Can
  <2>2. QED
    BY <1>4, <2>1, FoundAt
<1>10. QED
  BY <1>6, <1>7, <1>8, <1>9

LEMMA SettingsFound ==
    ASSUME NEW s \in SUBSET Caps, NEW f, "manage_users" \in s
    PROVE  /\ \A v \in {"settings/user/new", "settings/user", "settings/user/password",
                       "settings/group/new", "settings/group", "settings/group/members",
                       "settings/attribute/new", "settings/attribute",
                       "settings/attribute/permissions"} :
                 \A call \in SettingsCalls(v) : Found(s, f, call)
           /\ "registration" \in f \/ "oidc_registration" \in f =>
                 \A call \in SettingsCalls("settings/pending") : Found(s, f, call)
           /\ "oidc" \in f =>
                 \A v \in {"settings/oauth/register", "settings/oauth/provider"} :
                    \A call \in SettingsCalls(v) : Found(s, f, call)
<1> DEFINE c(v) == Context(s, Local(v), f)
<1>1. \A v : c(v).view = v /\ c(v).caps = s /\ c(v).features = f
  BY Renders
<1>2. Near(s, Ring1(s, f), Local("settings"))
  BY FirstRing
<1>3. {"settings", "settings/users", "settings/user", "settings/groups", "settings/group",
       "settings/attributes", "settings/attribute", "settings/oauth"} \subseteq SettingsViews
  BY DEF SettingsViews
<1>4. /\ Near(s, Ring2(s, f), Local("settings/users"))
      /\ Near(s, Ring2(s, f), Local("settings/groups"))
      /\ Near(s, Ring2(s, f), Local("settings/attributes"))
  <2>1. \A v \in {"settings/users", "settings/groups", "settings/attributes"} :
           Local(v) \in AppRoutes(c("settings")).links
    BY <1>1, <1>3, SettingsLinks
  <2>2. QED
    BY <1>2, <2>1, OnwardLocal DEF Ring2
<1>5. "registration" \in f \/ "oidc_registration" \in f =>
         Near(s, Ring2(s, f), Local("settings/pending"))
  <2>1. "registration" \in f \/ "oidc_registration" \in f =>
           Local("settings/pending") \in AppRoutes(c("settings")).links
    BY <1>1, <1>3, SettingsLinks DEF Is
  <2>2. QED
    BY <1>2, <2>1, OnwardLocal DEF Ring2
<1>6. "oidc" \in f => Near(s, Ring2(s, f), Local("settings/oauth"))
  <2>1. "oidc" \in f => Local("settings/oauth") \in AppRoutes(c("settings")).links
    BY <1>1, <1>3, SettingsLinks DEF Is
  <2>2. QED
    BY <1>2, <2>1, OnwardLocal DEF Ring2
<1>7. /\ Near(s, Ring3(s, f), Local("settings/user/new"))
      /\ Near(s, Ring3(s, f), Local("settings/user"))
  BY <1>1, <1>3, <1>4, SettingsLinks, OnwardLocal DEF Ring3
<1>8. /\ Near(s, Ring3(s, f), Local("settings/group/new"))
      /\ Near(s, Ring3(s, f), Local("settings/group"))
  BY <1>1, <1>3, <1>4, SettingsLinks, OnwardLocal DEF Ring3
<1>9. /\ Near(s, Ring3(s, f), Local("settings/attribute/new"))
      /\ Near(s, Ring3(s, f), Local("settings/attribute"))
  BY <1>1, <1>3, <1>4, SettingsLinks, OnwardLocal DEF Ring3
<1>10. "oidc" \in f => /\ Near(s, Ring3(s, f), Local("settings/oauth/register"))
                       /\ Near(s, Ring3(s, f), Local("settings/oauth/provider"))
  BY <1>1, <1>3, <1>6, SettingsLinks, OnwardLocal DEF Ring3
<1>11. Near(s, Ring4(s, f), Local("settings/user/password"))
  BY <1>1, <1>3, <1>7, SettingsLinks, OnwardLocal DEF Ring4
<1>12. Near(s, Ring4(s, f), Local("settings/group/members"))
  BY <1>1, <1>3, <1>8, SettingsLinks, OnwardLocal DEF Ring4
<1>13. Near(s, Ring4(s, f), Local("settings/attribute/permissions"))
  BY <1>1, <1>3, <1>9, SettingsLinks, OnwardLocal DEF Ring4
<1>14. ASSUME NEW v \in SettingsViews,
              \/ Near(s, Ring2(s, f), Local(v)) \/ Near(s, Ring3(s, f), Local(v))
              \/ Near(s, Ring4(s, f), Local(v))
       PROVE  \A call \in SettingsCalls(v) : Found(s, f, call)
  <2>1. SettingsCalls(v) \subseteq AppRoutes(c(v)).offers
    BY <1>1, SettingsOffers
  <2>2. QED
    BY <1>14, <2>1, FoundAt
<1>15. {"settings/user/new", "settings/user", "settings/user/password", "settings/group/new",
        "settings/group", "settings/group/members", "settings/attribute/new",
        "settings/attribute", "settings/attribute/permissions", "settings/pending",
        "settings/oauth/register", "settings/oauth/provider"} \subseteq SettingsViews
  BY DEF SettingsViews
<1>16. QED
  BY <1>5, <1>7, <1>8, <1>9, <1>10, <1>11, <1>12, <1>13, <1>14, <1>15

LEMMA RemoteFound ==
    ASSUME NEW s \in SUBSET Caps, NEW f, "remotes" \in f
    PROVE  \A call \in PullCalls : Found(s, f, call)
<1> DEFINE c(v) == Context(s, Remotely(v), f)
<1>1. \A v : /\ c(v).view = v /\ c(v).caps = s /\ c(v).features = f /\ c(v).remote
             /\ \A w : Here(c(v), w) = Remotely(w)
  BY Renders DEF Here, Context, Remotely
<1>2. Near(s, Ring1(s, f), Remotely("/"))
  BY FirstRing
<1>3. /\ AppRoutes(c("/")) = RecentSamplesView(c("/"))
      /\ AppRoutes(c("configs")) = RecentConfigsView(c("configs"))
      /\ AppRoutes(c("blobs")) = RecentBlobsView(c("blobs"))
  BY <1>1, AppRoutesAre DEF ListViews, ListRoutes
<1>4. /\ Remotely("file") \in AppRoutes(c("/")).links
      /\ Remotely("config") \in AppRoutes(c("configs")).links
      /\ Remotely("blob") \in AppRoutes(c("blobs")).links
  BY <1>1, <1>3, LinksOf
  DEF RecentSamplesView, RecentConfigsView, RecentBlobsView, RecentFileRow, RecentConfigRow,
      RecentBlobRow, ObjectLink, ObjectViews, If
<1>5. {Remotely("configs"), Remotely("blobs")} \subseteq Navigation(c("/")).links
  <2>1. \A v \in ListViews : Remotely(v) \in AllHere(c("/"), ListViews)
    BY <1>1 DEF AllHere
  <2>2. RemoteNav(c("/")).links \subseteq Navigation(c("/")).links
    <3>1. c("/").signedIn /\ c("/").remote
      BY <1>1, Renders
    <3>2. QED
      BY <3>1, LinksOf DEF Navigation, If
  <2>3. QED
    BY <2>1, <2>2, LinksOf DEF RemoteNav, ListViews
<1>6. /\ Near(s, Ring2(s, f), Remotely("file"))
      /\ Near(s, Ring2(s, f), Remotely("configs"))
      /\ Near(s, Ring2(s, f), Remotely("blobs"))
  BY <1>2, <1>4, <1>5, Onward, InLocals DEF Ring2
<1>7. Near(s, Ring3(s, f), Remotely("config")) /\ Near(s, Ring3(s, f), Remotely("blob"))
  BY <1>4, <1>6, Onward, InLocals DEF Ring3
<1>8. \A v \in ObjectViews : PullFor[v] \in AppRoutes(c(v)).offers
  BY <1>1, PullOffers
<1>9. \A v \in ObjectViews : Found(s, f, PullFor[v])
  BY <1>6, <1>7, <1>8, FoundAt DEF ObjectViews
<1>10. QED
  BY <1>9 DEF PullFor, PullCalls, ObjectViews


\* The calls that some page offers, by where they are found.
PlainOffers ==
    {"getObjectTags", "addObjectRelation", "addObjectAttribute", "getObjectAttributes",
     "getObject", "requestFileDownloadLink", "requestZipFileDownloadLink"}
CapOffers ==
    {"addObjectTag", "removeObjectTag", "removeObjectRelation", "removeObjectAttribute",
     "removeObjectComment", "addObjectComment", "addObjectFavorite", "removeObjectFavorite",
     "removeObject"}
QueryOffers == {"addQuickQuery", "deleteQuickQuery"}
UploadOffers ==
    {"uploadFile", "uploadFileWithParent", "uploadBlob", "uploadBlobWithParent", "uploadConfig",
     "uploadConfigWithParent"}
ProfileOnly == {"apiKeyAdd", "apiKeyRemove", "authRequestPasswordChange"}
ManagerOffers ==
    {"updateGroup", "createUser", "updateUser", "setUserDisabled", "removeUser",
     "userRequestPasswordChange", "generateSetPasswordToken", "registerGroup", "removeGroup",
     "addGroupMember", "setGroupAdmin", "addAttributeDefinition", "updateAttributeDefinition",
     "removeAttributeDefinition", "setAttributePermission", "removeAttributePermission"}
PendingOffers == {"acceptPendingUser", "rejectPendingUser"}
ProviderOffers ==
    {"oauthRegisterProvider", "oauthUpdateSingleProvider", "oauthRemoveSingleProvider"}
KartonOffers == {"resubmitKartonAnalysis", "removeKartonAnalysisFromObject"}

Findable(f, call) ==
    \/ call \in PlainOffers \cup CapOffers \cup QueryOffers \cup UploadOffers \cup ProfileOnly
    \/ call \in ManagerOffers \cup {"removeGroupMember"}
    \/ call \in PendingOffers /\ ("registration" \in f \/ "oidc_registration" \in f)
    \/ call \in ProviderOffers \cup {"oauthAuthenticate"} /\ "oidc" \in f
    \/ call \in KartonOffers /\ "karton" \in f
    \/ call = "enableSharing3rdParty" /\ "consent" \in f
    \/ call = "shareObjectWith" /\ "direct" \in f
    \/ call \in PullCalls \cup {"pushObjectRemote"} /\ "remotes" \in f

LEMMA FileFound ==
    ASSUME NEW s \in SUBSET Caps, NEW f, NEW call, Allowed(s, f, LocalApi[call]),
           \/ call \in PlainOffers \cup CapOffers
           \/ call \in KartonOffers /\ "karton" \in f
           \/ call = "enableSharing3rdParty" /\ "consent" \in f
           \/ call = "shareObjectWith" /\ "direct" \in f
           \/ call = "pushObjectRemote" /\ "remotes" \in f
    PROVE  Found(s, f, call)
<1> DEFINE c == Context(s, Local("file"), f)
<1>1. c.view = "file" /\ ~c.remote /\ c.caps = s /\ c.features = f
  BY Renders
<1>2. Near(s, Ring1(s, f), Local("file"))
  BY FirstRing
<1>3. SUFFICES call \in AppRoutes(c).offers
  BY <1>2, FoundAt
<1>4. CASE call \in PlainOffers
  BY <1>1, <1>4, FilePageOffers DEF PlainOffers
<1>5. /\ call = "addObjectTag" => Can(c, "adding_tags")
      /\ call = "removeObjectTag" => Can(c, "removing_tags")
      /\ call = "removeObjectRelation" => Can(c, "removing_parents")
      /\ call = "removeObjectAttribute" => Can(c, "removing_attributes")
      /\ call = "removeObjectComment" => Can(c, "removing_comments")
      /\ call = "addObjectComment" => Can(c, "adding_comments")
      /\ call \in {"addObjectFavorite", "removeObjectFavorite"} => Can(c, "personalize")
      /\ call = "removeObject" => Can(c, "removing_objects")
      /\ call = "removeKartonAnalysisFromObject" => Can(c, "karton_unassign")
      /\ call = "enableSharing3rdParty" => Can(c, "modify_3rd_party_sharing")
  BY <1>1, AllowedFor DEF CallsFor, Can
<1>6. CASE call \in CapOffers
  BY <1>1, <1>5, <1>6, FilePageOffers DEF CapOffers
<1>7. CASE call \in KartonOffers /\ "karton" \in f
  BY <1>1, <1>5, <1>7, FilePageOffers DEF KartonOffers, Is
<1>8. CASE call = "enableSharing3rdParty" /\ "consent" \in f
  BY <1>1, <1>5, <1>8, FilePageOffers DEF Is
<1>9. CASE call = "shareObjectWith" /\ "direct" \in f
  BY <1>1, <1>9, FilePageOffers DEF Is
<1>10. CASE call = "pushObjectRemote" /\ "remotes" \in f
  BY <1>1, <1>10, FilePageOffers DEF Is
<1>11. QED
  BY <1>4, <1>6, <1>7, <1>8, <1>9, <1>10

LEMMA HomeFound ==
    ASSUME NEW s \in SUBSET Caps, NEW f, NEW call \in QueryOffers, Allowed(s, f, LocalApi[call])
    PROVE  Found(s, f, call)
<1> DEFINE c == Context(s, Home, f)
<1>1. c.view = "/" /\ ~c.remote /\ c.caps = s
  BY Renders DEF Home
<1>2. Can(c, "personalize")
  BY <1>1, AllowedFor DEF CallsFor, QueryOffers, Can
<1>3. AppRoutes(c) = RecentSamplesView(c)
  BY <1>1, AppRoutesAre DEF ListViews, ListRoutes
<1>4. call \in QuickQuery(c).offers
  BY <1>1, <1>2, OffersOf DEF QuickQuery, QueryOffers, If
<1>5. call \in AppRoutes(c).offers
  BY <1>3, <1>4, OffersOf DEF RecentSamplesView, RecentView
<1>6. QED
  BY <1>5, FoundAt

LEMMA UploadFound ==
    ASSUME NEW s \in SUBSET Caps, NEW f, NEW call \in UploadOffers, Allowed(s, f,
        LocalApi[call])
    PROVE  Found(s, f, call)
<1> DEFINE c(v) == Context(s, Local(v), f)
<1>1. \A v : c(v).view = v /\ c(v).caps = s
  BY Renders
<1>2. /\ AppRoutes(c("upload")) = UploadFileView(c("upload"))
      /\ AppRoutes(c("blob_upload")) = UploadBlobView(c("blob_upload"))
      /\ AppRoutes(c("config_upload")) = UploadConfigView(c("config_upload"))
  BY <1>1, AppRoutesAre
<1>3. \A v, plain, withParent :
         /\ plain \in Upload(c(v), plain, withParent).offers
         /\ "adding_parents" \in s => withParent \in Upload(c(v), plain, withParent).offers
  BY <1>1, OffersOf DEF Upload, If, Can
<1>4. /\ "uploadFile" \in AppRoutes(c("upload")).offers
      /\ "adding_parents" \in s => "uploadFileWithParent" \in AppRoutes(c("upload")).offers
  BY <1>2, <1>3, OffersOf DEF UploadFileView
<1>5. /\ "uploadBlob" \in AppRoutes(c("blob_upload")).offers
      /\ "adding_parents" \in s => "uploadBlobWithParent" \in AppRoutes(c("blob_upload")).offers
  BY <1>2, <1>3, OffersOf DEF UploadBlobView
<1>6. /\ "uploadConfig" \in AppRoutes(c("config_upload")).offers
      /\ "adding_parents" \in s
            => "uploadConfigWithParent" \in AppRoutes(c("config_upload")).offers
  BY <1>2, <1>3, OffersOf DEF UploadConfigView
<1>7. /\ "adding_files" \in s => Near(s, Ring1(s, f), Local("upload"))
      /\ "adding_blobs" \in s => Near(s, Ring1(s, f), Local("blob_upload"))
      /\ "adding_configs" \in s => Near(s, Ring1(s, f), Local("config_upload"))
  BY FirstRing DEF UploadViews, UploadCapability
<1>8. /\ call = "uploadFile" => "adding_files" \in s
      /\ call = "uploadBlob" => "adding_blobs" \in s
      /\ call = "uploadConfig" => "adding_configs" \in s
  BY AllowedFor DEF CallsFor
<1>9. call \in {"uploadFileWithParent", "uploadBlobWithParent", "uploadConfigWithParent"} =>
         Server[LocalApi[call]].caps \subseteq s
  BY CallTables DEF TransferCalls, Allowed, ByGroupAdmin
<1>10. /\ call = "uploadFileWithParent" => {"adding_files", "adding_parents"} \subseteq s
       /\ call = "uploadBlobWithParent" => {"adding_blobs", "adding_parents"} \subseteq s
       /\ call = "uploadConfigWithParent" => {"adding_configs", "adding_parents"} \subseteq s
  BY <1>9, ChildDemands
<1>11. CASE call \in {"uploadFile", "uploadFileWithParent"}
  BY <1>4, <1>7, <1>8, <1>10, <1>11, FoundAt
<1>12. CASE call \in {"uploadBlob", "uploadBlobWithParent"}
  BY <1>5, <1>7, <1>8, <1>10, <1>12, FoundAt
<1>13. CASE call \in {"uploadConfig", "uploadConfigWithParent"}
  BY <1>6, <1>7, <1>8, <1>10, <1>13, FoundAt
<1>14. QED
  BY <1>11, <1>12, <1>13 DEF UploadOffers

LEMMA FindableFound ==
    ASSUME NEW s \in SUBSET Caps, NEW f, NEW call, Findable(f, call),
           Allowed(s, f, LocalApi[call]), call # "authRequestPasswordChange"
    PROVE  Found(s, f, call)
<1>1. ASSUME call \in ManagerOffers \cup PendingOffers \cup ProviderOffers
      PROVE  "manage_users" \in s
  <2>1. /\ call \in CallsFor["manage_users"] /\ "manage_users" \in DOMAIN CallsFor
        /\ call # "removeGroupMember"
    BY <1>1 DEF ManagerOffers, PendingOffers, ProviderOffers, CallsFor
  <2>2. QED
    BY <2>1, AllowedFor
<1>2. CASE call \in ManagerOffers
  <2>1. \/ call = "updateGroup"
        \/ \E v \in {"settings/user/new", "settings/user", "settings/user/password",
                     "settings/group/new", "settings/group", "settings/group/members",
                     "settings/attribute/new", "settings/attribute",
                     "settings/attribute/permissions"} : call \in SettingsCalls(v)
    BY <1>2 DEF ManagerOffers, SettingsCalls
  <2>2. QED
    BY <1>1, <1>2, <2>1, ProfileFound, SettingsFound
<1>3. CASE call \in PendingOffers /\ ("registration" \in f \/ "oidc_registration" \in f)
  <2>1. call \in SettingsCalls("settings/pending")
    BY <1>3 DEF PendingOffers, SettingsCalls
  <2>2. QED
    BY <1>1, <1>3, <2>1, SettingsFound
<1>4. CASE call \in ProviderOffers \cup {"oauthAuthenticate"} /\ "oidc" \in f
  <2>1. \/ call = "oauthAuthenticate"
        \/ \E v \in {"settings/oauth/register", "settings/oauth/provider"} :
              call \in SettingsCalls(v)
    BY <1>4 DEF ProviderOffers, SettingsCalls
  <2>2. call # "oauthAuthenticate" => "manage_users" \in s
    BY <1>1, <1>4
  <2>3. QED
    BY <1>4, <2>1, <2>2, ProfileFound, SettingsFound
<1>5. CASE call \in PullCalls \cup {"pushObjectRemote"} /\ "remotes" \in f
  BY <1>5, RemoteFound, FileFound
<1>6. CASE call = "removeGroupMember"
  <2>1. Server[LocalApi[call]].caps = {"manage_users"}
    BY <1>6, CapDemands DEF CallsFor
  <2>2. "manage_users" \in s \/ "groupAdmin" \in f
    BY <2>1 DEF Allowed
  <2>3. QED
    BY <1>6, <2>2, ProfileFound
<1>7. CASE call \in ProfileOnly
  BY <1>7, ProfileFound DEF ProfileOnly
<1>8. QED
  BY <1>2, <1>3, <1>4, <1>5, <1>6, <1>7, FileFound, HomeFound, UploadFound DEF Findable


(* What a page that is meant to be shown offers, whatever the rights *)

\* A page of an instance with the features of its context.
MeantHere(c) ==
    /\ c.remote => "remotes" \in c.features
    /\ c.view \in OidcViews => "oidc" \in c.features
    /\ c.view = "settings/pending" =>
          "registration" \in c.features \/ "oidc_registration" \in c.features

LEMMA ShowObjectFindable ==
    ASSUME NEW c, NEW endpoint, NEW call \in ShowObject(c, endpoint).offers
    PROVE  Findable(c.features, call)
<1>1. call \in AttributesBox(c, endpoint).offers => call \in PlainOffers \cup CapOffers
  BY OffersOf
  DEF AttributesBox, AttributeRenderer, RichAttributeValue, AttributeValue, AttributesAddModal,
      If, PlainOffers, CapOffers
<1>2. call \in TagBox(c, endpoint).offers => call \in PlainOffers \cup CapOffers
  BY OffersOf DEF TagBox, Tags, TagForm, If, PlainOffers, CapOffers
<1>3. call \in Share3rdPartyBox(c).offers => call = "enableSharing3rdParty"
  BY OffersOf DEF Share3rdPartyBox, If
<1>4. call \in MultiRelationsBox(c).offers => call \in PlainOffers \cup CapOffers
  <2>1. RelationRows(c).offers = {}
    BY OffersOf DEF RelationRows, ObjectLink, Tags, If
  <2>2. RelationsBox(c).offers \subseteq {"addObjectRelation", "removeObjectRelation"}
    BY <2>1, OffersOf DEF RelationsBox, RelationsAddModal, If
  <2>3. call \in MultiRelationsBox(c).offers => call \in RelationsBox(c).offers
    BY OffersOf DEF MultiRelationsBox, TypedRelationsBox, RelationsHeader
  <2>4. QED
    BY <2>2, <2>3 DEF PlainOffers, CapOffers
<1>5. call \in KartonAnalysisBox(c).offers => call \in KartonOffers
  BY OffersOf DEF KartonAnalysisBox, KartonAnalysisRow, If, KartonOffers
<1>6. call \in SharesBox(c).offers => call = "shareObjectWith" /\ Is(c, "direct")
  <2>1. ShareReasonString(c).offers = {}
    BY OffersOf DEF ShareReasonString
  <2>2. QED
    BY <2>1, OffersOf DEF SharesBox, SharesList, ShareGroupItem, ShareForm, If
<1>7. call \in CommentBox(c).offers => call \in CapOffers
  BY OffersOf DEF CommentBox, CommentItem, CommentForm, If, CapOffers
<1>8. call \in RelationsTab(c).offers => call \in PlainOffers
  <2>1. RelationsNode(c).offers = {}
    BY OffersOf DEF RelationsNode
  <2>2. QED
    BY <2>1, OffersOf DEF RelationsTab, RelationsPlotView, PlainOffers
<1>9. \/ call \in PlainOffers \cup CapOffers
      \/ call = "enableSharing3rdParty" /\ Is(c, "consent")
      \/ call \in KartonOffers /\ Is(c, "karton")
      \/ call = "shareObjectWith" /\ Is(c, "direct")
  BY <1>1, <1>2, <1>3, <1>4, <1>5, <1>6, <1>7, <1>8, OffersOf DEF ShowObject, If
<1>10. QED
  BY <1>9 DEF Findable, Is

LEMMA ObjectActionsFindable ==
    ASSUME NEW c, MeantHere(c), NEW type \in ObjectViews, NEW endpoint,
           NEW call \in ObjectActions(c, type, endpoint).offers
    PROVE  Findable(c.features, call)
<1>1. \/ call \in CapOffers
      \/ call \in PullCalls /\ c.remote
      \/ call = "pushObjectRemote" /\ Is(c, "remotes")
  BY OffersOf
  DEF ObjectActions, FavoriteAction, PullAction, PushAction, RemoveAction, ObjectViews, If,
      CapOffers, PullCalls
<1>2. QED
  BY <1>1 DEF Findable, Is, MeantHere

LEMMA ObjectRoutesFindable ==
    ASSUME NEW c, MeantHere(c), c.view \in ObjectViews \cup {"diff"},
           NEW call \in ObjectRoutes(c).offers
    PROVE  Findable(c.features, call)
<1>1. LatestConfigTab(c).offers = {} /\ ConfigTable(c).offers = {}
  BY OffersOf DEF LatestConfigTab, ConfigTable, ConfigRow, ObjectLink, If
<1>2. CASE c.view = "file"
  <2>1. \/ call \in ShowObject(c, Here(c, "/")).offers
        \/ call \in ObjectActions(c, "file", Here(c, "/")).offers
        \/ call \in PlainOffers
    BY <1>1, <1>2, OffersOf
    DEF ObjectRoutes, ShowSampleView, SampleDetails, SamplePreview, DownloadAction, ZipAction,
        UploadChildAction, If, PlainOffers
  <2>2. QED
    BY <2>1, ShowObjectFindable, ObjectActionsFindable DEF ObjectViews, Findable
<1>3. CASE c.view = "config"
  <2>1. \/ call \in ShowObject(c, Here(c, "configs")).offers
        \/ call \in ObjectActions(c, "config", Here(c, "configs")).offers
    BY <1>1, <1>3, OffersOf DEF ObjectRoutes, ShowConfigView, DownloadAction
  <2>2. QED
    BY <2>1, ShowObjectFindable, ObjectActionsFindable DEF ObjectViews
<1>4. CASE c.view = "blob"
  <2>1. \/ call \in ShowObject(c, Here(c, "blobs")).offers
        \/ call \in ObjectActions(c, "blob", Here(c, "blobs")).offers
    BY <1>1, <1>4, OffersOf
    DEF ObjectRoutes, ShowTextBlobView, TextBlobDetails, DownloadAction, BlobDiffAction
  <2>2. QED
    BY <2>1, ShowObjectFindable, ObjectActionsFindable DEF ObjectViews
<1>5. CASE c.view = "diff"
  BY <1>5, OffersOf DEF ObjectRoutes, DiffTextBlobView
<1>6. QED
  BY <1>2, <1>3, <1>4, <1>5 DEF ObjectViews

LEMMA ListRoutesFindable ==
    ASSUME NEW c, c.view \in ListViews, NEW call \in ListRoutes(c).offers
    PROVE  call \in QueryOffers
<1>1. RecentView(c).offers \subseteq QueryOffers
  BY OffersOf DEF RecentView, QuickQuery, If, QueryOffers
<1>2. RecentObjectRow(c).offers = {}
  BY OffersOf DEF RecentObjectRow
<1>3. QED
  BY <1>1, <1>2, OffersOf
  DEF ListViews, ListRoutes, RecentSamplesView, RecentConfigsView, RecentBlobsView, SearchView,
      RecentFileRow, RecentConfigRow, RecentBlobRow, ObjectLink, If

LEMMA ProfileRoutesFindable ==
    ASSUME NEW c, MeantHere(c), c.view \in ProfileViews, NEW call \in ProfileRoutes(c).offers
    PROVE  Findable(c.features, call)
<1>1. \A base : GroupBadges(base).offers = {}
  BY OffersOf DEF GroupBadges
<1>2. ProfileNav(c).offers = {}
  BY OffersOf DEF ProfileNav, If
<1>3. CASE c.view # "profile/oauth"
  <2>1. call \in {"removeGroupMember", "updateGroup", "apiKeyAdd", "apiKeyRemove",
                 "authRequestPasswordChange"}
    BY <1>1, <1>2, <1>3, OffersOf
    DEF ProfileViews, ProfileRoutes, ProfileView, ProfileDetails, ProfileGroup, ProfileGroups,
        ProfileGroupMembers, ProfileGroupItems, ProfileCapabilities, CapabilitiesSelect,
        CapabilitiesTable, ProfileAPIKeys, ProfileResetPassword, If
  <2>2. QED
    BY <2>1 DEF Findable, ManagerOffers, ProfileOnly
<1>4. CASE c.view = "profile/oauth"
  <2>1. call = "oauthAuthenticate"
    BY <1>2, <1>4, OffersOf DEF ProfileRoutes, ProfileView, ProfileOAuth
  <2>2. QED
    BY <1>4, <2>1 DEF Findable, MeantHere, OidcViews
<1>5. QED
  BY <1>3, <1>4

LEMMA SettingsRoutesFindable ==
    ASSUME NEW c, MeantHere(c), c.view \in SettingsViews, NEW call \in SettingsRoutes(c).offers
    PROVE  Findable(c.features, call)
<1>1. \A base : GroupBadges(base).offers = {}
  BY OffersOf DEF GroupBadges
<1>2. SettingsNav(c).offers = {}
  BY OffersOf DEF SettingsNav, If
<1>3. ManagerOffers \cup {"removeGroupMember", "apiKeyAdd", "apiKeyRemove"}
         \subseteq {x \in ManagerOffers \cup {"removeGroupMember"} \cup ProfileOnly :
                       Findable(c.features, x)}
  BY DEF Findable, ProfileOnly
<1>4. CASE c.view \in {"settings", "settings/users", "settings/user/new",
      "settings/capabilities"}
  <2>1. call \in {"createUser", "updateGroup"}
    BY <1>1, <1>2, <1>4, OffersOf
    DEF SettingsRoutes, SettingsView, SettingsOverviewView, UsersListView, UserItem,
        UserCreateView, AccessControlView
  <2>2. QED
    BY <1>3, <2>1 DEF ManagerOffers
<1>5. CASE c.view = "settings/pending"
  <2>1. call \in PendingOffers
    BY <1>2, <1>5, OffersOf DEF SettingsRoutes, SettingsView, UsersPendingListView,
       PendingOffers
  <2>2. QED
    BY <1>5, <2>1 DEF Findable, MeantHere
<1>6. CASE c.view \in {"settings/user", "settings/user/capabilities", "settings/user/api-keys",
                      "settings/user/password", "settings/user/groups"}
  <2>1. call \in {"updateGroup", "updateUser", "setUserDisabled", "removeUser", "apiKeyAdd",
                 "apiKeyRemove", "userRequestPasswordChange", "generateSetPasswordToken",
                 "addGroupMember", "removeGroupMember"}
    BY <1>1, <1>2, <1>6, OffersOf
    DEF SettingsRoutes, SettingsView, UserView, UserDetailsView, ProfileCapabilities,
        CapabilitiesSelect, CapabilitiesTable, ProfileAPIKeys, UserResetPasswordView,
        UserSingleGroupsView, If
  <2>2. QED
    BY <1>3, <2>1 DEF ManagerOffers
<1>7. CASE c.view \in {"settings/groups", "settings/group/new", "settings/group",
                      "settings/group/capabilities", "settings/group/members"}
  <2>1. call \in {"registerGroup", "updateGroup", "removeGroup", "addGroupMember",
                 "removeGroupMember", "setGroupAdmin"}
    BY <1>1, <1>2, <1>7, OffersOf
    DEF SettingsRoutes, SettingsView, GroupsListView, GroupItem, GroupCreateView, GroupView,
        GroupDetailsView, ProfileCapabilities, CapabilitiesSelect, CapabilitiesTable,
        GroupMembersView, MemberList, If
  <2>2. QED
    BY <1>3, <2>1 DEF ManagerOffers
<1>8. CASE c.view \in {"settings/oauth", "settings/oauth/register", "settings/oauth/provider"}
  <2>1. call \in ProviderOffers
    BY <1>2, <1>8, OffersOf
    DEF SettingsRoutes, SettingsView, OAuthListProvidersView, OAuthRegisterView,
        OAuthProviderView, ProviderOffers
  <2>2. QED
    BY <1>8, <2>1 DEF Findable, MeantHere, OidcViews
<1>9. CASE c.view \in {"settings/attributes", "settings/attribute/new", "settings/attribute",
                      "settings/attribute/permissions", "settings/attribute/edit-template"}
  <2>1. call \in {"addAttributeDefinition", "updateAttributeDefinition",
                 "removeAttributeDefinition", "setAttributePermission",
                 "removeAttributePermission"}
    BY <1>2, <1>9, OffersOf
    DEF SettingsRoutes, SettingsView, AttributesListView, AttributeCreateView, AttributeView,
        AttributeDetailsView, AttributesPermissionsView, AttributeEditTemplateView
  <2>2. QED
    BY <1>3, <2>1 DEF ManagerOffers
<1>10. QED
  BY <1>4, <1>5, <1>6, <1>7, <1>8, <1>9 DEF SettingsViews

LEMMA AppRoutesFindable ==
    ASSUME NEW c, Fits(c), MeantHere(c), c.view \notin OpenViews,
        NEW call \in AppRoutes(c).offers
    PROVE  Findable(c.features, call)
<1>1. CASE c.view \in ListViews
  BY <1>1, AppRoutesAre, ListRoutesFindable DEF Findable
<1>2. CASE c.view \in ObjectViews \cup {"diff"}
  BY <1>2, AppRoutesAre, ObjectRoutesFindable
<1>3. CASE c.view \in ProfileViews
  BY <1>3, AppRoutesAre, ProfileRoutesFindable
<1>4. CASE c.view \in SettingsViews
  BY <1>4, AppRoutesAre, SettingsRoutesFindable
<1>5. CASE c.view \in UploadViews
  <2>1. AppRoutes(c) \in {UploadFileView(c), UploadBlobView(c), UploadConfigView(c)}
    BY <1>5, AppRoutesAre DEF UploadViews
  <2>2. call \in UploadOffers
    BY <2>1, OffersOf
    DEF UploadFileView, UploadBlobView, UploadConfigView, Upload, AttributesAddModal, If,
        UploadOffers
  <2>3. QED
    BY <2>2 DEF Findable
<1>6. CASE c.view \in {"configs/stats", "about", "docs", "relations"}
  <2>1. AppRoutes(c) \in {ConfigStatsView(c), AboutView(c), DocsView(c), RelationsPlotView(c)}
    BY <1>6, AppRoutesAre
  <2>2. RelationsNode(c).offers = {}
    BY OffersOf DEF RelationsNode
  <2>3. call = "getObject"
    BY <2>1, <2>2, OffersOf
    DEF ConfigStatsView, ConfigStatsItem, AboutView, DocsView, RelationsPlotView
  <2>4. QED
    BY <2>3 DEF Findable, PlainOffers
<1>7. QED
  BY <1>1, <1>2, <1>3, <1>4, <1>5, <1>6, AllViews DEF LocalViews, RemoteViews

LEMMA MeantFindable ==
    ASSUME NEW f, NEW at \in Meant(f), NEW call \in Shown(Caps, at, f).offers
    PROVE  Findable(f, call)
<1> DEFINE c == Context(Caps, at, f)
<1>1. /\ c.view = at.view /\ c.remote = at.remote /\ c.caps = Caps /\ c.features = f
      /\ c.signedIn
  BY Renders
<1>2. MeantHere(c) /\ c.view \notin OpenViews
  BY <1>1 DEF Meant, MeantHere
<1>3. Fits(c)
  <2>1. Near(Caps, {at}, at)
    <3>1. \A v : Required(v) \subseteq Caps
      BY DEF Required, Caps, SettingsViews
    <3>2. QED
      BY <3>1 DEF Near, Meant
  <2>2. QED
    BY <2>1, NearFits
<1>4. ConfigProvider(c).offers = {} /\ Navigation(c).offers = {}
  BY OffersOf
  DEF ConfigProvider, Navigation, RemoteDropdown, RemoteNav, LocalNav, UploadNav, AdminNav, If
<1>5. call \in AppRoutes(c).offers
  BY <1>4, OffersOf DEF Shown
<1>6. QED
  BY <1>1, <1>2, <1>3, <1>5, AppRoutesFindable

(* Whatever an up-to-date user may do, on whatever page of the instance it *)
(* is offered, he finds by links from the page he signs in to.             *)
THEOREM EverythingIsFound == Spec => []EverythingFound
<1>1. IInv => EverythingFound
  <2> SUFFICES ASSUME IInv, Fresh, page = Home, NEW call \in Offered,
                      Allowed(rights, features, LocalApi[call]),
                      call # "authRequestPasswordChange"
               PROVE  \E at \in Within(session, features) :
                         call \in Shown(session, at, features).offers
    BY DEF EverythingFound
  <2>1. session \in SUBSET Caps
    BY DEF IInv, TypeOK, Fresh
  <2>2. PICK at \in Meant(features) : call \in Shown(Caps, at, features).offers
    BY DEF Offered
  <2>3. Findable(features, call)
    BY <2>2, MeantFindable
  <2>4. Allowed(session, features, LocalApi[call])
    BY DEF Fresh
  <2>5. Found(session, features, call)
    BY <2>1, <2>3, <2>4, FindableFound
  <2>6. QED
    BY <2>5 DEF Found
<1>2. QED
  BY <1>1, AccessInvariant, PTL

-----------------------------------------------------------------------------
(* UploadForm: the requests on their way *)

Requests ==
    [number : 1..MaxSubmissions, object : Objects, body : Bodies, seen : Views,
     stage : {"sent", "served", "refused"}]

-----------------------------------------------------------------------------
(* UploadForm: types *)

LEMMA BodyType ==
    ASSUME FormTypeOK
    PROVE  FileBody \in Bodies /\ BlobBody \in Bodies /\ ConfigBody \in Bodies
<1>1. UploadParam(form) \in {"*", "private", "", None} \cup Groups
  BY DEF FormTypeOK, Forms, UploadParam, Groups
<1>2. ParentToSend \in Parents \cup {None} /\ form.parent \in Parents \cup {None}
  BY DEF FormTypeOK, Forms, ParentToSend
<1>3. form.share3rdParty \in BOOLEAN
  BY DEF FormTypeOK, Forms
<1>4. QED
  BY <1>1, <1>2, <1>3 DEF FileBody, BlobBody, ConfigBody, Bodies

LEMMA AtType ==
    ASSUME FormTypeOK, NEW q \in requests, NEW stage \in {"sent", "served", "refused"}
    PROVE  At(q, stage) \subseteq Requests
<1>1. q \in Requests /\ requests \subseteq Requests
  BY DEF FormTypeOK, Requests
<1>2. [q EXCEPT !.stage = stage] \in Requests
  BY <1>1 DEF Requests
<1>3. QED
  BY <1>1, <1>2 DEF At

\* The request that Submit makes.
Submission(o) ==
    [number |-> submissions', object |-> o, stage |-> "sent", body |-> Body, seen |-> Seen]

LEMMA SubmissionType ==
    ASSUME FormTypeOK, NEW o \in Objects, Submit(o)
    PROVE  Submission(o) \in Requests
<1>1. submissions' \in 1..MaxSubmissions
  BY UploadFormAssumption DEF FormTypeOK, Submit
<1>2. Body \in Bodies
  BY BodyType DEF Body, FormTypeOK, Kinds
<1>3. Seen \in Views
  BY DEF Seen, FormTypeOK, Forms, Views
<1>4. QED
  BY <1>1, <1>2, <1>3 DEF Requests, Submission

LEMMA UserType ==
    ASSUME FormTypeOK
    PROVE  user.member \subseteq OtherGroups /\ Mine \subseteq Groups
BY UploadFormAssumption DEF FormTypeOK, Mine, Groups

LEMMA SharesType ==
    ASSUME FormTypeOK, NEW q \in requests
    PROVE  q.body.upload_as # "" => SharesForUpload(q.body.upload_as) \subseteq Groups
<1>1. q.body \in Bodies
  BY DEF FormTypeOK
<1>2. q.body.upload_as \in {"*", "private", "", None} \cup Groups
  BY <1>1 DEF Bodies
<1>3. (user.member \cap Workspaces) \cup {Own} \subseteq Groups
  BY UserType DEF Groups
<1>4. QED
  BY <1>2, <1>3 DEF SharesForUpload, Groups

\* A parent that is looked up may only be shared with more groups, and one that the user
\* sees is left alone.
LEMMA AccessedIs ==
    ASSUME FormTypeOK, NEW p \in Parents \cup {None}
    PROVE  /\ Accessed(p) \in [Objects \cup Parents -> SUBSET Groups]
           /\ \A o \in Objects : Accessed(p)[o] = perm[o]
           /\ \A x \in Parents : perm[x] \subseteq Accessed(p)[x]
           /\ \A x \in Parents : HasAccess(x) => Accessed(p)[x] = perm[x]
<1>1. perm \in [Objects \cup Parents -> SUBSET Groups]
  BY DEF FormTypeOK
<1>2. CASE user.addsParents /\ p # None /\ Accessible(p) /\ ~HasAccess(p)
  <2>1. Accessed(p) = [perm EXCEPT ![p] = @ \cup (Querying \cap Mine)]
    BY <1>2 DEF Accessed
  <2>2. p \in Parents /\ p \notin Objects
    BY <1>2, UploadFormAssumption
  <2>3. Querying \cap Mine \subseteq Groups
    BY UserType
  <2>4. \A x \in Objects \cup Parents :
          Accessed(p)[x] = IF x = p THEN perm[p] \cup (Querying \cap Mine) ELSE perm[x]
    BY <1>1, <2>1, <2>2
  <2>5. Accessed(p) \in [Objects \cup Parents -> SUBSET Groups]
    BY <1>1, <2>1, <2>2, <2>3
  <2>6. QED
    BY <1>2, <2>2, <2>4, <2>5
<1>3. CASE ~(user.addsParents /\ p # None /\ Accessible(p) /\ ~HasAccess(p))
  <2>1. Accessed(p) = perm
    BY <1>3 DEF Accessed
  <2>2. QED
    BY <1>1, <2>1
<1>4. QED
  BY <1>2, <1>3

\* What an accepted upload does to the rows.
LEMMA RowsOf ==
    ASSUME FormTypeOK, NEW q \in requests, Accept(q)
    PROVE  /\ q.object \in Objects
           /\ q.body.parent \in Parents \cup {None}
           /\ perm' \in [Objects \cup Parents -> SUBSET Groups]
           /\ perm'[q.object]
                = perm[q.object] \cup SharesForUpload(q.body.upload_as) \cup Inherited(q)
           /\ \A o \in Objects : o # q.object => perm'[o] = perm[o]
           /\ \A x \in Parents : perm'[x] = Accessed(q.body.parent)[x]
<1>1. /\ q.object \in Objects
      /\ q.body \in Bodies
  BY DEF FormTypeOK
<1>2. q.body.parent \in Parents \cup {None} /\ q.body.upload_as # ""
  BY <1>1 DEF Bodies, Accept, Refused
<1> DEFINE rows == Accessed(q.body.parent)
           more == SharesForUpload(q.body.upload_as) \cup Inherited(q)
<1>3. /\ rows \in [Objects \cup Parents -> SUBSET Groups]
      /\ \A o \in Objects : rows[o] = perm[o]
  BY <1>2, AccessedIs
<1>4. perm' = [rows EXCEPT ![q.object] = @ \cup more]
  BY <1>1, <1>3 DEF Accept
<1>5. Inherited(q) \subseteq Groups
  BY <1>2, <1>3 DEF Inherited
<1>6. more \subseteq Groups
  BY <1>2, <1>5, SharesType
<1>7. \A x \in Parents : x # q.object
  BY <1>1, UploadFormAssumption
<1>8. rows[q.object] = perm[q.object]
  BY <1>1, <1>3
<1>9. perm'[q.object] = perm[q.object] \cup more
  <2> HIDE DEF rows, more
  <2>1. QED
    BY <1>1, <1>3, <1>4, <1>8
<1>10. perm' \in [Objects \cup Parents -> SUBSET Groups]
  <2> HIDE DEF rows, more
  <2>1. QED
    BY <1>1, <1>3, <1>4, <1>6
<1>11. /\ \A o \in Objects : o # q.object => perm'[o] = perm[o]
       /\ \A x \in Parents : perm'[x] = rows[x]
  <2> HIDE DEF rows, more
  <2>1. QED
    BY <1>1, <1>3, <1>4, <1>7
<1>12. QED
  BY <1>1, <1>2, <1>9, <1>10, <1>11

LEMMA FormInitType == FormInit => FormTypeOK
<1> SUFFICES ASSUME FormInit PROVE FormTypeOK
  OBVIOUS
<1>1. {url, past} \subseteq Parents \cup {None} /\ form \in Forms /\ returned \in BOOLEAN
  BY DEF FormInit, Forms
<1>2. submissions \in 0..MaxSubmissions
  <2>1. submissions = 0
    BY DEF FormInit
  <2>2. QED
    BY <2>1, UploadFormAssumption
<1>3. perm \in [Objects \cup Parents -> SUBSET Groups] /\ thirdParty \in [Objects -> BOOLEAN]
  BY UploadFormAssumption DEF FormInit, Groups
<1>4. QED
  BY <1>1, <1>2, <1>3 DEF FormInit, FormTypeOK

LEMMA FormNextType == FormTypeOK /\ [FormNext]_formVars => FormTypeOK'
<1> SUFFICES ASSUME FormTypeOK, [FormNext]_formVars PROVE FormTypeOK'
  OBVIOUS
<1>1. CASE GetGroups
  <2>1. form' \in Forms
    BY <1>1 DEF GetGroups, FormTypeOK, Forms, Modes
  <2>2. groups' \subseteq OtherGroups
    BY <1>1, UserType DEF GetGroups, Workgroups
  <2>3. overridden' \in BOOLEAN
    BY <1>1 DEF GetGroups
  <2>4. QED
    BY <1>1, <2>1, <2>2, <2>3 DEF GetGroups, FormTypeOK, server, place
<1>2. CASE Sharing
  BY <1>2 DEF Sharing, FormTypeOK, Forms, server, place
<1>3. CASE ParentClear
  BY <1>3 DEF ParentClear, FormTypeOK, Forms, server, place
<1>4. CASE Leave
  BY <1>4 DEF Leave, FormTypeOK, server, place
<1>5. ASSUME NEW mode \in Modes, UpdateSharingMode(mode) PROVE FormTypeOK'
  BY <1>5 DEF UpdateSharingMode, FormTypeOK, Forms, server, place
<1>6. ASSUME NEW g \in Groups, TypeGroup(g) PROVE FormTypeOK'
  BY <1>6 DEF TypeGroup, FormTypeOK, Forms, server, place
<1>7. ASSUME NEW p \in Parents, TypeParent(p) PROVE FormTypeOK'
  BY <1>7 DEF TypeParent, FormTypeOK, Forms, server, place
<1>8. ASSUME NEW o \in Objects, Submit(o) PROVE FormTypeOK'
  <2>1. requests' = requests \cup {Submission(o)}
    BY <1>8 DEF Submit, Submission
  <2>2. requests' \subseteq Requests
    BY <1>8, <2>1, SubmissionType DEF FormTypeOK, Requests
  <2>3. submissions' \in 0..MaxSubmissions
    BY <1>8, UploadFormAssumption DEF Submit, FormTypeOK
  <2>4. QED
    BY <1>8, <2>2, <2>3 DEF Submit, FormTypeOK, Requests, server, place
<1>9. ASSUME NEW q \in requests, Accept(q) PROVE FormTypeOK'
  <2>1. q.object \in Objects /\ q.body \in Bodies /\ q.seen \in Views
    BY DEF FormTypeOK
  <2>2. q.body.parent \in Parents \cup {None}
    BY <1>9, RowsOf
  <2>3. perm' \in [Objects \cup Parents -> SUBSET Groups]
    BY <1>9, RowsOf
  <2>4. relation' \subseteq Parents \X Objects
    BY <1>9, <2>1, <2>2 DEF Accept, FormTypeOK
  <2>5. thirdParty' \in [Objects -> BOOLEAN]
    BY <1>9, <2>1 DEF Accept, FormTypeOK
  <2>6. accepted' \subseteq Objects \X Views
    BY <1>9, <2>1 DEF Accept, FormTypeOK
  <2>7. requests' \subseteq Requests
    BY <1>9, AtType DEF Accept
  <2>8. QED
    BY <1>9, <2>3, <2>4, <2>5, <2>6, <2>7 DEF Accept, FormTypeOK, Requests, place
<1>10. ASSUME NEW q \in requests, RefuseUpload(q) PROVE FormTypeOK'
  <2>1. requests' \subseteq Requests
    BY <1>10, AtType DEF RefuseUpload
  <2>2. q.body.parent \in Parents \cup {None}
    BY DEF FormTypeOK, Bodies
  <2>3. perm' \in [Objects \cup Parents -> SUBSET Groups]
    BY <1>10, <2>2, AccessedIs DEF RefuseUpload
  <2>4. QED
    BY <1>10, <2>1, <2>3 DEF RefuseUpload, FormTypeOK, Requests, server, place
<1>11. ASSUME NEW q \in requests, Answer(q) PROVE FormTypeOK'
  BY <1>11 DEF Answer, FormTypeOK, server, place
<1>12. CASE Back
  BY <1>12 DEF Back, FormTypeOK, server
<1>13. CASE UNCHANGED formVars
  BY <1>13 DEF formVars, server, FormTypeOK
<1>14. QED
  BY <1>1, <1>2, <1>3, <1>4, <1>5, <1>6, <1>7, <1>8, <1>9, <1>10, <1>11, <1>12, <1>13
     DEF FormNext

-----------------------------------------------------------------------------
(* UploadForm: what the form shows *)

LEMMA ShownAtFirst == FormInit => FormAsShown /\ SentAsShown
<1> SUFFICES ASSUME FormInit PROVE FormAsShown /\ SentAsShown
  OBVIOUS
<1>1. form.parent = url /\ form.shareWith = None
  BY DEF FormInit
<1>2. choice = None /\ requests = {}
  BY DEF FormInit
<1>3. QED
  BY <1>1, <1>2 DEF FormAsShown, SentAsShown

LEMMA FormStep == FormTypeOK /\ FormAsShown /\ [FormNext]_formVars => FormAsShown'
<1> SUFFICES ASSUME FormTypeOK, FormAsShown, [FormNext]_formVars PROVE FormAsShown'
  OBVIOUS
<1>1. CASE GetGroups
  <2>1. form'.shareWith = IF Workgroups # {} THEN "default" ELSE "private"
    BY <1>1 DEF GetGroups, FormTypeOK, Forms
  <2>2. Workgroups = {} => user.member \cap Workspaces = {}
    BY UserType DEF Workgroups
  <2>3. form'.parent = form.parent /\ (choice # None => overridden')
    BY <1>1 DEF GetGroups, FormTypeOK, Forms
  <2>4. QED
    BY <1>1, <2>1, <2>2, <2>3 DEF GetGroups, FormAsShown, place
<1>2. CASE Sharing
  BY <1>2 DEF Sharing, FormAsShown, FormTypeOK, Forms, place
<1>3. CASE ParentClear
  BY <1>3 DEF ParentClear, FormAsShown, FormTypeOK, Forms
<1>4. CASE Leave
  BY <1>4 DEF Leave, FormAsShown, place
<1>5. ASSUME NEW mode \in Modes, UpdateSharingMode(mode) PROVE FormAsShown'
  BY <1>5, NamesAssumption DEF UpdateSharingMode, FormAsShown, FormTypeOK, Forms, place
<1>6. ASSUME NEW g \in Groups, TypeGroup(g) PROVE FormAsShown'
  BY <1>6 DEF TypeGroup, FormAsShown, FormTypeOK, Forms, place
<1>7. ASSUME NEW p \in Parents, TypeParent(p) PROVE FormAsShown'
  BY <1>7 DEF TypeParent, FormAsShown, FormTypeOK, Forms, place
<1>8. ASSUME NEW o \in Objects, Submit(o) PROVE FormAsShown'
  BY <1>8 DEF Submit, FormAsShown, place
<1>9. ASSUME NEW q \in requests, Accept(q) \/ RefuseUpload(q) \/ Answer(q) PROVE FormAsShown'
  BY <1>9 DEF Accept, RefuseUpload, Answer, FormAsShown, place
<1>10. CASE Back
  BY <1>10 DEF Back, FormAsShown
<1>11. CASE UNCHANGED formVars
  BY <1>11 DEF formVars, FormAsShown
<1>12. QED
  BY <1>1, <1>2, <1>3, <1>4, <1>5, <1>6, <1>7, <1>8, <1>9, <1>10, <1>11 DEF FormNext

-----------------------------------------------------------------------------
(* UploadForm: what is sent *)

\* The groups that the server takes the mode for are those that the user was promised.
LEMMA ModeMeant ==
    ASSUME FormTypeOK, FormAsShown, UploadParam(form) # "", ~overridden, kind # "config"
    PROVE  SharesForUpload(UploadParam(form)) = Chosen(Seen)
<1>1. Seen.choice = choice /\ Seen.group = form.group
  BY DEF Seen
<1>2. form.shareWith \in Modes \cup {None} /\ form.group \in Groups \cup {""}
  BY DEF FormTypeOK, Forms
<1>3. choice \in Modes \cup {None}
  BY DEF FormTypeOK
<1>4. Own \in Groups /\ PublicGroup \in Groups
  BY DEF Groups
<1>5. CASE choice = None /\ form.shareWith \in {None, "default"}
  BY <1>1, <1>5, NamesAssumption DEF UploadParam, SharesForUpload, Chosen, Modes
<1>6. CASE choice = None /\ form.shareWith = "private" /\ user.member \cap Workspaces = {}
  BY <1>1, <1>6, NamesAssumption DEF UploadParam, SharesForUpload, Chosen, Modes
<1>7. CASE choice # None /\ form.shareWith = choice
  <2>1. CASE choice = "default"
    BY <1>1, <1>7, <2>1, NamesAssumption DEF UploadParam, SharesForUpload, Chosen, Modes
  <2>2. CASE choice = "single"
    <3>1. UploadParam(form) = form.group /\ form.group \in Groups
      BY <1>2, <1>7, <2>2 DEF UploadParam
    <3>2. form.group \notin {"*", None, "private"}
      BY <3>1, NamesAssumption, UploadFormAssumption DEF Groups
    <3>3. SharesForUpload(form.group) = {form.group, Own}
      BY <3>2 DEF SharesForUpload
    <3>4. Chosen(Seen) = {form.group, Own}
      BY <1>1, <2>2, NamesAssumption DEF Chosen, Modes
    <3>5. QED
      BY <3>1, <3>3, <3>4
  <2>3. CASE choice = "public"
    <3>1. UploadParam(form) = PublicGroup
      BY <1>7, <2>3 DEF UploadParam
    <3>2. PublicGroup \notin {"*", None, "private"}
      BY <1>4, NamesAssumption, UploadFormAssumption
    <3>3. SharesForUpload(PublicGroup) = {PublicGroup, Own}
      BY <3>2 DEF SharesForUpload
    <3>4. Chosen(Seen) = {PublicGroup, Own}
      BY <1>1, <2>3, NamesAssumption DEF Chosen, Modes
    <3>5. QED
      BY <3>1, <3>3, <3>4
  <2>4. CASE choice = "private"
    BY <1>1, <1>7, <2>4, NamesAssumption DEF UploadParam, SharesForUpload, Chosen, Modes
  <2>5. QED
    BY <1>3, <1>7, <2>1, <2>2, <2>3, <2>4 DEF Modes
<1>8. QED
  BY <1>5, <1>6, <1>7 DEF FormAsShown

LEMMA SubmissionAsShown ==
    ASSUME FormTypeOK, FormAsShown
    PROVE  /\ ~returned => Body.parent = Seen.parent
           /\ kind = "file" => Body.share_3rd_party = Seen.share3rdParty
           /\ Body.upload_as # "" /\ ~Seen.overridden =>
                 SharesForUpload(Body.upload_as) = Chosen(Seen)
<1>1. /\ Seen.parent = form.parent /\ Seen.share3rdParty = form.share3rdParty
      /\ Seen.overridden = overridden /\ Seen.choice = choice
  BY DEF Seen
<1>2. ~returned => ParentToSend = form.parent
  BY DEF ParentToSend, FormAsShown
<1>3. kind \in Kinds
  BY DEF FormTypeOK
<1>4. CASE kind = "file"
  <2>1. Body = FileBody
    BY <1>4 DEF Body
  <2>2. QED
    BY <1>1, <1>2, <1>4, <2>1, ModeMeant DEF FileBody
<1>5. CASE kind = "blob"
  <2>1. Body = BlobBody
    BY <1>5 DEF Body
  <2>2. Body.parent = ParentToSend /\ Body.upload_as = UploadParam(form)
    BY <2>1 DEF BlobBody, FileBody
  <2>3. QED
    BY <1>1, <1>2, <1>5, <2>2, ModeMeant
<1>6. CASE kind = "config"
  <2>1. Body = ConfigBody
    BY <1>6 DEF Body
  <2>2. Body.parent = form.parent /\ Body.upload_as = None
    BY <2>1 DEF ConfigBody
  <2>3. SharesForUpload(None) = Chosen(Seen)
    BY <1>1, <1>6, NamesAssumption DEF FormAsShown, SharesForUpload, Chosen, Modes
  <2>4. QED
    BY <1>1, <1>6, <2>2, <2>3
<1>7. QED
  BY <1>3, <1>4, <1>5, <1>6 DEF Kinds

\* The user stays, and what he went back to is not forgotten.
LEMMA SessionStays ==
    ASSUME [FormNext]_formVars
    PROVE  kind' = kind /\ user' = user /\ (returned => returned')
<1>1. UNCHANGED <<kind, user, returned>>
      \/ (UNCHANGED <<kind, user>> /\ returned' = TRUE)
  BY DEF FormNext, formVars, place, GetGroups, Sharing, ParentClear, Back, Leave,
         UpdateSharingMode, TypeGroup, TypeParent, Submit, Accept, RefuseUpload, Answer
<1>2. QED
  BY <1>1

\* Only the server changes its rows.
LEMMA ServerStays ==
    ASSUME [FormNext]_formVars,
           \A q \in requests : ~Accept(q) /\ ~RefuseUpload(q)
    PROVE  UNCHANGED server
BY DEF FormNext, formVars, server, GetGroups, Sharing, ParentClear, Back, Leave,
       UpdateSharingMode, TypeGroup, TypeParent, Submit, Answer

LEMMA SentStep == FormTypeOK /\ FormAsShown /\ SentAsShown /\ [FormNext]_formVars
    => SentAsShown'
<1> SUFFICES ASSUME FormTypeOK, FormAsShown, SentAsShown, [FormNext]_formVars PROVE SentAsShown'
  OBVIOUS
<1> DEFINE AsShown(q) ==
      /\ ~returned => q.body.parent = q.seen.parent
      /\ kind = "file" => q.body.share_3rd_party = q.seen.share3rdParty
      /\ q.body.upload_as # "" /\ ~q.seen.overridden =>
            SharesForUpload(q.body.upload_as) = Chosen(q.seen)
<1>1. kind' = kind /\ user' = user /\ (returned => returned')
  BY SessionStays
<1>2. ASSUME NEW q, AsShown(q) PROVE AsShown(q)'
  BY <1>1, <1>2 DEF SharesForUpload, Chosen
<1>3. \A q \in requests : AsShown(q)
  BY DEF SentAsShown
<1>4. SUFFICES \A q \in requests' : AsShown(q)
  BY <1>1, <1>2, <1>4 DEF SentAsShown
<1>5. ASSUME NEW q \in requests, NEW stage, requests' = At(q, stage)
      PROVE  \A x \in requests' : AsShown(x)
  <2>1. q \in Requests
    BY DEF FormTypeOK, Requests
  <2>2. LET x == [q EXCEPT !.stage = stage] IN x.body = q.body /\ x.seen = q.seen
    BY <2>1 DEF Requests
  <2>3. AsShown([q EXCEPT !.stage = stage])
    BY <1>3, <2>2
  <2>4. QED
    BY <1>3, <1>5, <2>3 DEF At
<1>6. ASSUME NEW o \in Objects, Submit(o) PROVE \A x \in requests' : AsShown(x)
  <2>1. requests' = requests \cup {Submission(o)}
    BY <1>6 DEF Submit, Submission
  <2>2. Submission(o).body = Body /\ Submission(o).seen = Seen
    BY DEF Submission
  <2>3. AsShown(Submission(o))
    BY <2>2, SubmissionAsShown
  <2>4. QED
    BY <1>3, <2>1, <2>3
<1>7. ASSUME NEW q \in requests, Accept(q) \/ RefuseUpload(q) \/ Answer(q)
      PROVE  \A x \in requests' : AsShown(x)
  BY <1>3, <1>5, <1>7 DEF Accept, RefuseUpload, Answer
<1>8. CASE requests' = requests
  BY <1>3, <1>8
<1>9. QED
  BY <1>6, <1>7, <1>8 DEF FormNext, formVars, GetGroups, Sharing, ParentClear, Back, Leave,
         UpdateSharingMode, TypeGroup, TypeParent

-----------------------------------------------------------------------------
(* UploadForm: what the server stores *)

LEMMA ViewsGrow ==
    ASSUME FormTypeOK, NEW q \in requests, Accept(q), NEW o \in Objects
    PROVE  /\ o = q.object => ViewsOf(o)' = ViewsOf(o) \cup {q.seen}
           /\ o # q.object => ViewsOf(o)' = ViewsOf(o)
<1>1. accepted' = accepted \cup {<<q.object, q.seen>>}
  BY DEF Accept
<1>2. <<q.object, q.seen>>[1] = q.object /\ <<q.object, q.seen>>[2] = q.seen
  OBVIOUS
<1>3. CASE o = q.object
  <2>1. {x \in accepted' : x[1] = o} = {x \in accepted : x[1] = o} \cup {<<q.object, q.seen>>}
    BY <1>1, <1>2, <1>3
  <2>2. QED
    BY <1>2, <1>3, <2>1 DEF ViewsOf
<1>4. CASE o # q.object
  <2>1. {x \in accepted' : x[1] = o} = {x \in accepted : x[1] = o}
    BY <1>1, <1>2, <1>4
  <2>2. QED
    BY <1>4, <2>1 DEF ViewsOf
<1>5. QED
  BY <1>3, <1>4

\* What the user sees is not changed by the server, and stays in his sight.
LEMMA SeenStays ==
    ASSUME FormTypeOK, [FormNext]_formVars, NEW p \in Parents, HasAccess(p)
    PROVE  perm'[p] = perm[p] /\ HasAccess(p)'
<1>1. user' = user
  BY SessionStays
<1>2. perm'[p] = perm[p]
  <2>1. ASSUME NEW q \in requests, Accept(q) PROVE perm'[p] = perm[p]
    BY <2>1, RowsOf, AccessedIs
  <2>2. ASSUME NEW q \in requests, RefuseUpload(q) PROVE perm'[p] = perm[p]
    <3>1. q.body.parent \in Parents \cup {None}
      BY DEF FormTypeOK, Bodies
    <3>2. QED
      BY <2>2, <3>1, AccessedIs DEF RefuseUpload
  <2>3. CASE UNCHANGED server
    BY <2>3 DEF server
  <2>4. QED
    BY <2>1, <2>2, <2>3, ServerStays
<1>3. QED
  BY <1>1, <1>2 DEF HasAccess, Mine

\* A parent that was looked up is seen.
LEMMA AccessedSeen ==
    ASSUME FormTypeOK, NEW q \in requests, Accept(q), q.body.parent # None
    PROVE  HasAccess(q.body.parent)'
<1> DEFINE p == q.body.parent
<1>1. p \in Parents /\ user.addsParents /\ Accessible(p)
  BY RowsOf DEF Accept, Refused
<1>2. perm'[p] = Accessed(p)[p] /\ user' = user
  BY <1>1, RowsOf DEF Accept, place
<1>3. CASE HasAccess(p)
  <2>1. perm'[p] = perm[p]
    BY <1>1, <1>2, <1>3, AccessedIs
  <2>2. QED
    BY <1>2, <1>3, <2>1 DEF HasAccess, Mine
<1>4. CASE ~HasAccess(p)
  <2>1. Accessed(p) = [perm EXCEPT ![p] = @ \cup (Querying \cap Mine)]
    BY <1>1, <1>4 DEF Accessed
  <2>2. perm'[p] = perm[p] \cup (Querying \cap Mine)
    BY <1>1, <1>2, <2>1 DEF FormTypeOK
  <2>3. perm[p] # {} /\ Querying \cap Mine # {}
    BY <1>1, <1>4 DEF Accessible
  <2>4. QED
    BY <1>2, <2>2, <2>3 DEF HasAccess, Mine
<1>5. QED
  BY <1>3, <1>4

\* The parents that an accepted upload links.
LEMMA LinksGrow ==
    ASSUME FormTypeOK, NEW q \in requests, Accept(q)
    PROVE  /\ q.body.parent # None =>
                 relation' = relation \cup {<<q.body.parent, q.object>>}
           /\ q.body.parent = None => relation' = relation
BY DEF Accept

LEMMA LinkedStep ==
    FormTypeOK /\ LinkedSeen /\ [FormNext]_formVars => LinkedSeen'
<1> SUFFICES ASSUME FormTypeOK, LinkedSeen, [FormNext]_formVars, NEW r \in relation'
             PROVE  HasAccess(r[1])'
  BY DEF LinkedSeen
<1>1. CASE r \in relation
  BY <1>1, SeenStays DEF LinkedSeen, FormTypeOK
<1>2. ASSUME NEW q \in requests, Accept(q), r \notin relation PROVE HasAccess(r[1])'
  <2>1. q.body.parent # None /\ r[1] = q.body.parent
    BY <1>2, LinksGrow
  <2>2. QED
    BY <1>2, <2>1, AccessedSeen
<1>3. QED
  BY <1>1, <1>2, ServerStays DEF RefuseUpload, server

\* The parents that o has had stay what they are.
LEMMA FromParentsStay ==
    ASSUME FormTypeOK, LinkedSeen, [FormNext]_formVars, NEW o \in Objects,
           ParentsOf(o)' = ParentsOf(o)
    PROVE  FromParents(o)' = FromParents(o)
<1>1. \A p \in ParentsOf(o) : perm'[p] = perm[p]
  <2>1. ASSUME NEW p \in ParentsOf(o) PROVE p \in Parents /\ HasAccess(p)
    BY <2>1 DEF ParentsOf, LinkedSeen
  <2>2. QED
    BY <2>1, SeenStays
<1>2. QED
  BY <1>1 DEF FromParents

\* What is inherited is what a new parent adds.
LEMMA FromParentsGrow ==
    ASSUME FormTypeOK, LinkedSeen, [FormNext]_formVars, NEW q \in requests, Accept(q)
    PROVE  FromParents(q.object)' = FromParents(q.object) \cup Inherited(q)
<1> DEFINE p == q.body.parent
           o == q.object
<1>1. o \in Objects /\ p \in Parents \cup {None}
  BY RowsOf
<1>2. CASE p # None /\ <<p, o>> \notin relation
  <2>1. p \in Parents /\ relation' = relation \cup {<<p, o>>}
    BY <1>1, <1>2, LinksGrow
  <2>2. ParentsOf(o)' = ParentsOf(o) \cup {p}
    BY <2>1 DEF ParentsOf
  <2>3. \A x \in ParentsOf(o) : perm'[x] = perm[x]
    <3>1. ASSUME NEW x \in ParentsOf(o) PROVE x \in Parents /\ HasAccess(x)
      BY <3>1 DEF ParentsOf, LinkedSeen
    <3>2. QED
      BY <3>1, SeenStays
  <2>4. Inherited(q) = perm'[p]
    BY <1>2, <2>1, RowsOf DEF Inherited
  <2>5. FromParents(o)' = UNION {perm'[x] : x \in ParentsOf(o) \cup {p}}
    BY <2>2 DEF FromParents
  <2>6. FromParents(o) = UNION {perm'[x] : x \in ParentsOf(o)}
    BY <2>3 DEF FromParents
  <2>7. QED
    BY <2>4, <2>5, <2>6
<1>3. CASE ~(p # None /\ <<p, o>> \notin relation)
  <2>1. relation' = relation
    BY <1>3, LinksGrow
  <2>2. ParentsOf(o)' = ParentsOf(o)
    BY <2>1 DEF ParentsOf
  <2>3. Inherited(q) = {}
    BY <1>3 DEF Inherited
  <2>4. QED
    BY <1>1, <2>2, <2>3, FromParentsStay
<1>4. QED
  BY <1>2, <1>3

LEMMA SharedStep ==
    FormTypeOK /\ SentAsShown /\ LinkedSeen /\ SharedAsChosen /\ [FormNext]_formVars
        => SharedAsChosen'
<1> SUFFICES ASSUME FormTypeOK, SentAsShown, LinkedSeen, SharedAsChosen, [FormNext]_formVars
             PROVE  SharedAsChosen'
  OBVIOUS
<1>1. user' = user
  BY SessionStays
<1>2. ASSUME NEW v PROVE Chosen(v)' = Chosen(v)
  BY <1>1 DEF Chosen
<1>3. \A o \in Objects :
        (\A v \in ViewsOf(o) : ~v.overridden) => perm[o] = FromViews(o) \cup FromParents(o)
  BY DEF SharedAsChosen
<1>4. SUFFICES ASSUME NEW o \in Objects, \A v \in ViewsOf(o)' : ~v.overridden
               PROVE  perm'[o] = FromViews(o)' \cup FromParents(o)'
  BY DEF SharedAsChosen
<1>5. ASSUME NEW q \in requests, Accept(q), o = q.object
      PROVE  perm'[o] = FromViews(o)' \cup FromParents(o)'
  <2>1. ViewsOf(o)' = ViewsOf(o) \cup {q.seen}
    BY <1>5, ViewsGrow
  <2>2. perm[o] = FromViews(o) \cup FromParents(o)
    BY <1>3, <1>4, <2>1
  <2>3. SharesForUpload(q.body.upload_as) = Chosen(q.seen)
    BY <1>4, <1>5, <2>1 DEF SentAsShown, Accept, Refused
  <2>4. perm'[o] = perm[o] \cup SharesForUpload(q.body.upload_as) \cup Inherited(q)
    BY <1>5, RowsOf
  <2>5. FromViews(o)' = FromViews(o) \cup Chosen(q.seen)
    BY <1>2, <2>1 DEF FromViews
  <2>6. FromParents(o)' = FromParents(o) \cup Inherited(q)
    BY <1>5, FromParentsGrow
  <2>7. QED
    BY <2>2, <2>3, <2>4, <2>5, <2>6
<1>6. CASE perm'[o] = perm[o] /\ ViewsOf(o)' = ViewsOf(o) /\ ParentsOf(o)' = ParentsOf(o)
  <2>1. FromViews(o)' = FromViews(o)
    BY <1>2, <1>6 DEF FromViews
  <2>2. FromParents(o)' = FromParents(o)
    BY <1>6, FromParentsStay
  <2>3. QED
    BY <1>3, <1>4, <1>6, <2>1, <2>2
<1>7. ASSUME NEW q \in requests, Accept(q), o # q.object
      PROVE  perm'[o] = perm[o] /\ ViewsOf(o)' = ViewsOf(o) /\ ParentsOf(o)' = ParentsOf(o)
  <2>1. ViewsOf(o)' = ViewsOf(o) /\ perm'[o] = perm[o]
    BY <1>7, ViewsGrow, RowsOf
  <2>2. \A x : <<x, o>> \in relation' <=> <<x, o>> \in relation
    BY <1>7, LinksGrow
  <2>3. QED
    BY <2>1, <2>2 DEF ParentsOf
<1>8. ASSUME NEW q \in requests, RefuseUpload(q)
      PROVE  perm'[o] = perm[o] /\ ViewsOf(o)' = ViewsOf(o) /\ ParentsOf(o)' = ParentsOf(o)
  <2>1. q.body.parent \in Parents \cup {None}
    BY DEF FormTypeOK, Bodies
  <2>2. perm'[o] = perm[o]
    BY <1>8, <2>1, AccessedIs DEF RefuseUpload
  <2>3. relation' = relation /\ accepted' = accepted
    BY <1>8 DEF RefuseUpload
  <2>4. QED
    BY <2>2, <2>3 DEF ViewsOf, ParentsOf
<1>9. CASE UNCHANGED server
  BY <1>6, <1>9 DEF server, ViewsOf, ParentsOf
<1>10. QED
  BY <1>5, <1>6, <1>7, <1>8, <1>9, ServerStays

LEMMA ParentsStep ==
    FormTypeOK /\ SentAsShown /\ ParentsAsShown /\ [FormNext]_formVars => ParentsAsShown'
<1> SUFFICES ASSUME FormTypeOK, SentAsShown, ParentsAsShown, [FormNext]_formVars, ~returned'
      PROVE  ParentsAsShown'
  BY DEF ParentsAsShown
<1>0. ~returned
  BY SessionStays
<1>1. ASSUME NEW q \in requests, Accept(q) PROVE ParentsAsShown'
  <2>1. accepted' = accepted \cup {<<q.object, q.seen>>}
    BY <1>1 DEF Accept
  <2>2. relation' = relation \cup ({q.seen.parent} \ {None}) \X {q.object}
    BY <1>0, <1>1 DEF Accept, SentAsShown
  <2>3. CASE q.seen.parent = None
    <3>1. relation' = relation
      BY <2>2, <2>3
    <3>2. {a \in accepted' : a[2].parent # None} = {a \in accepted : a[2].parent # None}
      BY <2>1, <2>3
    <3>3. QED
      BY <1>0, <3>1, <3>2 DEF ParentsAsShown
  <2>4. CASE q.seen.parent # None
    <3>1. relation' = relation \cup {<<q.seen.parent, q.object>>}
      BY <2>2, <2>4
    <3>2. {a \in accepted' : a[2].parent # None}
            = {a \in accepted : a[2].parent # None} \cup {<<q.object, q.seen>>}
      BY <2>1, <2>4
    <3>3. <<q.object, q.seen>>[1] = q.object /\ <<q.object, q.seen>>[2] = q.seen
      OBVIOUS
    <3> DEFINE Linked(a) == <<a[2].parent, a[1]>>
               Old == {a \in accepted : a[2].parent # None}
               New == {a \in accepted' : a[2].parent # None}
    <3>4. relation = {Linked(a) : a \in Old}
      BY <1>0 DEF ParentsAsShown
    <3>5. Linked(<<q.object, q.seen>>) = <<q.seen.parent, q.object>>
      BY <3>3
    <3>6. relation' = {Linked(a) : a \in New}
      <4>1. New = Old \cup {<<q.object, q.seen>>}
        BY <3>2
      <4> HIDE DEF Linked, Old, New
      <4>2. QED
        BY <3>1, <3>4, <3>5, <4>1
    <3>7. QED
      BY <3>6 DEF ParentsAsShown
  <2>5. QED
    BY <2>3, <2>4
<1>2. CASE relation' = relation /\ accepted' = accepted
  BY <1>0, <1>2 DEF ParentsAsShown
<1>3. QED
  BY <1>1, <1>2, ServerStays DEF RefuseUpload, server

LEMMA ConsentStep ==
    FormTypeOK /\ SentAsShown /\ FileConsent /\ [FormNext]_formVars => FileConsent'
<1> SUFFICES ASSUME FormTypeOK, SentAsShown, FileConsent, [FormNext]_formVars PROVE FileConsent'
  OBVIOUS
<1>1. kind' = kind
  BY SessionStays
<1>2. SUFFICES ASSUME kind = "file", NEW o \in Objects
               PROVE  thirdParty'[o] <=> \E a \in accepted' : a[1] = o /\ a[2].share3rdParty
  BY <1>1 DEF FileConsent
<1>3. thirdParty[o] <=> \E a \in accepted : a[1] = o /\ a[2].share3rdParty
  BY <1>2 DEF FileConsent
<1>4. ASSUME NEW q \in requests, Accept(q)
      PROVE  thirdParty'[o] <=> \E a \in accepted' : a[1] = o /\ a[2].share3rdParty
  <2>1. accepted' = accepted \cup {<<q.object, q.seen>>}
    BY <1>4 DEF Accept
  <2>2. q.body.share_3rd_party = q.seen.share3rdParty /\ q.seen.share3rdParty \in BOOLEAN
    BY <1>2 DEF SentAsShown, FormTypeOK, Views
  <2>3. o # q.object => thirdParty'[o] = thirdParty[o]
    BY <1>4 DEF Accept, FormTypeOK
  <2>4. o = q.object => thirdParty'[o] = (thirdParty[o] \/ q.seen.share3rdParty # FALSE)
    BY <1>4, <2>2 DEF Accept, FormTypeOK
  <2>5. <<q.object, q.seen>>[1] = q.object /\ <<q.object, q.seen>>[2] = q.seen
    OBVIOUS
  <2>6. CASE o # q.object
    BY <1>3, <2>1, <2>3, <2>5, <2>6
  <2>7. CASE o = q.object
    <3>1. (\E a \in accepted' : a[1] = o /\ a[2].share3rdParty)
            <=> (\E a \in accepted : a[1] = o /\ a[2].share3rdParty) \/ q.seen.share3rdParty
      BY <2>1, <2>5, <2>7, Zenon
    <3>2. thirdParty'[o] <=> thirdParty[o] \/ q.seen.share3rdParty
      BY <2>2, <2>4, <2>7
    <3>3. QED
      BY <1>3, <3>1, <3>2, Zenon
  <2>8. QED
    BY <2>6, <2>7
<1>5. CASE thirdParty' = thirdParty /\ accepted' = accepted
  BY <1>3, <1>5
<1>6. QED
  BY <1>4, <1>5, ServerStays DEF RefuseUpload, server

-----------------------------------------------------------------------------
(* UploadForm: the inductive invariant and what follows *)

LEMMA FormInitInv == FormInit => FormIInv
<1> SUFFICES ASSUME FormInit PROVE FormIInv
  OBVIOUS
<1>1. accepted = {} /\ relation = {}
  BY DEF FormInit
<1>2. /\ \A o \in Objects : perm[o] = {}
      /\ thirdParty = [o \in Objects |-> FALSE]
  BY UploadFormAssumption DEF FormInit
<1>3. SharedAsChosen /\ LinkedSeen
  BY <1>1, <1>2 DEF SharedAsChosen, FromViews, FromParents, ViewsOf, ParentsOf, LinkedSeen
<1>4. ParentsAsShown
  BY <1>1 DEF ParentsAsShown
<1>5. FileConsent
  BY <1>1, <1>2 DEF FileConsent
<1>6. QED
  BY <1>3, <1>4, <1>5, FormInitType, ShownAtFirst DEF FormIInv

LEMMA FormNextInv == FormIInv /\ [FormNext]_formVars => FormIInv'
BY FormNextType, FormStep, SentStep, LinkedStep, SharedStep, ParentsStep, ConsentStep
   DEF FormIInv

LEMMA FormInvariance == FormSpec => []FormIInv
BY FormInitInv, FormNextInv, PTL DEF FormSpec

(* The variables keep their types, for any groups, objects and parents.    *)
THEOREM FormTypeCorrect == FormSpec => []FormTypeOK
<1>1. FormIInv => FormTypeOK
  BY DEF FormIInv
<1>2. QED
  BY <1>1, FormInvariance, PTL

(* Objects are shared with exactly the groups that their uploaders chose   *)
(* and those their parents are shared with: useGroup,                      *)
(* sharingModeToUploadParam, get_shares_for_upload, add_parent and the     *)
(* rows of repeated uploads fit together, for any memberships.             *)
THEOREM SharedAsChosenCorrect == FormSpec => []SharedAsChosen
<1>1. FormIInv => SharedAsChosen
  BY DEF FormIInv
<1>2. QED
  BY <1>1, FormInvariance, PTL

(* Objects have exactly the parents that the forms showed, whether they    *)
(* came from the address or were typed in.                                 *)
THEOREM ParentsAsShownCorrect == FormSpec => []ParentsAsShown
<1>1. FormIInv => ParentsAsShown
  BY DEF FormIInv
<1>2. QED
  BY <1>1, FormInvariance, PTL

(* A file may be shared with third parties exactly if one of its uploads   *)
(* through the form said so.                                               *)
THEOREM FileConsentCorrect == FormSpec => []FileConsent
<1>1. FormIInv => FileConsent
  BY DEF FormIInv
<1>2. QED
  BY <1>1, FormInvariance, PTL
===============================================================================
