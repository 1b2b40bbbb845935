-------------------------------- MODULE Page --------------------------------
(***************************************************************************)
(* What a component of the web frontend puts on a page: the calls it makes *)
(* when it appears (loads), the calls it lets the user make (offers), its  *)
(* links, and its links that carry a query (searches).                     *)
(*                                                                         *)
(* Components take the context c they are rendered in:                     *)
(*   caps      the capabilities of the session (AuthContext)               *)
(*   view      the route shown, and whether it is under /remote/:remote    *)
(*   remote                                                                *)
(*   features  the switched-on ones of "karton", "consent" (to automatic   *)
(*             sharing), "password", "registration", "oidc",               *)
(*             "oidc_registration", "remotes" (ConfigContext);             *)
(*             "direct" (the user sees a share of the object itself) and   *)
(*             "groupAdmin" (of the workgroup shown) stand with them       *)
(***************************************************************************)
Nothing == [loads |-> {}, offers |-> {}, links |-> {}, searches |-> {}]
Loads(calls) == [loads |-> calls, offers |-> {}, links |-> {}, searches |-> {}]
Offers(calls) == [loads |-> {}, offers |-> calls, links |-> {}, searches |-> {}]
Links(routes) == [loads |-> {}, offers |-> {}, links |-> routes, searches |-> {}]
Searches(routes) == [loads |-> {}, offers |-> {}, links |-> {}, searches |-> routes]

p ++ q == [loads |-> p.loads \cup q.loads, offers |-> p.offers \cup q.offers,
           links |-> p.links \cup q.links, searches |-> p.searches \cup q.searches]
If(condition, p) == IF condition THEN p ELSE Nothing

Can(c, capability) == capability \in c.caps
Is(c, feature) == feature \in c.features

Local(view) == [view |-> view, remote |-> FALSE]
\* Links that useRemotePath prefixes stay on the instance that is shown.
Here(c, view) == [view |-> view, remote |-> c.remote]
Locals(views) == {Local(v) : v \in views}
AllHere(c, views) == {Here(c, v) : v \in views}

ObjectViews == {"file", "config", "blob"}
\* The list where objects of a type are searched.
SearchPath(type) == [file |-> "/", config |-> "configs", blob |-> "blobs"][type]

-----------------------------------------------------------------------------
\* commons/ui

ObjectLinkLocal(c, type) == If(type \in ObjectViews, Links({Local(type)}))   \* mutant
\* Users and groups are linked for administrators only.
ObjectLink(c, type) == If(type \in ObjectViews, Links({Here(c, type)}))

Tags(endpoint) == Searches({endpoint})

GroupBadges(base) ==
    Links(Locals([profile |-> {"profile/user", "profile/group"},
                  settings |-> {"settings/user", "settings/group"}][base]))
=============================================================================
