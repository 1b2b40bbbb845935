------------------------------ MODULE MCAccess ------------------------------
(* Small instances of Access. *)
EXTENDS Access

\* No capability, each one, all but each, all, and what a child's upload needs.
MCRightsCases ==
    {{}, Caps} \cup {{c} : c \in Caps} \cup {Caps \ {c} : c \in Caps}
        \cup {{c, "adding_parents"} : c \in {"adding_files", "adding_blobs", "adding_configs"}}
MCVolatile == {"manage_users", "adding_blobs"}

\* Everything on, everything off, and the two with one half each.
MCFeatureCases ==
    {{"password", "karton", "consent", "oidc", "registration", "oidc_registration", "remotes",
      "direct", "groupAdmin"},
     {"password"},
     {"password", "registration", "karton", "direct", "remotes"},
     {"oidc", "oidc_registration", "consent", "groupAdmin", "direct"}}
=============================================================================
