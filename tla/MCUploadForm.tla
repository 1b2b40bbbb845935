----------------------------- MODULE MCUploadForm -----------------------------
(* Small instances of UploadForm: one parent is shared with a workspace, the *)
(* other with everybody; users of all memberships, and one more for each     *)
(* capability.                                                               *)
EXTENDS UploadForm

CONSTANTS o1, p1, p2, w1, registered

MCSharedWith == [p \in Parents |-> IF p = p1 THEN {w1} ELSE {PublicGroup}]

User(member, caps) ==
    [member |-> member, sharesWithAll |-> "sharing_with_all" \in caps,
     addsParents |-> "adding_parents" \in caps,
     accessesAll |-> "access_all_objects" \in caps,
     consentEnabled |-> "consent" \in caps]
MCUsers ==
    {User(member, {"adding_parents"}) : member \in SUBSET OtherGroups}
    \cup {User({}, {"adding_parents", "sharing_with_all", "access_all_objects"}),
          User({w1}, {}), User({}, {"consent"})}
===============================================================================
