----------------------------- MODULE MCSharing -----------------------------
(* Small instances of Sharing: model values for objects, users and groups. *)
EXTENDS Sharing, TLC

CONSTANTS o1, o2, o3, alice, bob, gAlice, gBob

\* Alice links, unlinks and deletes; Bob may query for all objects by their hash.
DuoPrivate == (alice :> gAlice) @@ (bob :> gBob)
DuoMemberOf == (alice :> {gAlice}) @@ (bob :> {gBob})
DuoGroupCaps == (gAlice :> {"sharing_with_all", "adding_parents", "removing_parents",
                             "removing_objects"})
                  @@ (gBob :> {"share_queried_objects"})

\* Objects have few relations.  Two are deleted and queried for, three are only linked and
\* shared.
FewRelations == Cardinality(relation) <= 3
SmallSystems ==
    Cardinality(objects \cup objects') > 2 =>
        \A o \in Objects, g \in Groups :
            perm'[o, g] = NoGrant \/ (perm'[o, g].reason # "queried" /\ perm'[o, g].origin # NoObject)

ObjectSymmetry == Permutations(Objects)
=============================================================================
