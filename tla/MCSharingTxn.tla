---------------------------- MODULE MCSharingTxn ----------------------------
(* Small instances of SharingTxn. *)
EXTENDS SharingTxn, TLC

CONSTANTS o1, o2, o3, o4, g1, g2, r1, r2, r3

\* A chain and a parent of two.
Trees == {{<<o1, o2>>, <<o2, o3>>}, {<<o1, o2>>, <<o1, o3>>}}

\* An archive of three files, one of which is also a child of another.
Triangles == {{<<o1, o2>>, <<o1, o3>>, <<o1, o4>>, <<o3, o4>>}}

\* Nothing linked yet, one link, and a cycle.
FewLinks == {{}, {<<o1, o2>>}, {<<o1, o2>>, <<o2, o1>>}}

TreesAndLinks == Trees \cup FewLinks

\* Three shares for g1 of the objects of a tree; which of the requests shares which is
\* immaterial.
Rank == (o1 :> 1) @@ (o2 :> 2) @@ (o3 :> 3)
MCShares ==
    /\ relation \in Trees
    /\ perm \subseteq Objects \X {g1}
    /\ \A r \in Requests : txn[r].kind = "share" /\ txn[r].group = g1
    /\ Rank[txn[r1].target] <= Rank[txn[r2].target]
    /\ Rank[txn[r2].target] <= Rank[txn[r3].target]

\* Two shares or links, for two groups, of two objects; with a link the third request, for
\* the other object, does not come.
MCLinks ==
    /\ relation \in FewLinks
    /\ perm \subseteq {o1, o2} \X Groups
    /\ \A r \in {r1, r2} : {txn[r].target, txn[r].parent} \subseteq {o1, o2}
    /\ txn[r3] = Fresh("share", o3, o3, g1)

TwoWithLinks == txn'[r3].stage = "new" \/ \A r \in Requests : txn[r].kind = "share"

MCInit == Init /\ (MCShares \/ MCLinks)
MCFairSpec == MCInit /\ [][Next]_vars /\ Fairness
=============================================================================
