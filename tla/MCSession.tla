------------------------------ MODULE MCSession ------------------------------
(* Small instances of Session. *)
EXTENDS Session, TLC

CONSTANTS t1, t2, u1, u2, f1

\* Bound: of a password change, an expiry, a flow and a change of capabilities a
\* behaviour has one.
OneEvent ==
    Cardinality({u \in Users : account[u].version > 0}) + now
        + Cardinality({f \in Flows : flow[f] # None})
        + Cardinality({u \in Users : ~account[u].admin})
        + (IF Cardinality(requests) > 1 THEN 1 ELSE 0) <= 1

MCSymmetry == Permutations(Tabs) \cup Permutations(Users)
=============================================================================
