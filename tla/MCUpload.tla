------------------------------ MODULE MCUpload ------------------------------
(* Small instances of Upload. *)
EXTENDS Upload, TLC

CONSTANTS f, c, d, b1, b2, r1, r2, r3

\* A file, and two configs that embed the same two blobs in opposite orders.
Crossed == (c :> <<b1, b2>>) @@ (d :> <<b2, b1>>) @@ [o \in Objects |-> <<>>]

\* Which of the requests is for what is immaterial.  Of configs and blobs there are at most
\* two uploads, which may be analysed again or followed by the file.
Rank == (f :> 1) @@ (c :> 2) @@ (d :> 3) @@ (b1 :> 4) @@ (b2 :> 5)
Place(r) == Rank[req[r].object] + (IF req[r].kind = "upload" THEN 0 ELSE 5)
MCInit ==
    /\ Init
    /\ Place(r1) <= Place(r2) /\ Place(r2) <= Place(r3)
    /\ req[r1].object = f \/ req[r3].kind = "reanalyze"
MCFairSpec == MCInit /\ [][Next]_vars /\ Fairness
=============================================================================
