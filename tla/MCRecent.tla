------------------------------ MODULE MCRecent ------------------------------
(* Small instances of Recent. *)
EXTENDS Recent

\* Everything, and the objects but one.
MCQueries == {"", "some"}
MCMatches == [query \in MCQueries |-> IF query = "" THEN 1..MaxObjects ELSE 1..MaxObjects \ {2}]

\* Object 2 was uploaded at the same time as 4, and its row came before that of 3.
MCUploadTime == <<1, 3, 2, 3>>
=============================================================================
