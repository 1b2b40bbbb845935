------------------------------ MODULE ResultList ------------------------------
(***************************************************************************)
(* What a list of search results promises its reader: it starts again,     *)
(* empty, when he asks something else, and otherwise only grows at its     *)
(* end, by results of one query that are older than all above them.        *)
(***************************************************************************)
EXTENDS Naturals, Sequences

CONSTANTS Queries, Matches, UploadTime

VARIABLES query, elements

Init == query \in Queries /\ elements = <<>>

Ask(asked) == query' = asked /\ elements' = <<>>

\* Of two objects uploaded at the same time, the one with the smaller identifier.
Older(m, n) ==
    \/ UploadTime[m] < UploadTime[n]
    \/ UploadTime[m] = UploadTime[n] /\ m < n

Descends(s) == \A i \in 1..Len(s) : i > 1 => Older(s[i], s[i - 1])

Grow ==
    /\ query' = query
    /\ Len(elements') > Len(elements)
    /\ SubSeq(elements', 1, Len(elements)) = elements
    /\ Descends(elements')
    /\ \E source \in Queries :
          \A i \in Len(elements) + 1..Len(elements') : elements'[i] \in Matches[source]

Next == Grow \/ \E asked \in Queries : Ask(asked)

Spec == Init /\ [][Next]_<<query, elements>>
=============================================================================
