----------------------------- MODULE MCObjectPage -----------------------------
(* Small instances of ObjectPage. *)
EXTENDS ObjectPage, TLC

CONSTANTS a, b, file, blob

MCSymmetry == Permutations(Objects)
\* A change takes the last related blob away; the other object has one.
MCRelated ==
    [o \in Objects |-> [version \in Versions |-> IF version = 1 THEN {file} ELSE {file, blob}]]
=============================================================================
