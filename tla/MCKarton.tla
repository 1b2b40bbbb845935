------------------------------ MODULE MCKarton ------------------------------
(* Small instances of Karton: every object, request and analysis is a model value. *)
EXTENDS Karton

CONSTANTS o1, o2, o3, a1, r1, r2, r3
=============================================================================
