-------------------------- MODULE MCLibraryFiles --------------------------
(* Instances of LibraryFiles for TLC. *)
EXTENDS LibraryFiles

CONSTANTS src, c1, c2, r1, r2

OneSource == {src}
TwoClasses == {c1, c2}
TwoRequests == {r1, r2}

(* Both requests need a class, and one of them a source and another class. *)
SharedNeeds == [r \in TwoRequests |-> IF r = r1 THEN {src, c1, c2} ELSE {c1}]
=============================================================================
