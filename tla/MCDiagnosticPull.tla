-------------------------- MODULE MCDiagnosticPull --------------------------
(* An instance of DiagnosticPull for TLC. *)
EXTENDS DiagnosticPull

CONSTANTS f1, f2, broken, moved, fixed, gone, none

TwoFiles == {f1, f2}
ThreeTexts == {broken, moved, fixed}

(* Both broken texts have a problem at the same offset, on another line in *)
(* one of them.  A file that is fixed still has a problem as long as the   *)
(* other file, which it uses, does not exist.                              *)
ReportOf ==
    [p \in TwoFiles \X States |->
        IF p[2][p[1]] \in {broken, moved} THEN "error"
        ELSE IF p[2][p[1]] = fixed /\ \E g \in TwoFiles : p[2][g] = gone THEN "unresolved"
        ELSE "clean"]

Lines == [t \in ThreeTexts |-> IF t = moved THEN 2 ELSE 1]
=============================================================================
