--------------------------- MODULE MCLibraryIndex ---------------------------
(* Instances of LibraryIndex for TLC. *)
EXTENDS LibraryIndex, TLC

CONSTANTS guava, broken, q1, q2

TwoLibraries == {guava, broken}
TwoQueries == {q1, q2}

(* One dependency is dropped and returns, while the other stays and goes.  *)
ChangingGraphs == << {guava, broken}, {broken}, {guava} >>
=============================================================================
