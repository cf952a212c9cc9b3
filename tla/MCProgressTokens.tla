-------------------------- MODULE MCProgressTokens --------------------------
(* Instances of ProgressTokens for TLC. *)
EXTENDS ProgressTokens, TLC

CONSTANTS guava, slf4j

(* A load of two libraries, and a reload with one of them. *)
ShrinkingGraphs == <<{guava, slf4j}, {guava}>>
=============================================================================
