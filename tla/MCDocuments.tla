---------------------------- MODULE MCDocuments ----------------------------
(* Instances of Documents for TLC. *)
EXTENDS Documents

CONSTANTS src, gen, out, view, t1, t2, none

SomeSources == {src, gen, out}
OneView == {view}
TwoTexts == {t1, t2}
AllOnDisk == {[f \in SomeSources |-> t1]}

(* A plain workspace is one root, whose rules ignore the build directory,  *)
(* where gen is, and the file out; then a build tool reports a source root *)
(* beside it, a generated one and a library.                               *)
PlainDir == [kind |-> "source", files |-> {src, gen, out}, ignored |-> {gen, out}]
SourceDir == [kind |-> "source", files |-> {src, out}, ignored |-> {out}]
GeneratedDir == [kind |-> "generated", files |-> {gen}, ignored |-> {}]
LibraryDir == [kind |-> "library", files |-> {view}, ignored |-> {}]
GrowingLayouts == << <<PlainDir>>, <<SourceDir, GeneratedDir, LibraryDir>> >>
=============================================================================
