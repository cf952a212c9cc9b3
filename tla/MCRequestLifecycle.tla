------------------------- MODULE MCRequestLifecycle -------------------------
(* Instances of RequestLifecycle for TLC: which requests the client sends  *)
(* and what their handlers can do.                                         *)
EXTENDS RequestLifecycle, TLC

CONSTANTS r1, r2, r3, r4, w1, w2

TwoWorkers == {w1, w2}
OneWorker == {w1}
ThreeRequests == {r1, r2, r3}
FourRequests == {r1, r2, r3, r4}

(* Two requests that may be deferred, one of which consults its token and  *)
(* one of which queries outside the catch, beside two the loop rejects.    *)
MixedMethods == r1 :> "references" @@ r2 :> "hover" @@ r3 :> "unknown" @@ r4 :> "invalidParams"

(* Deferrable requests that keep to the catch, and the end of a session.   *)
GuardedMethods == r1 :> "workspaceDiagnostic" @@ r2 :> "references" @@ r3 :> "shutdown"

WorkerSymmetry == Permutations(TwoWorkers)
=============================================================================
