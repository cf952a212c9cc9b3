--------------------------- MODULE MCTokenStreams ---------------------------
(* Instances of TokenStreams for TLC. *)
EXTENDS TokenStreams

CONSTANTS d1, d2, t1, t2, none

TwoDocuments == {d1, d2}
TwoTexts == {t1, t2}

(* Streams that repeat a token, so that what they share at their beginning *)
(* and at their end may overlap; an identifier is resolved once the        *)
(* workspace is loaded.                                                    *)
A == <<0, 4, 3, 1, 0>>
Resolved == <<0, 4, 3, 6, 1>>
Tokens ==
    [p \in TwoTexts \X BOOLEAN |->
        IF p[1] = t1 THEN <<A, A>> ELSE IF p[2] THEN <<A, Resolved, A>> ELSE <<A, A, A>>]
=============================================================================
