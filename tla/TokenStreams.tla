---------------------------- MODULE TokenStreams ----------------------------
(***************************************************************************)
(* Semantic tokens: the stream of a document that the server last sent     *)
(* under a result id (DeltaCache), the requests that worker threads answer *)
(* in any order, the deltas between streams, and the client that applies   *)
(* what it receives, in the order of its requests, or drops it.            *)
(*                                                                         *)
(* A worker computes, diffs and stores while it holds its snapshot, and no *)
(* text changes before that is dropped; the cache is locked from the look- *)
(* up to the store.  So an answer is one action, but answers to requests   *)
(* of the same document are given, and arrive, in any order.               *)
(***************************************************************************)
EXTENDS Integers, Sequences, SequencesExt

CONSTANTS
    Documents,    \* documents
    Texts,        \* texts of a document
    TokensOf,     \* the tokens of a text before and after the workspace is loaded
    NoStream,     \* no stream
    MaxRequests,  \* bound on requests
    MaxEdits,     \* bound on edits
    MaxRestarts   \* bound on restarts of the server

Token == Nat \X Nat \X Nat \X Nat \X Nat

ASSUME TokenAssumption ==
    /\ TokensOf \in [Texts \X BOOLEAN -> Seq(Token)]
    /\ MaxRequests \in Nat /\ MaxEdits \in Nat /\ MaxRestarts \in Nat

VARIABLES
    text,            \* the text of each document, or NoStream where it is not open
    loaded,          \* whether a project graph has been applied
    toAsk,           \* documents whose tokens the client has yet to ask for
    held,            \* the client's stream of each document
    applied,         \* the request whose answer it last applied
    asked,           \* how many requests there have been
    requests,        \* the requests on the server
    answers,         \* the answers on their way to the client
    cache,           \* DeltaCache.documents
    lastId,          \* DeltaCache.next_id
    edits, restarts

clientVars == <<toAsk, held, applied, asked>>
cacheVars == <<cache, lastId>>
vars == <<text, loaded, clientVars, requests, answers, cacheVars, edits, restarts>>

Init ==
    /\ text = [d \in Documents |-> NoStream] /\ loaded = FALSE
    /\ toAsk = {} /\ held = text /\ applied = [d \in Documents |-> 0] /\ asked = 0
    /\ requests = {} /\ answers = {}
    /\ cache = text /\ lastId = 0
    /\ edits = 0 /\ restarts = 0

-----------------------------------------------------------------------------
(* The wire form of a stream: five numbers for each token.                 *)
Data(tokens) ==
    [i \in 1 .. 5 * Len(tokens) |-> tokens[((i - 1) \div 5) + 1][((i - 1) % 5) + 1]]

(* How many tokens two streams share at their beginning.                   *)
Shared(s, t) == Len(LongestCommonPrefix({s, t}))

From(s, n) == SubSeq(s, n + 1, Len(s))

Edit(old, new, prefix, suffix) ==
    IF prefix + suffix = Len(old) /\ prefix + suffix = Len(new)
    THEN << >>
    ELSE << [start |-> prefix * 5, deleteCount |-> (Len(old) - prefix - suffix) * 5,
             data |-> Data(SubSeq(new, prefix + 1, Len(new) - suffix))] >>

(* Mutant of DeltaEdits: the suffix may reach into the prefix.             *)
DeltaEditsOverlapping(old, new) ==
    Edit(old, new, Shared(old, new), Shared(Reverse(old), Reverse(new)))

DeltaEdits(old, new) ==
    LET prefix == Shared(old, new)
    IN Edit(old, new, prefix, Shared(Reverse(From(old, prefix)), Reverse(From(new, prefix))))

-----------------------------------------------------------------------------
Current(d) == TokensOf[<<text[d], loaded>>]

(* The client.  It asks for the tokens of a document it opened or edited,  *)
(* and of all its documents when the server says so.                       *)

OpenDocument(d) ==
    /\ text[d] = NoStream /\ edits < MaxEdits /\ edits' = edits + 1
    /\ \E t \in Texts : text' = [text EXCEPT ![d] = t]
    /\ toAsk' = toAsk \cup {d}
    /\ UNCHANGED <<loaded, held, applied, asked, requests, answers, cacheVars, restarts>>

ChangeDocument(d) ==
    /\ text[d] # NoStream /\ edits < MaxEdits /\ edits' = edits + 1
    /\ \E t \in Texts \ {text[d]} : text' = [text EXCEPT ![d] = t]
    /\ toAsk' = toAsk \cup {d}
    /\ UNCHANGED <<loaded, held, applied, asked, requests, answers, cacheVars, restarts>>

(* A request names the stream the client holds, if it does.                *)
Ask(d) ==
    /\ d \in toAsk /\ asked < MaxRequests
    /\ asked' = asked + 1 /\ toAsk' = toAsk \ {d}
    /\ requests' = requests \cup {[number |-> asked', doc |-> d, base |-> held[d]]}
    /\ UNCHANGED <<text, loaded, held, applied, answers, cacheVars, edits, restarts>>

(* What the client makes of an answer: a fresh stream, or an edit of the   *)
(* stream its request named.                                               *)
Apply(data, es) ==
    IF es = << >> THEN data
    ELSE SubSeq(data, 1, es[1].start) \o es[1].data
             \o SubSeq(data, es[1].start + es[1].deleteCount + 1, Len(data))

Receive(a) ==
    /\ answers' = answers \ {a}
    /\ IF text[a.doc] # NoStream /\ a.number > applied[a.doc]
       THEN /\ applied' = [applied EXCEPT ![a.doc] = a.number]
            /\ held' = [held EXCEPT ![a.doc] =
                  [id |-> a.id, tokens |-> a.tokens,
                   data |-> IF a.delta THEN Apply(a.base.data, a.edits) ELSE Data(a.tokens)]]
       ELSE UNCHANGED <<applied, held>>
    /\ UNCHANGED <<text, loaded, toAsk, asked, requests, cacheVars, edits, restarts>>

(* The client cancelled: it never sees the answer, and asks again.         *)
Drop(a) ==
    /\ asked < MaxRequests
    /\ answers' = answers \ {a}
    /\ toAsk' = IF text[a.doc] = NoStream THEN toAsk ELSE toAsk \cup {a.doc}
    /\ UNCHANGED <<text, loaded, held, applied, asked, requests, cacheVars, edits, restarts>>

-----------------------------------------------------------------------------
(* The server.                                                             *)

Store(d, tokens) ==
    /\ lastId' = lastId + 1
    /\ cache' = [cache EXCEPT ![d] = [id |-> lastId', tokens |-> tokens]]

Previous(d, base) == cache[d] # NoStream /\ base # NoStream /\ cache[d].id = base.id

Answer(r, tokens, id, isDelta) ==
    /\ requests' = requests \ {r}
    /\ answers' = answers \cup
          {[number |-> r.number, doc |-> r.doc, base |-> r.base, id |-> id, tokens |-> tokens,
            delta |-> isDelta,
            edits |-> IF isDelta THEN DeltaEdits(cache[r.doc].tokens, tokens) ELSE << >>]}
    /\ UNCHANGED <<text, loaded, clientVars, edits, restarts>>

(* on_semantic_tokens, and on_semantic_tokens_delta, which answers in full *)
(* when the stream the client names is not the document's last one.        *)
(* Mutants: a delta keeps the id of its stream; a stream that is already   *)
(* cached is not computed again.                                           *)
OnSemanticTokensKeepingId(r) ==
    /\ text[r.doc] # NoStream
    /\ IF Previous(r.doc, r.base)
       THEN /\ Answer(r, Current(r.doc), cache[r.doc].id, TRUE)
            /\ cache' = [cache EXCEPT ![r.doc].tokens = Current(r.doc)]
            /\ UNCHANGED lastId
       ELSE /\ Answer(r, Current(r.doc), lastId + 1, FALSE)
            /\ Store(r.doc, Current(r.doc))

OnSemanticTokensCached(r) ==
    /\ text[r.doc] # NoStream
    /\ LET tokens == IF Previous(r.doc, r.base) THEN cache[r.doc].tokens ELSE Current(r.doc)
       IN Answer(r, tokens, lastId + 1, Previous(r.doc, r.base)) /\ Store(r.doc, tokens)

OnSemanticTokens(r) ==
    /\ text[r.doc] # NoStream
    /\ Answer(r, Current(r.doc), lastId + 1, Previous(r.doc, r.base))
    /\ Store(r.doc, Current(r.doc))

(* The document was closed before a worker came to the request; its file   *)
(* is still there, with a text that no client looks at.                    *)
OnClosedDocument(r) ==
    /\ text[r.doc] = NoStream
    /\ requests' = requests \ {r}
    /\ \E t \in Texts : Store(r.doc, TokensOf[<<t, loaded>>])
    /\ UNCHANGED <<text, loaded, clientVars, answers, edits, restarts>>

(* didClose: the client holds no stream of a closed document, nor does the *)
(* server; a request under way may store one again.                        *)
CloseDocument(d) ==
    /\ text[d] # NoStream
    /\ text' = [text EXCEPT ![d] = NoStream]
    /\ held' = [held EXCEPT ![d] = NoStream]
    /\ toAsk' = toAsk \ {d}
    /\ cache' = [cache EXCEPT ![d] = NoStream]
    /\ UNCHANGED <<loaded, applied, asked, requests, answers, lastId, edits, restarts>>

(* apply_loaded_graph changes the tokens of every document without an edit *)
(* and ends with refresh_semantic_tokens.                                  *)
ApplyGraph ==
    /\ ~loaded /\ loaded' = TRUE
    /\ toAsk' = {d \in Documents : text[d] # NoStream}
    /\ UNCHANGED <<text, held, applied, asked, requests, answers, cacheVars, edits, restarts>>

(* The server dies and the client starts another one, which is sent the    *)
(* open documents again and counts its ids from the start; a client drops  *)
(* the streams of a server that is gone.                                   *)
Restart ==
    /\ restarts < MaxRestarts /\ restarts' = restarts + 1
    /\ cache' = [d \in Documents |-> NoStream] /\ lastId' = 0 /\ loaded' = FALSE
    /\ requests' = {} /\ answers' = {}
    /\ toAsk' = {d \in Documents : text[d] # NoStream}
    /\ held' = [d \in Documents |-> NoStream]
    /\ UNCHANGED <<text, applied, asked, edits>>

Next ==
    \/ \E d \in Documents : OpenDocument(d) \/ ChangeDocument(d) \/ Ask(d) \/ CloseDocument(d)
    \/ \E a \in answers : Receive(a) \/ Drop(a)
    \/ \E r \in requests : OnSemanticTokens(r) \/ OnClosedDocument(r)
    \/ ApplyGraph \/ Restart

Spec == Init /\ [][Next]_vars

(* Workers answer what they are asked, the client asks and takes answers.  *)
Fairness ==
    /\ \A d \in Documents : WF_vars(Ask(d))
    /\ WF_vars(\E r \in requests : OnSemanticTokens(r) \/ OnClosedDocument(r))
    /\ WF_vars(\E a \in answers : Receive(a))

FairSpec == Spec /\ Fairness

-----------------------------------------------------------------------------
(* Properties.                                                             *)

(* Every variable has its type, and no id is above the counter.            *)
TypeOK ==
    /\ text \in [Documents -> Texts \cup {NoStream}] /\ loaded \in BOOLEAN
    /\ toAsk \subseteq Documents /\ asked \in 0 .. MaxRequests
    /\ \A d \in Documents :
          /\ applied[d] \in 0 .. asked
          /\ cache[d] # NoStream => cache[d].id \in 1 .. lastId
                                    /\ cache[d].tokens \in Seq(Token)
          /\ held[d] # NoStream => held[d].data \in Seq(Nat)
    /\ \A r \in requests : r.number \in 1 .. asked /\ r.doc \in Documents
    /\ \A a \in answers : a.number \in 1 .. asked /\ a.doc \in Documents
    /\ edits \in 0 .. MaxEdits /\ restarts \in 0 .. MaxRestarts

(* The stream a client puts together from the answers it happened to       *)
(* receive is the stream the server computed: a delta is never applied to  *)
(* a stream it was not made from.                                          *)
StreamIsServers == \A d \in Documents : held[d] # NoStream => held[d].data = Data(held[d].tokens)

(* No two streams of different documents have the same id, and the client  *)
(* never holds the id of a stream it does not have.                        *)
IdNamesStream ==
    \A d, e \in Documents :
        cache[d] # NoStream =>
            /\ d # e /\ cache[e] # NoStream => cache[d].id # cache[e].id
            /\ held[e] # NoStream /\ held[e].id = cache[d].id =>
                  d = e /\ held[e].data = Data(cache[d].tokens)

(* A client that asks when it is told to ends up with the tokens of the    *)
(* text it shows, however answers overtake each other.                     *)
EventuallyCurrent ==
    \A d \in Documents :
        <>[](text[d] = NoStream \/ asked = MaxRequests
             \/ (held[d] # NoStream /\ held[d].tokens = Current(d)))
=============================================================================
