---------------------------- MODULE ParserEvents ----------------------------
(***************************************************************************)
(* How the Java parser turns tokens into a tree.  A grammar function does  *)
(* not build nodes: it appends events (java-syntax/src/parser.rs), through *)
(* markers that are opened, completed, abandoned or preceded               *)
(* (parser/marker.rs), and the sink replays the events over the raw        *)
(* tokens, trivia included, into a tree (parser/sink.rs).  Lookahead is a  *)
(* parse that is rewound.  The grammar is any sequence of these steps in   *)
(* which the innermost open marker is the one that is closed.              *)
(*                                                                         *)
(* A token is its kind and its size; text is a range of source offsets.  A *)
(* node is named by the index of its marker's event, which stands for its  *)
(* kind.  Errors are left out: the sink skips them.                        *)
(***************************************************************************)
EXTENDS Naturals, Sequences, FiniteSets, SequencesExt, FiniteSetsExt

CONSTANTS Inputs,      \* the token sequences to parse
          MaxEvents,   \* bound on the events of one parse
          MaxOpen      \* bound on the markers open at a time

(* The kinds of tokens told apart here: trivia, any other, and those that   *)
(* close type arguments                                                     *)
Kinds == {"ws", "id", "gt", "shr", "ushr"}

ASSUME ParserAssumption ==
    Inputs \subseteq Seq(Kinds) /\ MaxEvents \in Nat /\ MaxOpen \in Nat

VARIABLES tokens,      \* the raw tokens
          cursor,      \* TokenSource::cursor, over the tokens that are not trivia
          events,      \* Parser::events
          override,    \* Parser::override_token: what is left of a split token
          open,        \* the markers the grammar holds, innermost last
          last,        \* the marker completed last, if it may be preceded
          saved,       \* the checkpoint of a lookahead, if one is running
          meant        \* what the grammar meant: the tokens taken, the nodes closed
parserVars == <<tokens, cursor, events, override, open, last, saved, meant>>

None == <<>>

Size(kind) == CASE kind = "shr" -> 2 [] kind = "ushr" -> 3 [] OTHER -> 1
Offset(i) ==
    LET at[k \in 1..Len(tokens) + 1] == IF k = 1 THEN 0 ELSE at[k - 1] + Size(tokens[k - 1])
    IN  at[i]
Piece(i) == [from |-> Offset(i), to |-> Offset(i + 1)]
Trivia(i) == tokens[i] = "ws"

(* TokenSource: the tokens that are not trivia, and the index of the nth of *)
(* them from the cursor, 0 past the end                                     *)
Indices == {i \in DOMAIN tokens : ~Trivia(i)}
CountTo(S, n) == Cardinality(S \cap (1..n))
Nth(n) ==
    LET at == {i \in Indices : CountTo(Indices, i) = cursor + n}
    IN  IF at = {} THEN 0 ELSE CHOOSE i \in at : TRUE
AtEnd == Nth(1) = 0
Current == IF override # None THEN override.kind ELSE tokens[Nth(1)]

Tombstone == [type |-> "tombstone"]
AddToken == [type |-> "token"]
AddVirtualToken(piece) == [type |-> "virtual", piece |-> piece]
AdvanceSource == [type |-> "advance"]
StartNode(forward) == [type |-> "start", forward |-> forward]
FinishNode == [type |-> "finish"]

Room(n) == Len(events) + n <= MaxEvents

-----------------------------------------------------------------------------
(* The parser *)

ParserStart(input) ==
    /\ tokens = input /\ cursor = 0 /\ events = <<>> /\ override = None
    /\ open = <<>> /\ last = None /\ saved = None
    /\ meant = [taken |-> 0, nodes |-> <<>>, clean |-> TRUE]
ParserInit == \E input \in Inputs : ParserStart(input)

(* Parser::start; the first marker is the root's.  A marker is remembered   *)
(* with the event its node, or the one it precedes, starts at, and the      *)
(* number of tokens taken before.                                           *)
Start ==
    /\ Room(1) /\ Len(open) < MaxOpen
    /\ open = <<>> => events = <<>>
    /\ events' = Append(events, Tombstone)
    /\ open' = Append(open, [pos |-> Len(events) + 1, first |-> Len(events) + 1,
                            from |-> meant.taken, precedes |-> FALSE])
    /\ last' = None
    /\ UNCHANGED <<tokens, cursor, override, saved, meant>>

(* Marker::complete; root() completes its marker only at the end *)
Complete ==
    /\ open # <<>> /\ Room(1)
    /\ Len(open) = 1 => AtEnd /\ saved = None
    /\ saved # None => Len(open) > saved.depth
    /\ LET m == Last(open) IN
       /\ events' = Append([events EXCEPT ![m.pos] = StartNode(0)], FinishNode)
       /\ last' = m
       /\ meant' = [meant EXCEPT !.nodes =
                        Append(@, [node |-> m.pos, first |-> m.first, last |-> Len(events) + 1,
                                   from |-> m.from, to |-> meant.taken])]
    /\ open' = Front(open)
    /\ UNCHANGED <<tokens, cursor, override, saved>>

(* Marker::abandon; the grammar abandons no marker that precedes a node *)
Abandon ==
    /\ Len(open) > 1 /\ ~Last(open).precedes
    /\ saved # None => Len(open) > saved.depth
    /\ open' = Front(open)
    /\ last' = None
    /\ UNCHANGED <<tokens, cursor, events, override, saved, meant>>

(* CompletedMarker::precede *)
Precede ==
    /\ last # None /\ open # <<>> /\ Room(1) /\ Len(open) < MaxOpen
    /\ LET pos == Len(events) + 1 IN
       /\ events' = Append([events EXCEPT ![last.pos] = StartNode(pos - last.pos)],
                           Tombstone)
       /\ open' = Append(open, [pos |-> pos, first |-> last.first, from |-> last.from,
                               precedes |-> TRUE])
    /\ last' = None
    /\ UNCHANGED <<tokens, cursor, override, saved, meant>>

(* Parser::bump *)
Bump ==
    /\ open # <<>> /\ ~AtEnd
    /\ \/ /\ override # None /\ Room(2)
          /\ events' = events \o <<AddVirtualToken(override.piece), AdvanceSource>>
       \/ /\ override = None /\ Room(1)
          /\ events' = Append(events, AddToken)
    /\ meant' = [meant EXCEPT !.taken = @ + 1]
    /\ cursor' = cursor + 1
    /\ override' = None
    /\ UNCHANGED <<tokens, open, last, saved>>

(* Parser::split_token, as expect_gt calls it: one `>` is taken off the     *)
(* token of the source, whatever was taken off it before.                   *)
Split(rest) ==
    LET whole == Piece(Nth(1))
        head == [whole EXCEPT !.to = whole.from + 1]
    IN  /\ events' = Append(events, AddVirtualToken(head))
        /\ override' = [kind |-> rest, piece |-> [whole EXCEPT !.from = @ + 1]]
        /\ meant' = [taken |-> meant.taken + 1, nodes |-> meant.nodes,
                     clean |-> /\ meant.clean /\ override = None
                               /\ Nth(1) = 1 \/ ~Trivia(Nth(1) - 1)]

(* grammar::types::expect_gt on a shift operator; on `>` it is a Bump *)
ExpectGt ==
    /\ open # <<>> /\ ~AtEnd /\ Room(1)
    /\ \/ Current = "shr" /\ Split("gt")
       \/ Current = "ushr" /\ Split("shr")
    /\ UNCHANGED <<tokens, cursor, open, last, saved>>

(* Parser::checkpoint, as is_pattern and is_type_cast_lookahead take one *)
Checkpoint ==
    /\ open # <<>> /\ saved = None /\ override = None /\ ~AtEnd
    /\ saved' = [cursor |-> cursor, events |-> Len(events), depth |-> Len(open),
                 taken |-> meant.taken, nodes |-> Len(meant.nodes)]
    /\ last' = None
    /\ UNCHANGED <<tokens, cursor, events, override, open, meant>>

(* Parser::rewind, when the markers of the lookahead are closed *)
Rewind ==
    /\ saved # None /\ Len(open) = saved.depth
    /\ cursor' = saved.cursor
    /\ events' = SubSeq(events, 1, saved.events)
    /\ meant' = [taken |-> saved.taken, nodes |-> SubSeq(meant.nodes, 1, saved.nodes),
                 clean |-> meant.clean /\ override = None]
    /\ saved' = None
    /\ last' = None
    /\ UNCHANGED <<tokens, override, open>>

ParserNext == Start \/ Complete \/ Abandon \/ Precede \/ Bump \/ ExpectGt
              \/ Checkpoint \/ Rewind
ParserSpec == ParserInit /\ [][ParserNext]_parserVars

Done == events # <<>> /\ open = <<>>

-----------------------------------------------------------------------------
(* The sink.  Its state: the cursor over the raw tokens, the pieces of text *)
(* built, the nodes open and closed, and the events already replaced by     *)
(* tombstones.                                                              *)

Built(piece, trivia) == [from |-> piece.from, to |-> piece.to, trivia |-> trivia]
Add(s, piece) == [s EXCEPT !.text = Append(@, Built(piece, FALSE))]

(* Sink::eat_trivia, Sink::token *)
EatTrivia(s) ==
    LET end == Min({Len(tokens) + 1} \cup {i \in Indices : s.cursor <= i})
        eaten == [k \in 1..(end - s.cursor) |-> Built(Piece(s.cursor + k - 1), TRUE)]
    IN  [s EXCEPT !.cursor = end, !.text = @ \o eaten]
EatToken(s) ==
    LET t == EatTrivia(s) IN
    IF t.cursor > Len(tokens) THEN t
    ELSE [Add(t, Piece(t.cursor)) EXCEPT !.cursor = @ + 1]

(* The nodes the start event idx leads to: its own, and those of the chain  *)
(* of forward parents, the outermost last                                   *)
Chain(idx) ==
    LET at[k \in 1..Len(events)] ==
            IF k = 1 THEN idx ELSE at[k - 1] + events[at[k - 1]].forward
    IN  SubSeq(at, 1, Min({k \in 1..Len(events) : events[at[k]].forward = 0}))

Opened(nodes, s) == [i \in 1..Len(nodes) |-> [node |-> nodes[i], first |-> Len(s.text) + 1]]

(* Mutants: the chain is opened inside out; trivia goes into the node. *)
OpenNodesInsideOut(s, idx) ==
    LET t == IF idx = 1 THEN s ELSE EatTrivia(s) IN
    [t EXCEPT !.open = @ \o Opened(Chain(idx), t), !.gone = @ \cup ToSet(Chain(idx))]
OpenNodesAtOnce(s, idx) ==
    [s EXCEPT !.open = @ \o Opened(Reverse(Chain(idx)), s), !.gone = @ \cup ToSet(Chain(idx))]

(* The two branches of Sink::build that open and close nodes *)
OpenNodes(s, idx) ==
    LET t == IF idx = 1 THEN s ELSE EatTrivia(s) IN
    [t EXCEPT !.open = @ \o Opened(Reverse(Chain(idx)), t), !.gone = @ \cup ToSet(Chain(idx))]
CloseNode(s, idx) ==
    LET t == IF idx = Len(events) THEN EatTrivia(s) ELSE s
        n == Last(t.open)
    IN  [t EXCEPT !.open = Front(@),
                  !.closed = Append(@, [node |-> n.node, first |-> n.first,
                                        last |-> Len(t.text)])]

Replay(s, idx) ==
    LET event == events[idx].type IN
    CASE event = "token" -> EatToken(s)
      [] event = "virtual" -> Add(s, events[idx].piece)
      [] event = "advance" -> [s EXCEPT !.cursor = @ + 1]
      [] event = "start" /\ idx \notin s.gone -> OpenNodes(s, idx)
      [] event = "finish" -> CloseNode(s, idx)
      [] OTHER -> s

(* Sink::build *)
SinkStart == [cursor |-> 1, text |-> <<>>, open |-> <<>>, closed |-> <<>>, gone |-> {}]
Sink ==
    LET s[n \in 0..Len(events)] == IF n = 0 THEN SinkStart ELSE Replay(s[n - 1], n)
    IN  s[Len(events)]

-----------------------------------------------------------------------------
(* Properties *)

(* How long the first n pieces of a text are together, and how many of them *)
(* are tokens                                                               *)
Length(text, n) ==
    LET sum[i \in 0..n] == IF i = 0 THEN 0 ELSE sum[i - 1] + (text[i].to - text[i].from)
    IN  sum[n]
TokensIn(text, n) == CountTo({i \in DOMAIN text : ~text[i].trivia}, n)

(* A parse is clean as long as no shift operator is split that follows      *)
(* trivia, none is split twice, and no lookahead is rewound in the middle   *)
(* of one.                                                                  *)
Finished == Done /\ meant.clean

(* The tree is the one the grammar meant.  Its text is the text of the      *)
(* file: every token and every piece of trivia once, in order, whatever was *)
(* split, preceded, abandoned or rewound.  Every node completed by the      *)
(* grammar, and no other, is in it, holds the tokens taken while its marker *)
(* was open (from the start of the node it precedes, if it precedes one),   *)
(* and is closed in the grammar's order, so that a node that precedes       *)
(* another encloses it; and NodeStartsAtToken, below, holds.                *)
TextIsSource(text) ==
    /\ \A i \in 1..Len(text) : text[i].from = IF i = 1 THEN 0 ELSE text[i - 1].to
    /\ Length(text, Len(text)) = Offset(Len(tokens) + 1)
NodesAsMeant(sink) ==
    /\ sink.open = <<>>
    /\ Len(sink.closed) = Len(meant.nodes)
    /\ \A i \in 1..Len(meant.nodes) :
          LET built == sink.closed[i]
              n == meant.nodes[i]
          IN  /\ built.node = n.node
              /\ TokensIn(sink.text, built.first - 1) = n.from
              /\ TokensIn(sink.text, built.last) = n.to
(* "A node's range starts at its first real token" (parser/sink.rs): except *)
(* for the root, a node that is not empty starts with a token, at the       *)
(* offset the token has in the file.                                        *)
NodeStartsAtToken ==
    Done => LET sink == Sink IN
        \A i \in 1..Len(sink.closed) :
            LET n == sink.closed[i] IN
            n.node # 1 /\ n.first <= n.last =>
                /\ ~sink.text[n.first].trivia
                /\ sink.text[n.first].from = Length(sink.text, n.first - 1)

TreeAsMeant ==
    /\ Finished => LET sink == Sink IN TextIsSource(sink.text) /\ NodesAsMeant(sink)
    /\ meant.clean => NodeStartsAtToken
=============================================================================
