--------------------------- MODULE EditApplication ---------------------------
(***************************************************************************)
(* How the changes of one didChange notification are applied to the text   *)
(* of an open document (caffeine-ls/src/lsp/utils.rs).  The server and the *)
(* client must end with the same text, although the server looks positions *)
(* up in a line index that it rebuilds only when it must.                  *)
(*                                                                         *)
(* A text is a sequence of characters, of which only NL matters; a change  *)
(* is the whole document, or a range of positions with a text to put       *)
(* there.  Columns are those of the encoding the two sides agreed on.      *)
(***************************************************************************)
EXTENDS Integers, Sequences, FiniteSets, FiniteSetsExt

CONSTANTS NL,           \* the end-of-line character
          LastLine      \* !0u32, the line number no index has

ASSUME EditAssumption == LastLine \in Nat

Invalid == -1

-----------------------------------------------------------------------------
(* ide::LineIndex: the offsets lines start at, and the text's length        *)
LineIndex(text) ==
    [starts |-> {0} \cup {i \in 1..Len(text) : text[i] = NL}, len |-> Len(text)]

(* The offset a line starts at, as a set: {} for a line past the last       *)
LineStarts(index, line) ==
    {s \in index.starts : Cardinality({t \in index.starts : t < s}) = line}

(* from_proto::offset and text_range: a line past the end has no offset, a  *)
(* column past the end of its line is the line's end.                       *)
OffsetOf(index, position) ==
    LET starts == LineStarts(index, position.line)
        start == CHOOSE s \in starts : TRUE
    IN  IF starts = {} THEN Invalid
        ELSE Min({start + position.col, index.len} \cup {t \in index.starts : t > start})
ValidRange(index, change) ==
    /\ OffsetOf(index, change.start) # Invalid
    /\ OffsetOf(index, change.end) # Invalid
    /\ OffsetOf(index, change.start) <= OffsetOf(index, change.end)
ReplaceRange(text, index, change) ==
    IF ~ValidRange(index, change) THEN text
    ELSE SubSeq(text, 1, OffsetOf(index, change.start)) \o change.text
         \o SubSeq(text, OffsetOf(index, change.end) + 1, Len(text))

(* The text the changes start from: that of the last whole document, and    *)
(* what is left to apply are the changes behind it.                         *)
LastWhole(changes) == Max({0} \cup {k \in DOMAIN changes : changes[k].whole})
StartText(contents, changes) ==
    IF LastWhole(changes) = 0 THEN contents ELSE changes[LastWhole(changes)].text

(* Mutant: a change on the line of the one before it trusts the index. *)
ApplyChangeSameLine(s, change) ==
    LET index == IF s.valid < change.end.line THEN LineIndex(s.text) ELSE s.index
    IN  [text |-> ReplaceRange(s.text, index, change), index |-> index,
         valid |-> change.start.line]

(* One turn of the loop.  valid is the first line the index may have wrong. *)
ApplyChange(s, change) ==
    LET index == IF s.valid <= change.end.line THEN LineIndex(s.text) ELSE s.index
    IN  [text |-> ReplaceRange(s.text, index, change), index |-> index,
         valid |-> change.start.line]

(* utils::apply_document_changes *)
ApplyDocumentChanges(contents, changes) ==
    LET first == LastWhole(changes)
        text == StartText(contents, changes)
        state[n \in first..Len(changes)] ==
            IF n = first THEN [text |-> text, index |-> LineIndex(text), valid |-> LastLine]
            ELSE ApplyChange(state[n - 1], changes[n])
    IN  state[Len(changes)].text

-----------------------------------------------------------------------------
(* What the protocol says: every change, in order, on the text the one      *)
(* before it left.                                                          *)
TextAfter(text, change) ==
    IF change.whole THEN change.text ELSE ReplaceRange(text, LineIndex(text), change)
ClientText(contents, changes) ==
    LET text[n \in 0..Len(changes)] ==
            IF n = 0 THEN contents ELSE TextAfter(text[n - 1], changes[n])
    IN  text[Len(changes)]
=============================================================================
