---------------------------- MODULE MCAlgorithms ----------------------------
(***************************************************************************)
(* The parts of the server that depend on no other, on small inputs.       *)
(* Three take steps: the events of a parse, the progress of a sync and the *)
(* threads that read a build tool.  The others are functions, evaluated on *)
(* samples.                                                                *)
(***************************************************************************)
EXTENDS ParserEvents, SyncProgress, BuildTool, EditApplication
CONSTANTS JavaBase, OwnModule, LambdaParameter

VARIABLES subject,      \* what this run is about
          sample        \* its input
vars == <<subject, sample, parserVars, syncVars, toolVars>>

Path == INSTANCE ModulePath WITH Base <- JavaBase, Own <- OwnModule
Flow == INSTANCE EffectivelyFinal WITH Parameter <- LambdaParameter

(* Parses: shift operators on their own, closing type arguments, after      *)
(* trivia, three levels deep.                                               *)
Files == {<<"ws", "id", "shr", "ws", "id">>, <<"id", "ushr", "id">>,
          <<"id", "ws", "shr", "id">>}

(* Three levels of type arguments closed at once, and a token after them     *)
ThreeLevels == {<<"id", "ushr", "id">>}

(* Build tools: a model among other output, on both streams and in the wrong *)
(* one; one that is cut off, written twice, too long, not UTF-8; and more    *)
(* errors than pipe and channel hold before the first line of output.        *)
Out(l) == [on |-> "stdout", line |-> l]
Err(l) == [on |-> "stderr", line |-> l]
ToolScripts ==
    {<<>>, <<Out("plain"), Err("plain")>>,
     <<Out("begin"), Err("plain"), Out("json"), Out("end"), Err("end")>>,
     <<Err("begin"), Out("begin"), Out("json"), Err("end"), Out("garbled"), Out("end")>>,
     <<Out("begin"), Out("json")>>, <<Out("begin"), Out("garbled"), Out("end")>>,
     <<Out("begin"), Out("plain"), Out("json"), Out("end")>>,
     <<Out("begin"), Out("json"), Out("garbled"), Out("plain"), Out("end"), Err("plain")>>,
     <<Out("begin"), Out("json"), Out("end"), Out("begin"), Out("end")>>,
     <<Err("plain"), Err("plain"), Err("plain"), Err("plain"), Out("begin"), Out("json"),
       Out("end")>>}
Commands == {1, 3}

(* Edits: whole documents, and ranges over several lines, past the end of a  *)
(* line and past the end of the text.  The protocol has no backwards range.  *)
Texts == {<<>>, <<"a", NL>>, <<"a", NL, NL, "b">>}
RangeOf(lines, cols, texts) ==
    {r \in [whole : {FALSE}, start : [line : lines, col : cols],
            end : [line : lines, col : cols], text : texts] :
        \/ r.start.line < r.end.line
        \/ r.start.line = r.end.line /\ r.start.col <= r.end.col}
Whole == [whole |-> TRUE, text |-> <<NL, "d">>]
Changes == RangeOf(0..2, {0, 2}, {<<>>, <<NL>>, <<"c">>}) \cup {Whole}
FewChanges == RangeOf(0..2, {0}, {<<NL>>, <<"c">>}) \cup {Whole}
Batches == {<<c, d>> : c \in Changes, d \in Changes}
           \cup {<<c, d, e>> : c \in FewChanges, d \in FewChanges, e \in FewChanges}
Edits == [contents : Texts, changes : Batches]

(* Module paths: three modules of one library that require each other in     *)
(* every way; and two libraries that may declare the same modules.           *)
Requirements(names) ==
    UNION {[chosen -> {"plain", "transitive"}] : chosen \in SUBSET names}
NoExports == <<>>
Stub(requires, exports) == [requires |-> requires, exports |-> exports]
Base == [requires |-> <<>>, exports |-> ("lang" :> {})]
OneLibrary ==
    {[modules |-> (JavaBase :> Base) @@ ("A" :> Stub(a, "p" :> {})) @@ ("B" :> Stub(b, NoExports))
                  @@ ("C" :> Stub(c, NoExports)),
      owners |-> "p" :> {"A"}] :
        a \in Requirements({"B", "C"}), b \in Requirements({"A", "C"}),
        c \in Requirements({"A", JavaBase})}
Exports == {NoExports, "p" :> {}, "p" :> {OwnModule}, "p" :> {"C"}}
Libraries ==
    {[modules |-> (JavaBase :> Base), owners |-> "lang" :> {JavaBase}]}
    \cup {[modules |-> ("A" :> Stub(<<>>, e)), owners |-> o] :
            e \in Exports, o \in {"p" :> {"A"}, "q" :> {"A"}}}
    \cup {[modules |-> ("A" :> Stub("B" :> t, e)) @@ ("B" :> Stub(<<>>, f)),
           owners |-> "p" :> {"A", "B"}] :
            t \in {"plain", "transitive"}, e \in Exports, f \in Exports}
Sources == {{}} \cup
           {{Stub(r, NoExports)} : r \in Requirements({"A", "B"})}
Paths ==
    [libraries : {<<l>> : l \in OneLibrary}, later : {[modules |-> <<>>, owners |-> <<>>]},
     declared : Sources, open : {FALSE}, own : {{"r"}}]
    \cup [libraries : {<<l>> : l \in Libraries}, later : Libraries, declared : Sources,
          open : BOOLEAN, own : {{"r"}, {"p"}}]

(* Bodies: a local, with or without an initializer, and what happens to it   *)
(* in two or three statements.                                               *)
Straight(x, l) ==
    {<<>>} \cup {<<s>> : s \in {Flow!Assign(x, l), Flow!Increment(x, l)}}
    \cup {<<Flow!Assign(x, l), Flow!Assign(x, l)>>}
UseIn(x, l) == Flow!Lambda({"y"}, <<Flow!Use(x, l)>>)
Branches(x, l) == {Flow!If(s, t) : s \in Straight(x, l), t \in Straight(x, l)}
Nested(x, l) == {Flow!If(<<s>>, t) : s \in Branches(x, l), t \in Straight(x, l)}
Steps(x, l) == {Flow!Assign(x, l), Flow!Increment(x, l), UseIn(x, l),
                Flow!Lambda({}, <<UseIn(x, l)>>)} \cup Branches(x, l) \cup Nested(x, l)
Scopes == {<<Flow!Decl("x", l, i), s, UseIn("x", l)>> :
                l \in {"l1"}, i \in BOOLEAN, s \in Steps("x", "l1")}
SecondScopes == {<<Flow!Decl("x", "l2", i), s>> : i \in BOOLEAN, s \in Steps("x", "l2")}
Bodies ==
    {<<Flow!Decl("x", "l1", i), s, t, UseIn("x", "l1")>> :
        i \in BOOLEAN, s \in Steps("x", "l1"), t \in Steps("x", "l1")}
    \cup {<<Flow!Block(a), Flow!Block(b)>> : a \in Scopes, b \in SecondScopes}

-----------------------------------------------------------------------------
Samples(s) ==
    CASE s = "edit" -> Edits [] s = "path" -> Paths [] s = "body" -> Bodies
      [] OTHER -> {<<>>}
Init ==
    /\ subject \in {"parse", "sync", "tool", "edit", "path", "body"}
    /\ sample \in Samples(subject)
    /\ IF subject = "parse" THEN ParserInit ELSE ParserStart(<<>>)
    /\ SyncStart
    /\ ToolStart /\ commands \in IF subject = "tool" THEN CommandCounts ELSE {1}
Next ==
    \/ subject = "parse" /\ ParserNext /\ UNCHANGED <<subject, sample, syncVars, toolVars>>
    \/ subject = "sync" /\ SyncNext /\ UNCHANGED <<subject, sample, parserVars, toolVars>>
    \/ subject = "tool" /\ ToolNext /\ UNCHANGED <<subject, sample, parserVars, syncVars>>
Spec == Init /\ [][Next]_vars

-----------------------------------------------------------------------------
(* Properties *)

(* After a didChange the server's text is the client's: every change applied *)
(* in order, although positions are looked up in an index that is rebuilt    *)
(* only when a change may lie below an earlier one.                          *)
EditsMatchClient ==
    subject = "edit" =>
        ApplyDocumentChanges(sample.contents, sample.changes)
        = ClientText(sample.contents, sample.changes)

(* What a source set reads is the least set the language's rules give, and   *)
(* a library at the end of the classpath hides no package it sees, even if   *)
(* it declares the same modules again (ModulePath).                          *)
Graph == Path!ModuleCtx(sample.libraries, sample.declared, sample.open, sample.own).graph
ModulePathAsLanguage ==
    subject = "path" =>
        /\ Path!ReadableIsLeastClosed(Graph)
        /\ Path!LaterLibraryHidesNothing(sample.libraries, sample.later, sample.declared,
                                         sample.open, sample.own, {"lang", "p", "q", "r"})

(* See EffectivelyFinal; the captures the scan reports are the language's.   *)
CapturesAsLanguage == subject = "body" => Flow!ReportsAsLanguage(sample)
=============================================================================
