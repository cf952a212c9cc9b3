--------------------------- MODULE DiagnosticPull ---------------------------
(***************************************************************************)
(* Diagnostics that the client pulls: of one document, or of every source  *)
(* file of the workspace.  An answer names each file's diagnostics by an   *)
(* id, and says only "unchanged" of a file whose id the client has named   *)
(* in its request.  The id of a document pull is a hash of the diagnostics *)
(* as the client gets them, in lines and columns; that of a workspace pull *)
(* a hash of the report they are converted from, in byte offsets.          *)
(*                                                                         *)
(* A worker answers from one snapshot of the database.  A request an edit  *)
(* cancels starts again, so an answer is one action, at some time after    *)
(* the request; answers arrive in any order.                               *)
(***************************************************************************)
EXTENDS Integers, FiniteSets

CONSTANTS
    Files,           \* source files, all of which the client may open
    Texts,           \* texts
    Absent,          \* no file
    NoId,            \* no id
    Report,          \* the report of a file, for the texts of all files
    Clean,           \* the report without diagnostics
    LinesOf,         \* where a text breaks its lines
    MaxEdits,        \* bound on changes of a text
    MaxPulls         \* bound on pulls

States == [Files -> Texts \cup {Absent}]

(* What a client is shown of a file: a report and where the lines break.   *)
Reports == {Report[p] : p \in Files \X States} \cup {Clean}
Items == Reports \X ({LinesOf[t] : t \in Texts} \cup {0})
NoItems == <<Clean, 0>>

(* Hashes of different contents differ, and so do those of items and of    *)
(* reports, but there is one hash of no problem at all.                    *)
Ids == [of : {"items", "report", "nothing"}, content : Items]
Hash(of, content) == [of |-> IF content = NoItems THEN "nothing" ELSE of, content |-> content]

ASSUME DiagnosticAssumption ==
    /\ IsFiniteSet(Files) /\ Absent \notin Texts /\ NoId \notin Ids
    /\ DOMAIN Report = Files \X States /\ DOMAIN LinesOf = Texts
    /\ MaxEdits \in Nat /\ MaxPulls \in Nat

VARIABLES
    text,            \* the text of each file
    shown,           \* the id and the diagnostics the client has of each file
    latest,          \* of the pulls whose answers on a file it took, the last
    requests,        \* the pulls under way, with the ids they name
    answers,         \* the answers on their way to the client
    pulls, edits

vars == <<text, shown, latest, requests, answers, pulls, edits>>

NoPull == [number |-> 0, kind |-> "document", edits |-> 0]
NoDiagnostics == [id |-> NoId, items |-> NoItems]

Init ==
    /\ text \in [Files -> Texts]
    /\ shown = [f \in Files |-> NoDiagnostics] /\ latest = [f \in Files |-> NoPull]
    /\ requests = {} /\ answers = {} /\ pulls = 0 /\ edits = 0

-----------------------------------------------------------------------------
(* What a client is shown of a report depends on where the lines break.    *)
Converted(f) ==
    IF Report[<<f, text>>] = Clean THEN NoItems ELSE <<Report[<<f, text>>], LinesOf[text[f]]>>

(* Mutants of the ids: a document pull hashes the report; a workspace pull *)
(* hashes the file's own text.                                             *)
ResultIdOfReport(f) == Hash("report", <<Report[<<f, text>>], 0>>)
ResultId(f) == Hash("items", Converted(f))

ReportResultIdOfText(f) == [of |-> "report", content |-> text[f]]
ReportResultId(f) == Hash("report", <<Report[<<f, text>>], 0>>)

Full(f, id) == [unchanged |-> FALSE, id |-> id, items |-> Converted(f)]
Unchanged(f, id) == [unchanged |-> TRUE, id |-> id, items |-> Converted(f)]

Entry(f, id, previous) == IF previous = id THEN Unchanged(f, id) ELSE Full(f, id)

Present == {f \in Files : text[f] # Absent}

(* on_diagnostic: a file that is gone has no problems.                     *)
AnswerDocument(r) ==
    [f \in r.files |->
        IF f \in Present THEN Entry(f, ResultId(f), r.ids[f])
        ELSE [unchanged |-> FALSE, id |-> NoId, items |-> NoItems]]

(* on_workspace_diagnostic: an entry for each source file.                 *)
AnswerWorkspace(r) == [f \in Present |-> Entry(f, ReportResultId(f), r.ids[f])]

-----------------------------------------------------------------------------
Pull(kind, files) ==
    /\ pulls < MaxPulls /\ pulls' = pulls + 1
    /\ requests' = requests \cup
          {[pull |-> [number |-> pulls', kind |-> kind, edits |-> edits], files |-> files,
            ids |-> [f \in files |-> shown[f].id], seen |-> shown]}
    /\ UNCHANGED <<text, shown, latest, answers, edits>>

PullDocument(f) == Pull("document", {f})
PullWorkspace == Pull("workspace", Files)

Answer(r) ==
    /\ requests' = requests \ {r}
    /\ answers' = answers \cup
          {[pull |-> r.pull, seen |-> r.seen,
            entries |-> IF r.pull.kind = "document" THEN AnswerDocument(r) ELSE AnswerWorkspace(r)]}
    /\ UNCHANGED <<text, shown, latest, pulls, edits>>

(* The client takes an answer on a file unless it has taken that to a      *)
(* later pull; "unchanged" leaves it what it had when it asked.            *)
Receive(a) ==
    LET news == {f \in DOMAIN a.entries : a.pull.number > latest[f].number}
    IN /\ answers' = answers \ {a}
       /\ latest' = [f \in Files |-> IF f \in news THEN a.pull ELSE latest[f]]
       /\ shown' = [f \in Files |->
             IF f \notin news THEN shown[f]
             ELSE IF a.entries[f].unchanged THEN a.seen[f]
             ELSE [id |-> a.entries[f].id, items |-> a.entries[f].items]]
       /\ UNCHANGED <<text, requests, pulls, edits>>

(* A text changes, in an editor or on disk; a file appears or goes.        *)
Change(f) ==
    /\ edits < MaxEdits /\ edits' = edits + 1
    /\ \E t \in (Texts \cup {Absent}) \ {text[f]} : text' = [text EXCEPT ![f] = t]
    /\ UNCHANGED <<shown, latest, requests, answers, pulls>>

Next ==
    \/ \E f \in Files : PullDocument(f) \/ Change(f)
    \/ PullWorkspace
    \/ \E r \in requests : Answer(r)
    \/ \E a \in answers : Receive(a)

Spec == Init /\ [][Next]_vars

-----------------------------------------------------------------------------
(* Properties.                                                             *)

(* A client that has taken the answer to a document pull of a file, made   *)
(* after the last change of any text, shows what the file has now, or      *)
(* nothing when it is gone: whichever pull, of whichever kind, gave it the *)
(* id it named, and also if the change only moved the diagnostics.         *)
DocumentPullShows ==
    \A f \in Files :
        latest[f].number > 0 /\ latest[f].kind = "document" /\ latest[f].edits = edits =>
            shown[f].items = IF f \in Present THEN Converted(f) ELSE NoItems

(* A workspace pull says "unchanged" of no file whose report is not the    *)
(* one the client's diagnostics were made from, though the change was in   *)
(* another file.                                                           *)
WorkspaceSeesReports ==
    \A a \in answers : a.pull.kind = "workspace" =>
        \A f \in DOMAIN a.entries :
            a.entries[f].unchanged => a.seen[f].items[1] = a.entries[f].items[1]

(* "A pull issued right after didChange always reflects the new text       *)
(* instead of echoing a stale pre-edit resultId" (of workspace_diagnostic_ *)
(* reports): what it says is unchanged is what the client has.             *)
WorkspaceUnchangedIsTrue ==
    \A a \in answers : a.pull.kind = "workspace" =>
        \A f \in DOMAIN a.entries :
            a.entries[f].unchanged => a.seen[f].items = a.entries[f].items
=============================================================================
