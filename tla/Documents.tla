------------------------------ MODULE Documents ------------------------------
(***************************************************************************)
(* The files of a session: the documents the client has open (mem_docs),   *)
(* the virtual file system, the loader thread that reads the disk, and the *)
(* salsa inputs the main loop derives from them (the text of a file, its   *)
(* source root, the table of source roots).                                *)
(*                                                                         *)
(* One action is one iteration of the main loop: a handler and the         *)
(* process_changes that follows it, so no vfs change is pending between    *)
(* two actions.  Source roots are counted from 1.                          *)
(***************************************************************************)
EXTENDS Integers, Sequences, FiniteSetsExt

CONSTANTS
    Sources,         \* source files: written on disk, opened and watched
    Views,           \* files of libraries, which the server materializes
    Texts,           \* texts
    ServerText,      \* what the server materializes of a library file
    Absent,          \* no document, or no file
    Layouts,         \* the roots of each graph the main loop applies, in order
    FirstDisks,      \* the disks a session may start with
    MaxActs          \* bound on what the client and other programs do

Files == Sources \cup Views
Contents == Texts \cup {Absent}
RootKinds == {"source", "generated", "library"}
Root == [kind : RootKinds, files : SUBSET Files, ignored : SUBSET Files]

(* The text of a deleted file is reset, not removed; an empty document is   *)
(* not told from it.                                                       *)
Empty == "empty"

ASSUME DocumentsAssumption ==
    /\ Sources \cap Views = {} /\ Absent \notin Texts /\ ServerText \in Texts
    /\ Empty \notin Contents
    /\ Layouts \in Seq(Seq(Root)) /\ MaxActs \in Nat
    /\ FirstDisks \subseteq [Sources -> Contents]

VARIABLES
    doc,             \* mem_docs: the text of each open document
    disk,            \* the contents of each file on disk
    past,            \* history: every content a file has had on disk
    vfs,             \* the contents the virtual file system has
    text,            \* FileText, or Absent where the input was never set
    roots,           \* SourceRootInput, by SourceRootId
    fileRoot,        \* FileSourceRootInput; 0 is FALLBACK_SOURCE_ROOT or none
    layout,          \* the layout of file_set_config; 0 before the first graph
    notices,         \* files whose change on disk the client has yet to report
    tasks,           \* the loader's inbox: files to read, of a directory or by name
    answers,         \* the loader's messages to the main loop
    dropped,         \* history: files whose answer was dropped as ignored, none taken since
    acts

dbVars == <<text, roots, fileRoot>>
loaderVars == <<tasks, answers, dropped>>
diskVars == <<disk, past, notices>>
vars == <<doc, diskVars, vfs, dbVars, layout, loaderVars, acts>>

Init ==
    /\ doc = [f \in Files |-> Absent]
    /\ disk \in FirstDisks
    /\ past = [f \in Sources |-> {disk[f]}]
    /\ vfs = [f \in Files |-> Absent] /\ text = vfs
    /\ roots = << >> /\ fileRoot = [f \in Files |-> 0] /\ layout = 0
    /\ notices = {} /\ tasks = << >> /\ answers = << >> /\ dropped = {} /\ acts = 0

-----------------------------------------------------------------------------
(* Roots.  They are sorted by path and libraries come last: of the roots   *)
(* that contain a file, the innermost has the highest number.              *)
Containing(n, f, kinds) ==
    {i \in DOMAIN Layouts[n] : Layouts[n][i].kind \in kinds /\ f \in Layouts[n][i].files}

(* The last root, after those of the layout, is the detached one.          *)
Owner ==
    [n \in DOMAIN Layouts |-> [f \in Files |->
        LET in == Containing(n, f, RootKinds)
        IN IF in = {} THEN Len(Layouts[n]) + 1 ELSE Max(in)]]

(* Files the rules of the innermost root that has rules ignore: a root of  *)
(* generated files has none.                                               *)
IgnoredByOwningRoot ==
    [n \in DOMAIN Layouts |->
        {f \in Files : LET in == Containing(n, f, {"source"})
                       IN in # {} /\ f \in Layouts[n][Max(in)].ignored}]

Ignored(f) == layout # 0 /\ f \in IgnoredByOwningRoot[layout]

PartitionSourceRoots(n, contents) ==
    [i \in 1 .. Len(Layouts[n]) + 1 |->
        [files |-> {f \in Files : contents[f] # Absent /\ Owner[n][f] = i},
         library |-> i \in DOMAIN Layouts[n] /\ Layouts[n][i].kind = "library"]]

(* FileChange::apply: the inputs of roots are set by number; roots beyond  *)
(* the new ones, and files in none of them, keep what they have.           *)
SetRoots(n, contents) ==
    /\ roots' = PartitionSourceRoots(n, contents)
                    \o SubSeq(roots, Len(Layouts[n]) + 2, Len(roots))
    /\ fileRoot' = [f \in Files |->
                       IF contents[f] # Absent THEN Owner[n][f] ELSE fileRoot[f]]

(* What process_changes makes of the bytes of a file, or of none.          *)
Decode(c) == IF c = Absent THEN Empty ELSE c

(* process_changes, when a handler has left contents in the vfs: files get *)
(* their texts, and created or deleted ones make it rebuild the roots.     *)
Changed(contents) == {f \in Files : contents[f] # vfs[f]}
Created(contents) == {f \in Changed(contents) : vfs[f] = Absent}
Deleted(contents) == {f \in Changed(contents) : contents[f] = Absent}

Process(contents, texted, rebuildFor) ==
    /\ vfs' = contents
    /\ text' = [f \in Files |-> IF f \in texted THEN Decode(contents[f]) ELSE text[f]]
    /\ IF layout # 0 /\ rebuildFor # {}
       THEN SetRoots(layout, contents)
       ELSE UNCHANGED <<roots, fileRoot>>

(* Mutants: the roots are rebuilt only for created files; a created file   *)
(* gets no text.                                                           *)
ProcessCreated(contents) == Process(contents, Changed(contents), Created(contents))

ProcessModified(contents) ==
    Process(contents, Changed(contents) \ Created(contents),
            Created(contents) \cup Deleted(contents))

ProcessChanges(contents) ==
    Process(contents, Changed(contents), Created(contents) \cup Deleted(contents))

-----------------------------------------------------------------------------
(* What the loader is asked: to read a file that may have changed or gone, *)
(* and the directories of a layout.                                        *)
Invalidate(files) == [files |-> files, byName |-> TRUE]
LoadOf(files) == [files |-> files, byName |-> FALSE]

(* Notifications of the client.                                            *)

Act == acts < MaxActs /\ acts' = acts + 1

OpenDocument(f) ==
    /\ Act /\ doc[f] = Absent
    /\ \E t \in Texts : /\ doc' = [doc EXCEPT ![f] = t]
                        /\ ProcessChanges([vfs EXCEPT ![f] = t])
    /\ UNCHANGED <<diskVars, layout, loaderVars>>

ChangeDocument(f) ==
    /\ Act /\ doc[f] # Absent
    /\ \E t \in Texts \ {doc[f]} : /\ doc' = [doc EXCEPT ![f] = t]
                                   /\ ProcessChanges([vfs EXCEPT ![f] = t])
    /\ UNCHANGED <<diskVars, layout, loaderVars>>

(* Mutant of CloseDocument: it does not ask for the file on disk.          *)
CloseOnly(f) ==
    /\ Act /\ doc[f] # Absent
    /\ doc' = [doc EXCEPT ![f] = Absent]
    /\ UNCHANGED <<diskVars, vfs, dbVars, layout, loaderVars>>

CloseDocument(f) ==
    /\ Act /\ doc[f] # Absent
    /\ doc' = [doc EXCEPT ![f] = Absent]
    /\ tasks' = Append(tasks, Invalidate({f}))
    /\ UNCHANGED <<diskVars, vfs, dbVars, layout, answers, dropped>>

(* A library view: the client's copy is tracked and never analysed, its    *)
(* edits are ignored (they change nothing) and closing it reads nothing.   *)
OpenView(f) ==
    /\ Act /\ doc[f] = Absent /\ vfs[f] # Absent
    /\ \E t \in Texts : doc' = [doc EXCEPT ![f] = t]
    /\ UNCHANGED <<diskVars, vfs, dbVars, layout, loaderVars>>

CloseView(f) ==
    /\ Act /\ doc[f] # Absent
    /\ doc' = [doc EXCEPT ![f] = Absent]
    /\ UNCHANGED <<diskVars, vfs, dbVars, layout, loaderVars>>

(* didChangeWatchedFiles: whatever happened to the file, it is read again. *)
WatchedFileChanged(f) ==
    /\ f \in notices /\ notices' = notices \ {f}
    /\ tasks' = Append(tasks, Invalidate({f}))
    /\ UNCHANGED <<doc, disk, past, vfs, dbVars, layout, answers, dropped, acts>>

-----------------------------------------------------------------------------
(* The loader reads the files of its next task, at some later time: of     *)
(* directories what is there, of a file by name also that it is gone.      *)
LoaderReads ==
    /\ tasks # << >> /\ tasks' = Tail(tasks)
    /\ LET found == {f \in Head(tasks).files : Head(tasks).byName \/ disk[f] # Absent}
       IN answers' = Append(answers, [f \in found |-> disk[f]])
    /\ UNCHANGED <<doc, diskVars, vfs, dbVars, layout, dropped, acts>>

(* handle_vfs_task, Loaded and Changed alike, takes an answer's files of   *)
(* which no document is open and that are not ignored.  Mutants: also of   *)
(* open documents; not those that are gone.                                *)
Take(files) ==
    /\ answers' = Tail(answers)
    /\ dropped' = (dropped \cup {f \in DOMAIN Head(answers) : Ignored(f)}) \ files
    /\ ProcessChanges([f \in Files |-> IF f \in files THEN Head(answers)[f] ELSE vfs[f]])
    /\ UNCHANGED <<doc, diskVars, layout, tasks, acts>>

HandleAnswerAlways ==
    answers # << >> /\ Take({f \in DOMAIN Head(answers) : ~Ignored(f)})

HandleAnswerPresent ==
    answers # << >> /\ Take({f \in DOMAIN Head(answers) :
        doc[f] = Absent /\ ~Ignored(f) /\ Head(answers)[f] # Absent})

HandleAnswer ==
    answers # << >> /\ Take({f \in DOMAIN Head(answers) : doc[f] = Absent /\ ~Ignored(f)})

-----------------------------------------------------------------------------
(* apply_loaded_graph: the loader gets the workspace roots, and the        *)
(* database the roots and the graph in one change.                         *)
ApplyLayout ==
    /\ layout < Len(Layouts) /\ layout' = layout + 1
    /\ tasks' = Append(tasks, LoadOf({f \in Sources :
                    Containing(layout', f, {"source", "generated"}) # {}}))
    /\ SetRoots(layout', vfs)
    /\ UNCHANGED <<doc, diskVars, vfs, text, answers, dropped, acts>>

(* A request needs a file of a library: it is materialized, once.          *)
MaterializeView(f) ==
    /\ layout # 0 /\ Containing(layout, f, {"library"}) # {}
    /\ vfs[f] = Absent
    /\ ProcessChanges([vfs EXCEPT ![f] = ServerText])
    /\ UNCHANGED <<doc, diskVars, layout, loaderVars, acts>>

(* Another program writes or deletes a file, or the client saves one.      *)
WriteDisk(f) ==
    /\ Act
    /\ \E c \in Contents \ {disk[f]} : /\ disk' = [disk EXCEPT ![f] = c]
                                       /\ past' = [past EXCEPT ![f] = @ \cup {c}]
    /\ notices' = notices \cup {f}
    /\ UNCHANGED <<doc, vfs, dbVars, layout, loaderVars>>

MainLoop ==
    \/ \E f \in Sources : \/ OpenDocument(f) \/ ChangeDocument(f) \/ CloseDocument(f)
                          \/ WatchedFileChanged(f)
    \/ \E f \in Views : OpenView(f) \/ CloseView(f) \/ MaterializeView(f)
    \/ HandleAnswer \/ ApplyLayout

Next == MainLoop \/ LoaderReads \/ \E f \in Sources : WriteDisk(f)

Spec == Init /\ [][Next]_vars

(* The main loop and the loader thread take what is in their channels, and *)
(* the client reports each change on disk; nobody has to edit or write.    *)
Fairness ==
    /\ WF_vars(LoaderReads) /\ WF_vars(HandleAnswer)
    /\ \A f \in Sources : WF_vars(WatchedFileChanged(f))

FairSpec == Spec /\ Fairness

-----------------------------------------------------------------------------
(* Properties.                                                             *)

Task == [files : SUBSET Sources, byName : BOOLEAN]
SourceRoot == [files : SUBSET Files, library : BOOLEAN]

(* Every variable has its type.                                            *)
TypeOK ==
    /\ doc \in [Files -> Contents] /\ vfs \in [Files -> Contents]
    /\ disk \in [Sources -> Contents] /\ past \in [Sources -> SUBSET Contents]
    /\ text \in [Files -> Contents \cup {Empty}]
    /\ roots \in Seq(SourceRoot) /\ fileRoot \in [Files -> 0 .. Len(roots)]
    /\ layout \in 0 .. Len(Layouts) /\ notices \subseteq Sources
    /\ tasks \in Seq(Task) /\ dropped \subseteq Sources /\ acts \in 0 .. MaxActs
    /\ \A n \in DOMAIN answers : DOMAIN answers[n] \subseteq Sources
    /\ \A n \in DOMAIN answers : answers[n] \in [DOMAIN answers[n] -> Contents]

(* Whose text a file has: while a document is open, the text analysed is   *)
(* the document's, whatever the loader answers, late or not                *)
(* (handle_vfs_task skips mem_docs); but the text of a library view is the *)
(* server's, never the copy a client opened it with (on_did_open,          *)
(* on_did_change).                                                         *)
TextIsOwners ==
    /\ \A f \in Sources : doc[f] # Absent => text[f] = doc[f]
    /\ \A f \in Views : text[f] \in {Absent, ServerText}

(* Once a layout is applied, every file of the vfs is in exactly the root  *)
(* the layout gives it, the input of the file names that root, and the     *)
(* roots of libraries are marked as such: what the graph of the same       *)
(* change says of a root number is about these files.  The text of every   *)
(* file that a root lists has been set: file_text does not panic for a     *)
(* file found by its root.                                                 *)
RootsMatchLayout ==
    /\ layout # 0 =>
        /\ SubSeq(roots, 1, Len(Layouts[layout]) + 1) = PartitionSourceRoots(layout, vfs)
        /\ \A f \in Files : vfs[f] # Absent => fileRoot[f] = Owner[layout][f]
    /\ \A i \in DOMAIN roots : \A f \in roots[i].files : text[f] # Absent

(* A file whose text was reset, or never set, is as good as no file.        *)
Analysed(f) == IF text[f] = Empty THEN Absent ELSE text[f]

(* Nothing is on its way from the disk to the vfs.                         *)
Quiet == tasks = << >> /\ answers = << >> /\ notices = {}

(* A file of the workspace: one of its roots, generated or not, has it.     *)
InWorkspace(f) == layout # 0 /\ Containing(layout, f, {"source", "generated"}) # {}

(* When the loader has nothing left to do, a file of the workspace without *)
(* a document is analysed as it is on disk, unless the rules of a layout   *)
(* ignored it when it was last read: no order of edits, closes, writes,    *)
(* layouts and late answers loses the last text.                           *)
ClosedFollowsDisk ==
    Quiet => \A f \in Sources :
                InWorkspace(f) /\ doc[f] = Absent /\ f \notin dropped =>
                    vfs[f] = disk[f] /\ Analysed(f) = disk[f]

(* In the end every file is analysed as its document, or as it is on disk. *)
EventuallyCurrent ==
    \A f \in Sources : <>[](/\ doc[f] # Absent => vfs[f] = doc[f]
                            /\ InWorkspace(f) /\ doc[f] = Absent /\ f \notin dropped
                                  => vfs[f] = disk[f])

-----------------------------------------------------------------------------
AnalysedText == INSTANCE AnalysedText WITH
    Files <- Sources,
    doc <- [f \in Sources |-> doc[f]],
    text <- [f \in Sources |-> Analysed(f)]

(* Every step keeps the promise of AnalysedText: an edit is analysed at    *)
(* once, closing a document changes no text by itself, and what comes from *)
(* the loader is a content the file has had, of a file without a document. *)
ImplementsAnalysedText == AnalysedText!Spec
=============================================================================
