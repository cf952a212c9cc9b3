---------------------------- MODULE LibraryFiles ----------------------------
(***************************************************************************)
(* How the files of libraries come into the database.  A request that      *)
(* needs such a file is deferred once: the main loop takes sources out of  *)
(* their archives, a job on a worker thread decompiles the rest, both keep *)
(* what they made in the cache directory, and the request runs again.      *)
(*                                                                         *)
(* A file is written in place, so it exists before it is whole; other jobs *)
(* may look at it meanwhile, a load may prune it, and the server may die.  *)
(* Other servers may use the same cache.                                   *)
(***************************************************************************)
EXTENDS Integers, Sequences, FiniteSets

CONSTANTS
    SourceFiles,     \* files in source archives
    ClassFiles,      \* files the decompiler makes
    Requests,        \* requests
    Needs,           \* the files each of them needs
    MaxFailures,     \* bound on failures to read, decompile or write
    MaxPrunes,       \* bound on prunes
    MaxCrashes       \* bound on crashes of the server

Files == SourceFiles \cup ClassFiles

ASSUME LibraryFilesAssumption ==
    /\ SourceFiles \cap ClassFiles = {} /\ IsFiniteSet(Files)
    /\ Needs \in [Requests -> SUBSET Files]
    /\ MaxFailures \in Nat /\ MaxPrunes \in Nat /\ MaxCrashes \in Nat

VARIABLES
    disk,            \* each file of the cache: "none", "part" or "whole"
    vfs,             \* the same of its text in the database
    request,         \* what has become of each request
    events,          \* the task channel
    job,             \* the decompile job of each request
    spoilt,          \* history: files that could not be made or were pruned
    failures, prunes, crashes

bounds == <<failures, prunes, crashes>>
vars == <<disk, vfs, request, events, job, spoilt, bounds>>

Contents == {"none", "part", "whole"}
Steps == {"next", "decompile", "write", "open", "writing", "lost", "read"}

NoJob == [files |-> {}, step |-> "next", file |-> "none", produced |-> << >>]

Init ==
    /\ disk \in [Files -> {"none", "whole"}]
    /\ vfs = [f \in Files |-> "none"]
    /\ request = [r \in Requests |-> "new"] /\ events = << >>
    /\ job = [r \in Requests |-> NoJob] /\ spoilt = {}
    /\ failures = 0 /\ prunes = 0 /\ crashes = 0

-----------------------------------------------------------------------------
LoadLibraryFiles(r, files) == [event |-> "load", request |-> r, files |-> files]
LibraryDecompiled(r, produced) == [event |-> "decompiled", request |-> r, files |-> produced]

Missing(r) == {f \in Needs[r] : vfs[f] = "none"}

(* A worker runs the request: it is answered when all files are in the     *)
(* database, deferred when one is not, and the second time answered null.  *)
RunRequest(r) ==
    /\ request[r] \in {"new", "retried"}
    /\ CASE Missing(r) = {} ->
              request' = [request EXCEPT ![r] = "answered"] /\ UNCHANGED events
         [] Missing(r) # {} /\ request[r] = "new" ->
              /\ request' = [request EXCEPT ![r] = "deferred"]
              /\ events' = Append(events, LoadLibraryFiles(r, Missing(r)))
         [] OTHER ->
              request' = [request EXCEPT ![r] = "null"] /\ UNCHANGED events
    /\ UNCHANGED <<disk, vfs, job, spoilt, bounds>>

(* LoadLibraryFiles: a source that is in the vfs is left alone; of the     *)
(* others the vfs gets what the archive has, whatever is on disk, unless   *)
(* reading or writing fails.  The rest is decompiled by a job.  Mutant:    *)
(* the vfs gets what is on disk.                                           *)
LoadFiles(text(_)) ==
    /\ events # << >> /\ Head(events).event = "load" /\ events' = Tail(events)
    /\ LET r == Head(events).request
           sources == {f \in Head(events).files \cap SourceFiles : vfs[f] = "none"}
           classes == Head(events).files \cap ClassFiles
       IN \E failed \in SUBSET sources :
             /\ failures + Cardinality(failed) <= MaxFailures
             /\ failures' = failures + Cardinality(failed) /\ spoilt' = spoilt \cup failed
             /\ vfs' = [f \in Files |-> IF f \in sources \ failed THEN text(f) ELSE vfs[f]]
             /\ disk' = [f \in Files |->
                            IF f \in sources \ failed /\ disk[f] = "none" THEN "whole" ELSE disk[f]]
             /\ request' = [request EXCEPT ![r] = IF classes = {} THEN "retried" ELSE "decompiling"]
             /\ job' = [job EXCEPT ![r] = [NoJob EXCEPT !.files = classes]]
    /\ UNCHANGED <<prunes, crashes>>

HandleLoad == LoadFiles(LAMBDA f : "whole")

-----------------------------------------------------------------------------
(* The job of a request, step by step, for one class file after another.   *)
Working(r, step) == request[r] = "decompiling" /\ job[r].step = step
Goto(r, step) == job' = [job EXCEPT ![r].step = step]
Rest == <<vfs, request, events, prunes, crashes>>

(* A file that exists is not decompiled again.                             *)
NextFile(r) ==
    /\ Working(r, "next") /\ job[r].files # {}
    /\ \E f \in job[r].files :
          job' = [job EXCEPT ![r].files = @ \ {f}, ![r].file = f,
                             ![r].step = IF disk[f] = "none" THEN "decompile" ELSE "read"]
    /\ UNCHANGED <<disk, Rest, spoilt, failures>>

(* Decompiling or writing fails; a file may be left behind in part.        *)
Fail(r) ==
    /\ \E step \in {"decompile", "open", "writing", "lost"} : Working(r, step)
    /\ failures < MaxFailures /\ failures' = failures + 1
    /\ spoilt' = spoilt \cup {job[r].file}
    /\ Goto(r, "next")
    /\ UNCHANGED <<disk, Rest>>

Decompile(r) ==
    /\ Working(r, "decompile") /\ Goto(r, "write")
    /\ UNCHANGED <<disk, Rest, spoilt, failures>>

(* materialize: a file that exists by now is left as it is.                *)
Materialize(r) ==
    /\ Working(r, "write")
    /\ Goto(r, IF disk[job[r].file] = "none" THEN "open" ELSE "read")
    /\ UNCHANGED <<disk, Rest, spoilt, failures>>

(* fs::write creates the file or truncates it, and then writes; what is    *)
(* written to a file that has been removed is lost.                        *)
Open(r) ==
    /\ Working(r, "open") /\ Goto(r, "writing")
    /\ disk' = [disk EXCEPT ![job[r].file] = "part"]
    /\ UNCHANGED <<Rest, spoilt, failures>>

(* Mutant of Write: the text is not complete.                              *)
WriteUnflushed(r) ==
    /\ \/ Working(r, "writing") \/ Working(r, "lost")
    /\ Goto(r, "read")
    /\ UNCHANGED <<disk, Rest, spoilt, failures>>

Write(r) ==
    /\ \/ /\ Working(r, "writing")
          /\ disk' = IF \E q \in Requests \ {r} : Working(q, "writing") /\ job[q].file = job[r].file
                     THEN disk ELSE [disk EXCEPT ![job[r].file] = "whole"]
       \/ Working(r, "lost") /\ UNCHANGED disk
    /\ Goto(r, "read")
    /\ UNCHANGED <<Rest, spoilt, failures>>

Read(r) ==
    /\ Working(r, "read")
    /\ LET f == job[r].file
       IN job' = [job EXCEPT ![r].step = "next",
                             ![r].produced = IF disk[f] = "none" THEN @ ELSE Append(@, <<f, disk[f]>>)]
    /\ UNCHANGED <<disk, Rest, spoilt, failures>>

(* Mutant of Report: a job that produced nothing does not report.          *)
ReportProduced(r) ==
    /\ Working(r, "next") /\ job[r].files = {} /\ job[r].produced # << >>
    /\ events' = Append(events, LibraryDecompiled(r, job[r].produced))
    /\ job' = [job EXCEPT ![r] = NoJob]
    /\ request' = [request EXCEPT ![r] = "deferred"]
    /\ UNCHANGED <<disk, vfs, spoilt, bounds>>

Report(r) ==
    /\ Working(r, "next") /\ job[r].files = {}
    /\ events' = Append(events, LibraryDecompiled(r, job[r].produced))
    /\ job' = [job EXCEPT ![r] = NoJob]
    /\ request' = [request EXCEPT ![r] = "deferred"]
    /\ UNCHANGED <<disk, vfs, spoilt, bounds>>

(* LibraryDecompiled.  Mutant: the texts are taken only after the retry.   *)
HandleDecompiledLate ==
    /\ events # << >> /\ Head(events).event = "decompiled" /\ events' = Tail(events)
    /\ request' = [request EXCEPT ![Head(events).request] = "retried"]
    /\ UNCHANGED <<disk, vfs, job, spoilt, bounds>>

HandleDecompiled ==
    /\ events # << >> /\ Head(events).event = "decompiled" /\ events' = Tail(events)
    /\ LET produced == Head(events).files
       IN vfs' = [f \in Files |->
                     IF \E n \in DOMAIN produced : produced[n][1] = f
                     THEN produced[CHOOSE n \in DOMAIN produced : produced[n][1] = f][2]
                     ELSE vfs[f]]
    /\ request' = [request EXCEPT ![Head(events).request] = "retried"]
    /\ UNCHANGED <<disk, job, spoilt, bounds>>

-----------------------------------------------------------------------------
(* A load, of this server or of another one, removes the files of          *)
(* libraries that its graph does not have.                                 *)
Prune ==
    /\ prunes < MaxPrunes /\ prunes' = prunes + 1
    /\ \E files \in SUBSET Files \ {{}} :
          /\ disk' = [f \in Files |-> IF f \in files THEN "none" ELSE disk[f]]
          /\ spoilt' = spoilt \cup files
          /\ job' = [r \in Requests |->
                        IF Working(r, "writing") /\ job[r].file \in files
                        THEN [job[r] EXCEPT !.step = "lost"] ELSE job[r]]
    /\ UNCHANGED <<vfs, request, events, failures, crashes>>

(* The server dies, perhaps in the middle of writing a source, and another *)
(* one is asked the same again.                                            *)
Crash ==
    /\ crashes < MaxCrashes /\ crashes' = crashes + 1
    /\ \E files \in {{}} \cup {{f} : f \in SourceFiles} :
          disk' = [f \in Files |-> IF f \in files /\ disk[f] = "none" THEN "part" ELSE disk[f]]
    /\ vfs' = [f \in Files |-> "none"] /\ events' = << >>
    /\ job' = [r \in Requests |-> NoJob] /\ request' = [r \in Requests |-> "new"]
    /\ UNCHANGED <<spoilt, failures, prunes>>

Job(r) == \/ NextFile(r) \/ Fail(r) \/ Decompile(r) \/ Materialize(r)
          \/ Open(r) \/ Write(r) \/ Read(r) \/ Report(r)

Loop == HandleLoad \/ HandleDecompiled

Next == (\E r \in Requests : RunRequest(r) \/ Job(r)) \/ Loop \/ Prune \/ Crash

Spec == Init /\ [][Next]_vars

(* Workers and the main loop go on; nothing has to be pruned or to crash.  *)
Fairness == WF_vars(Loop) /\ \A r \in Requests : WF_vars(RunRequest(r)) /\ WF_vars(Job(r))

FairSpec == Spec /\ Fairness

-----------------------------------------------------------------------------
(* Properties.                                                             *)

(* A file that more than one request needs.                                *)
Shared(f) == \E r, q \in Requests : r # q /\ f \in Needs[r] \cap Needs[q]

RequestStates == {"new", "deferred", "decompiling", "retried", "answered", "null"}

(* Every variable has its type, and only a request that waits has a job.   *)
TypeOK ==
    /\ disk \in [Files -> Contents] /\ vfs \in [Files -> Contents]
    /\ request \in [Requests -> RequestStates]
    /\ \A r \in Requests :
          /\ job[r].files \subseteq ClassFiles /\ job[r].step \in Steps
          /\ job[r] # NoJob => request[r] = "decompiling"
    /\ \A n \in DOMAIN events : events[n].request \in Requests
                                /\ request[events[n].request] = "deferred"
    /\ spoilt \subseteq Files
    /\ failures \in 0 .. MaxFailures /\ prunes \in 0 .. MaxPrunes /\ crashes \in 0 .. MaxCrashes

(* A request is answered without what it needs only if one of its files    *)
(* could not be made or was removed, however the jobs of other requests    *)
(* for the same file went.                                                 *)
NullHasCause == \A r \in Requests : request[r] = "null" => Needs[r] \cap spoilt # {}

(* The texts of library files.  That of a source is never less than what    *)
(* its archive has, though a crash left the file in the cache in part.     *)
(* Jobs that write the same class, with prunes in between, leave it whole  *)
(* or not there, unless writing failed or the server died; and then part   *)
(* of a class gets into the database only if two requests need the class,  *)
(* so that the job of one can read what that of the other is writing.      *)
TextsAreWhole ==
    /\ \A f \in SourceFiles : vfs[f] \in {"none", "whole"}
    /\ failures = 0 /\ crashes = 0 =>
          \A f \in Files :
              disk[f] = "part" => \E r \in Requests : Working(r, "writing") /\ job[r].file = f
    /\ failures = 0 /\ crashes = 0 => \A f \in ClassFiles : vfs[f] = "part" => Shared(f)

(* Every request is answered, whatever fails, is pruned or crashes.        *)
EveryNeedAnswered == \A r \in Requests : <>[](request[r] \in {"answered", "null"})
=============================================================================
