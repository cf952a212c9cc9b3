---------------------------- MODULE WorkspaceLoad ----------------------------
(***************************************************************************)
(* How a workspace folder gets its project graph: the probe for build      *)
(* files, the dialog when there are several build systems, the syncs with  *)
(* a build tool on worker threads, and the graphs they send back, each of  *)
(* which replaces the one before, of whatever folder it is.                *)
(*                                                                         *)
(* A sync may run while another one of the same folder does: every change  *)
(* of a build file the server knows by its name starts one, and so does    *)
(* every answered dialog.                                                  *)
(***************************************************************************)
EXTENDS Integers, Sequences, FiniteSetsExt, Functions

CONSTANTS
    Folders,         \* the client's workspace folders, in order
    Systems,         \* build systems
    Known,           \* those whose files is_build_configuration_file knows
    FirstBuildFiles, \* the build files a session may start with, per folder
    MaxEdits         \* bound on the changes of each folder's build files

ASSUME WorkspaceAssumption ==
    /\ Folders \in Seq(STRING) /\ MaxEdits \in [Range(Folders) -> Nat]
    /\ FirstBuildFiles \subseteq [Range(Folders) -> SUBSET Systems]
    /\ Known \subseteq Systems

Roots == Range(Folders)

VARIABLES
    toProbe,         \* folders on_initialized has yet to probe
    buildFiles,      \* the build systems whose files each folder has
    edits,           \* how often those of known systems changed
    notices,         \* <<folder, system>>: changes the client has yet to report
    foreign,         \* how often those of the other systems changed
    events,          \* the task channel
    dialogs,         \* the questions asked, in order
    loads,           \* the syncs started and the plain graphs, in order
    current,         \* the load whose graph is applied, or 0
    overtaken,       \* history: a graph replaced one of a later load
    jdk              \* whether a JDK is configured

vars == <<toProbe, buildFiles, edits, foreign, notices, events, dialogs, loads, current, overtaken, jdk>>
diskVars == <<buildFiles, edits, foreign, notices>>

Init ==
    /\ toProbe = Folders
    /\ buildFiles \in FirstBuildFiles /\ edits = [f \in Roots |-> 0]
    /\ foreign = [f \in Roots |-> 0]
    /\ notices = {} /\ events = << >> /\ dialogs = << >> /\ loads = << >>
    /\ current = 0 /\ overtaken = FALSE /\ jdk \in BOOLEAN

-----------------------------------------------------------------------------
(* Events, and the load each sync or plain graph is.                       *)
ProbeWorkspace(f) == [event |-> "probe", folder |-> f]
AmbiguousWorkspace(f, systems) == [event |-> "ambiguous", folder |-> f, systems |-> systems]
StartSync(f, s) == [event |-> "load", folder |-> f, system |-> s]
SyncEnded(n) == [event |-> "ended", load |-> n]

Sync(f, s) == [folder |-> f, system |-> s, step |-> "queued", ok |-> FALSE, version |-> 0]
Plain(f) == [folder |-> f, system |-> "plain", step |-> "ended", ok |-> TRUE,
             version |-> edits[f]]

(* apply_loaded_graph: the graph replaces the one before.                  *)
Apply(n, newLoads) ==
    /\ current' = n
    /\ overtaken' = (overtaken \/ \E m \in n + 1 .. Len(newLoads) :
           newLoads[m].folder = newLoads[n].folder /\ newLoads[m].step = "ended"
                                                   /\ newLoads[m].ok)

(* probe_workspace: one build system is loaded, several are a question,    *)
(* and none is a plain folder, whose graph is applied at once.  `rest` is  *)
(* what is left in the channel.                                            *)
Probe(f, rest) ==
    \/ /\ Cardinality(buildFiles[f]) = 1
       /\ events' = Append(rest, StartSync(f, CHOOSE s \in buildFiles[f] : TRUE))
       /\ UNCHANGED <<loads, current, overtaken>>
    \/ /\ Cardinality(buildFiles[f]) > 1
       /\ events' = Append(rest, AmbiguousWorkspace(f, buildFiles[f]))
       /\ UNCHANGED <<loads, current, overtaken>>
    \/ /\ buildFiles[f] = {}
       /\ events' = rest
       /\ loads' = Append(loads, Plain(f))
       /\ Apply(Len(loads'), loads')

(* on_initialized probes every folder before the main loop starts.         *)
TriggerProbe ==
    /\ toProbe # << >> /\ toProbe' = Tail(toProbe)
    /\ Probe(Head(toProbe), events)
    /\ UNCHANGED <<diskVars, dialogs, jdk>>

-----------------------------------------------------------------------------
(* The main loop.                                                          *)
Takes(kind) == toProbe = << >> /\ events # << >> /\ Head(events).event = kind

HandleProbe ==
    /\ Takes("probe") /\ Probe(Head(events).folder, Tail(events))
    /\ UNCHANGED <<toProbe, diskVars, dialogs, jdk>>

HandleAmbiguous ==
    /\ Takes("ambiguous") /\ events' = Tail(events)
    /\ dialogs' = Append(dialogs, [folder |-> Head(events).folder, answer |-> "none",
                                   systems |-> Head(events).systems])
    /\ UNCHANGED <<toProbe, diskVars, loads, current, overtaken, jdk>>

(* Without a JDK the user gets a message and no sync is started.           *)
HandleLoad ==
    /\ Takes("load") /\ events' = Tail(events)
    /\ loads' = IF jdk THEN Append(loads, Sync(Head(events).folder, Head(events).system))
                       ELSE loads
    /\ UNCHANGED <<toProbe, diskVars, dialogs, current, overtaken, jdk>>

(* WorkspaceLoaded or SyncFailed.  Mutant: only the first graph is applied. *)
EndApplying(applies) ==
    /\ Takes("ended") /\ events' = Tail(events)
    /\ LET n == Head(events).load
       IN /\ loads' = [loads EXCEPT ![n].step = "ended"]
          /\ IF applies THEN Apply(n, loads') ELSE UNCHANGED <<current, overtaken>>
    /\ UNCHANGED <<toProbe, diskVars, dialogs, jdk>>

HandleFirstEnded == EndApplying(loads[Head(events).load].ok /\ current = 0)

HandleEnded == EndApplying(loads[Head(events).load].ok)

(* didChangeWatchedFiles for files of the given systems inside a folder:   *)
(* a name is_build_configuration_file knows leads to a probe, another one  *)
(* to nothing.  Mutant: one other name among them is enough for nothing.   *)
(* `probed` is the sets of systems whose files make a folder be probed.    *)
WatchedFiles(f, probed) ==
    /\ toProbe = << >>
    /\ \E systems \in SUBSET {s \in Systems : <<f, s>> \in notices} \ {{}} :
          /\ notices' = notices \ ({f} \X systems)
          /\ events' = IF systems \in probed THEN Append(events, ProbeWorkspace(f))
                                            ELSE events
    /\ UNCHANGED <<toProbe, buildFiles, edits, foreign, dialogs, loads, current, overtaken, jdk>>

WatchedKnownOnly(f) == WatchedFiles(f, SUBSET Known)

WatchedBuildFile(f) == WatchedFiles(f, {S \in SUBSET Systems : S \cap Known # {}})

(* The user picks a system of a dialog, whenever, or dismisses it.         *)
AnswerDialog(d) ==
    /\ toProbe = << >> /\ dialogs[d].answer = "none"
    /\ \/ /\ dialogs' = [dialogs EXCEPT ![d].answer = "chosen"]
          /\ \E s \in dialogs[d].systems :
                 events' = Append(events, StartSync(dialogs[d].folder, s))
       \/ /\ dialogs' = [dialogs EXCEPT ![d].answer = "dismissed"]
          /\ events' = events
    /\ UNCHANGED <<toProbe, diskVars, loads, current, overtaken, jdk>>

-----------------------------------------------------------------------------
(* Workers: the build tool reads the folder's build files, and succeeds or *)
(* not; then the worker sends what it got.                                 *)
SyncReads(n) ==
    /\ loads[n].step = "queued"
    /\ \E ok \in {FALSE, loads[n].system \in buildFiles[loads[n].folder]} :
           loads' = [loads EXCEPT ![n].step = "read", ![n].ok = ok,
                                  ![n].version = edits[loads[n].folder]]
    /\ UNCHANGED <<toProbe, diskVars, events, dialogs, current, overtaken, jdk>>

(* Mutant: a failed sync is not reported.                                  *)
SyncSendsGraph(n) ==
    /\ loads[n].step = "read"
    /\ loads' = [loads EXCEPT ![n].step = "sent"]
    /\ events' = IF loads[n].ok THEN Append(events, SyncEnded(n)) ELSE events
    /\ UNCHANGED <<toProbe, diskVars, dialogs, current, overtaken, jdk>>

SyncSends(n) ==
    /\ loads[n].step = "read"
    /\ loads' = [loads EXCEPT ![n].step = "sent"]
    /\ events' = Append(events, SyncEnded(n))
    /\ UNCHANGED <<toProbe, diskVars, dialogs, current, overtaken, jdk>>

(* Somebody changes, adds or removes files of a build system.              *)
EditBuildFiles(f) ==
    /\ edits[f] + foreign[f] < MaxEdits[f]
    /\ \E s \in Systems :
          /\ \E files \in {buildFiles[f] \cup {s}, buildFiles[f] \ {s}} :
                 buildFiles' = [buildFiles EXCEPT ![f] = files]
          /\ notices' = notices \cup {<<f, s>>}
          /\ IF s \in Known
             THEN edits' = [edits EXCEPT ![f] = @ + 1] /\ UNCHANGED foreign
             ELSE foreign' = [foreign EXCEPT ![f] = @ + 1] /\ UNCHANGED edits
    /\ UNCHANGED <<toProbe, events, dialogs, loads, current, overtaken, jdk>>

MainLoop == \/ HandleProbe \/ HandleAmbiguous \/ HandleLoad \/ HandleEnded
            \/ \E f \in Roots : WatchedBuildFile(f)
            \/ \E d \in DOMAIN dialogs : AnswerDialog(d)

Workers == \E n \in DOMAIN loads : SyncReads(n) \/ SyncSends(n)

Next == TriggerProbe \/ MainLoop \/ Workers \/ \E f \in Roots : EditBuildFiles(f)

Spec == Init /\ [][Next]_vars

(* The main loop and the workers go on, and the client reports changes;    *)
(* the user need not answer a dialog.                                      *)
Fairness ==
    /\ WF_vars(TriggerProbe)
    /\ WF_vars(HandleProbe \/ HandleAmbiguous \/ HandleLoad \/ HandleEnded)
    /\ WF_vars(Workers)
    /\ \A f \in Roots : WF_vars(WatchedBuildFile(f))

FairSpec == Spec /\ Fairness

-----------------------------------------------------------------------------
(* Properties.                                                             *)

Event ==
    [event : {"probe"}, folder : Roots]
        \cup [event : {"ambiguous"}, folder : Roots, systems : SUBSET Systems]
        \cup [event : {"load"}, folder : Roots, system : Systems]
        \cup [event : {"ended"}, load : DOMAIN loads]

Load == [folder : Roots, system : Systems \cup {"plain"}, ok : BOOLEAN, version : Nat,
         step : {"queued", "read", "sent", "ended"}]

(* Every variable has its type, and the graph that is applied is that of a *)
(* load that succeeded and has ended.                                      *)
TypeOK ==
    /\ buildFiles \in [Roots -> SUBSET Systems] /\ edits \in [Roots -> Nat]
    /\ foreign \in [Roots -> Nat]
    /\ toProbe \in Seq(Roots) /\ notices \subseteq Roots \X Systems
    /\ events \in Seq(Event) /\ loads \in Seq(Load)
    /\ dialogs \in Seq([folder : Roots, answer : {"none", "chosen", "dismissed"},
                        systems : SUBSET Systems])
    /\ current \in 0 .. Len(loads) /\ overtaken \in BOOLEAN /\ jdk \in BOOLEAN
    /\ current # 0 => loads[current].ok /\ loads[current].step = "ended"

Ended(f) == {n \in DOMAIN loads : loads[n].folder = f /\ loads[n].step = "ended"}

Settled ==
    /\ toProbe = << >> /\ notices = {} /\ events = << >>
    /\ \A n \in DOMAIN loads : loads[n].step = "ended"

(* Every change of the folder's build files led to a graph of its own.     *)
AllLoaded(f) ==
    /\ \A n \in Ended(f) : loads[n].ok
    /\ \A d \in DOMAIN dialogs : dialogs[d].folder = f => dialogs[d].answer = "chosen"

(* When nothing is under way, no sync failed, no question is unanswered    *)
(* and no graph replaced that of a later load, the graph is of the newest  *)
(* build files of known systems that any sync of its folder has read.  A   *)
(* slow sync that ends after a later one is thus the only way to lose such *)
(* a graph.                                                                *)
LatestUnlessOvertaken ==
    Settled /\ ~overtaken /\ current # 0 /\ AllLoaded(loads[current].folder) =>
        \A n \in Ended(loads[current].folder) : loads[n].version <= loads[current].version

Asked(f) == \E d \in DOMAIN dialogs : dialogs[d].folder = f

(* Every change of a build file whose name the server knows is in the end  *)
(* seen by a load of the folder, successful or not, unless the user was    *)
(* asked or there is no JDK: no order of probes, syncs, answers and        *)
(* changes of other files drops one.                                       *)
EditsReachBuildTool ==
    \A f \in Roots :
        <>[](~jdk \/ Asked(f) \/ \E n \in Ended(f) : loads[n].version = edits[f])
=============================================================================
