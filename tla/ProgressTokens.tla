--------------------------- MODULE ProgressTokens ---------------------------
(***************************************************************************)
(* Work-done progress: the handshake that creates a `$/progress` token     *)
(* (lsp/utils.rs, GlobalState::complete_request), and the three stages     *)
(* that report under one: a build-tool sync, the library warmup, and the   *)
(* loader's scan of the workspace files (main_loop.rs).                    *)
(*                                                                         *)
(* A notification is its kind: "begin", "report" or "end".  The client     *)
(* announced the workDoneProgress capability.                              *)
(***************************************************************************)
EXTENDS Integers, Sequences, FiniteSets

CONSTANTS
    MaxLoads,        \* bound: syncs of the workspace root
    LibrariesOf,     \* the libraries each load registers
    MayRefuse        \* whether the client may refuse a token

ASSUME ProgressAssumption ==
    /\ MaxLoads \in Nat
    /\ DOMAIN LibrariesOf = 1..MaxLoads
    /\ MayRefuse \in BOOLEAN

Loads == 1..MaxLoads
Libraries == UNION {LibrariesOf[l] : l \in Loads}

(* `sync-<root>` and `index-<root>` serve every load; the scan of a loader *)
(* configuration has a token of its own.                                   *)
Sync  == <<"sync", 0>>
Index == <<"index", 0>>
Scan(v) == <<"scan", v>>
Tokens == {Sync, Index} \cup {Scan(v) : v \in Loads}

VARIABLES
    token,           \* progress_tokens
    asked,           \* workDoneProgress/create requests the client has not answered
    tasks,           \* task_receiver: progress events and loaded workspaces
    loads,           \* syncs started so far
    sync,            \* what the worker of each sync has still to send
    version,         \* vfs_config_version
    scanning,        \* scan_config_version; 0 is None
    scans,           \* the loader and its channel: the messages of its scans,
                     \* one configuration after the other
    counted,         \* done_count of each load's warmup
    warming,         \* where the warmup job of a library is
    view             \* what the client has made of each token

tokenVars == <<token, asked, view>>
loaderVars == <<version, scanning, scans>>
warmVars == <<counted, warming>>
vars == <<tokenVars, tasks, loads, sync, loaderVars, warmVars>>

Kinds == {"begin", "report", "end"}
Task(what, t) == [what |-> what, token |-> t]

-----------------------------------------------------------------------------
(* The client.  `answer` is its answer to the create request of the token  *)
(* ("none" while it owes one); `strays` collects what it was sent out of   *)
(* turn.                                                                   *)

(* Whether a bar is open after the first n notifications, if it was before *)
(* them when `open`.                                                       *)
OpenAfter(open, kinds, n) ==
    \/ open /\ \A i \in 1..n : kinds[i] = "report"
    \/ \E i \in 1..n : kinds[i] = "begin" /\ \A j \in i + 1..n : kinds[j] = "report"

Strays == {"unanswered", "reopened", "overlapped"}

SeeAll(v, kinds) ==
    [v EXCEPT
        !.open = OpenAfter(@, kinds, Len(kinds)),
        !.strays = @ \cup {s \in Strays :
            \/ s = "unanswered" /\ kinds # <<>> /\ v.answer = "none"
            \/ s = "reopened" /\ \E n \in DOMAIN kinds :
                                    kinds[n] = "begin" /\ OpenAfter(v.open, kinds, n - 1)}]

See(v, kind) == SeeAll(v, <<kind>>)

(* It is asked to create the token, `again` when it still owes the answer  *)
(* to an earlier request for it.                                           *)
SeeAsked(v, again) ==
    [v EXCEPT !.answer = "none",
              !.strays = IF again THEN @ \cup {"overlapped"} ELSE @]

None == [state |-> "none", buffer |-> <<>>]
Active == [state |-> "active", buffer |-> <<>>]
Creating(buffer) == [state |-> "creating", buffer |-> buffer]

Awaited(t, q) == \E i \in DOMAIN q : q[i] = t

(* What the client has seen once a token still active was closed. *)
ClosedView(t) == IF token[t].state = "active" THEN See(view[t], "end") ELSE view[t]

(* Mutant of BeginThen: a token still active is not closed first. *)
BeginUnclosed(t, rest) ==
    /\ token' = [token EXCEPT ![t] = Creating(<<"begin">> \o rest)]
    /\ asked' = Append(asked, t)
    /\ view' = [view EXCEPT ![t] = SeeAsked(@, Awaited(t, asked))]

(* Mutant of BeginThen: the client is not asked for the token. *)
BeginUnasked(t, rest) ==
    /\ token' = [token EXCEPT ![t] = Creating(<<"begin">> \o rest)]
    /\ UNCHANGED asked
    /\ view' = [view EXCEPT ![t] = ClosedView(t)]

(* report_progress with a Begin, followed in the same handler by `rest`:   *)
(* a token still active is closed first, and whatever was buffered for an  *)
(* unanswered create is replaced.                                          *)
BeginThen(t, rest) ==
    /\ token' = [token EXCEPT ![t] = Creating(<<"begin">> \o rest)]
    /\ asked' = Append(asked, t)
    /\ view' = [view EXCEPT ![t] = SeeAsked(ClosedView(t), Awaited(t, asked))]

(* report_progress with a Report or an End. *)
Continue(t, kind) ==
    /\ UNCHANGED asked
    /\ IF token[t].state = "creating"
       THEN /\ token' = [token EXCEPT ![t] = Creating(Append(@.buffer, kind))]
            /\ UNCHANGED view
       ELSE /\ view' = [view EXCEPT ![t] = See(@, kind)]
            /\ token' = IF kind = "end" THEN [token EXCEPT ![t] = None] ELSE token

ReportProgress(t, kind) ==
    IF kind = "begin" THEN BeginThen(t, <<>>) ELSE Continue(t, kind)

-----------------------------------------------------------------------------
Init ==
    /\ token = [t \in Tokens |-> None]
    /\ asked = <<>> /\ tasks = <<>> /\ loads = 0
    /\ sync = [l \in Loads |-> <<>>]
    /\ version = 0 /\ scanning = 0 /\ scans = <<>>
    /\ counted = [l \in Loads |-> 0]
    /\ warming = [l \in Loads |-> [b \in Libraries |-> "none"]]
    /\ view = [t \in Tokens |-> [answer |-> "none", open |-> FALSE, strays |-> {}]]

(* LoadWorkspace: the bar begins on the loop, then the sync runs on the    *)
(* pool and sends its reports, or fails; without a JDK it ends at once.    *)
LoadWorkspace ==
    /\ loads < MaxLoads
    /\ loads' = loads + 1
    /\ \/ /\ BeginThen(Sync, <<>>)
          /\ \E script \in {<<"report", "end", "begin", "end", "loaded">>, <<"report", "end">>} :
                sync' = [sync EXCEPT ![loads'] = script]
       \/ /\ BeginThen(Sync, <<"end">>)
          /\ UNCHANGED sync
    /\ UNCHANGED <<tasks, loaderVars, warmVars>>

(* The worker of a sync sends its next event. *)
SyncSends(l) ==
    /\ sync[l] # <<>>
    /\ tasks' = Append(tasks, Task(Head(sync[l]), IF Head(sync[l]) = "loaded"
                                                  THEN <<"load", l>> ELSE Sync))
    /\ sync' = [sync EXCEPT ![l] = Tail(@)]
    /\ UNCHANGED <<tokenVars, loads, loaderVars, warmVars>>

(* BackgroundTaskEvent::Progress *)
HandleProgress ==
    /\ tasks # <<>> /\ Head(tasks).what \in Kinds
    /\ ReportProgress(Head(tasks).token, Head(tasks).what)
    /\ tasks' = Tail(tasks)
    /\ UNCHANGED <<loads, sync, loaderVars, warmVars>>

(* WorkspaceLoaded: apply_loaded_graph gives the loader a configuration    *)
(* with a new version, then warmup_libraries begins the index bar and      *)
(* puts one job per library on the pool.                                   *)
ApplyGraph ==
    /\ tasks # <<>> /\ Head(tasks).what = "loaded"
    /\ tasks' = Tail(tasks)
    /\ version' = version + 1
    /\ scans' = scans \o <<<<version', "begin">>, <<version', "report">>, <<version', "end">>>>
    /\ LET l == Head(tasks).token[2] IN
       IF LibrariesOf[l] = {}
       THEN UNCHANGED <<tokenVars, warming>>
       ELSE /\ BeginThen(Index, <<>>)
            /\ warming' = [warming EXCEPT ![l] =
                   [b \in Libraries |-> IF b \in LibrariesOf[l] THEN "running" ELSE @[b]]]
    /\ UNCHANGED <<loads, sync, scanning, counted>>

(* Mutant of WarmupCounts: the job compares the count before its own.      *)
WarmupCountsBefore(l, b) ==
    /\ warming[l][b] = "running"
    /\ counted' = [counted EXCEPT ![l] = @ + 1]
    /\ warming' = [warming EXCEPT ![l][b] =
                      IF counted[l] = Cardinality(LibrariesOf[l]) THEN "last" ELSE "counted"]
    /\ UNCHANGED <<tokenVars, tasks, loads, sync, loaderVars>>

(* A warmup job takes its number, reports it, and the last one ends the    *)
(* stage.  Other jobs run between the two.                                 *)
WarmupCounts(l, b) ==
    /\ warming[l][b] = "running"
    /\ counted' = [counted EXCEPT ![l] = @ + 1]
    /\ warming' = [warming EXCEPT ![l][b] =
                      IF counted'[l] = Cardinality(LibrariesOf[l]) THEN "last" ELSE "counted"]
    /\ UNCHANGED <<tokenVars, tasks, loads, sync, loaderVars>>

WarmupReports(l, b) ==
    /\ warming[l][b] \in {"counted", "last"}
    /\ tasks' = Append(tasks, Task("report", Index))
    /\ warming' = [warming EXCEPT ![l][b] = IF @ = "last" THEN "ending" ELSE "done"]
    /\ UNCHANGED <<tokenVars, loads, sync, loaderVars, counted>>

WarmupEnds(l, b) ==
    /\ warming[l][b] = "ending"
    /\ tasks' = Append(tasks, Task("end", Index))
    /\ warming' = [warming EXCEPT ![l][b] = "done"]
    /\ UNCHANGED <<tokenVars, loads, sync, loaderVars, counted>>

(* handle_vfs_task: what is left of an older configuration's scan is       *)
(* ignored.                                                                *)
HandleScan ==
    /\ scans # <<>>
    /\ LET v == Head(scans)[1]
           kind == Head(scans)[2] IN
        /\ IF v = version /\ (kind = "begin" \/ scanning = v)
           THEN ReportProgress(Scan(v), kind)
           ELSE UNCHANGED tokenVars
        /\ scanning' = CASE v = version /\ kind = "begin" -> v
                         [] v = version /\ kind = "end" /\ scanning = v -> 0
                         [] OTHER -> scanning
    /\ scans' = Tail(scans)
    /\ UNCHANGED <<tasks, loads, sync, version, warmVars>>

(* The client answers a create request and complete_request handles it:    *)
(* flush_progress, or the refused token is forgotten.                      *)
ClientGrants ==
    /\ asked # <<>>
    /\ asked' = Tail(asked)
    /\ LET t == Head(asked) IN
        /\ token' = [token EXCEPT ![t] = IF @.state = "creating" THEN Active ELSE None]
        /\ view' = [view EXCEPT ![t] = SeeAll([@ EXCEPT !.answer = "granted"], token[t].buffer)]
    /\ UNCHANGED <<tasks, loads, sync, loaderVars, warmVars>>

ClientRefuses ==
    /\ MayRefuse
    /\ asked # <<>>
    /\ asked' = Tail(asked)
    /\ LET t == Head(asked) IN
        /\ token' = [token EXCEPT ![t] = None]
        /\ view' = [view EXCEPT ![t].answer = "refused"]
    /\ UNCHANGED <<tasks, loads, sync, loaderVars, warmVars>>

WarmupStep(l) ==
    \E b \in Libraries : WarmupCounts(l, b) \/ WarmupReports(l, b) \/ WarmupEnds(l, b)

Next ==
    \/ LoadWorkspace
    \/ HandleProgress \/ ApplyGraph \/ HandleScan
    \/ \E l \in Loads : SyncSends(l) \/ WarmupStep(l)
    \/ ClientGrants \/ ClientRefuses

Spec == Init /\ [][Next]_vars

-----------------------------------------------------------------------------
(* Buffered events wait for an answer that will come: a token is in the    *)
(* Creating state only while a create request for it is unanswered, and    *)
(* its buffer starts with the Begin that sent it.                          *)
BufferAwaitsAnswer ==
    \A t \in Tokens :
        token[t].state = "creating" =>
            /\ Awaited(t, asked)
            /\ token[t].buffer # <<>> /\ Head(token[t].buffer) = "begin"

(* From the Begin that asks for a token to the client's answer the client  *)
(* gets nothing under it (report_progress buffers).  Unless it was asked   *)
(* for a token while it still owed an answer for it (the second answer     *)
(* then makes flush_progress forget an active token), it gets no second    *)
(* Begin without an End in between (a token still active is closed first), *)
(* and a bar is open only while its token is active, so none opens under a *)
(* token the client refused.  The Reports and the End of the stage that    *)
(* began the refused token are sent under it all the same.                 *)
NotificationsInOrder ==
    \A t \in Tokens :
        /\ "unanswered" \notin view[t].strays
        /\ "reopened" \in view[t].strays \/ (view[t].open /\ token[t].state # "active") =>
               "overlapped" \in view[t].strays

(* Nothing is left to do but to start another load.  The counters are      *)
(* bounded, so every behaviour that goes on comes to this.                 *)
AtRest ==
    /\ tasks = <<>> /\ asked = <<>> /\ scans = <<>>
    /\ \A l \in Loads : /\ sync[l] = <<>>
                        /\ \A b \in Libraries : warming[l][b] \in {"none", "done"}

(* When every stage has ended and every request is answered, no bar is     *)
(* open, but for two: that of a scan a reload replaced, whose End          *)
(* handle_vfs_task ignores, and, after more than one load, one whose token *)
(* was begun again while the client still owed an answer for it.           *)
BarsClose ==
    AtRest => \A t \in Tokens : view[t].open =>
        \/ t \in {Scan(v) : v \in 1..version - 1}
        \/ loads > 1 /\ "overlapped" \in view[t].strays
=============================================================================
