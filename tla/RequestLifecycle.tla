-------------------------- MODULE RequestLifecycle --------------------------
(***************************************************************************)
(* The life of an LSP request in caffeine-ls: the single-threaded main     *)
(* loop (main_loop.rs), the dispatcher (handlers/dispatch.rs), the worker  *)
(* pool (task_pool.rs), the request table and the cancellation tokens      *)
(* (global_state.rs), and the way a database write cancels the readers.    *)
(*                                                                         *)
(* The client's channel is folded into the handler that consumes it: a     *)
(* handler action is the receipt and the handling of one message.  What a  *)
(* request computes is abstracted to how its worker run ends.  A snapshot  *)
(* is the database revision it was taken at.                               *)
(***************************************************************************)
EXTENDS Integers, Sequences, FiniteSets

CONSTANTS
    Requests,        \* request ids; the client uses each at most once
    Method,          \* Method[r]: the LSP method of request r
    Workers,         \* the threads of the TaskPool
    NoReq,           \* the `req` of a job that serves no request
    MaxWrites,       \* bound: writes the client or the file loader cause
    MaxLongJobs      \* bound: build-tool syncs and library warmups started

(* The methods handle_request registers, by what their handlers can do.    *)
Checkpointed == {"references", "workspaceDiagnostic"}  \* consult the token on entry
Deferring    == {"references", "definition", "hover"}  \* may return DeferForLibraryFiles
Unguarded    == {"hover"}      \* query the database outside Cancelled::catch
AsyncMethods == Checkpointed \cup Deferring \cup {"documentSymbol"}
Methods      == AsyncMethods \cup {"shutdown", "invalidParams", "unknown"}

ASSUME ConstantAssumption ==
    /\ Method \in [Requests -> Methods]
    /\ NoReq \notin Requests
    /\ MaxWrites \in Nat
    /\ MaxLongJobs \in Nat

Async == {r \in Requests : Method[r] \in AsyncMethods}
Known == {r \in Requests : Method[r] # "unknown"}

VARIABLES
    \* the main loop
    loop,            \* where the loop is: "select", "apply" or "exited"
    dirty,           \* the vfs holds changes process_changes has not taken
    revision,        \* the salsa revision
    shutdown,        \* shutdown_requested
    exiting,         \* exit_requested
    incoming,        \* keys of req_queue.incoming
    registered,      \* keys of inflight_cancellations
    flipped,         \* requests whose registered token was set to cancelled
    pending,         \* pending_requests: runs waiting for the end of the iteration
    \* the channels and the pool
    jobs,            \* the pool's job channel
    thread,          \* what each pool thread runs
    events,          \* task_receiver
    \* what the client sees
    replies,         \* the responses written for each request
    \* bounds and history
    writes,          \* ChangeVfs steps so far
    longJobs,        \* StartLongJob steps so far
    deferrals        \* history: times each request was deferred

loopVars  == <<loop, dirty, revision, shutdown, exiting>>
tableVars == <<incoming, registered, flipped, replies>>
poolVars  == <<jobs, thread>>
boundVars == <<writes, longJobs>>
vars == <<loopVars, tableVars, pending, poolVars, events, boundVars, deferrals>>

-----------------------------------------------------------------------------
ReplyKinds == {"result", "null", "error", "cancelled", "notImplemented"}

(* A worker closure waiting to be run again: retry_closure's captured      *)
(* request and its allow_defer flag.                                       *)
Runs == [req : Requests, allow : BOOLEAN]

(* A job on the pool.  `own` says whether the snapshot carries the token   *)
(* registered for the request (a `$/cancelRequest` flips it) or a fresh    *)
(* one nobody can reach; `rev` is the snapshot's revision.                 *)
Stages == {"queued", "entered", "computing", "rendering"}
JobsOf(kinds, reqs) == [kind : kinds, req : reqs, allow : BOOLEAN,
                        own : BOOLEAN, rev : Nat, stage : Stages]
Jobs == JobsOf({"run", "decompile"}, Requests) \cup JobsOf({"long"}, {NoReq})

RunJob(run, own, rev) ==
    [kind |-> "run", req |-> run.req, allow |-> run.allow,
     own |-> own, rev |-> rev, stage |-> "queued"]
(* Mutant of PlainJob: the job forgets the request it serves. *)
AnonymousJob(kind, r) ==
    [kind |-> kind, req |-> NoReq, allow |-> FALSE,
     own |-> FALSE, rev |-> 0, stage |-> "queued"]
PlainJob(kind, r) ==
    [kind |-> kind, req |-> r, allow |-> FALSE,
     own |-> FALSE, rev |-> 0, stage |-> "queued"]

Idle == [kind |-> "idle"]
Dead == [kind |-> "dead"]
Running(w, kind) == thread[w].kind = kind
Busy(w) == ~Running(w, "idle") /\ ~Running(w, "dead")

Events == [type : {"completed", "retry", "aborted", "load", "decompiled"},
           req : Requests, allow : BOOLEAN, result : {"result", "null", "error"}]
Event(type, r, allow, result) ==
    [type |-> type, req |-> r, allow |-> allow, result |-> result]

(* Every live snapshot: the queued runs hold theirs as much as the running *)
(* ones, because the closure owns the snapshot from the moment it is built.*)
SnapshotsQueued  == {i \in DOMAIN jobs : jobs[i].kind = "run"}
SnapshotsRunning == {w \in Workers : Running(w, "run")}

(* Salsa's cancellation flag: the writer set it and waits for the readers. *)
WritePending == loop = "apply" /\ dirty

-----------------------------------------------------------------------------
Init ==
    /\ loop = "select" /\ dirty = FALSE /\ revision = 0
    /\ shutdown = FALSE /\ exiting = FALSE
    /\ incoming = {} /\ registered = {} /\ flipped = {}
    /\ replies = [r \in Requests |-> <<>>]
    /\ pending = <<>> /\ jobs = <<>> /\ events = <<>>
    /\ thread = [w \in Workers |-> Idle]
    /\ writes = 0 /\ longJobs = 0
    /\ deferrals = [r \in Requests |-> 0]

Reply(r, kind) == replies' = [replies EXCEPT ![r] = Append(@, kind)]

(* Mutant of Respond: the result is written without looking the entry up.  *)
RespondUnchecked(r, kind) ==
    /\ incoming' = incoming \ {r}
    /\ Reply(r, kind)

(* respond_ok and respond_err: only a request still in `incoming` is       *)
(* answered; a late result is dropped.                                     *)
Respond(r, kind) ==
    /\ incoming' = incoming \ {r}
    /\ IF r \in incoming THEN Reply(r, kind) ELSE UNCHANGED replies

(* The loop is at `select!`; a handler runs and then the loop goes on to   *)
(* process_changes and run_pending_requests.                               *)
Handle == loop = "select" /\ loop' = "apply"

Seen(r) == r \in incoming \/ replies[r] # <<>>

-----------------------------------------------------------------------------
(* Handlers of client messages.                                            *)

(* handle_request for the synchronous ShutdownRequest. *)
HandleShutdown(r) ==
    /\ Handle
    /\ ~Seen(r) /\ Method[r] = "shutdown"
    /\ shutdown' = TRUE
    /\ Reply(r, "result")
    /\ UNCHANGED <<dirty, revision, exiting, incoming, registered, flipped,
                   pending, poolVars, events, boundVars, deferrals>>

(* Mutant of RejectParams: the entry is left behind. *)
RejectParamsLeavingEntry(r) ==
    /\ Handle
    /\ ~Seen(r) /\ Method[r] = "invalidParams"
    /\ incoming' = incoming \cup {r}
    /\ Reply(r, "error")
    /\ UNCHANGED <<dirty, revision, shutdown, exiting, registered,
                   flipped, pending, poolVars, events, boundVars, deferrals>>

(* RequestDispatcher::parse fails: respond_err completes the entry. *)
RejectParams(r) ==
    /\ Handle
    /\ ~Seen(r) /\ Method[r] = "invalidParams"
    /\ Reply(r, "error")
    /\ UNCHANGED <<dirty, revision, shutdown, exiting, incoming, registered,
                   flipped, pending, poolVars, events, boundVars, deferrals>>

(* RequestDispatcher::finish: reply_not_implemented writes the response    *)
(* but leaves the entry register_request made in `incoming`.               *)
RejectUnknown(r) ==
    /\ Handle
    /\ ~Seen(r) /\ Method[r] = "unknown"
    /\ incoming' = incoming \cup {r}
    /\ Reply(r, "notImplemented")
    /\ UNCHANGED <<dirty, revision, shutdown, exiting, registered, flipped,
                   pending, poolVars, events, boundVars, deferrals>>

(* RequestDispatcher::on_async: the token is registered and the snapshot   *)
(* taken on the main loop, before the closure reaches a thread.            *)
DispatchAsync(r) ==
    /\ Handle
    /\ ~Seen(r) /\ r \in Async
    /\ incoming' = incoming \cup {r}
    /\ registered' = registered \cup {r}
    /\ jobs' = Append(jobs, RunJob([req |-> r, allow |-> TRUE], TRUE, revision))
    /\ UNCHANGED <<dirty, revision, shutdown, exiting, flipped, replies,
                   pending, thread, events, boundVars, deferrals>>

(* GlobalState::cancel.  A cancel that finds neither an unflipped token    *)
(* nor an incoming entry changes nothing and is left out.                  *)
CancelRequest(r) ==
    /\ Handle
    /\ r \in incoming \cup (registered \ flipped)
    /\ flipped' = IF r \in registered THEN flipped \cup {r} ELSE flipped
    /\ Respond(r, "cancelled")
    /\ UNCHANGED <<dirty, revision, shutdown, exiting, registered,
                   pending, poolVars, events, boundVars, deferrals>>

(* on_exit: refused (a panic) before a shutdown request. *)
HandleExit ==
    /\ Handle
    /\ shutdown /\ ~exiting
    /\ exiting' = TRUE
    /\ UNCHANGED <<dirty, revision, shutdown, tableVars, pending, poolVars,
                   events, boundVars, deferrals>>

(* Any handler that changes a file in the vfs: on_did_open, on_did_change, *)
(* or handle_vfs_task with files of the loader.                            *)
ChangeVfs ==
    /\ Handle
    /\ writes < MaxWrites
    /\ writes' = writes + 1
    /\ dirty' = TRUE
    /\ UNCHANGED <<revision, shutdown, exiting, tableVars, pending, poolVars,
                   events, longJobs, deferrals>>

(* LoadWorkspace or warmup_libraries puts a job on the pool that runs for  *)
(* seconds and holds no snapshot.                                          *)
StartLongJob ==
    /\ Handle
    /\ longJobs < MaxLongJobs
    /\ longJobs' = longJobs + 1
    /\ jobs' = Append(jobs, PlainJob("long", NoReq))
    /\ UNCHANGED <<dirty, revision, shutdown, exiting, tableVars, pending,
                   thread, events, writes, deferrals>>

-----------------------------------------------------------------------------
(* Handlers of background events.                                          *)

HandleEvent(type) ==
    /\ Handle
    /\ events # <<>> /\ Head(events).type = type
    /\ events' = Tail(events)

(* AsyncRequestCompleted *)
HandleCompleted ==
    /\ HandleEvent("completed")
    /\ LET e == Head(events) IN
        /\ registered' = registered \ {e.req}
        /\ Respond(e.req, e.result)
    /\ UNCHANGED <<dirty, revision, shutdown, exiting, flipped, pending,
                   poolVars, boundVars, deferrals>>

(* Mutants of HandleRetry: the closure is dropped; the closure forgets     *)
(* that it was deferred.                                                   *)
RetryDropped ==
    /\ HandleEvent("retry")
    /\ registered' = registered \ {Head(events).req}
    /\ UNCHANGED <<dirty, revision, shutdown, exiting, incoming, flipped, pending,
                   replies, poolVars, boundVars, deferrals>>

RetryAllowingDefer ==
    /\ HandleEvent("retry")
    /\ registered' = registered \ {Head(events).req}
    /\ pending' = Append(pending, [req |-> Head(events).req, allow |-> TRUE])
    /\ UNCHANGED <<dirty, revision, shutdown, exiting, incoming, flipped,
                   replies, poolVars, boundVars, deferrals>>

(* AsyncRequestRetry: the token is dropped, the closure waits for the end  *)
(* of this iteration.                                                      *)
HandleRetry ==
    /\ HandleEvent("retry")
    /\ LET e == Head(events) IN
        /\ registered' = registered \ {e.req}
        /\ pending' = Append(pending, [req |-> e.req, allow |-> e.allow])
    /\ UNCHANGED <<dirty, revision, shutdown, exiting, incoming, flipped,
                   replies, poolVars, boundVars, deferrals>>

(* Mutant of HandleAborted: the token stays behind. *)
AbortedKeepingToken ==
    /\ HandleEvent("aborted")
    /\ UNCHANGED <<dirty, revision, shutdown, exiting, tableVars, pending,
                   poolVars, boundVars, deferrals>>

(* AsyncRequestAborted *)
HandleAborted ==
    /\ HandleEvent("aborted")
    /\ registered' = registered \ {Head(events).req}
    /\ UNCHANGED <<dirty, revision, shutdown, exiting, incoming, flipped,
                   replies, pending, poolVars, boundVars, deferrals>>

(* Mutant of HandleLoadFiles: the run is queued beside the decompile job.  *)
LoadFilesTwice ==
    /\ HandleEvent("load")
    /\ dirty' \in BOOLEAN
    /\ pending' = Append(pending, [req |-> Head(events).req, allow |-> FALSE])
    /\ jobs' = Append(jobs, PlainJob("decompile", Head(events).req))
    /\ UNCHANGED <<revision, shutdown, exiting, tableVars, thread, boundVars,
                   deferrals>>

(* LoadLibraryFiles: the sources that could be materialized enter the vfs; *)
(* classes to decompile go to the pool, when a decompiler is configured    *)
(* and a workspace is loaded, and otherwise the run is queued at once.     *)
HandleLoadFiles ==
    /\ HandleEvent("load")
    /\ dirty' \in BOOLEAN
    /\ LET r == Head(events).req IN
       \/ /\ pending' = Append(pending, [req |-> r, allow |-> FALSE])
          /\ UNCHANGED jobs
       \/ /\ jobs' = Append(jobs, PlainJob("decompile", r))
          /\ UNCHANGED pending
    /\ UNCHANGED <<revision, shutdown, exiting, tableVars, thread, boundVars,
                   deferrals>>

(* LibraryDecompiled: what was produced enters the vfs, then the run is    *)
(* queued, whether or not anything was produced.                           *)
HandleDecompiled ==
    /\ HandleEvent("decompiled")
    /\ dirty' \in BOOLEAN
    /\ pending' = Append(pending, [req |-> Head(events).req, allow |-> FALSE])
    /\ UNCHANGED <<revision, shutdown, exiting, tableVars, poolVars, boundVars,
                   deferrals>>

(* Mutant of FinishIteration: the pending runs get their snapshots before  *)
(* the changes are applied.                                                *)
RunPendingFirst ==
    /\ loop = "apply"
    /\ dirty => SnapshotsQueued = {} /\ SnapshotsRunning = {}
    /\ revision' = IF dirty THEN revision + 1 ELSE revision
    /\ dirty' = FALSE
    /\ jobs' = jobs \o [i \in 1..Len(pending) |-> RunJob(pending[i], FALSE, revision)]
    /\ pending' = <<>>
    /\ loop' = IF exiting THEN "exited" ELSE "select"
    /\ UNCHANGED <<shutdown, exiting, tableVars, thread, events, boundVars, deferrals>>

(* The end of an iteration: process_changes applies the vfs changes, which *)
(* blocks until every snapshot is dropped; run_pending_requests then runs  *)
(* every pending closure on a fresh snapshot with a fresh token.           *)
FinishIteration ==
    /\ loop = "apply"
    /\ dirty => SnapshotsQueued = {} /\ SnapshotsRunning = {}
    /\ revision' = IF dirty THEN revision + 1 ELSE revision
    /\ dirty' = FALSE
    /\ jobs' = jobs \o [i \in 1..Len(pending) |-> RunJob(pending[i], FALSE, revision')]
    /\ pending' = <<>>
    /\ loop' = IF exiting THEN "exited" ELSE "select"
    /\ UNCHANGED <<shutdown, exiting, tableVars, thread, events, boundVars, deferrals>>

-----------------------------------------------------------------------------
(* Pool threads.                                                           *)

(* A thread receives the next job. *)
TakeJob(w) ==
    /\ thread[w] = Idle
    /\ jobs # <<>>
    /\ thread' = [thread EXCEPT ![w] = [Head(jobs) EXCEPT !.stage = "entered"]]
    /\ jobs' = Tail(jobs)
    /\ UNCHANGED <<loopVars, tableVars, pending, events, boundVars, deferrals>>

(* Mutant of EndWith: the event channel is a rendezvous, not unbounded.    *)
EndWithRendezvous(w, event) ==
    /\ loop = "select"
    /\ thread' = [thread EXCEPT ![w] = Idle]
    /\ events' = Append(events, event)
    /\ UNCHANGED <<loopVars, tableVars, pending, jobs, boundVars>>

(* The thread sends an event as the last thing its job does; the snapshot  *)
(* is gone by then.                                                        *)
EndWith(w, event) ==
    /\ thread' = [thread EXCEPT ![w] = Idle]
    /\ events' = Append(events, event)
    /\ UNCHANGED <<loopVars, tableVars, pending, jobs, boundVars>>

InStage(w, stage) == Running(w, "run") /\ thread[w].stage = stage

(* The entry of a handler: check_cancelled, where the handler calls it.    *)
TokenSet(w) == thread[w].own /\ thread[w].req \in flipped

Enter(w) ==
    /\ InStage(w, "entered")
    /\ Method[thread[w].req] \in Checkpointed => ~TokenSet(w)
    /\ thread' = [thread EXCEPT ![w].stage = "computing"]
    /\ UNCHANGED <<loopVars, tableVars, pending, jobs, events, boundVars, deferrals>>

Abort(w) ==
    /\ InStage(w, "entered")
    /\ Method[thread[w].req] \in Checkpointed /\ TokenSet(w)
    /\ EndWith(w, Event("aborted", thread[w].req, FALSE, "null"))
    /\ UNCHANGED deferrals

(* The handler returns a result, or an error that is reported as one.      *)
Complete(w) ==
    /\ InStage(w, "computing")
    /\ \E result \in {"result", "error"} :
          EndWith(w, Event("completed", thread[w].req, FALSE, result))
    /\ UNCHANGED deferrals

(* A query finds the cancellation flag set: Cancelled::PendingWrite. *)
Retry(w) ==
    /\ InStage(w, "computing")
    /\ WritePending
    /\ EndWith(w, Event("retry", thread[w].req, thread[w].allow, "null"))
    /\ UNCHANGED deferrals

(* DeferForLibraryFiles; the guarded run answers null instead. *)
Defer(w) ==
    /\ InStage(w, "computing")
    /\ Method[thread[w].req] \in Deferring
    /\ LET r == thread[w].req IN
       IF thread[w].allow
       THEN /\ EndWith(w, Event("load", r, FALSE, "null"))
            /\ deferrals' = [deferrals EXCEPT ![r] = @ + 1]
       ELSE /\ EndWith(w, Event("completed", r, FALSE, "null"))
            /\ UNCHANGED deferrals

(* on_hover found a hover and goes on to file_language, which reads the    *)
(* item tree without the Cancelled::catch the other queries run under.     *)
BeginRender(w) ==
    /\ InStage(w, "computing")
    /\ Method[thread[w].req] \in Unguarded
    /\ thread' = [thread EXCEPT ![w].stage = "rendering"]
    /\ UNCHANGED <<loopVars, tableVars, pending, jobs, events, boundVars, deferrals>>

FinishRender(w) ==
    /\ InStage(w, "rendering")
    /\ EndWith(w, Event("completed", thread[w].req, FALSE, "result"))
    /\ UNCHANGED deferrals

(* The cancellation unwinds through the closure and the thread's loop: the *)
(* snapshot is dropped, no event is sent and the thread is gone.           *)
Unwind(w) ==
    /\ InStage(w, "rendering")
    /\ WritePending
    /\ thread' = [thread EXCEPT ![w] = Dead]
    /\ UNCHANGED <<loopVars, tableVars, pending, jobs, events, boundVars, deferrals>>

(* The job of decompile_library_files ends. *)
FinishDecompile(w) ==
    /\ Running(w, "decompile")
    /\ EndWith(w, Event("decompiled", thread[w].req, FALSE, "null"))
    /\ UNCHANGED deferrals

(* A sync or a warmup ends. *)
FinishLongJob(w) ==
    /\ Running(w, "long")
    /\ thread' = [thread EXCEPT ![w] = Idle]
    /\ UNCHANGED <<loopVars, tableVars, pending, jobs, events, boundVars, deferrals>>

-----------------------------------------------------------------------------
ClientMessage ==
    \/ \E r \in Requests : \/ HandleShutdown(r) \/ RejectParams(r)
                           \/ RejectUnknown(r) \/ DispatchAsync(r)
                           \/ CancelRequest(r)
    \/ HandleExit
    \/ ChangeVfs
    \/ StartLongJob

BackgroundEvent ==
    \/ HandleCompleted \/ HandleRetry \/ HandleAborted
    \/ HandleLoadFiles \/ HandleDecompiled

WorkerStep(w) ==
    \/ Enter(w) \/ Abort(w) \/ Complete(w) \/ Retry(w) \/ Defer(w)
    \/ BeginRender(w) \/ FinishRender(w) \/ Unwind(w)
    \/ FinishDecompile(w) \/ FinishLongJob(w)

Next ==
    \/ ClientMessage
    \/ BackgroundEvent
    \/ FinishIteration
    \/ \E w \in Workers : TakeJob(w) \/ WorkerStep(w)

(* The loop serves its own channel and finishes its iterations, and a      *)
(* thread that is not dead makes progress: jobs end, build tools and       *)
(* decompilers included.  Nothing is assumed of the client.                *)
Fairness ==
    /\ WF_vars(BackgroundEvent)
    /\ WF_vars(FinishIteration)
    /\ \A w \in Workers : WF_vars(TakeJob(w)) /\ WF_vars(WorkerStep(w))

Spec == Init /\ [][Next]_vars
FairSpec == Spec /\ Fairness

-----------------------------------------------------------------------------
TypeOK ==
    /\ loop \in {"select", "apply", "exited"}
    /\ dirty \in BOOLEAN /\ shutdown \in BOOLEAN /\ exiting \in BOOLEAN
    /\ revision \in Nat /\ writes \in Nat /\ longJobs \in Nat
    /\ incoming \subseteq Requests
    /\ registered \subseteq Requests
    /\ flipped \subseteq Requests
    /\ replies \in [Requests -> Seq(ReplyKinds)]
    /\ pending \in Seq(Runs)
    /\ jobs \in Seq(Jobs)
    /\ thread \in [Workers -> Jobs \cup {Idle, Dead}]
    /\ events \in Seq(Events)
    /\ deferrals \in [Requests -> Nat]

(* Where a request is being worked on: each index or thread that carries it. *)
InJobs(r)    == {i \in DOMAIN jobs : jobs[i].req = r}
InThreads(r) == {w \in Workers : Busy(w) /\ thread[w].req = r}
InEvents(r)  == {i \in DOMAIN events : events[i].req = r}
InPending(r) == {i \in DOMAIN pending : pending[i].req = r}
Carriers(r)  == Cardinality(InJobs(r)) + Cardinality(InThreads(r))
                + Cardinality(InEvents(r)) + Cardinality(InPending(r))

(* A response is written at most once for every request whose method the   *)
(* dispatcher knows: a late result of a cancelled request is dropped, and  *)
(* a cancel of an answered request is not answered again                   *)
(* (respond_ok, respond_err and cancel over req_queue.incoming).           *)
AtMostOneReply == \A r \in Known : Len(replies[r]) <= 1

(* A request is carried by one closure at a time, from the channel to a    *)
(* thread to an event to pending_requests, and while it is unanswered it   *)
(* is carried by one: no retry, deferral or decompile loses it or runs it  *)
(* twice at once.  (Only a handler that queries the database outside       *)
(* Cancelled::catch takes its request down with its thread.)               *)
OneCarrier ==
    \A r \in Async :
        /\ Carriers(r) <= 1
        /\ r \in incoming /\ Method[r] \notin Unguarded => Carriers(r) = 1

(* inflight_cancellations holds no token of a request nobody works on,     *)
(* with the same exception.                                                *)
NoTokenLeak ==
    \A r \in registered : Method[r] \notin Unguarded => Carriers(r) = 1

(* Every snapshot alive, queued or running, is of the current revision: a  *)
(* write never happens under a reader and a retried run never sees the     *)
(* state its first run was cancelled for.                                  *)
SnapshotsCurrent ==
    /\ \A i \in SnapshotsQueued : jobs[i].rev = revision
    /\ \A w \in SnapshotsRunning : thread[w].rev = revision

(* A request is deferred for library files at most once, however many      *)
(* pending writes cancel it before and after (allow_defer).                *)
DeferredOnce == \A r \in Requests : deferrals[r] <= 1

(* Every request that was received is answered, unless the client exits.   *)
EveryRequestAnswered ==
    \A r \in Requests : r \in incoming ~> r \notin incoming \/ exiting

(* A pending write is applied: the main loop gets back to its channels.    *)
WritesFinish == WritePending ~> ~WritePending

(* What the requests look like from outside, as RequestService sees it.    *)
Service == INSTANCE RequestService WITH
    Requests <- Known,
    open     <- incoming \cap Known,
    answered <- {r \in Known : replies[r] # <<>>}

(* Seen through the response channel alone, the server answers every       *)
(* received request at most once and nothing it did not receive.           *)
ImplementsService == Service!Spec
=============================================================================
