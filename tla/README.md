# caffeine-ls: verification project

caffeine-ls is a language server for Java and Kotlin. It is a single-threaded
main loop in front of a salsa database, with a pool of worker threads that
answer requests on database snapshots, a file loader thread, a build-tool
runner, and an LMDB cache of the stubs of library archives. This directory
holds TLA+ models of the parts whose correctness depends on the order of
steps, the TLC configurations that check them on small instances, and proofs
checked by TLAPS.

`PROJECT.json` maps every definition to the source lines it stands for, and
lists the runs, the mutants each property is tried against, the hazards and
the findings. Paths below are relative to `crates/`.

## 1. The system

| Part | State | Operations | Talks to |
|---|---|---|---|
| Main loop (`caffeine-ls/src/main_loop.rs`, `global_state.rs`) | request table, cancellation tokens, pending re-runs, shutdown flags, file-set configuration | one handler per message, then `process_changes`, then `run_pending_requests` | client channel, loader channel, background-event channel |
| Dispatcher (`handlers/dispatch.rs`) | none; closures own their request | `on`, `on_async`, `finish`, `retry_closure` | registers in the request table, submits to the pool, sends background events |
| Worker pool (`task_pool.rs`) | FIFO of jobs, one thread per core | run a job | requests, syncs, warmups and decompiles share it |
| Salsa database (`base-db`, `ide`, `ide-db`) | inputs, revision, memo tables | snapshot, query, apply a change | a write cancels readers and waits for their snapshots |
| Open documents and files (`mem_docs.rs`, `handlers/notification.rs`, `handle_vfs_task`) | `mem_docs`, the vfs, line endings | didOpen/Change/Close, loader messages, watched files | vfs changes are taken by `process_changes` |
| Workspace loading (`LoadWorkspace`, `apply_loaded_graph`, `project-model`) | build-system selection, graph, source roots, library list | probe, sync, apply | build tools on the pool, project graph into `hir`, loader configuration |
| Build tools (`project-model/src/build_system.rs`, `gradle`, `maven`) | a process, two reader threads, the model captured so far, a log file | run a command, receive a line, try the next command | a sync on the pool; lines go to the progress aggregator |
| Library registry (`hir/src/db.rs`, `loader.rs`) | registered libraries, loaded indexes, memory cache | `set_project_graph`, `ensure_loaded`, `warmup_library` | shared by every snapshot, not a salsa input |
| Stub cache (`hir/src/lmdb_store.rs`) | LMDB tables of library metadata and records | write, read, touch, prune | concurrent readers, the warmup's prune |
| Library sources and decompiler (`library_sources.rs`, `library_view.rs`, `decompiler.rs`) | materialized files under the cache | materialize, decompile, prune | LoadLibraryFiles and LibraryDecompiled events |
| Progress reporting (`lsp/utils.rs`, `PhaseProgressAggregator`) | life of each `$/progress` token, phase percentages | begin, report, end, flush on the client's answer | client requests and responses |
| Diagnostics pull (`caffeine-ls/src/diagnostics.rs`, `ide-diagnostics`) | result ids kept by the client | document pull, workspace pull | snapshots |
| Semantic tokens (`lsp/semantic_tokens.rs`) | last stream sent per document | full, delta, range | shared by worker threads behind a lock |
| Parsers and HIR (`syntax`, `java-syntax`, `kotlin-syntax`, `hir-def`, `hir-expand`) | none (functions of the text) | lex, parse, lower | salsa queries |
| Types and resolution (`hir`, `hir-ty`) | none (salsa queries) | name resolution, inference, subtyping, overloads | salsa queries |
| IDE features (`ide`, `ide-diagnostics`) | none | hover, navigation, highlights, hints, symbols | snapshots |

What is hard here:

* **Concurrency.** A request runs on a thread while the main loop may be about
  to write. Salsa's protocol is cooperative: the writer raises a flag, readers
  unwind, the writer waits until the last snapshot is dropped. Every step that
  is not under `Cancelled::catch`, and every snapshot kept longer than its
  query, bends this protocol.
* **Re-runs.** A request can be sent back to the loop by a write, by a library
  file that has to be loaded, or by a class that has to be decompiled, any of
  them several times, while the client may cancel it at any point.
* **Order.** Loader messages, document notifications, background events and
  client responses come on different channels, and `select!` picks any that is
  ready.
* **State outside the database.** The library registry, the stub cache, the
  open documents and the line endings are shared with snapshots and do not
  have salsa's isolation.
* **Handshakes.** A progress token may be used only after the client's answer,
  which may also be a refusal.

## 2. Modules

| Module | Models | Kind |
|---|---|---|
| `RequestService` | what the server promises about requests | abstract specification |
| `RequestLifecycle` | main loop, dispatcher, pool, request table, cancellation | core model |
| `RequestLifecycleProofs` | theorems about it | proofs |
| `AnalysedText` | what the server promises about the text it analyses | abstract specification |
| `Documents` | open documents, the vfs, the loader, `process_changes`, the source roots | model |
| `TextProofs` | theorems about it, about `EditApplication` and about `ParserEvents`: a text from the client's edits to the tree | proofs |
| `WorkspaceLoad` | probes, dialogs, concurrent syncs, which graph is in force | model |
| `WorkspaceLoadProofs` | theorems about it and about `ModulePath` | proofs |
| `ProgressTokens` | the `$/progress` token handshake and the stages that report under a token | model |
| `SyncProofs` | theorems about it, about `SyncProgress` and about `BuildTool` | proofs |
| `LibraryIndex` | library registry, loading of indexes, stub cache, warmup and prune | model |
| `LibraryIndexProofs` | theorems about it | proofs |
| `LibraryFiles` | library sources and decompiled classes: deferral, jobs, cache files | model |
| `LibraryFilesProofs` | theorems about it | proofs |
| `TokenStreams` | semantic tokens: streams, deltas, the client that applies them | model |
| `TokenStreamsProofs` | theorems about it | proofs |
| `DiagnosticPull` | document and workspace pulls and their result ids | model |
| `DiagnosticPullProofs` | theorems about it | proofs |
| `ParserEvents` | the Java parser's events, markers, lookahead, and the sink | algorithm, step by step |
| `SyncProgress` | a build tool's events as one percentage | algorithm, step by step |
| `BuildTool` | a build tool's process, the threads that read it, and what Gradle's and Maven's runners make of its output | model |
| `EditApplication` | the changes of one `didChange` | algorithm |
| `ModulePath` | the Java module path of a source set | algorithm |
| `EffectivelyFinal` | the scan for captured locals that are mutated | algorithm |
| `MC*` | instances for TLC; `MCAlgorithms` runs the algorithms and `BuildTool` | model checking |

The state machines share no variables. What each takes from the others is an
assumption the others' models justify: all but `RequestLifecycle` see the pool
as threads that go on (`RequestLifecycle` has the pool and shows where it does
not); `Documents`, `LibraryIndex` and `TokenStreams` take from it that a write
waits for the snapshots, and `DiagnosticPull` that a run which a write cancels
starts again. `Documents` and `LibraryIndex` get the sequence of layouts and
graphs that `WorkspaceLoad` applies; `LibraryFiles` begins where
`RequestLifecycle` has `HandleLoadFiles` and ends where it has the re-run.

### RequestLifecycle

An action is one handler of the main loop, the end of a loop iteration, or one
observable step of a worker thread. The correspondence:

| Model | Code |
|---|---|
| `loop` | where `GlobalState::run` is: `select` (in `select!`), `apply` (the handler returned; `process_changes` and `run_pending_requests` are next), `exited` |
| `dirty`, `revision` | the vfs has changes `take_changes` would return; salsa's revision |
| `incoming`, `registered`, `flipped` | `req_queue.incoming`, `inflight_cancellations`, the tokens a cancel set |
| `pending` | `pending_requests` |
| `jobs`, `thread` | the pool's channel and its threads |
| `events` | `task_receiver` |
| `replies` | the responses written for each request, in order |
| `DispatchAsync` | `on_async`: token, snapshot and submission in one handler |
| `CancelRequest` | `GlobalState::cancel` |
| `HandleCompleted`, `HandleRetry`, `HandleAborted`, `HandleLoadFiles`, `HandleDecompiled` | the branches of `handle_background_task` |
| `FinishIteration` | `process_changes` (waits for every snapshot when there is a change), then `run_pending_requests`, then the exit test |
| `Enter`, `Abort` | the start of a handler and its `check_cancelled` |
| `Complete`, `Retry`, `Defer` | the branches of `retry_closure` |
| `BeginRender`, `FinishRender`, `Unwind` | `on_hover` after its guarded query: `file_language` reads the database outside `Cancelled::catch` |

Abstractions. What a handler computes is reduced to how its run ends. The
client's channel is folded into the handler that takes a message from it. A
snapshot is the revision it was taken at. `Method[r]` fixes what a request's
handler can do: consult its token on entry, defer for library files, query
outside the catch. A worker that returns with an error, or with salsa's
`PropagatedPanic`, is a `Complete` with an error. Which library files are
missing, and whether a decompiler is configured, are nondeterministic. Reading
and materializing a library file may fail, so `HandleLoadFiles` may leave the
vfs as it was.

### ProgressTokens

| Model | Code |
|---|---|
| `token`, `asked` | `progress_tokens`; the create requests in `req_queue.outgoing` and on their way to the client |
| `tasks`, `scans` | `task_receiver`; the loader with its channel: what is left of its scans |
| `LibrariesOf` | the libraries of each load's graph |
| `sync`, `warming`, `counted` | the worker of a sync; the warmup jobs and their `done_count` |
| `version`, `scanning` | `vfs_config_version`, `scan_config_version` |
| `view` | external: the client's answer for each token, whether it shows a bar, and a mark for each notification out of turn |
| `BeginThen`, `Continue` | the two halves of `report_progress` |
| `LoadWorkspace`, `HandleProgress`, `ApplyGraph` | branches of `handle_background_task` |
| `SyncSends`, `WarmupCounts`, `WarmupReports`, `WarmupEnds` | the jobs put on the pool |
| `HandleScan` | the `Progress` branch of `handle_vfs_task` |
| `ClientGrants`, `ClientRefuses` | `complete_request` with `flush_progress` |

Abstractions. A notification is its kind; titles and percentages are left out.
A sync sends one report of a tool between its Begin and End: more of them only
repeat `Continue`. One workspace root; its two tokens serve every load, as in
the code.

### LibraryIndex

| Model | Code |
|---|---|
| `graph` | `ProjectGraph.libraries`, the salsa input |
| `registered`, `index` | the keys of `HirState.libraries`, and each `LibraryState.index` |
| `memo` | which `library_name_index_query` results salsa keeps |
| `store` | the LMDB entry of each library, by its age |
| `asking` | each query: resolve a class, then read its record |
| `warming`, `stale` | the warmup jobs of each load, and what the prune collected |
| `RegisterGraph`, `WriteGraph` | `set_project_graph` before and from its first salsa write, then `warmup_libraries` |
| `NameIndex`, `NameIndexBody`, `ReadRecord` | `library_name_index`, its query, `class_record` |
| `QueryLoads`, `WarmLoads` | `ensure_loaded` and `load_or_build`, one store transaction or parse per step |
| `CountWarm`, `CollectStale`, `DeleteStale` | the end of a warmup job, and `prune_stale` in its two transactions |

Abstractions. What an index says is reduced to where its records are. An id
stands for an archive's path and stamp, so an entry is never out of date for
its id; whether it is stale by age is its initial state, since a session is
short beside the time to live. Only this session uses the cache. The store can
be opened; a write or a touch may fail.

### Documents

| Model | Code |
|---|---|
| `doc` | `mem_docs` |
| `vfs`, `text`, `fileRoot`, `roots` | the vfs; the salsa inputs `FileText`, `FileSourceRootInput`, `SourceRootInput` |
| `layout` | the graph whose `file_set_config` is in force |
| `tasks`, `answers` | the loader's inbox and its messages |
| `OpenDocument`, `ChangeDocument`, `CloseDocument`, `OpenView`, `CloseView` | `on_did_open`, `on_did_change`, `on_did_close`, with their branches for library files |
| `WatchedFileChanged` | `on_did_change_watched_files`: an invalidation |
| `LoaderReads`, `HandleAnswer` | the loader thread; `handle_vfs_task` |
| `ApplyLayout` | `apply_loaded_graph` |
| `MaterializeView` | `LoadLibraryFiles` |
| `ProcessChanges`, `SetRoots` | `process_changes`, which ends every handler; `FileChange::apply` |
| `Owner`, `IgnoredByOwningRoot` | `file_set_config` and the ignore rules of the innermost root |

A path is a file. A handler and the `process_changes` after it are one action,
since the loop does nothing in between. `past` and `dropped` are history
variables: what each file has had on disk, and the files whose last answer was
dropped because ignore rules had them.

### WorkspaceLoad

| Model | Code |
|---|---|
| `toProbe`, `TriggerProbe`, `Probe` | `on_initialized`, `probe_workspace` |
| `dialogs`, `AnswerDialog` | `showMessageRequest` and its callback |
| `loads` | each sync with what its build tool read, and each plain graph |
| `HandleLoad`, `SyncReads`, `SyncSends`, `HandleEnded` | `LoadWorkspace`, its worker, `WorkspaceLoaded` and `SyncFailed` |
| `Known` | the build systems whose file names `is_build_configuration_file` has: Gradle's and Maven's, not Eclipse's and IDEA's |
| `EditBuildFiles`, `notices` | external: files of a build system change, and what the client has yet to report of it |
| `WatchedBuildFile` | the build-file branch of `on_did_change_watched_files`, which drops what is not `Known` |
| `edits`, `foreign` | how often files of known and of other systems changed |
| `current`, `overtaken` | the graph in force; history: it replaced a later load's |

### TokenStreams and DiagnosticPull

`TokenStreams`: `cache` and `lastId` are `DeltaCache`; `OnSemanticTokens` is the
full or delta handler with `DeltaEdits`, `OnClosedDocument` its answer for a
document without text, `CloseDocument` drops the stream, `ApplyGraph` sends the
refresh, `Restart` is a new process. The client (`held`, `applied`, `Receive`,
`Drop`) is external: it applies answers in the order of its requests. A worker
computes, diffs and stores under one snapshot and the cache's lock, so an answer
is one action.

`DiagnosticPull`: `AnswerDocument` and `AnswerWorkspace` are the two handlers
with their ids, `Converted` what `to_proto` makes of a report: positions, which
depend on where the lines break. `Report` takes the texts of all files, since a
problem of one may be in another. `shown` and `Receive` are the client.

### LibraryFiles

| Model | Code |
|---|---|
| `disk`, `vfs` | the cache directory (a file may be there in part), the texts in the database |
| `RunRequest` | a handler's run: answered, deferred for library files, or null after its one deferral |
| `HandleLoad` | `LoadLibraryFiles`: sources out of archives, a job for the classes |
| `NextFile` to `Report` | the decompile job: look for the file, decompile, write it, read it back |
| `HandleDecompiled` | `LibraryDecompiled` |
| `Prune`, `Crash` | `prune_stale` of a load, of this process or another; the process dies, perhaps inside a write |

### BuildTool

| Model | Code |
|---|---|
| `script`, `written`, `pipe`, `streams` | the lines the tool writes, how far it is, what it has written to each stream, the streams some process has open |
| `readers`, `read`, `sent`, `received` | the two threads; of each stream, the lines taken from the pipe, put in the channel, received by the loop |
| `tail`, `capturing`, `model`, `truncated`, `drained` | the locals of `run_command_streaming` |
| `Spawn`, `WriteLine`, `ExitTool`, `CloseStream` | the process; a full pipe blocks it, and a stream may outlive it |
| `ReadLine`, `SendLine`, `ReaderEnds` | a reader thread, up to the end of its stream or a closed channel |
| `ReceiveLine`, `Drain` | the branches of `select!`; receiving from a channel that is already known to be closed changes nothing and is no step |
| `LogFails`, `SpawnFails` | every `?` of `run_command_streaming` |
| `Retry`, `Conclude` | Maven's next command; what the runners return for an outcome |

`WorkspaceLoad` has a sync as one step that ends with a graph or without;
`BuildTool` is the inside of that step. Each of its actions has its guard as a
definition (`MayWrite`, `MaySend`...): `NothingStuck` is stated by the guards, so
that it can be proved, and they are what `ENABLED` of the actions means.

### The algorithms

`ParserEvents` takes any sequence of `start`, `complete`, `abandon`, `precede`,
`bump`, `expect_gt`, `checkpoint` and `rewind` that closes the innermost marker
first, which is what grammar functions do, and replays it in `Sink`, a recursive
function over the events. `meant` is a history variable: how many tokens the
calls took, and of each node they completed where it starts and ends, in events
and in tokens. `ParserAssumption` says only that inputs are sequences of the
kinds of tokens told apart, and the bounds numbers. `SyncProgress` takes any
sequence of a tool's events. The other three are functions, compared with a
definition of what they should compute: `EditApplication` with the client's
text, `ModulePath` with the least set JLS 7.7.2 gives, `EffectivelyFinal` with
the language's definition of an effectively final local, by counting the
assignments on each path.

## 3. Runs

All runs set `CHECK_DEADLOCK FALSE`, because the program may rightly come to
rest: the client stops sending and the server waits in `select!`, or it has
exited; the loads are applied, the queries answered and every job is done; an
algorithm has its result.

| Run | Expect | Question | Bounds |
|---|---|---|---|
| `RequestSafety` | pass | does any interleaving of cancels, writes, retries and deferrals lose, double or misread a request, and does the table implement `RequestService`? | 4 requests (references, hover, unknown method, bad parameters), 2 threads, 2 writes |
| `RequestLiveness` | pass | is everything answered, is every write applied? | a pull, references and a shutdown, 1 thread, 1 write, 1 long job |
| `DocumentsGrowing` | pass | does any order of edits, closes, writes, late answers and layouts lose a text or misplace a file, and does it implement `AnalysedText`? | a source, a generated and an ignored file, a library view; 3 acts of client and disk; a plain layout that ignores the generated file, then one with 3 roots |
| `WorkspaceLoads` | pass | does every change of build files the server knows by name reach a build tool, and can anything but a late sync put an older graph in force? | 2 folders, 2 build systems of which one is known, 2 changes |
| `ProgressReloads` | pass | does any order of events and answers, of loads that overlap, send before the answer, strand a buffer, begin an open bar again, or leave a bar open? | 2 loads, of 2 libraries and of one of them; client may refuse |
| `LibraryReloads` | pass | while queries and warmups overlap with reloads that drop a library and bring it back: when can a query panic or miss a record, does every library get and keep its index, and is a prune the last of its warmup? | 3 graphs, 2 libraries (one broken, one with an old cache entry), 2 queries |
| `LibraryViews` | pass | is every request answered with the texts it needs, however jobs, prunes, failures and a crash meet in the cache? | 1 source, 2 classes, 2 requests that share one, 1 failure, 2 prunes, 1 crash |
| `TokenDeltas` | pass | does a client that applies deltas end up with the server's stream, and with the current one? | 2 documents, 2 texts, 3 requests, 2 edits, 1 restart |
| `DiagnosticPulls` | pass | does "unchanged" ever hide a change? | 2 files, 3 texts or none, 2 changes, 3 pulls |
| `DiagnosticsMoved` | violation | finding 1 | the same |
| `Algorithms` | pass | do the algorithms compute what they should, and does the reading of a build tool end with what it wrote? | 9 parser events over 3 token sequences; 2 sizes and modules, 2 downloads; batches of 2 and 3 changes; 3 modules in one library, 2 libraries; bodies of 2 or 3 statements; 10 scripts of a build tool, 1 or 3 commands, pipes and channels of one line |
| `ParserShift` | violation | finding 2 | 10 parser events, one `>>>` |

Why the bounds are enough. Requests interact only through the loop, the FIFO
and the pool, so two that run and two the loop rejects exercise every order of
"the other request is queued, running, waiting for its re-run, answered". Two
writes let a request be cancelled by a write before and after its deferral,
which is what `DeferredOnce` is about. One thread is the worst case for
liveness, where a long job holds up everything; two are needed for a reader to
overlap with another run. In a load, two libraries are the least for which one
warmup job can be overtaken by the last, in `ProgressReloads` as in
`LibraryReloads`. Two graphs are the least for a reload, three for a library to
come back, and two queries the least for one to load what the other resolved.
In `DocumentsGrowing` three acts are the least for a document to be opened,
closed and changed on disk while an older answer is under way; one file of each
kind of root is enough, since files meet only in the tables that list them. Two
build-file changes give three loads of one folder, so that the last may end
first. Three token requests are a first stream, a delta, and one that overtakes
it. Two prunes remove a file before and after another job has found it. A build
tool with pipes and channels of one line blocks sooner than a real one, and the
script with four lines of errors first is one more than pipe, reader and
channel hold; the readers may reorder any two lines of different streams.

`BarsClose` and `EveryLibraryIndexed` are invariants of states in which the work
is done. Every counter is bounded and nothing is ever asked to wait, so each
behaviour that goes on comes to such a state, and they need no fairness.

Some instances are restrictions. The layouts of `DocumentsGrowing` go from a
plain directory to the roots of a build tool; the theorems of section 5 are for
any layouts. The inputs of the parser in `Algorithms` that are not `clean` (a
`>>` after trivia, a `>>>` split twice, a lookahead rewound inside a split) are
left to `ParserShift`; section 6 says what happens with the rest.

`SYMMETRY` is used in `RequestSafety` only, over threads, with safety
properties.

Fairness. `RequestLifecycle!FairSpec`: the loop is a thread that always takes a
ready message or finishes its iteration: weak fairness of `BackgroundEvent` and
`FinishIteration`. `select!` picks at random among ready channels, so a bounded
number of client messages cannot starve the event channel. Each pool thread is
weakly fair: it takes a job that is there, and jobs end. The last is an
assumption about build tools and decompilers, which have no timeout in the
code. Nothing is assumed of the client. `Documents!FairSpec`: the loader and
the loop take what is in their channels, and the client reports changes on
disk, which is what it registered for; no edit or write has to happen.
`WorkspaceLoad!FairSpec`: folders are probed, the loop and the workers go on,
and the client reports changes of build files, also of those the server does
not know by name; the user need not answer a dialog. (The extension in this
repository watches only the names the server knows,
`editors/code/src/extension.ts:69`.) `TokenStreams!FairSpec`: the client asks
when it has been told to, workers answer, and answers arrive unless they are
dropped. `LibraryFiles!FairSpec`: the loop, the runs and the jobs go on;
nothing has to be pruned, to fail or to crash.

## 4. Properties

Requests:

* `TypeOK`: the types, and that a job or an event that serves a request names it.
* `OneCarrier`: a request is in one place at a time, and, while unanswered, in
  exactly one. This is what makes retry closures safe to pass around. Methods
  that query outside the catch are excepted (section 6).
* `NoTokenLeak`: `inflight_cancellations` holds only tokens of requests
  somebody works on, with the same exception.
* `DeferredOnce`: `allow_defer` survives the write-retries around a deferral.
* `SnapshotsCurrent`: no write under a reader; a re-run sees the write that
  cancelled it.
* `AtMostOneReply`, `ImplementsService`: the table answers once, and never what
  it did not receive.
* `EveryRequestAnswered`, `WritesFinish`: no lost request and no lost loop, for
  methods that query under the catch. That a re-run is stopped by a cancel is not
  stated, for it is not (section 6).

Documents:

* `TextIsOwners`: while a document is open its text is analysed, whatever the
  loader answers; a library view keeps the server's text, whatever the client's
  copy says.
* `RootsMatchLayout`: each file is in the root the
  layout gives it, and `file_text` has a text for whatever a root lists.
* `ClosedFollowsDisk`, `EventuallyCurrent`: once the loader is done, a file of
  the workspace without a document has the text of the disk, unless ignore rules
  dropped the loader's last answer for it; and the loader is done some day. The
  exception is what the rules are for, and also the way in which a generated
  root inside a source root goes wrong (section 6).
* `ImplementsAnalysedText`: an edit is analysed at once; closing changes no text
  by itself; the loader only ever brings a content the file has had.

Workspace:

* `LatestUnlessOvertaken`: a sync that ends after a later one is the only way
  to lose a newer graph: not a dialog answered late, a failure, or a probe.
* `EditsReachBuildTool`: no change of a build file the server knows by name is
  lost between probes, syncs and dialogs. Files of Eclipse and IDEA it does not
  know by name (`Known`), and their changes are dropped (section 6): the model
  has them, and the property says nothing of them.

Progress:

* `BufferAwaitsAnswer`: a buffer is never stranded: while a token is being
  created, an answer is due, and the buffer starts with its Begin. A token may
  be begun again while its first request is unanswered, and the client may
  refuse either.
* `NotificationsInOrder`: nothing is sent under a token from the Begin that asks
  for it to the client's answer; a bar is open only while its token is active,
  so none opens under a refused token; and an open bar is begun again only under
  a token the client was asked for a second time before it answered the first.
  It does not say that nothing at all is sent under a refused token: Reports and
  Ends are (section 6).
* `BarsClose`: once all work is done, the client's bars are closed, though an End
  may overtake the answer, and the last warmup job the reports of the others.
  Two bars are excepted, both of which section 6 has: that of a scan a reload
  replaced, and that of a token which was forgotten though it was active.

Libraries:

* `TypeOK`: in particular, only a registered library has an index: a load that a
  reload overtook does not bring one back.
* `PanicsOnlyInReload`: a query finds its library unregistered only between the
  two halves of the `set_project_graph` that drops it: the run and the code do get
  there (section 6), and in no other step.
* `ResolvedHasRecord`: a class that resolves misses its record only when a reload
  has dropped the library, whose index is then gone, or when the prune of a graph
  without it has collected the entry its index reads. Both happen (section 6).
* `ReloadKeepsIndexes`: what a session has loaded it does not load again.
* `PruneEndsWarmup`: the prune comes after the last library of its load.
* `EveryLibraryIndexed`: whoever loads a library first, and whatever reload
  comes in between, when the warmup of the last graph has been over its libraries
  each of them has an index.
* `NullHasCause` (`LibraryFiles`): a request goes without a file only if the
  file could not be made or was pruned, not because another job was at it.
* `TextsAreWhole`: a source is read whole although a crash left part of it; of a
  class, jobs that write it with prunes in between leave it whole or not there,
  and part of it gets into the database only if two requests need it, which then
  does happen (section 6).
* `EveryNeedAnswered`: each request is answered, whatever fails, is pruned or
  crashes.

Clients:

* `StreamIsServers`, `IdNamesStream`: a delta is never applied to a stream it
  was not made from, though ids are counted anew after a restart and answers
  overtake each other.
* `EventuallyCurrent` (`TokenStreams`): after a load, too, the client ends up
  with the tokens of the text it shows.
* `DocumentPullShows`, `WorkspaceSeesReports`: an id of one kind of pull is
  never taken for one of the other, and a change in another file is seen.

Algorithms: `TreeAsMeant` (text and nodes of the tree are what the grammar's
calls asked for, and a node starts at a token),
`BarInWindow` (the percentage stays in its phase's window, 100 is the end and
the end is 100), `EditsMatchClient`, `ModulePathAsLanguage`,
`CapturesAsLanguage`. Of a build tool's threads: `OutcomeIsTools` (a sync yields a
graph from a command that succeeded and wrote a whole model, and from each that
did so once, whatever the order in which the lines of its two streams arrive)
and `NothingStuck` (tool, readers and loop never wait for each other, and a sync
that gives up leaves no thread waiting). Every step of `ToolStep` moves one of
them on, so a state without one would be the only way not to end.

Only `RequestLifecycle` and `LibraryIndex` have `TypeOK` in a run's list; that of
the other state machines is part of the inductive invariants of section 5.

## 5. Proofs

All theorems are invariants or step properties of `Spec`, without fairness. They
hold for every value of the constants that the named `ASSUME` of the model
allows, the bounds on edits, loads, writes and restarts included. No theorem
about a specification has a hypothesis of its own; the three about an algorithm
alone say below which inputs they are about. In each module the lemmas come one
per action, the invariant's conjuncts are named, and the theorem only combines
them.

`RequestLifecycleProofs`, for any set of requests, any assignment of methods
and any set of threads:

* `TypeCorrect`: `Spec => []TypeOK`. `TypeOK` is inductive because jobs that
  serve a request are typed apart from those that do not.
* `AnsweredOnce`: `Spec => []AtMostOneReply`. Not inductive alone: a request
  whose entry is in the table might already have its response. The
  strengthening `OpenUnanswered` says that it does not, for methods the
  dispatcher knows. Both follow from one lemma, `StepOnTable`, on what a step
  does to the table.
* `Refinement`: `Spec => ImplementsService`, from the same lemma: each kind of
  table step is a step of `RequestService` or a stutter.
* `SnapshotsStayCurrent`: `Spec => []SnapshotsCurrent`, inductive with `TypeOK`.
* `NeverLostNorDoubled`, `TokensAreReleased`: `Spec => []OneCarrier` and
  `Spec => []NoTokenLeak`, from `CarrierInv`. A carrier is a position in the
  queue of jobs, of events or of waiting runs, or a thread; lemmas say by how much
  each kind of step changes their number for one request and that it leaves it
  for the others. `CarrierInv` adds that what is carried was sent and
  dispatched, that only an answered request has a flipped token, that a run is
  aborted only for one, and that only a handler that queries outside the catch
  is ever between its query and its answer.
* `DeferralHappensOnce`: `Spec => []DeferredOnce`, from `DeferInv`: wherever a
  closure waits that may still defer, its request was not deferred yet.

`TextProofs`, for any files, texts, disks and layouts:

* `TypeCorrect`, `TextBelongsToOwner`, `RootsStayPartition`: `TextIsOwners` and
  `RootsMatchLayout` follow from `TextInv`: every text is what the vfs has of
  its file, the vfs has the open document, and the loader only answers with
  contents a file has had. That the owner of a file is unique and the partition
  is one are lemmas about the operators.
* `Refinement`: `Spec => ImplementsAnalysedText`, step by step from `TextInv`.
* `NoChangeIsLost`: `Spec => []DiskIsFollowed`: a closed file whose last answer
  was not dropped is still told of, or is as on disk once the answers under way
  are taken, or was never read and is on the list of a directory to read. The
  hard case is a list that the loader reads between two changes on disk, with an
  older answer still in the channel.
* `DiskIsShown`: `Spec => []ClosedFollowsDisk`, for any sequence of layouts, from
  the same invariant: when the loader is idle, what an answer was not dropped for
  is as on disk.
* `EditsLeaveClientText`: for any text and any number of changes, whole documents
  or ranges that do not run backwards, `ApplyDocumentChanges` leaves the client's
  text. Turn by turn, the index the server holds agrees with the text above
  `valid`, the line where the last change began: that change left what is in front
  of it, so lines above start where they did. It is looked up only for positions
  above `valid` and is made anew otherwise. The loop is a recursive function, and
  the induction over it is one over an interval of numbers (`Upwards`).
* `ParserKeepsShape`: `ParserSpec => []ParseInv`, for any tokens and any
  grammar. `Markers`, `Nodes`, `Nested` and `Chained` say that the events
  describe a tree: a marker's place is a tombstone, every start has its finish,
  nodes and open markers are nested or apart, and a chain of forward parents
  leads from where a node begins through every node that precedes it. `Follows`
  says that the events that take tokens take those of the source one by one, a
  split one in two pieces with nothing between them. `SavedFits` says all of it
  of the events up to a checkpoint, so that a rewind restores it.
* `TreeIsAsMeant`: `ParserSpec => []TreeAsMeant`. For a finished parse,
  `SinkFits` is an invariant of the replay, by induction over the events
  (`FollowingExists`: a function given by recursion on a number satisfies its
  definition; `Upwards`). Of the text, `TextFits`: its pieces follow each other
  and end where the cursor stands, or in the middle or at the end of a split token
  that the cursor has not passed. Of the nodes, `StackFits`: those open after n
  events are the ones that begin by then and end later, outermost first, each
  starts at a piece that is no trivia or is about to, and those closed are the
  grammar's. The hard cases are the virtual token, in front of which the sink
  eats no trivia, and the chain that a first start event opens at once while its
  other start events are skipped later.

`WorkspaceLoadProofs`, for any folders, build systems and build files:

* `TypeCorrect`, `NewestGraphStays`: `Spec => []LatestUnlessOvertaken`, from
  `LoadInv`: the last load of a folder has read or will read the newest build
  files unless there is work for the folder under way (a probe, a notice of a
  known build system, an event, a dialog), and a graph in force is that of the
  last load that ended well, or `overtaken` is set.
* `ReadableAsLanguage`: for any module graph that names finitely many modules,
  `ReadableModules` is the least set JLS 7.7.2 gives. The queue stops growing
  within as many rounds as there are names, since each round that is not the last
  adds one; what it holds then is closed, and every round is within any closed
  set.
* `LaterLibraryKeepsPackages`: for any classpath, module declaration and library
  (`Own` is not the name that stands for no module), adding the library at the end
  hides no package. Declarations of a module that is there already are ignored,
  so owners and what is read only grow.

`SyncProofs`, for any libraries, any client, any scripts of a build tool, pipes
and channels of any size:

* `BufferedEventsAwaitAnswer`: `Spec => []BufferAwaitsAnswer`. Inductive
  together with the types of the table (`Table`) and of the channels
  (`Channels`), since a step handles what is at the head of a channel. Only
  `BeginThen`, `Continue` and the answers touch the table, and each has a lemma;
  the answer takes away the oldest request, and `TailAwaited` says that it
  strands no other token.
* `BarsInOrder`: `Spec => []NotificationsInOrder`, for any number of loads.
  Reports and Ends come only for a stage that has started (`Stages`: what is
  queued for the sync or the index is so only after its first Begin), and the
  token of a started stage is being created or was answered (`Views`). That a bar
  is open only under an active token is part of `Bars`. Of a token that was never asked for twice at once, `Bars` says that it has at most one
  open request, a buffer one Begin, and that its bar is closed unless the token is
  active; a Begin closes the bar of an active token first.
* `BarStaysInWindow`: `SyncSpec => []BarInWindow`, for any figures a build tool
  reports: sizes that shrink, indexes past the total. `ShareFits` is the division
  behind it.
* `ToolIsNeverStuck`: `ToolSpec => []NothingStuck`, from `PipesFlow`: of each
  stream what was received, sent, read and written never overtake each other, a
  reader has one line in hand at most, and while the sync runs a reader ends only
  at the end of a stream that is closed and read. So a full pipe has a reader, a
  full channel has the loop, and a closed one lets the loop end.
* `OutcomeBelongsToTool`: `ToolSpec => []OutcomeIsTools`, from `ToolInv`.
  `CaptureFollows` says that what is captured are the lines of stdout from a
  begin marker as far as the loop has got, of at most `ModelMax`, or that so
  many lines did follow a marker if the model was cut off; `TailFollows` finds
  each line of the tail in its stream by counting those of the same stream
  behind it. Neither mentions the order in which the two streams were merged.

`LibraryIndexProofs`, for any libraries, graphs, queries and cache contents:

* `TypeCorrect`: `Spec => []TypeOK`, the part about indexes included: who keeps
  an index looks at the registry in the same step.
* `IndexesAreKept`: `Spec => ReloadKeepsIndexes`.
* `PruneIsLast`: `Spec => []PruneEndsWarmup`, inductive: a job may count itself
  as the last only when no other job of its load is before its count, and then
  no other can go on.
* `WarmupIndexesAll`: `Spec => []EveryLibraryIndexed`, from `JobsIndex`: every
  library of the newest graph has a job, and once that job is past loading it
  the library has an index, which no step before the next reload takes away.
* `PanicsAreReloads`: `Spec => PanicsOnlyInReload`. The strengthening `Covered`
  says that the registry is the graph last applied, that a snapshot sees that
  graph or, while it is being applied, the one before, and that a live query's
  library is in what it sees.
* `NoRecordIsMissing`: `Spec => ResolvedHasRecord`. A memoized name index outlives
  every reload, so `RecordInv` says that it has its index unless the library was
  dropped (`Standing`), that an index kept on disk has its entry unless the prune
  of another graph collected it (`Stored`), that whoever loads a library holds
  what its next step relies on (`Sound`), and that a prune collects once and
  nothing of its own graph.

`LibraryFilesProofs`, for any files, requests and needs, any number of failures,
prunes and crashes:

* `TypeCorrect`, `NullIsExplained`, `NoTornText`: `Spec => []NullHasCause` and
  `Spec => []TextsAreWhole`, from `FilesInv`: each file a deferred request needs
  is in the database, or spoilt, or with the event or the job under way for the
  request, of which there is at most one. For the part of `TextsAreWhole` about
  the database `ReadInv` follows what a job has read: part of a class only of
  one that another request needs too.

`TokenStreamsProofs`, for any documents, texts and tokens:

* `DeltaMakesStream`: for any two streams the edits of `compute_delta_edits`
  turn the one into the other. The longest common prefix and suffix exist
  because their lengths are bounded (a minimum of a set of naturals, by
  well-foundedness); the rest is a comparison of positions.
* `TypeCorrect`, `ClientHoldsServersStream`, `IdsNameStreams`:
  `Spec => []StreamIsServers` and `Spec => []IdNamesStream`, from `TokensInv`:
  whatever cache, client, requests and answers know by one id is one stream,
  and a delta under way is that of the stream it names.

`DiagnosticPullProofs`, for any files, texts and reports:

* `DocumentPullIsCurrent`, `UnchangedReportsAreSame`: `Spec =>
  []DocumentPullShows` and `Spec => []WorkspaceSeesReports`, from `PullInv`: an id
  tells the diagnostics held under it, of a document pull all of them and of a
  workspace pull the report they were made from. That ids are hashes without
  collisions is the model's assumption.

Only model checked, and why:

* liveness (`EveryRequestAnswered`, `WritesFinish`, `EventuallyCurrent`,
  `EditsReachBuildTool`, `EveryNeedAnswered`): the prover has no rules for
  fairness and `ENABLED`;
* `BarsClose`: which bars close takes an invariant that relates the messages each
  stage has yet to send, in three channels, to its token and the client's bar;
* `CapturesAsLanguage`: the scan and the language's rule are recursive over
  trees of statements, which takes an induction over data;
* `EditsMatchClient` and `ModulePathAsLanguage` are the theorems
  `EditsLeaveClientText`, `ReadableAsLanguage` and `LaterLibraryKeepsPackages` on
  the run's samples.

## 6. Findings

With a run:

1. **A moved problem is "unchanged" to a workspace pull** (`DiagnosticsMoved`).
   The id of a workspace report hashes byte offsets (`ide/src/workspace.rs:33`);
   an edit that moves line breaks, or replaces a character by one of as many
   bytes and another UTF-16 length, leaves it as it was, and the client keeps
   the old positions.
2. **`>>>` that closes three levels is split from the source's token twice**
   (`ParserShift`). `split_token` (`java-syntax/src/parser.rs:351`) does not look
   at what an earlier split has left, so the tree gets a character too many and
   everything behind it is shifted.

Seen while modelling, without a run of their own; the properties except what is
said here and no more.

Requests:

* A hover can go without an answer. `on_hover` reads the database once more
  outside `Cancelled::catch`, for the file's language (`handlers/request.rs:295`,
  `ide/src/lib.rs:171`): a write pending at that moment unwinds the pool thread,
  and there is no answer and one thread less (`Unwind` in the model).
  `OneCarrier` and `NoTokenLeak` except such methods. It is against
  `handlers/dispatch.rs:121`.
* A re-run does not see a cancel. Its snapshot gets a fresh token
  (`global_state.rs:488`): the result is dropped, the work is done, although
  `main_loop.rs:674` says that it "must still observe `$/cancelRequest`".
* `reply_not_implemented` leaves the entry in the table (`global_state.rs:324`),
  and a cancel answers the request again. `AtMostOneReply` speaks of the methods
  the dispatcher knows.
* A queued request already holds its snapshot (`handlers/dispatch.rs:75`), so a
  write waits until the sync or warmup in front of it in the queue has ended.

Progress:

* Events go out under a refused token. A refusal forgets the token
  (`global_state.rs:423`), and a Report or End of an unknown one is sent
  (`lsp/utils.rs:154`), though clients "only deliver progress for tokens they were
  asked to create" (`lsp/utils.rs:101`).
* An open bar is begun again. The second answer for a token that was asked for
  twice takes it out of the table though it is active (`lsp/utils.rs:169`), so
  the next Begin does not close it, as `lsp/utils.rs:119` says it would.
* The rest of an old configuration's scan is ignored, its End included
  (`main_loop.rs:1544`): a reload leaves the bar open.
* A Begin for a token that is still being created replaces the buffer
  (`lsp/utils.rs:137`); the report of a warmup job that was overtaken comes after
  the End (`main_loop.rs:1398`); a token flushed with its End in the buffer stays
  Active (`lsp/utils.rs:173`).
* A sync's bar may go back when a phase is entered again or a size grows. The
  comment at `main_loop.rs:1850` promises no status while nothing is known; the
  code sends one.

Libraries:

* A reload that drops a library can make a query panic. The registry changes
  before the first salsa write cancels the readers (`hir/src/db.rs:208`), and the
  panic says "this is a bug" (`db.rs:395`).
* A library that comes back has no index at first. Its name index is still
  memoized, so no query loads the library (`db.rs:405`), and its classes have no
  records until the warmup has come to it; `db.rs:440` says that the next
  registered library "builds its own".
* A prune can delete what a load has just begun to use. It collects in one
  transaction and deletes in another (`lmdb_store.rs:430`): an entry of an earlier
  session that only the next graph uses is touched in between, which was to keep
  it (`loader.rs:407`).
* Part of a class can become its text. The job of one request finds and reads
  the file that the job of another is writing (`main_loop.rs:826`,
  `library_sources.rs:171`), though "nothing under it can be stale"
  (`main_loop.rs:823`). So it is when a crash left a part of the file.
  `TextsAreWhole` excepts classes that several requests need, and crashes.
* After a load that drops a library, its materialized files fall into the root
  after the last and count as workspace files (`base-db/src/input.rs:10`).

Documents and workspace:

* A generated root inside a source root is not loaded. `main_loop.rs:1091` and
  `1473` leave it to the rules of the enclosing root, which ignore the build
  directory; the comment at 1466 says the opposite, and the test at 1996 has the
  roots apart. It takes a source root that contains the build directory, such as
  the directory of the project itself. `ClosedFollowsDisk` excepts files whose
  last answer was dropped.
* Changes of Eclipse and IDEA files are not synced: `is_build_configuration_file`
  (`handlers/notification.rs:254`) has the names of Gradle and Maven only, a probe
  finds all four (`project-model/src/build_system.rs:337`).
  `EditsReachBuildTool` is about the names the server knows.
* Roots of the old graph whose number is above the new ones stay, with their
  files (`base-db/src/change.rs:46`).
* A file that goes while a layout ignores it is taken for what it was when a
  later layout reads it again.
* An ignored file that was opened keeps its unsaved text after it is closed, and
  its deletion goes unnoticed.
* Every command Maven tries creates the sync's log anew
  (`project-model/src/build_system.rs:170`, called from `maven/runner.rs:87`,
  `98` and `108`). When all three fail, the message shows the output of the
  first, and the file is the log of the last, though "the full log lives on
  disk" (`build_system.rs:253`): in `BuildTool`, `logged` is then not
  `outcome.of`. Two syncs of one root share the file (`main_loop.rs:362`), and
  the first to succeed removes it.
* A line that is not UTF-8 reaches log and model as an empty one
  (`build_system.rs:149`); a model without its end marker is accepted; the flag of
  a model that was too long stays set for a second one. A tool that never ends,
  or a descendant that keeps its streams, holds the sync and its pool thread:
  there is no timeout.
* A slower, older sync replaces a newer graph, and each folder's graph replaces
  that of the others (`main_loop.rs:615`); `overtaken` and `current` have it.

Clients:

* Token ids start from 1 in every process (`lsp/semantic_tokens.rs:153`): a
  client that kept its streams over a restart would get deltas against others.
* A workspace pull has no entry for a deleted file; a client that takes this for
  no news keeps its problems.

Algorithms:

* In a parse, a `>>` split after trivia takes part of the trivia for the token:
  `AddVirtualToken` eats no trivia and `AdvanceSource` steps over it. A lookahead
  that is rewound inside a split keeps `override_token` (`parser.rs:121`).
* The comment at `hir/src/modules.rs:425` says that the unnamed module sees
  packages with a qualified export too; the code passes `None` for the module
  that asks and finds only unqualified ones. A source module with the name of a
  library's module leaves the owner with the library's stub.
* The capture scan reports too much after `return`, in `switch` arms and in
  `?:`, misses loops and assignments inside lambdas, has one placeholder for all
  lambda parameters, and does not treat compound assignments as its comment
  (`flow.rs:451`) says. `CapturesAsLanguage` is about declarations, branches,
  blocks, increments and nested captures.
* A backwards range would be looked up in a stale index; the protocol has none.

## 7. What is not modelled

`PROJECT.json` lists every part with the reason. In short: lexing, grammars,
lowering, name resolution, inference and IDE features are pure functions of
their inputs under salsa; their correctness is that of two language
specifications, and TLC would only repeat unit tests of them. What is modelled
of them are the places with an order or a state of their own: the parser's
events, the module path, the capture scan. Of the build-system runners the data
is left out: the graph made of a model, the files of Eclipse and IDEA, and the
progress a line stands for. The command line,
the editor extension and the class-file library are I/O, settings or generic
code. The map covers a few percent of the implementation's lines for that
reason: most lines are rules of Java and Kotlin.

## 8. What could come next

* A proof of `BarsClose` for any number of loads and libraries.
* What the sink makes of a parse that is not `clean`: how far a split behind
  trivia, a second split or a rewound one shifts the text (section 6).
* `CapturesAsLanguage` by induction over the nesting of statements, if the
  statements are given as a sequence with depths and not as trees.
* More of the sequential algorithms where a bug would be one of order or bounds:
  the class-file writer's branch offsets, constant folding.
