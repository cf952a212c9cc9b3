---------------------------- MODULE LibraryIndex ----------------------------
(***************************************************************************)
(* The registered libraries of a session and their stub indexes            *)
(* (hir/src/db.rs), the persistent stub cache they are loaded from         *)
(* (hir/src/loader.rs, lmdb_store.rs) and its users: the main loop that    *)
(* replaces the project graph, the warmup jobs of each load, which hold no *)
(* snapshot, the prune that ends a warmup, and queries on snapshots that   *)
(* resolve a class and read its record.                                    *)
(*                                                                         *)
(* The registry and the cache are shared by every snapshot and are not     *)
(* salsa inputs; the name index of a library is a salsa memo that reads no *)
(* input, so it is valid for the rest of the session.                      *)
(***************************************************************************)
EXTENDS Integers, Sequences, FiniteSets

CONSTANTS
    Libraries,       \* library ids; an id stands for an archive's path and stamp
    LoadedGraphs,    \* the libraries of each graph the main loop applies, in order
    Broken,          \* libraries whose archive cannot be parsed
    OldEntries,      \* libraries an earlier session cached and nobody used since
    Queries          \* the queries requests run, each once

ASSUME LibraryAssumption ==
    /\ LoadedGraphs \in Seq(SUBSET Libraries)
    /\ Broken \subseteq Libraries /\ OldEntries \subseteq Libraries \ Broken

Loads == DOMAIN LoadedGraphs

VARIABLES
    loop,            \* "select", or "apply": set_project_graph is under way
    load,            \* graphs the loop has started to apply
    graph,           \* ProjectGraph.libraries, as a snapshot sees it
    registered,      \* the keys of HirState.libraries
    index,           \* LibraryState.index of each registered library
    memo,            \* libraries whose library_name_index_query is memoized
    store,           \* the stub cache's entry of each library
    asking,          \* where each query is, and about which library
    warming,         \* where the warmup job of each load and library is
    stale            \* per load: what the prune after its warmup collected

regVars == <<registered, index>>
vars == <<loop, load, graph, regVars, memo, store, asking, warming, stale>>

NoIndex == "none"
Indexes == {NoIndex, "memory", "disk", "empty"}  \* where its records are
Entries == {"absent", "old", "fresh"}            \* by last_accessed and the TTL

(* A load_or_build under way, by its next step; a query and a warmup job    *)
(* take the same steps.                                                     *)
LoadSteps == {"meta", "touch", "parse", "write", "keep disk", "keep memory", "keep empty"}
Answers == {"record", "missing", "unresolved", "cancelled", "panicked"}
QuerySteps == {"name", "body", "index"} \cup LoadSteps \cup Answers
WarmSteps == {"none", "queued", "loaded", "collect", "delete", "counted"} \cup LoadSteps

At(step, l) == [step |-> step, lib |-> l]
SnapshotAlive(q) == asking[q].step \notin Answers \cup {"idle"}
WritePending == loop = "apply"

Init ==
    /\ loop = "select" /\ load = 0
    /\ graph = {} /\ registered = {} /\ memo = {}
    /\ index = [l \in Libraries |-> NoIndex]
    /\ store = [l \in Libraries |-> IF l \in OldEntries THEN "old" ELSE "absent"]
    /\ asking = [q \in Queries |-> [step |-> "idle"]]
    /\ warming = [n \in Loads |-> [l \in Libraries |-> "none"]]
    /\ stale = [n \in Loads |-> {}]

-----------------------------------------------------------------------------
(* The main loop applies the next graph: set_project_graph first replaces  *)
(* the registry, keeping the index of a library it already knows.  The     *)
(* first graph is a new salsa input, which snapshots see at once.          *)

(* Mutant of RegisterGraph: a known library is registered afresh. *)
RegisterAfresh ==
    /\ loop = "select" /\ load < Len(LoadedGraphs)
    /\ loop' = "apply" /\ load' = load + 1
    /\ registered' = LoadedGraphs[load']
    /\ index' = [l \in Libraries |-> NoIndex]
    /\ graph' = IF load = 0 THEN LoadedGraphs[load'] ELSE graph
    /\ UNCHANGED <<memo, store, asking, warming, stale>>

RegisterGraph ==
    /\ loop = "select" /\ load < Len(LoadedGraphs)
    /\ loop' = "apply" /\ load' = load + 1
    /\ registered' = LoadedGraphs[load']
    /\ index' = [l \in Libraries |-> IF l \in registered' THEN index[l] ELSE NoIndex]
    /\ graph' = IF load = 0 THEN LoadedGraphs[load'] ELSE graph
    /\ UNCHANGED <<memo, store, asking, warming, stale>>

(* Mutant of WriteGraph: the classpaths of the graph before stay. *)
WriteLibrariesOnly ==
    /\ loop = "apply"
    /\ \A q \in Queries : ~SnapshotAlive(q)
    /\ loop' = "select"
    /\ warming' = [warming EXCEPT ![load] =
                      [l \in Libraries |-> IF l \in LoadedGraphs[load] THEN "queued" ELSE "none"]]
    /\ UNCHANGED <<load, graph, regVars, memo, store, asking, stale>>

(* The salsa writes wait until every snapshot is dropped; then             *)
(* warmup_libraries puts one job per library on the pool.                  *)
WriteGraph ==
    /\ loop = "apply"
    /\ \A q \in Queries : ~SnapshotAlive(q)
    /\ loop' = "select"
    /\ graph' = LoadedGraphs[load]
    /\ warming' = [warming EXCEPT ![load] =
                      [l \in Libraries |-> IF l \in graph' THEN "queued" ELSE "none"]]
    /\ UNCHANGED <<load, regVars, memo, store, asking, stale>>

-----------------------------------------------------------------------------
(* A query: resolve a class in a library of the graph, then its record.    *)

(* The loop gives a request a snapshot. *)
Ask(q) ==
    /\ loop = "select" /\ asking[q].step = "idle"
    /\ \E l \in graph : asking' = [asking EXCEPT ![q] = At("name", l)]
    /\ UNCHANGED <<loop, load, graph, regVars, memo, store, warming, stale>>

Goes(q, step) == asking' = [asking EXCEPT ![q].step = step]

(* library_name_index: a memo is returned without a look at the registry.  *)
NameIndex(q) ==
    /\ asking[q].step = "name"
    /\ Goes(q, IF asking[q].lib \in memo THEN "index" ELSE "body")
    /\ UNCHANGED <<loop, load, graph, regVars, memo, store, warming, stale>>

(* library_name_index_query up to ensure_loaded: registered_library, or    *)
(* the panic; then cached_index.                                           *)
NameIndexBody(q) ==
    LET l == asking[q].lib IN
    /\ asking[q].step = "body"
    /\ CASE l \notin registered   -> Goes(q, "panicked") /\ UNCHANGED memo
         [] l \in registered /\ index[l] # NoIndex ->
                Goes(q, "index") /\ memo' = memo \cup {l}
         [] OTHER                 -> Goes(q, "meta") /\ UNCHANGED memo
    /\ UNCHANGED <<loop, load, graph, regVars, store, warming, stale>>

(* A write is pending: the query unwinds at its next salsa call or at its  *)
(* cancel_check in the parse, and the snapshot is dropped.                 *)
Unwind(q) ==
    /\ WritePending
    /\ asking[q].step \in {"name", "parse"}
    /\ Goes(q, "cancelled")
    /\ UNCHANGED <<loop, load, graph, regVars, memo, store, warming, stale>>

(* library_index and class_record: the records the index retained, or the  *)
(* store's.                                                                *)
ReadRecord(q) ==
    LET l == asking[q].lib IN
    /\ asking[q].step = "index"
    /\ Goes(q, CASE l \in Broken -> "unresolved"
                 [] index[l] = "memory" -> "record"
                 [] index[l] = "disk" /\ store[l] # "absent" -> "record"
                 [] OTHER -> "missing")
    /\ UNCHANGED <<loop, load, graph, regVars, memo, store, warming, stale>>

-----------------------------------------------------------------------------
(* load_or_build, one transaction of the store or one parse at a time:     *)
(* `step` is the next one, `next` the one it leaves to.                    *)

LoadStep(l, step, next) ==
    \/ /\ step = "meta"                          \* read_meta
       /\ next = IF store[l] # "absent" THEN "touch" ELSE "parse"
       /\ UNCHANGED store
    \/ /\ step = "touch"                         \* touch_libraries, best effort
       /\ next = "keep disk"
       /\ \/ store' = [store EXCEPT ![l] = IF @ = "absent" THEN @ ELSE "fresh"]
          \/ UNCHANGED store
    \/ /\ step = "parse"
       /\ next = IF l \in Broken THEN "keep empty" ELSE "write"
       /\ UNCHANGED store
    \/ /\ step = "write"                         \* write_library, or it fails
       /\ next = "keep memory"
       /\ \/ store' = [store EXCEPT ![l] = "fresh"]
          \/ UNCHANGED store

Kept(step) == CASE step = "keep disk" -> "disk"
                [] step = "keep memory" -> "memory"
                [] step = "keep empty" -> "empty"

(* Mutants of Keep: an archive that failed to parse keeps nothing; a       *)
(* library that was dropped meanwhile keeps its index.                     *)
KeepUnlessBroken(l, step) ==
    index' = IF l \in registered \ Broken THEN [index EXCEPT ![l] = Kept(step)] ELSE index

KeepDropped(l, step) ==
    index' = [index EXCEPT ![l] = Kept(step)]

(* The end of ensure_loaded: a library a reload dropped keeps nothing.     *)
Keep(l, step) ==
    index' = IF l \in registered THEN [index EXCEPT ![l] = Kept(step)] ELSE index

QueryLoads(q) ==
    LET l == asking[q].lib
        step == asking[q].step IN
    /\ step \in LoadSteps
    /\ IF step \in {"keep disk", "keep memory", "keep empty"}
       THEN /\ Keep(l, step)
            /\ memo' = memo \cup {l} /\ Goes(q, "index")
            /\ UNCHANGED store
       ELSE /\ \E next \in LoadSteps : LoadStep(l, step, next) /\ Goes(q, next)
            /\ UNCHANGED <<index, memo>>
    /\ UNCHANGED <<loop, load, graph, registered, warming, stale>>

-----------------------------------------------------------------------------
(* The warmup jobs of a load, on the pool and without a snapshot.          *)

WarmTo(n, l, step) == warming' = [warming EXCEPT ![n][l] = step]

(* warmup_library: registered_library and cached_index. *)
StartWarm(n, l) ==
    /\ warming[n][l] = "queued"
    /\ WarmTo(n, l, IF l \notin registered \/ index[l] # NoIndex THEN "loaded" ELSE "meta")
    /\ UNCHANGED <<loop, load, graph, regVars, memo, store, asking, stale>>

WarmLoads(n, l) ==
    LET step == warming[n][l] IN
    /\ step \in LoadSteps
    /\ IF step \in {"keep disk", "keep memory", "keep empty"}
       THEN /\ Keep(l, step)
            /\ WarmTo(n, l, "loaded")
            /\ UNCHANGED store
       ELSE /\ \E next \in LoadSteps : LoadStep(l, step, next) /\ WarmTo(n, l, next)
            /\ UNCHANGED index
    /\ UNCHANGED <<loop, load, graph, registered, memo, asking, stale>>

Warmed(n, l) == warming[n][l] \in {"none", "counted"}

(* Mutant of CountWarm: the job counts before it is the last. *)
CountWarmEarly(n, l) ==
    /\ warming[n][l] = "loaded"
    /\ WarmTo(n, l, "collect")
    /\ UNCHANGED <<loop, load, graph, regVars, memo, store, asking, stale>>

(* The job counts itself; the last one goes on to the prune.               *)
CountWarm(n, l) ==
    /\ warming[n][l] = "loaded"
    /\ WarmTo(n, l, IF \A k \in Libraries \ {l} : Warmed(n, k) THEN "collect" ELSE "counted")
    /\ UNCHANGED <<loop, load, graph, regVars, memo, store, asking, stale>>

(* Mutant of CollectStale: the libraries in use are not spared.            *)
CollectAllStale(n, l) ==
    /\ warming[n][l] = "collect"
    /\ stale' = [stale EXCEPT ![n] = {k \in Libraries : store[k] = "old"}]
    /\ WarmTo(n, l, "delete")
    /\ UNCHANGED <<loop, load, graph, regVars, memo, store, asking>>

(* prune_stale: a read transaction collects what is stale and not live,    *)
(* the libraries of this load; a later write transaction deletes it.       *)
CollectStale(n, l) ==
    /\ warming[n][l] = "collect"
    /\ stale' = [stale EXCEPT ![n] = {k \in Libraries : store[k] = "old"} \ LoadedGraphs[n]]
    /\ WarmTo(n, l, "delete")
    /\ UNCHANGED <<loop, load, graph, regVars, memo, store, asking>>

DeleteStale(n, l) ==
    /\ warming[n][l] = "delete"
    /\ store' = [k \in Libraries |-> IF k \in stale[n] THEN "absent" ELSE store[k]]
    /\ WarmTo(n, l, "counted")
    /\ UNCHANGED <<loop, load, graph, regVars, memo, asking, stale>>

-----------------------------------------------------------------------------
QueryStep(q) == NameIndex(q) \/ NameIndexBody(q) \/ Unwind(q) \/ QueryLoads(q) \/ ReadRecord(q)

WarmStep(n, l) ==
    \/ StartWarm(n, l) \/ WarmLoads(n, l) \/ CountWarm(n, l)
    \/ CollectStale(n, l) \/ DeleteStale(n, l)

Next ==
    \/ RegisterGraph \/ WriteGraph
    \/ \E q \in Queries : Ask(q) \/ QueryStep(q)
    \/ \E n \in Loads, l \in Libraries : WarmStep(n, l)

Spec == Init /\ [][Next]_vars

-----------------------------------------------------------------------------
(* Only a registered library has an index: ensure_loaded does not bring    *)
(* back one that a reload dropped while its archive was read.              *)
TypeOK ==
    /\ loop \in {"select", "apply"} /\ load \in 0..Len(LoadedGraphs)
    /\ loop = "apply" => load \in Loads
    /\ graph \subseteq Libraries /\ registered \subseteq Libraries /\ memo \subseteq Libraries
    /\ index \in [Libraries -> Indexes]
    /\ \A l \in Libraries \ registered : index[l] = NoIndex
    /\ store \in [Libraries -> Entries]
    /\ asking \in [Queries -> {[step |-> "idle"]} \cup [step : QuerySteps, lib : Libraries]]
    /\ warming \in [Loads -> [Libraries -> WarmSteps]]
    /\ stale \in [Loads -> SUBSET Libraries]

(* A step after which a query stands at `step` that stood elsewhere before.*)
Reaches(q, step) == asking[q].step # step /\ asking'[q].step = step

(* library_name_index_query finds its library registered, except while the *)
(* reload that dropped the library waits for that query's snapshot: before *)
(* it and once it is done, every library a snapshot sees is registered.    *)
PanicsOnlyInReload ==
    [][\A q \in Queries : Reaches(q, "panicked") =>
            WritePending /\ asking[q].lib \in graph \ registered]_vars

(* Some reload so far took the library out of the graph. *)
Dropped(l) == \E n \in 2..load : l \in LoadedGraphs[n - 1] \ LoadedGraphs[n]

(* The prune after the warmup of a graph without the library has collected *)
(* its entry.                                                              *)
PrunedElsewhere(l) == \E n \in Loads : l \in stale[n] \ LoadedGraphs[n]

(* A query that resolved a class gets its record (class_record), but for   *)
(* two cases: its library was dropped by a reload and has no index now, or *)
(* is read from an entry that the warmup of another graph has pruned.      *)
ResolvedHasRecord ==
    [][\A q \in Queries : Reaches(q, "missing") =>
            LET l == asking[q].lib IN
            \/ index[l] = NoIndex /\ Dropped(l)
            \/ index[l] = "disk" /\ PrunedElsewhere(l)]_vars

(* A reload keeps the index of a library it registers again, and nothing   *)
(* else takes an index away.                                               *)
ReloadKeepsIndexes ==
    [][\A l \in registered \cap registered' : index[l] # NoIndex => index'[l] # NoIndex]_vars

(* The prune of a load runs after all of its libraries were loaded, so it  *)
(* cannot delete an entry one of them is about to read.                    *)
PruneEndsWarmup ==
    \A n \in Loads, l \in Libraries :
        warming[n][l] \in {"collect", "delete"} =>
            \A k \in Libraries \ {l} : Warmed(n, k)

(* Once the warmup of the newest graph is over, each of its libraries has  *)
(* an index, whatever queries and the warmups of older graphs still do: a  *)
(* job that found the library loaded, or whose index an older registration *)
(* would have kept, is not wrong about it.  A warmup is over after a       *)
(* bounded number of steps, none of which waits for another.               *)
EveryLibraryIndexed ==
    load \in Loads /\ loop = "select" /\ (\A l \in Libraries : Warmed(load, l)) =>
        \A l \in registered : index[l] # NoIndex
=============================================================================
