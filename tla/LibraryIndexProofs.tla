------------------------- MODULE LibraryIndexProofs -------------------------
(***************************************************************************)
(* What holds of LibraryIndex for any libraries, graphs, queries and any   *)
(* state of the stub cache.                                                *)
(***************************************************************************)
EXTENDS LibraryIndex, TLAPS

LEMMA GraphsTyped ==
    /\ Len(LoadedGraphs) \in Nat /\ Loads = 1..Len(LoadedGraphs)
    /\ \A n \in Loads : LoadedGraphs[n] \subseteq Libraries
<1>1. LoadedGraphs \in Seq(SUBSET Libraries)
  BY LibraryAssumption
<1>2. Len(LoadedGraphs) \in Nat /\ Loads = 1..Len(LoadedGraphs)
  BY <1>1 DEF Loads
<1>3. ASSUME NEW n \in Loads PROVE LoadedGraphs[n] \in SUBSET Libraries
  BY <1>1, <1>2
<1>. QED
  BY <1>2, <1>3

AnyQuery == {[step |-> "idle"]} \cup [step : QuerySteps, lib : Libraries]

-----------------------------------------------------------------------------
(* The helpers the actions are built from.                                 *)

LEMMA GoesTyped ==
    ASSUME asking \in [Queries -> AnyQuery], NEW q \in Queries, asking[q].step # "idle",
           NEW step \in QuerySteps, Goes(q, step)
    PROVE  /\ asking' \in [Queries -> AnyQuery]
           /\ asking'[q].step = step /\ asking'[q].lib = asking[q].lib
           /\ asking[q].lib \in Libraries
           /\ \A p \in Queries \ {q} : asking'[p] = asking[p]
<1>1. asking[q] \in [step : QuerySteps, lib : Libraries]
    BY DEF AnyQuery
<1>. DEFINE new == [asking[q] EXCEPT !.step = step]
<1>2. new \in [step : QuerySteps, lib : Libraries] /\ new.step = step /\ new.lib = asking[q].lib
    BY <1>1
<1>3. asking' = [asking EXCEPT ![q] = new]
    BY DEF Goes
<1>. HIDE DEF new
<1>. QED
    BY <1>1, <1>2, <1>3 DEF AnyQuery

LEMMA WarmTyped ==
    ASSUME warming \in [Loads -> [Libraries -> WarmSteps]],
           NEW n \in Loads, NEW l \in Libraries, NEW step \in WarmSteps, WarmTo(n, l, step)
    PROVE  /\ warming' \in [Loads -> [Libraries -> WarmSteps]]
           /\ warming'[n][l] = step
           /\ \A m \in Loads, k \in Libraries :
                 <<m, k>> # <<n, l>> => warming'[m][k] = warming[m][k]
BY DEF WarmTo

LEMMA LoadStepTyped ==
    ASSUME store \in [Libraries -> Entries], NEW l \in Libraries,
           NEW step, NEW next \in LoadSteps, LoadStep(l, step, next)
    PROVE  store' \in [Libraries -> Entries]
BY DEF LoadStep, Entries

KeepSteps == {"keep disk", "keep memory", "keep empty"}

LEMMA KeepTyped ==
    ASSUME index \in [Libraries -> Indexes], NEW l \in Libraries,
           NEW step \in KeepSteps, Keep(l, step)
    PROVE  /\ index' \in [Libraries -> Indexes]
           /\ \A k \in Libraries : index[k] # NoIndex => index'[k] # NoIndex
           /\ \A k \in Libraries \ registered : index'[k] = index[k]
<1>1. Kept(step) \in Indexes /\ Kept(step) # NoIndex
    BY DEF KeepSteps, Kept, Indexes, NoIndex
<1>. QED
    BY <1>1 DEF Keep

-----------------------------------------------------------------------------
LEMMA StepOnTypes ==
    ASSUME TypeOK, [Next]_vars
    PROVE  TypeOK'
<1>. USE LibraryAssumption
<1>. USE DEF AnyQuery
<1>1. CASE UNCHANGED vars
    BY <1>1 DEF TypeOK, vars, regVars
<1>2. CASE RegisterGraph
  <2>1. load' \in Loads /\ load' \in 0..Len(LoadedGraphs)
    BY <1>2, GraphsTyped DEF TypeOK, RegisterGraph
  <2>2. registered' \subseteq Libraries /\ graph' \subseteq Libraries
    BY <1>2, <2>1, GraphsTyped DEF TypeOK, RegisterGraph
  <2>3. /\ index' \in [Libraries -> Indexes]
        /\ \A l \in Libraries \ registered' : index'[l] = NoIndex
    BY <1>2 DEF TypeOK, RegisterGraph, Indexes, NoIndex
  <2>. QED
    BY <1>2, <2>1, <2>2, <2>3 DEF TypeOK, RegisterGraph
<1>3. CASE WriteGraph
  <2>1. load \in Loads /\ LoadedGraphs[load] \subseteq Libraries
    BY <1>3, GraphsTyped DEF TypeOK, WriteGraph
  <2>2. warming' \in [Loads -> [Libraries -> WarmSteps]]
    BY <1>3, <2>1 DEF TypeOK, WriteGraph, WarmSteps
  <2>. QED
    BY <1>3, <2>1, <2>2 DEF TypeOK, WriteGraph, regVars
<1>4. ASSUME NEW q \in Queries, Ask(q)
      PROVE  TypeOK'
  <2>1. PICK l \in graph : asking' = [asking EXCEPT ![q] = At("name", l)]
    BY <1>4 DEF Ask
  <2>2. At("name", l) \in [step : QuerySteps, lib : Libraries]
    BY DEF TypeOK, At, QuerySteps
  <2>. QED
    BY <1>4, <2>1, <2>2 DEF TypeOK, Ask, regVars
<1>5. ASSUME NEW q \in Queries, NameIndex(q)
      PROVE  TypeOK'
  <2>1. PICK step \in {"index", "body"} : Goes(q, step)
    BY <1>5 DEF NameIndex
  <2>2. step \in QuerySteps /\ asking[q].step # "idle"
    BY <1>5 DEF NameIndex, QuerySteps
  <2>3. asking' \in [Queries -> AnyQuery]
    BY <2>1, <2>2, GoesTyped DEF TypeOK
  <2>. QED
    BY <1>5, <2>3 DEF TypeOK, NameIndex, regVars
<1>6. ASSUME NEW q \in Queries, NameIndexBody(q)
      PROVE  TypeOK'
  <2>1. PICK step \in {"panicked", "index", "meta"} : Goes(q, step)
    BY <1>6 DEF NameIndexBody
  <2>2. step \in QuerySteps /\ asking[q].step # "idle"
    BY <1>6 DEF NameIndexBody, QuerySteps, LoadSteps, Answers
  <2>3. asking' \in [Queries -> AnyQuery] /\ asking[q].lib \in Libraries
    BY <2>1, <2>2, GoesTyped DEF TypeOK
  <2>4. memo' \subseteq Libraries
    BY <1>6, <2>3 DEF TypeOK, NameIndexBody
  <2>. QED
    BY <1>6, <2>3, <2>4 DEF TypeOK, NameIndexBody, regVars
<1>7. ASSUME NEW q \in Queries, Unwind(q)
      PROVE  TypeOK'
  <2>1. "cancelled" \in QuerySteps /\ asking[q].step # "idle"
    BY <1>7 DEF Unwind, QuerySteps, Answers
  <2>2. asking' \in [Queries -> AnyQuery]
    BY <1>7, <2>1, GoesTyped DEF TypeOK, Unwind
  <2>. QED
    BY <1>7, <2>2 DEF TypeOK, Unwind, regVars
<1>8. ASSUME NEW q \in Queries, ReadRecord(q)
      PROVE  TypeOK'
  <2>1. PICK step \in {"record", "missing", "unresolved"} : Goes(q, step)
    BY <1>8 DEF ReadRecord
  <2>2. step \in QuerySteps /\ asking[q].step # "idle"
    BY <1>8 DEF ReadRecord, QuerySteps, Answers
  <2>3. asking' \in [Queries -> AnyQuery]
    BY <2>1, <2>2, GoesTyped DEF TypeOK
  <2>. QED
    BY <1>8, <2>3 DEF TypeOK, ReadRecord, regVars
<1>9. ASSUME NEW q \in Queries, QueryLoads(q)
      PROVE  TypeOK'
  <2>1. asking[q].step \in LoadSteps /\ asking[q].step # "idle" /\ asking[q].step \in QuerySteps
    BY <1>9 DEF QueryLoads, LoadSteps, QuerySteps
  <2>2. asking[q].lib \in Libraries
    BY <2>1 DEF TypeOK
  <2>3. CASE asking[q].step \in KeepSteps
    <3>1. "index" \in QuerySteps /\ Goes(q, "index")
      BY <1>9, <2>3 DEF QueryLoads, KeepSteps, QuerySteps
    <3>2. asking' \in [Queries -> AnyQuery]
      BY <2>1, <3>1, GoesTyped DEF TypeOK
    <3>3. /\ index' \in [Libraries -> Indexes] /\ registered' = registered
          /\ \A l \in Libraries \ registered : index'[l] = NoIndex
      BY <1>9, <2>2, <2>3, KeepTyped DEF TypeOK, QueryLoads, KeepSteps
    <3>. QED
      BY <1>9, <2>2, <2>3, <3>2, <3>3 DEF TypeOK, QueryLoads, KeepSteps
  <2>4. CASE asking[q].step \notin KeepSteps
    <3>1. PICK next \in LoadSteps : LoadStep(asking[q].lib, asking[q].step, next) /\ Goes(q, next)
      BY <1>9, <2>4 DEF QueryLoads, KeepSteps
    <3>2. asking' \in [Queries -> AnyQuery]
      BY <2>1, <3>1, GoesTyped DEF TypeOK, QuerySteps
    <3>3. store' \in [Libraries -> Entries]
      BY <2>2, <3>1, LoadStepTyped DEF TypeOK
    <3>. QED
      BY <1>9, <2>4, <3>2, <3>3 DEF TypeOK, QueryLoads, KeepSteps
  <2>. QED
    BY <2>3, <2>4
<1>10. ASSUME NEW n \in Loads, NEW l \in Libraries, StartWarm(n, l) \/ CountWarm(n, l)
       PROVE  TypeOK'
  <2>1. PICK step \in {"loaded", "meta", "collect", "counted"} : WarmTo(n, l, step)
    BY <1>10 DEF StartWarm, CountWarm
  <2>2. step \in WarmSteps
    BY DEF WarmSteps, LoadSteps
  <2>3. warming' \in [Loads -> [Libraries -> WarmSteps]]
    BY <2>1, <2>2, WarmTyped DEF TypeOK
  <2>. QED
    BY <1>10, <2>3 DEF TypeOK, StartWarm, CountWarm, regVars
<1>11. ASSUME NEW n \in Loads, NEW l \in Libraries, WarmLoads(n, l)
       PROVE  TypeOK'
  <2>1. CASE warming[n][l] \in KeepSteps
    <3>1. "loaded" \in WarmSteps /\ WarmTo(n, l, "loaded")
      BY <1>11, <2>1 DEF WarmLoads, KeepSteps, WarmSteps
    <3>2. warming' \in [Loads -> [Libraries -> WarmSteps]]
      BY <3>1, WarmTyped DEF TypeOK
    <3>3. /\ index' \in [Libraries -> Indexes] /\ registered' = registered
          /\ \A k \in Libraries \ registered : index'[k] = NoIndex
      BY <1>11, <2>1, KeepTyped DEF TypeOK, WarmLoads, KeepSteps
    <3>. QED
      BY <1>11, <2>1, <3>2, <3>3 DEF TypeOK, WarmLoads, KeepSteps
  <2>2. CASE warming[n][l] \notin KeepSteps
    <3>1. PICK next \in LoadSteps : LoadStep(l, warming[n][l], next) /\ WarmTo(n, l, next)
      BY <1>11, <2>2 DEF WarmLoads, KeepSteps
    <3>2. warming' \in [Loads -> [Libraries -> WarmSteps]]
      BY <3>1, WarmTyped DEF TypeOK, WarmSteps
    <3>3. store' \in [Libraries -> Entries]
      BY <3>1, LoadStepTyped DEF TypeOK
    <3>. QED
      BY <1>11, <2>2, <3>2, <3>3 DEF TypeOK, WarmLoads, KeepSteps
  <2>. QED
    BY <2>1, <2>2
<1>12. ASSUME NEW n \in Loads, NEW l \in Libraries, CollectStale(n, l)
       PROVE  TypeOK'
  <2>1. warming' \in [Loads -> [Libraries -> WarmSteps]]
    BY <1>12, WarmTyped DEF TypeOK, CollectStale, WarmSteps
  <2>2. stale' \in [Loads -> SUBSET Libraries]
    BY <1>12 DEF TypeOK, CollectStale
  <2>. QED
    BY <1>12, <2>1, <2>2 DEF TypeOK, CollectStale, regVars
<1>13. ASSUME NEW n \in Loads, NEW l \in Libraries, DeleteStale(n, l)
       PROVE  TypeOK'
  <2>1. warming' \in [Loads -> [Libraries -> WarmSteps]]
    BY <1>13, WarmTyped DEF TypeOK, DeleteStale, WarmSteps
  <2>2. store' \in [Libraries -> Entries]
    BY <1>13 DEF TypeOK, DeleteStale, Entries
  <2>. QED
    BY <1>13, <2>1, <2>2 DEF TypeOK, DeleteStale, regVars
<1>. QED
  BY <1>1, <1>2, <1>3, <1>4, <1>5, <1>6, <1>7, <1>8, <1>9, <1>10, <1>11, <1>12, <1>13
     DEF Next, QueryStep, WarmStep

LEMMA InitTyped == Init => TypeOK
BY LibraryAssumption
   DEF Init, TypeOK, Entries, Indexes, NoIndex, WarmSteps, QuerySteps, Loads

(* The types are invariant, and only a registered library has an index: a  *)
(* load that ends after the reload that dropped its library stores nothing *)
(* (ensure_loaded, HirState::set_libraries).                               *)
THEOREM TypeCorrect == Spec => []TypeOK
BY InitTyped, StepOnTypes, PTL DEF Spec

-----------------------------------------------------------------------------
LEMMA IndexStays ==
    ASSUME TypeOK, Next
    PROVE  \A l \in registered \cap registered' : index[l] # NoIndex => index'[l] # NoIndex
<1>. SUFFICES ASSUME NEW l \in registered \cap registered', index[l] # NoIndex
              PROVE  index'[l] # NoIndex
  OBVIOUS
<1>1. l \in Libraries
  BY DEF TypeOK
<1>2. CASE index' = index
  BY <1>2
<1>3. CASE RegisterGraph
  BY <1>1, <1>3 DEF RegisterGraph
<1>4. ASSUME NEW q \in Queries, QueryLoads(q), asking[q].step \in KeepSteps
      PROVE  index'[l] # NoIndex
  <2>1. asking[q] \in [step : QuerySteps, lib : Libraries]
    <3>1. asking[q].step # "idle"
      BY <1>4 DEF KeepSteps
    <3>. QED
      BY <3>1 DEF TypeOK
  <2>2. asking[q].lib \in Libraries /\ Keep(asking[q].lib, asking[q].step)
    BY <1>4, <2>1 DEF QueryLoads, KeepSteps
  <2>. QED
    BY <1>1, <1>4, <2>2, KeepTyped DEF TypeOK
<1>5. ASSUME NEW n \in Loads, NEW k \in Libraries, WarmLoads(n, k), warming[n][k] \in KeepSteps
      PROVE  index'[l] # NoIndex
  BY <1>1, <1>5, KeepTyped DEF TypeOK, WarmLoads, KeepSteps
<1>6. \/ index' = index \/ RegisterGraph
      \/ \E q \in Queries : QueryLoads(q) /\ asking[q].step \in KeepSteps
      \/ \E n \in Loads, k \in Libraries : WarmLoads(n, k) /\ warming[n][k] \in KeepSteps
  BY DEF Next, QueryStep, WarmStep, WriteGraph, Ask, NameIndex, NameIndexBody, Unwind,
         QueryLoads, ReadRecord, StartWarm, WarmLoads, CountWarm, CollectStale, DeleteStale,
         regVars, KeepSteps
<1>. QED
  BY <1>2, <1>3, <1>4, <1>5, <1>6

(* A reload keeps the index of every library it registers again, and no    *)
(* query, warmup or prune takes one away (HirState::set_libraries,         *)
(* ensure_loaded): what a session has loaded once it does not parse again. *)
THEOREM IndexesAreKept == Spec => ReloadKeepsIndexes
<1>1. TypeOK /\ [Next]_vars =>
          [\A l \in registered \cap registered' : index[l] # NoIndex => index'[l] # NoIndex]_vars
  BY IndexStays
<1>. QED
  BY <1>1, TypeCorrect, PTL DEF Spec, ReloadKeepsIndexes

-----------------------------------------------------------------------------
(* The job that prunes is the last one of its warmup: the counter of a     *)
(* warmup lets one job through, and only when every library of that graph  *)
(* is loaded (warmup_libraries).                                           *)
THEOREM PruneIsLast == Spec => []PruneEndsWarmup
<1>1. Init => PruneEndsWarmup
  BY DEF Init, PruneEndsWarmup
<1>2. ASSUME TypeOK, PruneEndsWarmup, [Next]_vars
      PROVE  PruneEndsWarmup'
  <2>1. CASE warming' = warming
    BY <1>2, <2>1 DEF PruneEndsWarmup, Warmed
  <2>2. CASE WriteGraph
    <3>1. \A l \in Libraries : warming'[load][l] \in {"queued", "none"}
      BY <1>2, <2>2 DEF TypeOK, WriteGraph
    <3>2. \A n \in Loads \ {load} : warming'[n] = warming[n]
      BY <1>2, <2>2 DEF TypeOK, WriteGraph
    <3>. QED
      BY <1>2, <3>1, <3>2 DEF PruneEndsWarmup, Warmed
  <2>3. ASSUME NEW n \in Loads, NEW l \in Libraries, NEW step \in WarmSteps, WarmTo(n, l, step),
               step \in {"collect", "delete"} => \A k \in Libraries \ {l} : Warmed(n, k),
               ~Warmed(n, l)
        PROVE  PruneEndsWarmup'
    <3>1. /\ warming'[n][l] = step
          /\ \A m \in Loads, k \in Libraries :
                <<m, k>> # <<n, l>> => warming'[m][k] = warming[m][k]
      BY <1>2, <2>3, WarmTyped DEF TypeOK
    <3>. SUFFICES ASSUME NEW m \in Loads, NEW k \in Libraries, NEW j \in Libraries \ {k},
                         warming'[m][k] \in {"collect", "delete"}
                  PROVE  Warmed(m, j)'
      BY DEF PruneEndsWarmup
    <3>2. CASE m # n
      BY <1>2, <3>1, <3>2 DEF PruneEndsWarmup, Warmed
    <3>3. CASE m = n /\ k = l
      BY <2>3, <3>1, <3>3 DEF Warmed
    <3>4. CASE m = n /\ k # l
      BY <1>2, <2>3, <3>1, <3>4 DEF PruneEndsWarmup, Warmed
    <3>. QED
      BY <3>2, <3>3, <3>4
  <2>4. ASSUME NEW n \in Loads, NEW l \in Libraries, WarmStep(n, l)
        PROVE  PruneEndsWarmup'
    <3>1. ~Warmed(n, l)
      BY <2>4 DEF WarmStep, StartWarm, WarmLoads, CountWarm, CollectStale, DeleteStale,
                  Warmed, LoadSteps
    <3>2. \E step \in WarmSteps :
             /\ WarmTo(n, l, step)
             /\ step \in {"collect", "delete"} => \A k \in Libraries \ {l} : Warmed(n, k)
      <4>1. CASE StartWarm(n, l)
        <5>1. \E step \in {"loaded", "meta"} : WarmTo(n, l, step)
          BY <4>1 DEF StartWarm
        <5>. QED
          BY <5>1 DEF WarmSteps, LoadSteps
      <4>2. CASE WarmLoads(n, l)
        <5>1. \E step \in LoadSteps \cup {"loaded"} : WarmTo(n, l, step)
          BY <4>2 DEF WarmLoads
        <5>. QED
          BY <5>1 DEF WarmSteps, LoadSteps
      <4>3. CASE CountWarm(n, l)
        BY <4>3 DEF CountWarm, WarmSteps
      <4>4. CASE CollectStale(n, l)
        BY <1>2, <4>4 DEF CollectStale, WarmSteps, PruneEndsWarmup
      <4>5. CASE DeleteStale(n, l)
        BY <4>5 DEF DeleteStale, WarmSteps
      <4>. QED
        BY <2>4, <4>1, <4>2, <4>3, <4>4, <4>5 DEF WarmStep
    <3>. QED
      BY <2>3, <3>1, <3>2
  <2>. QED
    BY <1>2, <2>1, <2>2, <2>4
       DEF Next, QueryStep, vars, RegisterGraph, Ask, NameIndex, NameIndexBody, Unwind,
           QueryLoads, ReadRecord
<1>. QED
  BY <1>1, <1>2, TypeCorrect, PTL DEF Spec

-----------------------------------------------------------------------------
(***************************************************************************)
(* A query finds its library unregistered only during a reload.  The       *)
(* invariant: the registry is the graph last applied; the graph a snapshot *)
(* sees is that one or, while it is applied, the one before; and a query   *)
(* under way is about a library of it, since the graph is not written      *)
(* before every snapshot is dropped.                                       *)
(***************************************************************************)
Covered ==
    /\ registered = IF load = 0 THEN {} ELSE LoadedGraphs[load]
    /\ graph = registered \/ (loop = "apply" /\ load \in 2..load /\ graph = LoadedGraphs[load - 1])
    /\ \A q \in Queries : SnapshotAlive(q) => asking[q].lib \in graph

(* A query is moved by its own steps only. *)
LEMMA OthersStay ==
    ASSUME TypeOK, Next, NEW q \in Queries, ~QueryStep(q)
    PROVE  \/ asking'[q] = asking[q]
           \/ asking[q].step = "idle" /\ \E l \in graph : asking'[q] = At("name", l)
<1>1. ASSUME NEW p \in Queries, Ask(p)
      PROVE  \/ asking'[q] = asking[q]
             \/ asking[q].step = "idle" /\ \E l \in graph : asking'[q] = At("name", l)
  BY <1>1 DEF Ask, TypeOK
<1>2. ASSUME NEW p \in Queries, QueryStep(p)
      PROVE  asking'[q] = asking[q]
  <2>1. p # q
    BY <1>2
  <2>2. \E step \in QuerySteps : Goes(p, step)
    BY <1>2 DEF QueryStep, NameIndex, NameIndexBody, Unwind, QueryLoads, ReadRecord,
                QuerySteps, LoadSteps, Answers
  <2>. QED
    BY <2>1, <2>2 DEF Goes, TypeOK
<1>3. CASE asking' = asking
  BY <1>3
<1>. QED
  BY <1>1, <1>2, <1>3
     DEF Next, RegisterGraph, WriteGraph, WarmStep, StartWarm, WarmLoads, CountWarm,
         CollectStale, DeleteStale

(* What a step of a query does to it. *)
LEMMA QueryGoes ==
    ASSUME TypeOK, NEW q \in Queries, QueryStep(q)
    PROVE  /\ SnapshotAlive(q) /\ asking[q].lib \in Libraries /\ asking'[q].lib = asking[q].lib
           /\ UNCHANGED <<loop, load, graph, registered>>
<1>1. SnapshotAlive(q) /\ asking[q].step # "idle"
  BY DEF QueryStep, NameIndex, NameIndexBody, Unwind, QueryLoads, ReadRecord, LoadSteps,
         SnapshotAlive, Answers
<1>2. \E step \in QuerySteps : Goes(q, step)
  BY DEF QueryStep, NameIndex, NameIndexBody, Unwind, QueryLoads, ReadRecord,
         QuerySteps, LoadSteps, Answers
<1>3. UNCHANGED <<loop, load, graph, registered>>
  BY DEF QueryStep, NameIndex, NameIndexBody, Unwind, QueryLoads, ReadRecord, regVars
<1>. QED
  BY <1>1, <1>2, <1>3, GoesTyped DEF TypeOK, AnyQuery

LEMMA CoveredKept ==
    ASSUME TypeOK, Covered, [Next]_vars
    PROVE  Covered'
<1>1. CASE UNCHANGED vars
  BY <1>1 DEF Covered, SnapshotAlive, vars, regVars
<1>2. CASE RegisterGraph
  <2>1. load \in Nat /\ load' = load + 1 /\ loop' = "apply" /\ UNCHANGED asking
    BY <1>2, GraphsTyped DEF RegisterGraph, TypeOK
  <2>2. registered' = LoadedGraphs[load'] /\ graph = registered /\ load' # 0
    BY <1>2, <2>1 DEF RegisterGraph, Covered
  <2>3. CASE load = 0
    <3>1. graph = {} /\ graph' = registered'
      BY <1>2, <2>2, <2>3 DEF RegisterGraph, Covered
    <3>2. \A q \in Queries : ~SnapshotAlive(q)
      BY <3>1 DEF Covered
    <3>. QED
      BY <2>1, <2>2, <3>1, <3>2 DEF Covered, SnapshotAlive
  <2>4. CASE load # 0
    <3>1. graph' = graph /\ graph' = LoadedGraphs[load' - 1] /\ load' \in 2..load'
      BY <1>2, <2>1, <2>2, <2>4 DEF RegisterGraph, Covered
    <3>. QED
      BY <2>1, <2>2, <3>1 DEF Covered, SnapshotAlive
  <2>. QED
    BY <2>3, <2>4
<1>3. CASE WriteGraph
  <2>1. load # 0 /\ UNCHANGED <<load, registered, asking>> /\ graph' = LoadedGraphs[load]
    BY <1>3, GraphsTyped DEF WriteGraph, TypeOK, regVars
  <2>2. \A q \in Queries : ~SnapshotAlive(q)
    BY <1>3 DEF WriteGraph
  <2>. QED
    BY <2>1, <2>2 DEF Covered, SnapshotAlive
<1>4. ASSUME UNCHANGED <<loop, load, graph, registered>>,
             \A q \in Queries : SnapshotAlive(q)' => asking'[q].lib \in graph
      PROVE  Covered'
  BY <1>4 DEF Covered
<1>5. ASSUME NEW q \in Queries, Ask(q) \/ QueryStep(q)
      PROVE  Covered'
  <2>1. UNCHANGED <<loop, load, graph, registered>>
    BY <1>5, QueryGoes DEF Ask, regVars
  <2>2. ASSUME NEW p \in Queries, SnapshotAlive(p)'
        PROVE  asking'[p].lib \in graph
    <3>1. CASE QueryStep(p)
      BY <3>1, QueryGoes DEF Covered
    <3>2. CASE ~QueryStep(p) /\ asking'[p] = asking[p]
      BY <2>2, <3>2 DEF Covered, SnapshotAlive
    <3>3. CASE \E l \in graph : asking'[p] = At("name", l)
      BY <3>3 DEF At
    <3>4. Next
      BY <1>5 DEF Next
    <3>. QED
      BY <3>1, <3>2, <3>3, <3>4, OthersStay
  <2>. QED
    BY <1>4, <2>1, <2>2
<1>6. ASSUME NEW n \in Loads, NEW l \in Libraries, WarmStep(n, l)
      PROVE  Covered'
  <2>1. UNCHANGED <<loop, load, graph, registered, asking>>
    BY <1>6 DEF WarmStep, StartWarm, WarmLoads, CountWarm, CollectStale, DeleteStale, regVars
  <2>. QED
    BY <1>4, <2>1 DEF Covered, SnapshotAlive
<1>. QED
  BY <1>1, <1>2, <1>3, <1>5, <1>6 DEF Next

LEMMA CoveredAlways == Spec => []Covered
<1>1. Init => Covered
  BY DEF Init, Covered, SnapshotAlive
<1>. QED
  BY <1>1, CoveredKept, TypeCorrect, PTL DEF Spec

(* The steps that end a query in a panic or without its record. *)
LEMMA WhoReaches ==
    ASSUME TypeOK, Next, NEW q \in Queries, NEW step \in {"panicked", "missing"},
           Reaches(q, step)
    PROVE  /\ step = "panicked" => NameIndexBody(q)
           /\ step = "missing" => ReadRecord(q)
<1>1. QueryStep(q)
  <2>1. asking'[q].step = step /\ asking'[q] # asking[q]
    BY DEF Reaches
  <2>2. \A l : At("name", l).step # step
    BY DEF At
  <2>. QED
    BY <2>1, <2>2, OthersStay
<1>2. PICK to \in QuerySteps : Goes(q, to) /\ (\/ NameIndexBody(q) /\ to # "missing"
                                               \/ ReadRecord(q) /\ to # "panicked"
                                               \/ to \notin {"panicked", "missing"})
  <2>1. CASE NameIndex(q)
    BY <2>1 DEF NameIndex, QuerySteps
  <2>2. CASE NameIndexBody(q)
    <3>1. \E to \in {"panicked", "index", "meta"} : Goes(q, to)
      BY <2>2 DEF NameIndexBody
    <3>. QED
      BY <2>2, <3>1 DEF QuerySteps, LoadSteps, Answers
  <2>3. CASE Unwind(q)
    BY <2>3 DEF Unwind, QuerySteps, Answers
  <2>4. CASE QueryLoads(q)
    <3>1. \E to \in LoadSteps \cup {"index"} : Goes(q, to)
      BY <2>4 DEF QueryLoads
    <3>2. \A to \in LoadSteps \cup {"index"} : to \in QuerySteps /\ to \notin {"panicked", "missing"}
      BY DEF QuerySteps, LoadSteps
    <3>. QED
      BY <3>1, <3>2
  <2>5. CASE ReadRecord(q)
    BY <2>5 DEF ReadRecord, QuerySteps, Answers
  <2>. QED
    BY <1>1, <2>1, <2>2, <2>3, <2>4, <2>5 DEF QueryStep
<1>3. asking'[q].step = to
  <2>1. asking[q].step # "idle"
    BY <1>1, QueryGoes DEF SnapshotAlive
  <2>. QED
    BY <1>2, <2>1, GoesTyped DEF TypeOK, AnyQuery
<1>. QED
  BY <1>2, <1>3 DEF Reaches

(* However reloads that drop, add and bring back libraries, warmups and    *)
(* queries interleave, library_name_index_query finds its library          *)
(* unregistered only between the two halves of the set_project_graph that  *)
(* drops it, and that reload then waits for the query's snapshot.          *)
THEOREM PanicsAreReloads == Spec => PanicsOnlyInReload
<1>. DEFINE Only == \A q \in Queries : Reaches(q, "panicked") =>
                        WritePending /\ asking[q].lib \in graph \ registered
<1>1. ASSUME TypeOK, Covered, Next, NEW q \in Queries, Reaches(q, "panicked")
      PROVE  WritePending /\ asking[q].lib \in graph \ registered
  <2>1. NameIndexBody(q)
    BY <1>1, WhoReaches
  <2>2. SnapshotAlive(q) /\ asking[q].lib \in graph
    BY <1>1, <2>1 DEF NameIndexBody, SnapshotAlive, Answers, Covered
  <2>3. asking[q].lib \notin registered
    <3>1. asking[q].lib \in registered => \E step \in {"index", "meta"} : Goes(q, step)
      BY <2>1 DEF NameIndexBody
    <3>2. \A step \in {"index", "meta"} : Goes(q, step) => asking'[q].step = step
      BY <1>1 DEF Goes, TypeOK
    <3>. QED
      BY <1>1, <3>1, <3>2 DEF Reaches
  <2>. QED
    BY <1>1, <2>2, <2>3 DEF Covered, WritePending
<1>2. TypeOK /\ Covered /\ [Next]_vars => [Only]_vars
  BY <1>1
<1>. QED
  BY <1>2, TypeCorrect, CoveredAlways, PTL DEF Spec, PanicsOnlyInReload

-----------------------------------------------------------------------------
(***************************************************************************)
(* A class that resolved has its record.  A name index outlives every      *)
(* reload, so what it stands for may never go: the invariant says that a   *)
(* memo has its index unless the library was dropped, that an index kept   *)
(* on disk has its entry unless the prune of another graph collected it,   *)
(* and that a loader holds what its next step relies on.                   *)
(***************************************************************************)
Standing(l) == index[l] # NoIndex \/ Dropped(l)
Stored(l) == store[l] # "absent" \/ PrunedElsewhere(l)

(* What a loader of l that is to take `step` next relies on. *)
Sound(step, l) ==
    /\ step \in {"touch", "keep disk"} => Stored(l)
    /\ step = "keep empty" => l \in Broken
    /\ step = "index" => Standing(l)

IndexInv ==
    \A l \in Libraries : /\ index[l] = "empty" => l \in Broken
                         /\ index[l] = "disk" => Stored(l)

MemoInv == \A l \in memo : Standing(l)
QueryInv == \A q \in Queries : SnapshotAlive(q) => Sound(asking[q].step, asking[q].lib)
WarmInv == \A n \in Loads, l \in Libraries : Sound(warming[n][l], l)

(* The prune of a graph collects once, and nothing of that graph. *)
PruneInv ==
    /\ \A n \in Loads : stale[n] \cap LoadedGraphs[n] = {}
    /\ \A n \in Loads, l \in Libraries :
            warming[n][l] \notin {"none", "counted", "delete"} => stale[n] = {}
    /\ \A n \in Loads : n > load \/ (n = load /\ loop = "apply") =>
            stale[n] = {} /\ \A l \in Libraries : warming[n][l] = "none"

RecordInv == PruneInv /\ IndexInv /\ MemoInv /\ QueryInv /\ WarmInv

-----------------------------------------------------------------------------
(* What was dropped or pruned stays so. *)

LEMMA LoadGrows ==
    ASSUME TypeOK, [Next]_vars
    PROVE  /\ load \in Nat /\ load' \in Nat /\ load' >= load
           /\ \A l : Dropped(l) => Dropped(l)'
<1>0. load \in Nat
  BY GraphsTyped DEF TypeOK
<1>1. load' = load \/ load' = load + 1
  <2>1. RegisterGraph => load' = load + 1
    BY DEF RegisterGraph
  <2>2. WriteGraph \/ UNCHANGED vars => load' = load
    BY DEF WriteGraph, vars
  <2>3. \A q \in Queries : Ask(q) \/ QueryStep(q) => load' = load
    BY QueryGoes DEF Ask
  <2>4. \A n \in Loads, l \in Libraries : WarmStep(n, l) => load' = load
    BY DEF WarmStep, StartWarm, WarmLoads, CountWarm, CollectStale, DeleteStale
  <2>. QED
    BY <2>1, <2>2, <2>3, <2>4 DEF Next
<1>2. load' \in Nat /\ load' >= load /\ 2..load \subseteq 2..load'
  BY <1>0, <1>1
<1>. QED
  BY <1>0, <1>2 DEF Dropped

(* A library a snapshot sees but the registry does not have was dropped. *)
LEMMA GoneIsDropped ==
    ASSUME Covered, NEW l \in graph, l \notin registered
    PROVE  Dropped(l)
<1>1. load \in 2..load /\ graph = LoadedGraphs[load - 1] /\ registered = LoadedGraphs[load]
  BY DEF Covered
<1>. QED
  BY <1>1 DEF Dropped

LEMMA StandingStays ==
    ASSUME TypeOK, Covered, [Next]_vars, NEW l \in Libraries, Standing(l)
    PROVE  Standing(l)'
<1>1. CASE Dropped(l)
  BY <1>1, LoadGrows DEF Standing
<1>2. CASE UNCHANGED vars
  BY <1>2 DEF vars, regVars, Standing, Dropped
<1>3. CASE Next /\ index[l] # NoIndex
  <2>1. l \in registered
    BY <1>3 DEF TypeOK
  <2>2. CASE l \in registered'
    BY <1>3, <2>1, <2>2, IndexStays DEF Standing
  <2>3. CASE l \notin registered'
    <3>1. RegisterGraph
      BY <1>3, <2>1, <2>3, QueryGoes
         DEF Next, WriteGraph, Ask, WarmStep, StartWarm, WarmLoads, CountWarm, CollectStale,
             DeleteStale, regVars
    <3>2. load \in Nat /\ load # 0 /\ load' = load + 1
      BY <2>1, <3>1, GraphsTyped DEF RegisterGraph, TypeOK, Covered
    <3>3. load' \in 2..load' /\ load' - 1 = load
      BY <3>2
    <3>4. l \in LoadedGraphs[load' - 1] \ LoadedGraphs[load']
      BY <2>1, <2>3, <3>1, <3>2, <3>3 DEF RegisterGraph, Covered
    <3>. QED
      BY <3>3, <3>4 DEF Standing, Dropped
  <2>. QED
    BY <2>2, <2>3
<1>. QED
  BY <1>1, <1>2, <1>3 DEF Standing

LEMMA WarmGoes ==
    ASSUME NEW n \in Loads, NEW l \in Libraries, WarmStep(n, l)
    PROVE  \E step \in WarmSteps : WarmTo(n, l, step)
<1>1. CASE WarmLoads(n, l)
  <2>1. \E step \in LoadSteps \cup {"loaded"} : WarmTo(n, l, step)
    BY <1>1 DEF WarmLoads
  <2>. QED
    BY <2>1 DEF WarmSteps
<1>2. CASE ~WarmLoads(n, l)
  <2>1. \E step \in {"loaded", "meta", "collect", "delete", "counted"} : WarmTo(n, l, step)
    BY <1>2 DEF WarmStep, StartWarm, CountWarm, CollectStale, DeleteStale
  <2>. QED
    BY <2>1 DEF WarmSteps, LoadSteps
<1>. QED
  BY <1>1, <1>2

LEMMA PruneKept ==
    ASSUME TypeOK, PruneEndsWarmup, PruneInv, [Next]_vars
    PROVE  /\ PruneInv'
           /\ \A l \in Libraries : PrunedElsewhere(l) => PrunedElsewhere(l)'
<1>1. load \in Nat /\ load' >= load /\ load' \in Nat
  BY LoadGrows
<1>2. CASE UNCHANGED <<warming, stale>> /\ ~WriteGraph
  <2>1. \A n \in Loads : n > load' \/ (n = load' /\ loop' = "apply") =>
            n > load \/ (n = load /\ loop = "apply")
    <3>1. CASE RegisterGraph
      BY <1>1, <3>1, GraphsTyped DEF RegisterGraph
    <3>2. CASE UNCHANGED <<loop, load>>
      BY <3>2
    <3>. QED
      BY <1>2, <3>1, <3>2, QueryGoes
         DEF Next, Ask, WarmStep, StartWarm, WarmLoads, CountWarm, CollectStale, DeleteStale, vars
  <2>. QED
    BY <1>2, <2>1 DEF PruneInv, PrunedElsewhere
<1>3. CASE WriteGraph
  <2>1. load \in Loads /\ UNCHANGED <<load, stale>> /\ loop' = "select" /\ loop = "apply"
    BY <1>3 DEF WriteGraph, TypeOK
  <2>2. \A n \in Loads \ {load} : warming'[n] = warming[n]
    BY <1>3, <2>1 DEF TypeOK, WriteGraph
  <2>3. stale[load] = {}
    BY <2>1 DEF PruneInv
  <2>4. \A n \in Loads : n > load' \/ (n = load' /\ loop' = "apply") => n # load /\ n > load
    BY <1>1, <2>1, GraphsTyped
  <2>. QED
    BY <2>1, <2>2, <2>3, <2>4 DEF PruneInv, PrunedElsewhere
<1>4. ASSUME NEW n \in Loads, NEW l \in Libraries, WarmStep(n, l)
      PROVE  /\ PruneInv' /\ \A k \in Libraries : PrunedElsewhere(k) => PrunedElsewhere(k)'
  <2>1. warming[n][l] \notin {"none", "counted"} /\ UNCHANGED <<loop, load>>
    BY <1>4 DEF WarmStep, StartWarm, WarmLoads, CountWarm, CollectStale, DeleteStale, LoadSteps
  <2>2. ~(n > load \/ (n = load /\ loop = "apply"))
    BY <2>1 DEF PruneInv
  <2>0. \A m \in Loads, k \in Libraries : <<m, k>> # <<n, l>> => warming'[m][k] = warming[m][k]
    BY <1>4, WarmGoes, WarmTyped DEF TypeOK
  <2>3. \A m \in Loads \ {n}, k \in Libraries : warming'[m][k] = warming[m][k]
    BY <2>0
  <2>4. \A k \in Libraries \ {l} : warming'[n][k] = warming[n][k]
    BY <2>0
  <2>5. CASE CollectStale(n, l)
    <3>0. warming[n][l] = "collect" /\ WarmTo(n, l, "delete") /\ "delete" \in WarmSteps
      BY <2>5 DEF CollectStale, WarmSteps
    <3>1. stale[n] = {} /\ warming'[n][l] = "delete"
      BY <3>0, WarmTyped DEF PruneInv, TypeOK
    <3>2. /\ \A m \in Loads \ {n} : stale'[m] = stale[m]
          /\ stale'[n] \cap LoadedGraphs[n] = {}
      BY <2>5 DEF CollectStale, TypeOK
    <3>3. \A k \in Libraries \ {l} : warming'[n][k] \in {"none", "counted"}
      BY <2>4, <2>5 DEF CollectStale, PruneEndsWarmup, Warmed
    <3>4. \A k \in Libraries : PrunedElsewhere(k) => PrunedElsewhere(k)'
      BY <3>1, <3>2 DEF PrunedElsewhere
    <3>. QED
      BY <2>1, <2>2, <2>3, <3>1, <3>2, <3>3, <3>4 DEF PruneInv
  <2>6. CASE DeleteStale(n, l)
    <3>0. stale' = stale /\ WarmTo(n, l, "counted") /\ "counted" \in WarmSteps
      BY <2>6 DEF DeleteStale, WarmSteps
    <3>1. warming'[n][l] = "counted" /\ stale' = stale
      BY <3>0, WarmTyped DEF TypeOK
    <3>. QED
      BY <2>1, <2>2, <2>3, <2>4, <3>1 DEF PruneInv, PrunedElsewhere
  <2>7. CASE StartWarm(n, l) \/ WarmLoads(n, l) \/ CountWarm(n, l)
    <3>1. stale' = stale /\ warming[n][l] # "delete"
      BY <2>7 DEF StartWarm, WarmLoads, CountWarm, LoadSteps
    <3>2. stale[n] = {}
      BY <2>1, <3>1 DEF PruneInv
    <3>. QED
      BY <2>1, <2>2, <2>3, <3>1, <3>2 DEF PruneInv, PrunedElsewhere
  <2>. QED
    BY <1>4, <2>5, <2>6, <2>7 DEF WarmStep
<1>5. ASSUME ~WriteGraph, \A n \in Loads, l \in Libraries : ~WarmStep(n, l)
      PROVE  UNCHANGED <<warming, stale>>
  BY <1>5 DEF Next, RegisterGraph, Ask, QueryStep, NameIndex, NameIndexBody, Unwind, QueryLoads,
              ReadRecord, vars
<1>. QED
  BY <1>2, <1>3, <1>4, <1>5

LEMMA StoredStays ==
    ASSUME TypeOK, PruneEndsWarmup, PruneInv, [Next]_vars, NEW l \in Libraries, Stored(l)
    PROVE  Stored(l)'
<1>1. PrunedElsewhere(l) => PrunedElsewhere(l)'
  BY PruneKept
<1>2. CASE store' = store
  BY <1>1, <1>2 DEF Stored
<1>3. ASSUME NEW k \in Libraries, NEW step \in LoadSteps, NEW next \in LoadSteps,
             LoadStep(k, step, next)
      PROVE  store[l] # "absent" => store'[l] # "absent"
  BY <1>3 DEF LoadStep, TypeOK, Entries
<1>4. ASSUME NEW n \in Loads, NEW k \in Libraries, DeleteStale(n, k)
      PROVE  store[l] # "absent" => store'[l] # "absent" \/ PrunedElsewhere(l)
  BY <1>4 DEF DeleteStale, PruneInv, PrunedElsewhere
<1>5. ASSUME NEW q \in Queries, QueryLoads(q)
      PROVE  store[l] # "absent" => store'[l] # "absent"
  <2>1. asking[q].lib \in Libraries /\ asking[q].step \in LoadSteps
    BY <1>5, QueryGoes DEF QueryStep, QueryLoads
  <2>. QED
    BY <1>3, <1>5, <2>1 DEF QueryLoads
<1>6. ASSUME NEW n \in Loads, NEW k \in Libraries, WarmLoads(n, k)
      PROVE  store[l] # "absent" => store'[l] # "absent"
  BY <1>3, <1>6 DEF WarmLoads
<1>7. \/ store' = store \/ \E q \in Queries : QueryLoads(q)
      \/ \E n \in Loads, k \in Libraries : WarmLoads(n, k) \/ DeleteStale(n, k)
  BY DEF Next, QueryStep, WarmStep, RegisterGraph, WriteGraph, Ask, NameIndex, NameIndexBody,
         Unwind, ReadRecord, StartWarm, CountWarm, CollectStale, vars
<1>. QED
  BY <1>1, <1>2, <1>4, <1>5, <1>6, <1>7 DEF Stored

(* What a loader relies on stays, whoever else takes a step. *)
LEMMA SoundStays ==
    ASSUME TypeOK, Covered, PruneEndsWarmup, PruneInv, [Next]_vars,
           NEW l \in Libraries, NEW step, Sound(step, l)
    PROVE  Sound(step, l)'
BY StandingStays, StoredStays DEF Sound

-----------------------------------------------------------------------------
(* The steps of a load_or_build. *)

LEMMA LoadStepSound ==
    ASSUME TypeOK, NEW l \in Libraries, NEW step \in LoadSteps, NEW next \in LoadSteps,
           LoadStep(l, step, next), Sound(step, l), Stored(l) => Stored(l)'
    PROVE  Sound(next, l)'
<1>1. next # "index"
  BY DEF LoadSteps
<1>2. next \in {"touch", "keep disk"} => Stored(l)
  BY DEF LoadStep, Sound, Stored
<1>3. next = "keep empty" => l \in Broken
  BY DEF LoadStep
<1>. QED
  BY <1>1, <1>2, <1>3 DEF Sound

LEMMA KeepSound ==
    ASSUME TypeOK, Covered, PruneEndsWarmup, PruneInv, IndexInv, [Next]_vars,
           NEW l \in Libraries, NEW step \in KeepSteps, Sound(step, l), Keep(l, step)
    PROVE  IndexInv' /\ (l \in registered => index'[l] # NoIndex)
<1>1. /\ Kept(step) \in Indexes /\ Kept(step) # NoIndex
      /\ Kept(step) = "empty" => step = "keep empty"
      /\ Kept(step) = "disk" => step = "keep disk"
  BY DEF KeepSteps, Kept, Indexes, NoIndex
<1>2. \A k \in Libraries : index'[k] = index[k] \/ (k = l /\ index'[k] = Kept(step))
  BY DEF Keep, TypeOK
<1>3. \A k \in Libraries : Stored(k) => Stored(k)'
  BY StoredStays
<1>4. IndexInv'
  BY <1>1, <1>2, <1>3 DEF IndexInv, Sound
<1>5. l \in registered => index'[l] = Kept(step)
  BY DEF Keep, TypeOK
<1>. QED
  BY <1>1, <1>4, <1>5

LEMMA IndexKept ==
    ASSUME TypeOK, Covered, PruneEndsWarmup, RecordInv, [Next]_vars
    PROVE  IndexInv'
<1>. USE DEF RecordInv
<1>1. \A l \in Libraries : Stored(l) => Stored(l)'
  BY StoredStays
<1>2. ASSUME NEW q \in Queries, QueryLoads(q), asking[q].step \in KeepSteps
      PROVE  IndexInv'
  <2>1. SnapshotAlive(q) /\ asking[q].lib \in Libraries
    BY <1>2, QueryGoes DEF QueryStep
  <2>2. Sound(asking[q].step, asking[q].lib)
    BY <2>1 DEF QueryInv
  <2>3. Keep(asking[q].lib, asking[q].step)
    BY <1>2 DEF QueryLoads, KeepSteps
  <2>. QED
    BY <1>2, <2>1, <2>2, <2>3, KeepSound
<1>3. ASSUME NEW n \in Loads, NEW l \in Libraries, WarmLoads(n, l), warming[n][l] \in KeepSteps
      PROVE  IndexInv'
  <2>1. Sound(warming[n][l], l)
    BY DEF WarmInv
  <2>2. Keep(l, warming[n][l])
    BY <1>3 DEF WarmLoads, KeepSteps
  <2>. QED
    BY <1>3, <2>1, <2>2, KeepSound
<1>4. CASE \A l \in Libraries : index'[l] \in {index[l], NoIndex}
  BY <1>1, <1>4 DEF IndexInv, NoIndex
<1>5. \/ index' = index \/ RegisterGraph
      \/ \E q \in Queries : QueryLoads(q) /\ asking[q].step \in KeepSteps
      \/ \E n \in Loads, k \in Libraries : WarmLoads(n, k) /\ warming[n][k] \in KeepSteps
  BY DEF Next, QueryStep, WarmStep, WriteGraph, Ask, NameIndex, NameIndexBody, Unwind,
         QueryLoads, ReadRecord, StartWarm, WarmLoads, CountWarm, CollectStale, DeleteStale,
         vars, regVars, KeepSteps
<1>6. RegisterGraph => \A l \in Libraries : index'[l] \in {index[l], NoIndex}
  BY DEF RegisterGraph
<1>. QED
  BY <1>2, <1>3, <1>4, <1>5, <1>6

(* The library whose index a query has just loaded stands: if it is not    *)
(* registered any more, a reload has dropped it.                           *)
LEMMA KeepStands ==
    ASSUME TypeOK, Covered, PruneEndsWarmup, RecordInv, Next,
           NEW q \in Queries, QueryLoads(q), asking[q].step \in KeepSteps,
           NEW l, l = asking[q].lib
    PROVE  Standing(l)'
<1>1. SnapshotAlive(q) /\ l \in Libraries /\ l \in graph
  BY QueryGoes DEF QueryStep, Covered
<1>2. Sound(asking[q].step, l) /\ Keep(l, asking[q].step)
  BY <1>1 DEF RecordInv, QueryInv, QueryLoads, KeepSteps
<1>3. CASE l \in registered
  BY <1>1, <1>2, <1>3, KeepSound DEF RecordInv, Standing
<1>4. CASE l \notin registered
  BY <1>1, <1>4, GoneIsDropped, LoadGrows DEF Standing
<1>. QED
  BY <1>3, <1>4

(* A query stands on what its step relies on, and a memo on its index. *)
LEMMA QueryKept ==
    ASSUME TypeOK, Covered, PruneEndsWarmup, RecordInv, Next
    PROVE  QueryInv' /\ MemoInv'
<1>. USE DEF RecordInv
<1>1. \A l \in Libraries : /\ Standing(l) => Standing(l)'
                           /\ Stored(l) => Stored(l)'
  BY StandingStays, StoredStays
<1>2. memo' = memo => MemoInv'
  BY <1>1 DEF MemoInv, TypeOK
<1>3. ASSUME NEW p \in Queries, asking'[p] = asking[p], SnapshotAlive(p)
      PROVE  Sound(asking[p].step, asking[p].lib)'
  <2>1. Sound(asking[p].step, asking[p].lib) /\ asking[p].lib \in Libraries
    BY <1>3 DEF QueryInv, Covered, TypeOK
  <2>2. PICK l \in Libraries : l = asking[p].lib
    BY <2>1
  <2>3. PICK step : step = asking[p].step
    OBVIOUS
  <2>4. Sound(step, l)'
    BY <2>1, <2>2, <2>3, SoundStays
  <2>. QED
    BY <1>3, <2>2, <2>3, <2>4
<1>4. ASSUME NEW q \in Queries, QueryStep(q)
      PROVE  Sound(asking[q].step, asking[q].lib)' /\ MemoInv'
  <2>1. /\ SnapshotAlive(q) /\ asking[q].step # "idle"
        /\ asking[q].lib \in Libraries /\ asking[q].lib \in graph
    BY <1>4, QueryGoes DEF Covered, SnapshotAlive
  <2>2. PICK l \in Libraries : l = asking[q].lib /\ l \in graph
    BY <2>1
  <2>3. Sound(asking[q].step, l)
    BY <2>1, <2>2 DEF QueryInv
  <2>4. ASSUME NEW step \in QuerySteps, Goes(q, step), Sound(step, l)'
        PROVE  Sound(asking[q].step, asking[q].lib)'
    <3>1. asking'[q].step = step /\ asking'[q].lib = l
      BY <2>1, <2>2, <2>4, GoesTyped DEF TypeOK, AnyQuery
    <3>. QED
      BY <2>4, <3>1
  <2>5. ASSUME NEW step \in {"name", "body", "meta"} \cup Answers
        PROVE  step \in QuerySteps /\ Sound(step, l)'
    BY DEF Sound, QuerySteps, LoadSteps, Answers
  <2>6. "index" \in QuerySteps /\ (Standing(l)' => Sound("index", l)')
    BY DEF Sound, QuerySteps
  <2>7. CASE NameIndex(q)
    <3>1. memo' = memo
      BY <2>7 DEF NameIndex
    <3>2. CASE l \in memo
      BY <1>1, <1>2, <2>2, <2>4, <2>6, <2>7, <3>1, <3>2 DEF NameIndex, MemoInv
    <3>3. CASE l \notin memo
      BY <1>2, <2>2, <2>4, <2>5, <2>7, <3>1, <3>3 DEF NameIndex
    <3>. QED
      BY <3>2, <3>3
  <2>8. CASE NameIndexBody(q)
    <3>1. CASE l \notin registered
      <4>1. Goes(q, "panicked") /\ memo' = memo
        BY <2>2, <2>8, <3>1 DEF NameIndexBody
      <4>. QED
        BY <1>2, <2>4, <2>5, <4>1 DEF Answers
    <3>2. CASE l \in registered /\ index[l] # NoIndex
      <4>1. Goes(q, "index") /\ memo' = memo \cup {l}
        BY <2>2, <2>8, <3>2 DEF NameIndexBody
      <4>2. Standing(l)'
        BY <1>1, <3>2 DEF Standing
      <4>3. \A k \in memo : Standing(k)'
        BY <1>1 DEF MemoInv, TypeOK
      <4>. QED
        BY <2>4, <2>6, <4>1, <4>2, <4>3 DEF MemoInv
    <3>3. CASE l \in registered /\ index[l] = NoIndex
      <4>1. Goes(q, "meta") /\ memo' = memo
        BY <2>2, <2>8, <3>3 DEF NameIndexBody
      <4>. QED
        BY <1>2, <2>4, <2>5, <4>1
    <3>. QED
      BY <3>1, <3>2, <3>3
  <2>9. CASE Unwind(q)
    BY <1>2, <2>4, <2>5, <2>9 DEF Unwind, Answers
  <2>10. CASE ReadRecord(q)
    <3>1. memo' = memo /\ \E step \in Answers : Goes(q, step)
      BY <2>10 DEF ReadRecord, Answers
    <3>. QED
      BY <1>2, <2>4, <2>5, <3>1
  <2>11. CASE QueryLoads(q) /\ asking[q].step \in KeepSteps
    <3>1. Goes(q, "index") /\ memo' = memo \cup {l}
      BY <2>2, <2>11 DEF QueryLoads, KeepSteps
    <3>2. Standing(l)'
      BY <2>2, <2>11, KeepStands
    <3>3. \A k \in memo : Standing(k)'
      BY <1>1 DEF MemoInv, TypeOK
    <3>. QED
      BY <2>4, <2>6, <3>1, <3>2, <3>3 DEF MemoInv
  <2>12. CASE QueryLoads(q) /\ asking[q].step \notin KeepSteps
    <3>1. PICK next \in LoadSteps : LoadStep(l, asking[q].step, next) /\ Goes(q, next)
      BY <2>2, <2>12 DEF QueryLoads, KeepSteps
    <3>2. asking[q].step \in LoadSteps /\ memo' = memo
      BY <2>12 DEF QueryLoads, KeepSteps
    <3>3. Sound(next, l)' /\ next \in QuerySteps
      BY <1>1, <2>3, <3>1, <3>2, LoadStepSound DEF QuerySteps
    <3>. QED
      BY <1>2, <2>4, <3>1, <3>2, <3>3
  <2>. QED
    BY <1>4, <2>7, <2>8, <2>9, <2>10, <2>11, <2>12 DEF QueryStep
<1>5. MemoInv'
  <2>1. \/ memo' = memo \/ \E q \in Queries : QueryStep(q)
    BY DEF Next, RegisterGraph, WriteGraph, Ask, WarmStep, StartWarm, WarmLoads, CountWarm,
           CollectStale, DeleteStale
  <2>. QED
    BY <1>2, <1>4, <2>1
<1>6. ASSUME NEW p \in Queries, SnapshotAlive(p)'
      PROVE  Sound(asking[p].step, asking[p].lib)'
  <2>1. CASE QueryStep(p)
    BY <1>4, <2>1
  <2>2. CASE asking'[p] = asking[p]
    BY <1>3, <1>6, <2>2 DEF SnapshotAlive
  <2>3. CASE \E l \in graph : asking'[p] = At("name", l)
    BY <2>3 DEF At, Sound
  <2>. QED
    BY <2>1, <2>2, <2>3, OthersStay
<1>. QED
  BY <1>5, <1>6 DEF QueryInv

LEMMA WarmKept ==
    ASSUME TypeOK, Covered, PruneEndsWarmup, RecordInv, Next
    PROVE  WarmInv'
<1>. USE DEF RecordInv
<1>1. ASSUME NEW m \in Loads, NEW k \in Libraries, warming'[m][k] = warming[m][k]
      PROVE  Sound(warming[m][k], k)'
  <2>1. PICK step : step = warming[m][k]
    OBVIOUS
  <2>2. Sound(step, k)'
    BY <2>1, SoundStays DEF WarmInv
  <2>. QED
    BY <1>1, <2>1, <2>2
<1>2. ASSUME NEW step \in WarmSteps \ LoadSteps, NEW k \in Libraries
      PROVE  Sound(step, k)'
  BY DEF Sound, WarmSteps, LoadSteps
<1>3. CASE warming' = warming
  BY <1>1, <1>3 DEF WarmInv
<1>4. CASE WriteGraph
  <2>1. \A m \in Loads, k \in Libraries :
            warming'[m][k] = warming[m][k] \/ warming'[m][k] \in {"queued", "none"}
    BY <1>4 DEF WriteGraph, TypeOK
  <2>2. {"queued", "none"} \subseteq WarmSteps \ LoadSteps
    BY DEF WarmSteps, LoadSteps
  <2>. QED
    BY <1>1, <1>2, <2>1, <2>2 DEF WarmInv
<1>5. ASSUME NEW n \in Loads, NEW l \in Libraries, WarmStep(n, l)
      PROVE  WarmInv'
  <2>1. \E step \in WarmSteps : WarmTo(n, l, step) /\ Sound(step, l)'
    <3>1. CASE WarmLoads(n, l) /\ warming[n][l] \notin KeepSteps
      <4>1. PICK next \in LoadSteps : LoadStep(l, warming[n][l], next) /\ WarmTo(n, l, next)
        BY <3>1 DEF WarmLoads, KeepSteps
      <4>2. warming[n][l] \in LoadSteps /\ Sound(warming[n][l], l)
        BY <3>1 DEF WarmLoads, WarmInv
      <4>3. Sound(next, l)' /\ next \in WarmSteps
        BY <4>1, <4>2, LoadStepSound, StoredStays DEF WarmSteps
      <4>. QED
        BY <4>1, <4>3
    <3>2. CASE WarmLoads(n, l) /\ warming[n][l] \in KeepSteps
      <4>1. WarmTo(n, l, "loaded") /\ "loaded" \in WarmSteps \ LoadSteps
        BY <3>2 DEF WarmLoads, KeepSteps, WarmSteps, LoadSteps
      <4>. QED
        BY <1>2, <4>1
    <3>3. CASE StartWarm(n, l) \/ CountWarm(n, l) \/ CollectStale(n, l) \/ DeleteStale(n, l)
      <4>1. \E step \in {"loaded", "meta", "collect", "delete", "counted"} : WarmTo(n, l, step)
        BY <3>3 DEF StartWarm, CountWarm, CollectStale, DeleteStale
      <4>2. \A step \in {"loaded", "meta", "collect", "delete", "counted"} :
                step \in WarmSteps /\ Sound(step, l)'
        BY DEF Sound, WarmSteps, LoadSteps
      <4>. QED
        BY <4>1, <4>2
    <3>. QED
      BY <1>5, <3>1, <3>2, <3>3 DEF WarmStep
  <2>2. PICK step \in WarmSteps : WarmTo(n, l, step) /\ Sound(step, l)'
    BY <2>1
  <2>3. /\ warming'[n][l] = step
        /\ \A m \in Loads, k \in Libraries :
              <<m, k>> # <<n, l>> => warming'[m][k] = warming[m][k]
    BY <2>2, WarmTyped DEF TypeOK
  <2>. SUFFICES ASSUME NEW m \in Loads, NEW k \in Libraries
                PROVE  Sound(warming[m][k], k)'
    BY DEF WarmInv
  <2>4. CASE m = n /\ k = l
    BY <2>2, <2>3, <2>4
  <2>5. CASE ~(m = n /\ k = l)
    BY <1>1, <2>3, <2>5
  <2>. QED
    BY <2>4, <2>5
<1>6. RegisterGraph \/ (\E q \in Queries : Ask(q) \/ QueryStep(q)) => warming' = warming
  BY DEF RegisterGraph, Ask, QueryStep, NameIndex, NameIndexBody, Unwind, QueryLoads, ReadRecord
<1>. QED
  BY <1>3, <1>4, <1>5, <1>6 DEF Next

LEMMA RecordsAlways == Spec => []RecordInv
<1>1. ASSUME Init
      PROVE  RecordInv
  <2>1. PruneInv
    BY <1>1 DEF Init, PruneInv
  <2>2. IndexInv /\ MemoInv
    BY <1>1 DEF Init, IndexInv, MemoInv, NoIndex
  <2>3. QueryInv
    BY <1>1 DEF Init, QueryInv, SnapshotAlive
  <2>4. WarmInv
    BY <1>1 DEF Init, WarmInv, Sound
  <2>. QED
    BY <2>1, <2>2, <2>3, <2>4 DEF RecordInv
<1>2. TypeOK /\ Covered /\ PruneEndsWarmup /\ RecordInv /\ [Next]_vars => RecordInv'
  <2>1. ASSUME TypeOK, Covered, PruneEndsWarmup, RecordInv, Next
        PROVE  RecordInv'
    BY <2>1, PruneKept, IndexKept, QueryKept, WarmKept DEF RecordInv
  <2>2. ASSUME RecordInv, UNCHANGED vars
        PROVE  RecordInv'
    BY <2>2 DEF vars, regVars, RecordInv, PruneInv, IndexInv, MemoInv, QueryInv, WarmInv, Sound,
                Standing, Stored, Dropped, PrunedElsewhere, SnapshotAlive
  <2>. QED
    BY <2>1, <2>2
<1>. QED
  BY <1>1, <1>2, TypeCorrect, CoveredAlways, PruneIsLast, PTL DEF Spec

(* A query about a class that resolved gets its record, whatever reloads,  *)
(* warmups and prunes do meanwhile (class_record, load_or_build,           *)
(* prune_stale): the two ways to lose one are that a reload has dropped    *)
(* the library, whose memoized name index then has no index behind it, and *)
(* that the prune after the warmup of a graph without the library deletes  *)
(* the entry its index reads.                                              *)
THEOREM NoRecordIsMissing == Spec => ResolvedHasRecord
<1>. DEFINE Had == \A q \in Queries : Reaches(q, "missing") =>
                       LET l == asking[q].lib IN
                       \/ index[l] = NoIndex /\ Dropped(l)
                       \/ index[l] = "disk" /\ PrunedElsewhere(l)
<1>1. ASSUME TypeOK, RecordInv, Next, NEW q \in Queries, Reaches(q, "missing"),
             NEW l, l = asking[q].lib
      PROVE  \/ index[l] = NoIndex /\ Dropped(l)
             \/ index[l] = "disk" /\ PrunedElsewhere(l)
  <2>1. ReadRecord(q)
    BY <1>1, WhoReaches
  <2>2. SnapshotAlive(q) /\ l \in Libraries /\ asking[q].step = "index"
    BY <1>1, <2>1, QueryGoes DEF QueryStep, ReadRecord
  <2>3. Standing(l)
    BY <1>1, <2>2 DEF RecordInv, QueryInv, Sound
  <2>4. /\ l \notin Broken /\ index[l] # "memory"
        /\ ~(index[l] = "disk" /\ store[l] # "absent")
    <3>1. l \in Broken \/ index[l] = "memory" \/ (index[l] = "disk" /\ store[l] # "absent") =>
              \E step \in {"record", "unresolved"} : Goes(q, step)
      BY <1>1, <2>1 DEF ReadRecord
    <3>2. \A step \in {"record", "unresolved"} : Goes(q, step) => asking'[q].step = step
      BY <1>1 DEF Goes, TypeOK
    <3>. QED
      BY <1>1, <3>1, <3>2 DEF Reaches
  <2>5. index[l] \in {NoIndex, "disk"}
    BY <1>1, <2>2, <2>4 DEF TypeOK, Indexes, RecordInv, IndexInv
  <2>6. index[l] = "disk" => PrunedElsewhere(l)
    BY <1>1, <2>2, <2>4 DEF RecordInv, IndexInv, Stored
  <2>. QED
    BY <2>3, <2>5, <2>6 DEF Standing
<1>2. TypeOK /\ RecordInv /\ [Next]_vars => [Had]_vars
  BY <1>1
<1>. QED
  BY <1>2, TypeCorrect, RecordsAlways, PTL DEF Spec, ResolvedHasRecord

-----------------------------------------------------------------------------
(***************************************************************************)
(* A warmup gives every library of its graph an index.  The invariant:     *)
(* every library of the newest graph has a job, and once the job is done   *)
(* with it the library has an index, which nothing takes away before the   *)
(* next reload.                                                            *)
(***************************************************************************)
Loaded == {"loaded", "collect", "delete", "counted"}

JobsIndex ==
    load \in Loads /\ loop = "select" =>
        \A l \in registered : /\ warming[load][l] # "none"
                              /\ warming[load][l] \in Loaded => index[l] # NoIndex

(* A step of a job: it does not undo it, and leaves an index behind.       *)
LEMMA JobIndexes ==
    ASSUME TypeOK, NEW n \in Loads, NEW l \in registered, WarmStep(n, l)
    PROVE  /\ warming'[n][l] # "none"
           /\ warming'[n][l] \in Loaded => warming[n][l] \in Loaded \/ index'[l] # NoIndex
<1>1. l \in Libraries
  BY DEF TypeOK
<1>2. ASSUME NEW step \in WarmSteps \ {"none"}, WarmTo(n, l, step),
             step \in Loaded => warming[n][l] \in Loaded \/ index'[l] # NoIndex
      PROVE  /\ warming'[n][l] # "none"
             /\ warming'[n][l] \in Loaded => warming[n][l] \in Loaded \/ index'[l] # NoIndex
  BY <1>1, <1>2, WarmTyped DEF TypeOK
<1>3. LoadSteps \cup Loaded \subseteq WarmSteps \ {"none"} /\ LoadSteps \cap Loaded = {}
  BY DEF WarmSteps, LoadSteps, Loaded
<1>4. CASE StartWarm(n, l)
  <2>1. \/ WarmTo(n, l, "loaded") /\ index'[l] # NoIndex
        \/ WarmTo(n, l, "meta")
    BY <1>4 DEF StartWarm, regVars
  <2>2. "loaded" \in Loaded /\ "meta" \in LoadSteps
    BY DEF Loaded, LoadSteps
  <2>. QED
    BY <1>2, <1>3, <2>1, <2>2
<1>5. CASE WarmLoads(n, l)
  <2>1. CASE warming[n][l] \in KeepSteps
    <3>1. WarmTo(n, l, "loaded") /\ Keep(l, warming[n][l]) /\ "loaded" \in Loaded
      BY <1>5, <2>1 DEF WarmLoads, KeepSteps, Loaded
    <3>2. Kept(warming[n][l]) # NoIndex
      BY <2>1 DEF KeepSteps, Kept, NoIndex
    <3>3. index'[l] # NoIndex
      BY <1>1, <3>1, <3>2 DEF Keep, TypeOK
    <3>. QED
      BY <1>2, <1>3, <3>1, <3>3
  <2>2. CASE warming[n][l] \notin KeepSteps
    <3>1. PICK next \in LoadSteps : WarmTo(n, l, next)
      BY <1>5, <2>2 DEF WarmLoads, KeepSteps
    <3>. QED
      BY <1>2, <1>3, <3>1
  <2>. QED
    BY <2>1, <2>2
<1>6. CASE CountWarm(n, l) \/ CollectStale(n, l) \/ DeleteStale(n, l)
  <2>1. warming[n][l] \in Loaded /\ \E step \in Loaded : WarmTo(n, l, step)
    BY <1>6 DEF CountWarm, CollectStale, DeleteStale, Loaded
  <2>. QED
    BY <1>2, <1>3, <2>1
<1>. QED
  BY <1>4, <1>5, <1>6 DEF WarmStep

LEMMA JobsIndexKept ==
    ASSUME TypeOK, Covered, Covered', JobsIndex, [Next]_vars
    PROVE  JobsIndex'
<1>1. CASE UNCHANGED vars
  BY <1>1 DEF JobsIndex, vars, regVars
<1>2. CASE RegisterGraph
  BY <1>2 DEF RegisterGraph, JobsIndex
<1>3. CASE WriteGraph
  <2>1. load \in Loads /\ load' = load /\ load # 0
    BY <1>3, GraphsTyped DEF WriteGraph, TypeOK
  <2>2. registered' = LoadedGraphs[load]
    BY <2>1 DEF Covered
  <2>3. ASSUME NEW l \in registered' PROVE warming'[load][l] = "queued"
    <3>1. l \in Libraries /\ l \in graph'
      BY <1>3, <2>1, <2>2, <2>3, GraphsTyped DEF WriteGraph
    <3>. QED
      BY <1>3, <2>1, <3>1 DEF WriteGraph, TypeOK
  <2>. QED
    BY <2>1, <2>3 DEF JobsIndex, Loaded
<1>4. ASSUME Next, UNCHANGED <<loop, load, registered>>, load \in Loads, loop = "select",
             \A l \in registered : \/ warming'[load][l] = warming[load][l]
                                   \/ WarmStep(load, l)
      PROVE  JobsIndex'
  <2>. SUFFICES ASSUME NEW l \in registered
                PROVE  /\ warming'[load][l] # "none"
                       /\ warming'[load][l] \in Loaded => index'[l] # NoIndex
    BY <1>4 DEF JobsIndex
  <2>1. /\ warming[load][l] # "none"
        /\ warming[load][l] \in Loaded => index'[l] # NoIndex
    BY <1>4, IndexStays DEF JobsIndex
  <2>2. CASE warming'[load][l] = warming[load][l]
    BY <2>1, <2>2
  <2>3. CASE WarmStep(load, l)
    BY <1>4, <2>1, <2>3, JobIndexes
  <2>. QED
    BY <1>4, <2>2, <2>3
<1>5. ASSUME NEW q \in Queries, Ask(q) \/ QueryStep(q)
      PROVE  JobsIndex'
  <2>1. UNCHANGED <<loop, load, registered>>
    BY <1>5, QueryGoes DEF Ask, regVars
  <2>2. warming' = warming
    BY <1>5 DEF Ask, QueryStep, NameIndex, NameIndexBody, Unwind, QueryLoads, ReadRecord
  <2>3. CASE load \in Loads /\ loop = "select"
    BY <1>4, <1>5, <2>1, <2>2, <2>3 DEF Next
  <2>. QED
    BY <2>1, <2>3 DEF JobsIndex
<1>6. ASSUME NEW n \in Loads, NEW k \in Libraries, WarmStep(n, k)
      PROVE  JobsIndex'
  <2>1. UNCHANGED <<loop, load, registered>>
    BY <1>6 DEF WarmStep, StartWarm, WarmLoads, CountWarm, CollectStale, DeleteStale, regVars
  <2>2. \E step \in WarmSteps : WarmTo(n, k, step)
    BY <1>6, WarmGoes
  <2>3. \A m \in Loads, l \in Libraries :
            <<m, l>> # <<n, k>> => warming'[m][l] = warming[m][l]
    BY <2>2, WarmTyped DEF TypeOK
  <2>4. CASE load \in Loads /\ loop = "select"
    <3>1. registered \subseteq Libraries
      BY DEF TypeOK
    <3>2. \A l \in registered : warming'[load][l] = warming[load][l] \/ WarmStep(load, l)
      BY <1>6, <2>3, <2>4, <3>1
    <3>. QED
      BY <1>4, <1>6, <2>1, <2>4, <3>2 DEF Next
  <2>. QED
    BY <2>1, <2>4 DEF JobsIndex
<1>. QED
  BY <1>1, <1>2, <1>3, <1>5, <1>6 DEF Next

(* Whatever libraries reloads add, drop and bring back, whichever archives *)
(* cannot be parsed and whoever loads a library first: when the warmup of  *)
(* the newest graph is over, each of its libraries has an index            *)
(* (warmup_libraries, warmup_library, ensure_loaded).                      *)
THEOREM WarmupIndexesAll == Spec => []EveryLibraryIndexed
<1>1. Init => JobsIndex
  BY GraphsTyped DEF Init, JobsIndex
<1>2. TypeOK /\ JobsIndex => EveryLibraryIndexed
  BY DEF TypeOK, JobsIndex, EveryLibraryIndexed, Warmed, Loaded
<1>3. TypeOK /\ Covered /\ Covered' /\ JobsIndex /\ [Next]_vars => JobsIndex'
  BY JobsIndexKept
<1>. QED
  BY <1>1, <1>2, <1>3, TypeCorrect, CoveredAlways, PTL DEF Spec
=============================================================================
