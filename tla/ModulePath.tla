----------------------------- MODULE ModulePath -----------------------------
(***************************************************************************)
(* The Java module path of a source set (hir/src/modules.rs): the modules  *)
(* the libraries of its classpath declare, the packages they own, which    *)
(* modules another one reads, and whether a package can be seen from a     *)
(* file.                                                                   *)
(*                                                                         *)
(* A module's stub is [requires, exports]: requires gives "transitive" or  *)
(* "plain" for the modules it names, exports the modules each exported     *)
(* package is exported to, {} for all.  A library is [modules, owners]:    *)
(* its stubs by name, the modules that own classes of each package.        *)
(***************************************************************************)
EXTENDS Naturals, Sequences, FiniteSets

CONSTANTS Base,          \* java.base
          Own            \* the module the source set declares

None == "none"

(* The entries of f, and those of g under keys that f has not              *)
Merged(f, g) == [k \in DOMAIN f \cup DOMAIN g |-> IF k \in DOMAIN f THEN f[k] ELSE g[k]]

-----------------------------------------------------------------------------
(* is_package_exported *)
IsPackageExported(stub, package, to) ==
    /\ package \in DOMAIN stub.exports
    /\ stub.exports[package] = {} \/ to \in stub.exports[package]

EmptyGraph == [modules |-> <<>>, owners |-> <<>>]
Owners(graph, package) ==
    IF package \in DOMAIN graph.owners THEN graph.owners[package] ELSE {}

(* WorkspaceModuleGraph: an owner is a descriptor, its name with its stub   *)
Descriptor(modules, name) == [name |-> name, stub |-> modules[name]]
NamesOf(owners, package) == IF package \in DOMAIN owners THEN owners[package] ELSE {}
NewOwners(modules, graph, owners, package) ==
    {Descriptor(modules, name) : name \in
        {n \in NamesOf(owners, package) \cap DOMAIN modules :
            \A o \in Owners(graph, package) : o.name # n}}
AddOwners(modules, graph, owners) ==
    [modules |-> modules,
     owners |-> [package \in DOMAIN graph.owners \cup DOMAIN owners |->
        Owners(graph, package) \cup NewOwners(modules, graph, owners, package)]]

(* Mutant: the last declaration of a module wins. *)
AddLibraryLastWins(graph, library) ==
    AddOwners(Merged(library.modules, graph.modules), graph, library.owners)

(* workspace_module_graph_for_libraries: one library of the classpath *)
AddLibrary(graph, library) ==
    AddOwners(Merged(graph.modules, library.modules), graph, library.owners)
WorkspaceModuleGraph(libraries) ==
    LET graph[n \in 0..Len(libraries)] ==
            IF n = 0 THEN EmptyGraph ELSE AddLibrary(graph[n - 1], libraries[n])
    IN  graph[Len(libraries)]

(* WorkspaceModuleGraph::insert, as source_set_module_ctx_query calls it *)
InsertSourceModule(graph, stub, packages) ==
    AddOwners(Merged([m \in {Own} |-> stub], graph.modules), graph,
              [package \in packages |-> {Own}])

(* source_set_module_ctx_query: declared is the stub of the module-info, if *)
(* there is one; an open module exports every package of its own.           *)
SourceStub(declared, open, packages) ==
    IF open
    THEN [declared EXCEPT !.exports = Merged(@, [package \in packages |-> {}])]
    ELSE declared
ModuleCtx(libraries, declared, open, packages) ==
    LET graph == WorkspaceModuleGraph(libraries)
        stub == SourceStub(CHOOSE d \in declared : TRUE, open, packages)
    IN  IF declared = {} THEN [module |-> None, graph |-> graph]
        ELSE [module |-> Own, graph |-> InsertSourceModule(graph, stub, packages)]

(* readable_modules: the queue, a module at a time *)
Propagated(graph, current) ==
    IF current \notin DOMAIN graph.modules THEN {}
    ELSE LET requires == graph.modules[current].requires
         IN  {m \in DOMAIN requires : current = Own \/ requires[m] = "transitive"}
Named(graph) ==
    {Own, Base} \cup UNION {DOMAIN graph.modules[m].requires : m \in DOMAIN graph.modules}
ReadableModules(graph) ==
    LET bound == Cardinality(Named(graph))
        readable[n \in 0..bound] ==
            IF n = 0 THEN {Own, Base}
            ELSE readable[n - 1] \cup UNION {Propagated(graph, m) : m \in readable[n - 1]}
    IN  readable[bound]

(* is_package_visible, is_package_visible_from_unnamed, package_visible *)
IsPackageVisible(graph, package) ==
    \E owner \in Owners(graph, package) :
        \/ owner.name = Own
        \/ /\ owner.name \in ReadableModules(graph)
           /\ IsPackageExported(owner.stub, package, Own)
IsPackageVisibleFromUnnamed(graph, package) ==
    \/ Owners(graph, package) = {}
    \/ \E owner \in Owners(graph, package) : IsPackageExported(owner.stub, package, None)
PackageVisible(ctx, package) ==
    IF ctx.module = None THEN IsPackageVisibleFromUnnamed(ctx.graph, package)
    ELSE IsPackageVisible(ctx.graph, package)

-----------------------------------------------------------------------------
(* Properties, of one classpath and one source module *)

(* JLS 7.7.2: a module reads itself, java.base, the modules it requires, and *)
(* whatever a module it reads requires transitively: the least such set.     *)
Reads(graph, m) ==
    LET names == Named(graph) \cup DOMAIN graph.modules
        Direct == {Own, Base} \cup DOMAIN graph.modules[Own].requires
        Closed(S) == \A n \in S \cap DOMAIN graph.modules :
                        {t \in DOMAIN graph.modules[n].requires :
                            graph.modules[n].requires[t] = "transitive"} \subseteq S
    IN  \A S \in SUBSET names : Direct \subseteq S /\ Closed(S) => m \in S

ReadableIsLeastClosed(graph) ==
    Own \in DOMAIN graph.modules =>
    \A m \in {Own, Base} \cup DOMAIN graph.modules :
        m \in ReadableModules(graph) <=> Reads(graph, m)

(* A package a file sees stays visible when a library is added at the end of *)
(* its classpath, even one that declares the same modules again; in the      *)
(* unnamed module, unless the package had no owner and now belongs to a      *)
(* module that does not export it.                                           *)
LaterLibraryHidesNothing(libraries, library, declared, open, own, packages) ==
    LET before == ModuleCtx(libraries, declared, open, own)
        after  == ModuleCtx(Append(libraries, library), declared, open, own)
    IN  \A package \in packages :
            PackageVisible(before, package) =>
                \/ PackageVisible(after, package)
                \/ before.module = None /\ Owners(before.graph, package) = {}
=============================================================================
