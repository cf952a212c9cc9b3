-------------------------- MODULE EffectivelyFinal --------------------------
(***************************************************************************)
(* The scan behind the check that a local captured by a lambda is          *)
(* effectively final (hir-ty/src/java/infer/flow.rs).  It walks a body     *)
(* once, in the order of the text, and collects the locals that are        *)
(* mutated and those that lambdas capture; a capture of a mutated local is *)
(* an error.                                                               *)
(*                                                                         *)
(* A body is a sequence of statements.  Expressions are left out but for   *)
(* the accesses to locals, which are statements here.  An access carries   *)
(* the name the scan looks up and, for the definition it is compared with, *)
(* the local the name denotes.                                             *)
(***************************************************************************)
EXTENDS Naturals, Sequences, SequencesExt, FiniteSets, Functions

CONSTANT Parameter      \* the placeholder that stands for every lambda parameter

NoLocal == "no local"

Decl(name, local, init) == [kind |-> "decl", name |-> name, local |-> local, init |-> init]
Assign(name, local) == [kind |-> "assign", name |-> name, local |-> local]
Increment(name, local) == [kind |-> "increment", name |-> name, local |-> local]
Use(name, local) == [kind |-> "use", name |-> name, local |-> local]
Lambda(params, body) == [kind |-> "lambda", params |-> params, body |-> body]
Block(body) == [kind |-> "block", body |-> body]
If(then, els) == [kind |-> "if", then |-> then, els |-> els]
While(body) == [kind |-> "while", body |-> body]
Switch(arms) == [kind |-> "switch", arms |-> arms]
Return == [kind |-> "return"]

-----------------------------------------------------------------------------
(* The scan: its scopes, innermost last, the depths at which lambdas were   *)
(* entered, and what it has found.                                          *)

Scan == [scopes |-> << <<>> >>, entries |-> <<>>, mutated |-> {}, captures |-> {},
         counts |-> <<>>, initialized |-> {}]

Push(s) == [s EXCEPT !.scopes = Append(@, <<>>)]
Pop(s) == [s EXCEPT !.scopes = Front(@)]
Declare(s, name, local) ==
    [s EXCEPT !.scopes[Len(s.scopes)] = (name :> local) @@ @]

(* resolve_local *)
ResolveLocal(s, name) ==
    LET frame == SelectLastInSeq(s.scopes, LAMBDA scope : name \in DOMAIN scope)
    IN  IF frame = 0 THEN NoLocal ELSE s.scopes[frame][name]
(* The innermost scope that holds a local, whatever its name *)
FrameOf(s, local) == SelectLastInSeq(s.scopes, LAMBDA scope : local \in Range(scope))

Count(counts, local) == IF local \in DOMAIN counts THEN counts[local] ELSE 0

(* mark_mutation *)
MarkMutation(s, name) ==
    LET local == ResolveLocal(s, name) IN
    IF local = NoLocal THEN s ELSE [s EXCEPT !.mutated = @ \cup {local}]

(* mark_mutation_if_reassigned *)
MarkIfReassigned(s, name) ==
    LET local == ResolveLocal(s, name) IN
    CASE local = NoLocal -> s
      [] local # NoLocal /\ local \in s.initialized -> MarkMutation(s, name)
      [] OTHER -> [s EXCEPT !.counts = (local :> Count(@, local) + 1) @@ @,
                            !.mutated = @ \cup IF Count(s.counts, local) > 0
                                               THEN {local} ELSE {}]

(* The Var branch of walk_expr *)
Capture(s, name) ==
    LET local == ResolveLocal(s, name) IN
    IF /\ s.entries # <<>> /\ local # NoLocal
       /\ FrameOf(s, local) < Last(s.entries)
    THEN [s EXCEPT !.captures = @ \cup {local}]
    ELSE s

(* Mutant: the assignments of the two branches follow each other. *)
JoinInSequence(s, saved, then, els) ==
    LET joined == [local \in DOMAIN then \cup DOMAIN els |->
                      Count(then, local) + Count(els, local)]
    IN  [s EXCEPT !.counts = joined @@ saved,
                  !.mutated = @ \cup {local \in DOMAIN joined : joined[local] > 1}]

(* join_assignment_counts *)
Join(s, saved, then, els) ==
    LET joined == [local \in DOMAIN then \cup DOMAIN els |->
                      IF Count(saved, local) = 0
                      THEN IF Count(then, local) > 0 \/ Count(els, local) > 0 THEN 1 ELSE 0
                      ELSE IF Count(then, local) > Count(els, local)
                           THEN Count(then, local) ELSE Count(els, local)]
    IN  [s EXCEPT !.counts = joined @@ saved,
                  !.mutated = @ \cup {local \in DOMAIN joined : joined[local] > 1}]

RECURSIVE Walk(_, _)
WalkAll(s, body) == FoldLeft(Walk, s, body)

WalkIf(s, stmt) ==
    LET then == WalkAll(Push(s), stmt.then)
        els  == WalkAll(Push([Pop(then) EXCEPT !.counts = s.counts]), stmt.els)
    IN  Join(Pop(els), s.counts, then.counts, els.counts)
WalkLambda(s, stmt) ==
    LET frame == Push(s)
        entered == [frame EXCEPT
                      !.scopes[Len(frame.scopes)] = [p \in stmt.params |-> Parameter],
                      !.entries = Append(@, Len(frame.scopes))]
    IN  [Pop(Pop(WalkAll(Push(entered), stmt.body))) EXCEPT !.entries = s.entries]

(* walk_stmt and walk_expr *)
Walk(s, stmt) ==
    CASE stmt.kind = "decl" ->
            [Declare(s, stmt.name, stmt.local) EXCEPT
                !.initialized = @ \cup IF stmt.init THEN {stmt.local} ELSE {}]
      [] stmt.kind = "assign" -> Capture(MarkIfReassigned(s, stmt.name), stmt.name)
      [] stmt.kind = "increment" -> Capture(MarkMutation(s, stmt.name), stmt.name)
      [] stmt.kind = "use" -> Capture(s, stmt.name)
      [] stmt.kind = "lambda" -> WalkLambda(s, stmt)
      [] stmt.kind \in {"block", "while"} -> Pop(WalkAll(Push(s), stmt.body))
      [] stmt.kind = "if" -> WalkIf(s, stmt)
      [] stmt.kind = "switch" -> FoldLeft(WalkAll, s, stmt.arms)
      [] OTHER -> s

(* effective_final_scan, and the captures infer reports *)
EffectiveFinalScan(body) == WalkAll(Scan, body)
Reported(body) ==
    LET s == EffectiveFinalScan(body) IN s.captures \cap s.mutated

-----------------------------------------------------------------------------
(* JLS 4.12.4 and chapter 16.  A local without an initializer is effectively *)
(* final when no assignment can be reached with the local assigned before.   *)
(* flow.at is whether the local may be assigned here, on the paths that get  *)
(* here; flow.twice, whether an assignment was reached with it assigned.     *)

RECURSIVE Flow(_, _, _)
FlowAll(flow, body, local) == FoldLeft(LAMBDA f, stmt : Flow(f, stmt, local), flow, body)
Merge(f, g) == [at |-> f.at \cup g.at, twice |-> f.twice \/ g.twice]
Flow(flow, stmt, local) ==
    CASE stmt.kind = "decl" /\ stmt.local = local -> [flow EXCEPT !.at = {stmt.init}]
      [] stmt.kind \in {"assign", "increment"} /\ stmt.local = local ->
            [at |-> {TRUE : a \in flow.at},
             twice |-> flow.twice \/ TRUE \in flow.at \/ stmt.kind = "increment"]
      [] stmt.kind = "block" -> FlowAll(flow, stmt.body, local)
      [] stmt.kind = "if" ->
            Merge(FlowAll(flow, stmt.then, local), FlowAll(flow, stmt.els, local))
      [] stmt.kind = "while" ->
            LET once == Merge(flow, FlowAll(flow, stmt.body, local))
            IN  Merge(once, FlowAll(once, stmt.body, local))
      [] stmt.kind = "switch" ->
            FoldLeft(LAMBDA f, arm : Merge(f, FlowAll(flow, arm, local)), flow, stmt.arms)
      [] stmt.kind = "return" -> [flow EXCEPT !.at = {}]
      [] OTHER -> flow

(* The locals declared in a body, and those used in its lambdas from outside *)
RECURSIVE Declared(_), Captured(_, _)
Nested(stmt) ==
    CASE stmt.kind \in {"block", "while", "lambda"} -> <<stmt.body>>
      [] stmt.kind = "if" -> <<stmt.then, stmt.els>>
      [] stmt.kind = "switch" -> stmt.arms
      [] OTHER -> <<>>
Declared(body) ==
    UNION {(IF body[i].kind = "decl" THEN {body[i].local} ELSE {})
           \cup UNION {Declared(b) : b \in ToSet(Nested(body[i]))} : i \in 1..Len(body)}
Captured(body, inside) ==
    UNION {(IF body[i].kind \in {"use", "assign", "increment"} THEN {body[i].local} \cap inside
            ELSE {})
           \cup UNION {Captured(b, inside) : b \in ToSet(Nested(body[i]))} : i \in 1..Len(body)}
RECURSIVE Lambdas(_)
Lambdas(body) ==
    UNION {(IF body[i].kind = "lambda" THEN {body[i]} ELSE {})
           \cup UNION {Lambdas(b) : b \in ToSet(Nested(body[i]))} : i \in 1..Len(body)}

(* Properties, of one body *)

(* Exactly the locals that are captured and not effectively final are        *)
(* reported, for bodies in which every path runs to the end: blocks, and     *)
(* branches that assign on one side or on both, in any order and nesting,    *)
(* with locals of the same name in sibling scopes.                           *)
ReportsAsLanguage(body) ==
    Reported(body) =
        {local \in Declared(body) :
            /\ \E lambda \in Lambdas(body) :
                  local \in Captured(lambda.body, Declared(body) \ Declared(lambda.body))
            /\ FlowAll([at |-> {FALSE}, twice |-> FALSE], body, local).twice}
=============================================================================
