----------------------------- MODULE SyncProofs -----------------------------
(***************************************************************************)
(* What holds of a sync and of the bars that show it.                      *)
(*                                                                         *)
(* ProgressTokens, for any libraries, any client and however often the     *)
(* workspace is synced: events are buffered only while an answer is due,   *)
(* nothing is sent under a token until it is answered, and an open bar is  *)
(* begun again only after two overlapping requests for its token.          *)
(* SyncProgress: the percentage of the bar stays below that of a finished  *)
(* one.  BuildTool: what a sync returns is what its tool wrote, and nobody *)
(* waits for ever, for pipes and channels of any size.                     *)
(***************************************************************************)
EXTENDS ProgressTokens, SyncProgress, BuildTool, TLAPS, SequenceTheorems,
        FunctionTheorems, FiniteSetTheorems, WellFoundedInduction

(* The types the argument needs.  Versions are not bounded here: that they *)
(* stay below MaxLoads takes a count of the loads under way.               *)
AnyToken == {Sync, Index} \cup {Scan(v) : v \in Nat}
States == {"none", "creating", "active"}
AnyTask == [what : Kinds, token : AnyToken] \cup [what : {"loaded"}, token : {"load"} \X Loads]

Begun(buffer) == buffer # <<>> /\ Head(buffer) = "begin"

LEMMA AppendAwaited ==
    ASSUME NEW q \in Seq(AnyToken), NEW u \in AnyToken
    PROVE  /\ Append(q, u) \in Seq(AnyToken)
           /\ Awaited(u, Append(q, u))
           /\ \A t : Awaited(t, q) => Awaited(t, Append(q, u))
<1>1. /\ Append(q, u) \in Seq(AnyToken)
      /\ Len(Append(q, u)) = Len(q) + 1
      /\ Append(q, u)[Len(q) + 1] = u
      /\ \A i \in 1..Len(q) : Append(q, u)[i] = q[i]
    OBVIOUS
<1>2. Len(q) \in Nat /\ DOMAIN q = 1..Len(q) /\ DOMAIN Append(q, u) = 1..(Len(q) + 1)
    BY <1>1
<1>. QED
    BY <1>1, <1>2 DEF Awaited

LEMMA TailAwaited ==
    ASSUME NEW q \in Seq(AnyToken), q # <<>>
    PROVE  /\ Tail(q) \in Seq(AnyToken) /\ Head(q) \in AnyToken
           /\ \A t : Awaited(t, q) /\ t # Head(q) => Awaited(t, Tail(q))
<1>1. /\ Tail(q) \in Seq(AnyToken) /\ Head(q) = q[1] /\ Head(q) \in AnyToken
      /\ Len(q) \in Nat \ {0} /\ Len(Tail(q)) = Len(q) - 1
      /\ \A i \in 1..(Len(q) - 1) : Tail(q)[i] = q[i + 1]
      /\ DOMAIN q = 1..Len(q) /\ DOMAIN Tail(q) = 1..(Len(q) - 1)
    OBVIOUS
<1>. SUFFICES ASSUME NEW t, NEW i \in DOMAIN q, q[i] = t, t # Head(q)
              PROVE  Awaited(t, Tail(q))
    BY <1>1 DEF Awaited
<1>2. i - 1 \in 1..(Len(q) - 1) /\ Tail(q)[i - 1] = q[i]
    BY <1>1
<1>. QED
    BY <1>1, <1>2 DEF Awaited

LEMMA BegunAppend ==
    ASSUME NEW b \in Seq(Kinds), NEW kind \in Kinds
    PROVE  /\ Append(b, kind) \in Seq(Kinds)
           /\ Begun(b) => Begun(Append(b, kind))
<1>1. Append(b, kind) \in Seq(Kinds) /\ Len(Append(b, kind)) = Len(b) + 1
    OBVIOUS
<1>2. ASSUME b # <<>> PROVE Append(b, kind) # <<>> /\ Head(Append(b, kind)) = Head(b)
    BY <1>1, <1>2
<1>. QED
    BY <1>1, <1>2 DEF Begun

LEMMA BegunBuffers ==
    ASSUME NEW rest \in {<<>>, <<"end">>}
    PROVE  <<"begin">> \o rest \in Seq(Kinds) /\ Begun(<<"begin">> \o rest)
<1>1. "begin" \in Kinds /\ "end" \in Kinds
    BY DEF Kinds
<1>2. CASE rest = <<>>
    BY <1>1, <1>2 DEF Begun
<1>3. CASE rest = <<"end">>
    BY <1>1, <1>3 DEF Begun
<1>. QED
    BY <1>2, <1>3

(* A handler that touches the table through BeginThen or Continue keeps    *)
(* the table typed and every buffer awaited.                               *)
Table == /\ token \in [Tokens -> [state : States, buffer : Seq(Kinds)]]
         /\ asked \in Seq(AnyToken)
         /\ BufferAwaitsAnswer

LEMMA BeginKeepsTable ==
    ASSUME Table, NEW u \in AnyToken, NEW rest \in {<<>>, <<"end">>}, BeginThen(u, rest)
    PROVE  Table'
<1>. DEFINE b == <<"begin">> \o rest
<1>1. b \in Seq(Kinds) /\ Begun(b)
    BY BegunBuffers
<1>2. Creating(b) \in [state : States, buffer : Seq(Kinds)]
    BY <1>1 DEF Creating, States
<1>3. token' \in [Tokens -> [state : States, buffer : Seq(Kinds)]]
    BY <1>2 DEF BeginThen, Table
<1>4. /\ asked' \in Seq(AnyToken) /\ Awaited(u, asked')
      /\ \A t : Awaited(t, asked) => Awaited(t, asked')
    BY AppendAwaited DEF BeginThen, Table
<1>5. ASSUME NEW t \in Tokens, token'[t].state = "creating"
      PROVE  Awaited(t, asked') /\ Begun(token'[t].buffer)
  <2>1. CASE t = u
    <3>1. token'[t] = Creating(b)
        BY <2>1 DEF BeginThen, Table
    <3>. QED
        BY <3>1, <1>1, <1>4, <2>1 DEF Creating
  <2>2. CASE t # u
    <3>1. token'[t] = token[t]
        BY <2>2 DEF BeginThen, Table
    <3>. QED
        BY <3>1, <1>4, <1>5 DEF Table, BufferAwaitsAnswer, Awaited, Begun
  <2>. QED
    BY <2>1, <2>2
<1>. QED
    BY <1>3, <1>4, <1>5 DEF Table, BufferAwaitsAnswer, Awaited, Begun

LEMMA ContinueKeepsTable ==
    ASSUME Table, NEW u \in AnyToken, NEW kind \in Kinds, Continue(u, kind)
    PROVE  Table'
<1>1. asked' = asked
    BY DEF Continue
<1>2. None \in [state : States, buffer : Seq(Kinds)] /\ None.state = "none"
    BY DEF None, States
<1>3. CASE u \in Tokens /\ token[u].state = "creating"
  <2>1. token[u] \in [state : States, buffer : Seq(Kinds)]
    BY <1>3 DEF Table
  <2>2. /\ Append(token[u].buffer, kind) \in Seq(Kinds)
        /\ Begun(token[u].buffer) => Begun(Append(token[u].buffer, kind))
    BY <2>1, BegunAppend
  <2>. DEFINE new == Creating(Append(token[u].buffer, kind))
  <2>3. new \in [state : States, buffer : Seq(Kinds)] /\ new.buffer = Append(token[u].buffer, kind)
    BY <2>2 DEF Creating, States
  <2>. HIDE DEF new
  <2>4. /\ token' = [token EXCEPT ![u] = new]
        /\ token' \in [Tokens -> [state : States, buffer : Seq(Kinds)]]
        /\ token'[u] = new
    <3>1. token' = [token EXCEPT ![u] = new]
        BY <1>3 DEF Continue, new
    <3>. QED
        BY <3>1, <2>3, <1>3 DEF Table
  <2>5. \A t \in Tokens \ {u} : token'[t] = token[t]
    BY <2>4 DEF Table
  <2>6. Begun(token'[u].buffer) /\ Awaited(u, asked)
    BY <2>2, <2>3, <2>4, <1>3 DEF Table, BufferAwaitsAnswer, Begun, Awaited
  <2>7. ASSUME NEW t \in Tokens, token'[t].state = "creating"
        PROVE  Awaited(t, asked) /\ Begun(token'[t].buffer)
    <3>1. CASE t = u
        BY <3>1, <2>6
    <3>2. CASE t # u
        BY <3>2, <2>5, <2>7 DEF Table, BufferAwaitsAnswer, Begun, Awaited
    <3>. QED
        BY <3>1, <3>2
  <2>8. \A t \in Tokens : token'[t].state = "creating" =>
            Awaited(t, asked') /\ Begun(token'[t].buffer)
    BY <2>7, <1>1
  <2>. QED
    BY <2>4, <2>8, <1>1 DEF Table, BufferAwaitsAnswer, Begun, Awaited
<1>4. CASE u \in Tokens /\ token[u].state # "creating"
  <2>1. token' = token \/ token' = [token EXCEPT ![u] = None]
    BY <1>4 DEF Continue
  <2>2. token' \in [Tokens -> [state : States, buffer : Seq(Kinds)]]
    BY <2>1, <1>2 DEF Table
  <2>3. \A t \in Tokens : token'[t] = token[t] \/ token'[t] = None
    BY <2>1 DEF Table
  <2>4. \A t \in Tokens : token'[t].state = "creating" => token'[t] = token[t]
    BY <2>3, <1>2
  <2>. QED
    BY <2>2, <2>4, <1>1 DEF Table, BufferAwaitsAnswer
<1>5. CASE u \notin Tokens
  <2>1. token' = token
    BY <1>5 DEF Continue, Table
  <2>. QED
    BY <2>1, <1>1 DEF Table, BufferAwaitsAnswer
<1>. QED
    BY <1>3, <1>4, <1>5

LEMMA AnswerKeepsTable ==
    ASSUME Table, asked # <<>>, asked' = Tail(asked),
           NEW new \in [state : States, buffer : Seq(Kinds)], new.state # "creating",
           token' = [token EXCEPT ![Head(asked)] = new]
    PROVE  Table'
<1>1. /\ asked' \in Seq(AnyToken) /\ Head(asked) \in AnyToken
      /\ \A t : Awaited(t, asked) /\ t # Head(asked) => Awaited(t, asked')
    BY TailAwaited DEF Table
<1>2. token' \in [Tokens -> [state : States, buffer : Seq(Kinds)]]
    BY DEF Table
<1>3. ASSUME NEW t \in Tokens, token'[t].state = "creating"
      PROVE  t # Head(asked) /\ token'[t] = token[t]
    BY <1>3 DEF Table
<1>. QED
    BY <1>1, <1>2, <1>3 DEF Table, BufferAwaitsAnswer, Awaited

LEMMA ReportKeepsTable ==
    ASSUME Table, NEW u \in AnyToken, NEW kind \in Kinds, ReportProgress(u, kind)
    PROVE  Table'
<1>1. CASE kind = "begin"
    BY <1>1, BeginKeepsTable DEF ReportProgress
<1>2. CASE kind # "begin"
    BY <1>2, ContinueKeepsTable DEF ReportProgress
<1>. QED
    BY <1>1, <1>2

-----------------------------------------------------------------------------
(* What the steps send and take from the channels.                         *)

LEMMA SeqTail ==
    ASSUME NEW S, NEW s \in Seq(S), s # <<>>
    PROVE  Head(s) \in S /\ Tail(s) \in Seq(S)
OBVIOUS

LEMMA TaskTypes ==
    ASSUME NEW task \in AnyTask
    PROVE  /\ task.what \in Kinds => task.token \in AnyToken
           /\ task.what = "loaded" => task.token[2] \in Loads
BY DEF AnyTask, Kinds

LEMMA SentEvent ==
    ASSUME NEW kind \in Kinds, NEW t \in {Sync, Index}
    PROVE  Task(kind, t) \in AnyTask
BY DEF AnyTask, Task, AnyToken

LEMMA SentLoaded ==
    ASSUME NEW l \in Loads
    PROVE  Task("loaded", <<"load", l>>) \in AnyTask
BY DEF AnyTask, Task

LEMMA SeqAppend ==
    ASSUME NEW S, NEW s \in Seq(S), NEW e \in S
    PROVE  Append(s, e) \in Seq(S)
OBVIOUS

Channels ==
    /\ tasks \in Seq(AnyTask)
    /\ loads \in 0..MaxLoads
    /\ sync \in [Loads -> Seq(Kinds \cup {"loaded"})]
    /\ version \in Nat
    /\ scans \in Seq(Nat \X Kinds)

LEMMA StepOnChannels ==
    ASSUME Channels, [Next]_vars
    PROVE  Channels'
<1>. USE ProgressAssumption
<1>1. CASE UNCHANGED vars
    BY <1>1 DEF Channels, vars, tokenVars, loaderVars, warmVars
<1>2. CASE LoadWorkspace
  <2>1. loads' \in 0..MaxLoads /\ loads' \in Loads
    BY <1>2 DEF LoadWorkspace, Channels, Loads
  <2>2. /\ <<"report", "end", "begin", "end", "loaded">> \in Seq(Kinds \cup {"loaded"})
        /\ <<"report", "end">> \in Seq(Kinds \cup {"loaded"})
    BY DEF Kinds
  <2>3. sync' \in [Loads -> Seq(Kinds \cup {"loaded"})]
    BY <1>2, <2>1, <2>2 DEF LoadWorkspace, Channels
  <2>. QED
    BY <1>2, <2>1, <2>3 DEF LoadWorkspace, Channels, loaderVars
<1>3. CASE HandleProgress
    BY <1>3, SeqTail DEF HandleProgress, Channels, loaderVars
<1>4. CASE ApplyGraph
  <2>1. tasks' \in Seq(AnyTask) /\ version' \in Nat
    BY <1>4, SeqTail DEF ApplyGraph, Channels
  <2>2. <<<<version', "begin">>, <<version', "report">>, <<version', "end">>>> \in Seq(Nat \X Kinds)
    BY <2>1 DEF Kinds
  <2>3. scans' \in Seq(Nat \X Kinds)
    BY <1>4, <2>2 DEF ApplyGraph, Channels
  <2>. QED
    BY <1>4, <2>1, <2>3 DEF ApplyGraph, Channels
<1>5. CASE HandleScan
    BY <1>5, SeqTail DEF HandleScan, Channels, warmVars
<1>7. ASSUME NEW l \in Loads, SyncSends(l)
      PROVE  Channels'
  <2>1. Head(sync[l]) \in Kinds \cup {"loaded"} /\ Tail(sync[l]) \in Seq(Kinds \cup {"loaded"})
    BY <1>7, SeqTail DEF SyncSends, Channels
  <2>2. tasks' \in Seq(AnyTask)
    <3>1. CASE Head(sync[l]) = "loaded"
      <4>1. tasks' = Append(tasks, Task("loaded", <<"load", l>>))
        BY <1>7, <3>1 DEF SyncSends
      <4>. QED
        BY <4>1, SentLoaded, SeqAppend DEF Channels
    <3>2. CASE Head(sync[l]) # "loaded"
      <4>1. tasks' = Append(tasks, Task(Head(sync[l]), Sync)) /\ Head(sync[l]) \in Kinds
        BY <1>7, <2>1, <3>2 DEF SyncSends
      <4>2. Task(Head(sync[l]), Sync) \in AnyTask
        BY <4>1, SentEvent
      <4>. QED
        BY <4>1, <4>2, SeqAppend DEF Channels
    <3>. QED
      BY <3>1, <3>2
  <2>3. sync' \in [Loads -> Seq(Kinds \cup {"loaded"})]
    BY <1>7, <2>1 DEF SyncSends, Channels
  <2>. QED
    BY <1>7, <2>2, <2>3 DEF SyncSends, Channels, loaderVars
<1>8. ASSUME NEW l \in Loads, WarmupStep(l)
      PROVE  Channels'
  <2>1. \/ tasks' = tasks
        \/ tasks' = Append(tasks, Task("report", Index))
        \/ tasks' = Append(tasks, Task("end", Index))
    BY <1>8 DEF WarmupStep, WarmupCounts, WarmupReports, WarmupEnds
  <2>2. Task("report", Index) \in AnyTask /\ Task("end", Index) \in AnyTask
    BY SentEvent DEF Kinds
  <2>3. tasks' \in Seq(AnyTask)
    BY <2>1, <2>2, SeqAppend DEF Channels
  <2>. QED
    BY <1>8, <2>3 DEF WarmupStep, WarmupCounts, WarmupReports, WarmupEnds, Channels, loaderVars
<1>9. CASE ClientGrants \/ ClientRefuses
    BY <1>9 DEF ClientGrants, ClientRefuses, Channels, loaderVars
<1>. QED
    BY <1>1, <1>2, <1>3, <1>4, <1>5, <1>7, <1>8, <1>9 DEF Next

LEMMA StepOnTable ==
    ASSUME Table, Channels, [Next]_vars
    PROVE  Table'
<1>. USE ProgressAssumption
<1>1. ASSUME UNCHANGED <<token, asked>>
      PROVE  Table'
    BY <1>1 DEF Table, BufferAwaitsAnswer
<1>2. Sync \in AnyToken /\ Index \in AnyToken /\ \A v \in Nat : Scan(v) \in AnyToken
    BY DEF AnyToken
<1>3. CASE LoadWorkspace
  <2>1. BeginThen(Sync, <<>>) \/ BeginThen(Sync, <<"end">>)
    BY <1>3 DEF LoadWorkspace
  <2>. QED
    BY <2>1, <1>2, BeginKeepsTable
<1>4. CASE HandleProgress
  <2>1. Head(tasks).what \in Kinds /\ Head(tasks).token \in AnyToken
    BY <1>4, SeqTail, TaskTypes DEF HandleProgress, Channels
  <2>. QED
    BY <1>4, <2>1, ReportKeepsTable DEF HandleProgress
<1>5. CASE ApplyGraph
  <2>1. UNCHANGED <<token, asked>> \/ BeginThen(Index, <<>>)
    BY <1>5 DEF ApplyGraph, tokenVars
  <2>. QED
    BY <2>1, <1>1, <1>2, BeginKeepsTable
<1>6. CASE HandleScan
  <2>1. Head(scans) \in Nat \X Kinds
    BY <1>6, SeqTail DEF HandleScan, Channels
  <2>2. Head(scans)[1] \in Nat /\ Head(scans)[2] \in Kinds
    BY <2>1
  <2>3. UNCHANGED <<token, asked>> \/ ReportProgress(Scan(Head(scans)[1]), Head(scans)[2])
    BY <1>6 DEF HandleScan, tokenVars
  <2>. QED
    BY <2>2, <2>3, <1>1, <1>2, ReportKeepsTable
<1>7. CASE ClientGrants \/ ClientRefuses
  <2>. DEFINE new == IF token[Head(asked)].state = "creating" /\ ClientGrants THEN Active ELSE None
  <2>1. /\ Active \in [state : States, buffer : Seq(Kinds)] /\ Active.state # "creating"
        /\ None \in [state : States, buffer : Seq(Kinds)] /\ None.state # "creating"
    BY DEF Active, None, States
  <2>2. asked # <<>> /\ asked' = Tail(asked)
    BY <1>7 DEF ClientGrants, ClientRefuses
  <2>3. \/ token' = [token EXCEPT ![Head(asked)] = Active]
        \/ token' = [token EXCEPT ![Head(asked)] = None]
    BY <1>7 DEF ClientGrants, ClientRefuses
  <2>. QED
    BY <2>1, <2>2, <2>3, AnswerKeepsTable
<1>8. CASE UNCHANGED vars \/ \E l \in Loads : SyncSends(l) \/ WarmupStep(l)
  <2>1. UNCHANGED <<token, asked>>
    BY <1>8 DEF SyncSends, WarmupStep, WarmupCounts, WarmupReports, WarmupEnds,
                vars, tokenVars
  <2>. QED
    BY <2>1, <1>1
<1>. QED
    BY <1>3, <1>4, <1>5, <1>6, <1>7, <1>8 DEF Next

LEMMA Initially == Init => Table /\ Channels
<1>. USE ProgressAssumption
<1>1. None \in [state : States, buffer : Seq(Kinds)] /\ None.state = "none"
    BY DEF None, States
<1>. QED
    BY <1>1 DEF Init, Table, Channels, BufferAwaitsAnswer

(* A token is in the Creating state only while a create request for it is  *)
(* unanswered, and what is buffered starts with the Begin that sent it: no *)
(* order of syncs, warmups, scans, grants and refusals strands a buffer    *)
(* (report_progress, flush_progress, complete_request).                    *)
THEOREM BufferedEventsAwaitAnswer == Spec => []BufferAwaitsAnswer
<1>1. Table /\ Channels /\ [Next]_vars => Table' /\ Channels'
    BY StepOnTable, StepOnChannels
<1>2. Table => BufferAwaitsAnswer
    BY DEF Table
<1>. QED
    BY <1>1, <1>2, Initially, PTL DEF Spec

-----------------------------------------------------------------------------
(* What the client makes of what it is sent. *)

View == [answer : {"none", "granted", "refused"}, open : BOOLEAN, strays : SUBSET Strays]

OneBegin(b) == b # <<>> /\ b[1] = "begin" /\ \A i \in 2..Len(b) : b[i] # "begin"

LEMMA SeeAllTyped ==
    ASSUME NEW v \in View, NEW kinds \in Seq(Kinds)
    PROVE  /\ SeeAll(v, kinds) \in View /\ SeeAll(v, kinds).answer = v.answer
           /\ SeeAll(v, kinds).open = OpenAfter(v.open, kinds, Len(kinds))
           /\ v.strays \subseteq SeeAll(v, kinds).strays
           /\ "overlapped" \in SeeAll(v, kinds).strays => "overlapped" \in v.strays
           /\ v.answer # "none" /\ "unanswered" \in SeeAll(v, kinds).strays =>
                 "unanswered" \in v.strays
           /\ "reopened" \in SeeAll(v, kinds).strays /\ "reopened" \notin v.strays =>
                 \E n \in DOMAIN kinds : kinds[n] = "begin" /\ OpenAfter(v.open, kinds, n - 1)
<1>. DEFINE now == OpenAfter(v.open, kinds, Len(kinds))
            new == {s \in Strays :
                \/ s = "unanswered" /\ kinds # <<>> /\ v.answer = "none"
                \/ s = "reopened" /\ \E n \in DOMAIN kinds :
                                        kinds[n] = "begin" /\ OpenAfter(v.open, kinds, n - 1)}
            all == v.strays \cup new
<1>1. now \in BOOLEAN
  BY DEF OpenAfter, View
<1>2. /\ new \subseteq Strays /\ "overlapped" \notin new
      /\ v.answer # "none" => "unanswered" \notin new
      /\ "reopened" \in new =>
            \E n \in DOMAIN kinds : kinds[n] = "begin" /\ OpenAfter(v.open, kinds, n - 1)
  OBVIOUS
<1>3. SeeAll(v, kinds) = [v EXCEPT !.open = now, !.strays = all]
  BY DEF SeeAll
<1>4. v.strays \subseteq all /\ all \in SUBSET Strays
      /\ \A s : s \in all => s \in v.strays \/ s \in new
  BY <1>2 DEF View
<1>. HIDE DEF now, new, all
<1>5. SeeAll(v, kinds) = [answer |-> v.answer, open |-> now, strays |-> all]
  BY <1>3 DEF View
<1>6. /\ SeeAll(v, kinds) \in View /\ SeeAll(v, kinds).answer = v.answer
      /\ SeeAll(v, kinds).open = now /\ SeeAll(v, kinds).strays = all
  BY <1>1, <1>4, <1>5 DEF View
<1>. QED
  BY <1>2, <1>4, <1>6 DEF now

(* A Report leaves the bar as it is, an End closes it; neither begins one. *)
LEMMA SeeOne ==
    ASSUME NEW v \in View, NEW kind \in {"report", "end"}
    PROVE  /\ See(v, kind) \in View /\ See(v, kind).answer = v.answer
           /\ See(v, kind).open <=> (kind = "report" /\ v.open)
           /\ \A s \in {"reopened", "overlapped"} : s \in See(v, kind).strays => s \in v.strays
           /\ v.strays \subseteq See(v, kind).strays
           /\ v.answer # "none" /\ "unanswered" \in See(v, kind).strays =>
                 "unanswered" \in v.strays
<1>. DEFINE one == <<kind>>
<1>1. /\ one \in Seq(Kinds) /\ Len(one) = 1 /\ one[1] = kind
      /\ DOMAIN one = {1}
  BY DEF Kinds
<1>. HIDE DEF one
<1>2. OpenAfter(v.open, one, 1) <=> (kind = "report" /\ v.open)
  <2>1. one[1] = kind /\ \A i : i \in 1..1 <=> i = 1
    BY <1>1
  <2>2. v.open \in BOOLEAN /\ kind # "begin"
    BY DEF View
  <2>. QED
    BY <2>1, <2>2 DEF OpenAfter
<1>3. See(v, kind) = SeeAll(v, one)
  BY DEF See, one
<1>4. \A n \in DOMAIN one : one[n] # "begin"
  BY <1>1
<1>5. /\ See(v, kind) \in View /\ See(v, kind).answer = v.answer
      /\ See(v, kind).open = OpenAfter(v.open, one, 1)
  <2>1. one \in Seq(Kinds) /\ Len(one) = 1
    BY <1>1
  <2>2. SeeAll(v, one) \in View /\ SeeAll(v, one).answer = v.answer
    BY <2>1, SeeAllTyped
  <2>3. SeeAll(v, one).open = OpenAfter(v.open, one, Len(one))
    BY <2>1, SeeAllTyped
  <2>. QED
    BY <1>3, <2>1, <2>2, <2>3
<1>8. v.strays \subseteq See(v, kind).strays
  BY <1>1, <1>3, SeeAllTyped
<1>9. v.answer # "none" /\ "unanswered" \in See(v, kind).strays => "unanswered" \in v.strays
  BY <1>1, <1>3, SeeAllTyped
<1>6. "overlapped" \in See(v, kind).strays => "overlapped" \in v.strays
  BY <1>1, <1>3, SeeAllTyped
<1>7. "reopened" \in See(v, kind).strays => "reopened" \in v.strays
  BY <1>1, <1>3, <1>4, SeeAllTyped
<1>. QED
  BY <1>2, <1>5, <1>6, <1>7, <1>8, <1>9

(* A buffer with its one Begin in front is in order for a closed bar. *)
LEMMA SeeBuffer ==
    ASSUME NEW v \in View, NEW kinds \in Seq(Kinds),
           kinds = <<>> \/ (OneBegin(kinds) /\ ~v.open)
    PROVE  "reopened" \in SeeAll(v, kinds).strays => "reopened" \in v.strays
<1>1. Len(kinds) \in Nat /\ DOMAIN kinds = 1..Len(kinds)
  OBVIOUS
<1>2. ASSUME NEW n \in DOMAIN kinds, kinds[n] = "begin"
      PROVE  ~OpenAfter(v.open, kinds, n - 1)
  <2>1. OneBegin(kinds) /\ ~v.open
    BY <1>1, <1>2
  <2>2. n = 1
    BY <1>1, <1>2, <2>1 DEF OneBegin
  <2>. QED
    BY <2>1, <2>2 DEF OpenAfter
<1>. QED
  BY <1>2, SeeAllTyped

-----------------------------------------------------------------------------
(* Nothing is sent while the client owes an answer.  A stage has started    *)
(* once its first Begin was handled: from then on its token is being        *)
(* created or answered.                                                     *)
Started(t) ==
    \/ t = Sync /\ loads > 0
    \/ t = Index /\ \E l \in Loads, b \in Libraries : warming[l][b] # "none"
    \/ t = Scan(scanning)

Stages ==
    /\ warming \in [Loads -> [Libraries -> {"none", "running", "counted", "last", "ending", "done"}]]
    /\ \A i \in DOMAIN tasks :
          tasks[i].what \in Kinds => tasks[i].token \in {Sync, Index} /\ Started(tasks[i].token)
    /\ \A l \in Loads : sync[l] # <<>> => loads > 0

Views ==
    /\ view \in [Tokens -> View]
    /\ \A t \in Tokens :
          /\ view[t].answer = "none" =>
                token[t].state = "creating" \/ (token[t].state = "none" /\ ~Started(t))
          /\ "unanswered" \notin view[t].strays

(* How a step moves the table of tokens; a stage starts with its Begin. *)
NoneStarts(but) == \A t \in Tokens \ but : Started(t)' => Started(t)

Moves ==
    \/ UNCHANGED <<token, asked, view>> /\ NoneStarts({})
    \/ \E u \in AnyToken, rest \in {<<>>, <<"end">>} : BeginThen(u, rest) /\ NoneStarts({u})
    \/ \E u \in AnyToken, kind \in {"report", "end"} :
          Continue(u, kind) /\ Started(u) /\ NoneStarts({})
    \/ (ClientGrants \/ ClientRefuses) /\ NoneStarts({})

LEMMA TokenNames ==
    /\ Sync # Index /\ Sync \in AnyToken /\ Index \in AnyToken
    /\ Sync \in Tokens /\ Index \in Tokens
    /\ \A v \in Nat : Scan(v) \in AnyToken
    /\ \A v : Scan(v) # Sync /\ Scan(v) # Index
    /\ \A v, w : Scan(v) = Scan(w) => v = w
    /\ \A v \in Loads : Scan(v) \in Tokens /\ v # 0 /\ v \in Nat
    /\ \A t \in Tokens : t \in {Sync, Index} \/ \E v \in Loads : t = Scan(v)
    /\ Scan(0) \notin Tokens
BY ProgressAssumption DEF Sync, Index, Scan, Tokens, AnyToken, Loads

LEMMA TailOf ==
    ASSUME NEW S, NEW s \in Seq(S), s # <<>>
    PROVE  /\ Head(s) = s[1] /\ 1 \in DOMAIN s
           /\ \A i \in DOMAIN Tail(s) : i + 1 \in DOMAIN s /\ Tail(s)[i] = s[i + 1]
<1>1. /\ Head(s) = s[1] /\ Len(s) \in Nat \ {0} /\ Len(Tail(s)) = Len(s) - 1
      /\ \A i \in 1..(Len(s) - 1) : Tail(s)[i] = s[i + 1]
      /\ DOMAIN s = 1..Len(s) /\ DOMAIN Tail(s) = 1..(Len(s) - 1)
  OBVIOUS
<1>. QED
  BY <1>1

LEMMA AppendOf ==
    ASSUME NEW S, NEW s \in Seq(S), NEW e \in S
    PROVE  \A i \in DOMAIN Append(s, e) :
              \/ i \in DOMAIN s /\ Append(s, e)[i] = s[i]
              \/ i = Len(s) + 1 /\ Append(s, e)[i] = e
<1>1. /\ Len(Append(s, e)) = Len(s) + 1 /\ Append(s, e)[Len(s) + 1] = e
      /\ \A i \in 1..Len(s) : Append(s, e)[i] = s[i]
      /\ Len(s) \in Nat /\ DOMAIN s = 1..Len(s) /\ DOMAIN Append(s, e) = 1..(Len(s) + 1)
  OBVIOUS
<1>. QED
  BY <1>1

LEMMA ReportMoves ==
    ASSUME NEW u \in AnyToken, NEW kind \in Kinds, ReportProgress(u, kind), Started(u),
           NoneStarts({})
    PROVE  Moves
<1>1. NoneStarts({u})
  BY DEF NoneStarts
<1>2. CASE kind = "begin"
  <2>1. BeginThen(u, <<>>)
    BY <1>2 DEF ReportProgress
  <2>. QED
    BY <1>1, <1>2, <2>1 DEF Moves
<1>3. CASE kind # "begin"
  BY <1>3 DEF ReportProgress, Moves, Kinds
<1>. QED
  BY <1>2, <1>3

LEMMA StepMoves ==
    ASSUME Channels, Stages, [Next]_vars
    PROVE  Moves
<1>0. ASSUME UNCHANGED <<loads, warming, scanning>>
      PROVE  NoneStarts({})
  BY <1>0 DEF NoneStarts, Started
<1>1. CASE UNCHANGED vars
  BY <1>0, <1>1 DEF vars, tokenVars, loaderVars, warmVars, Moves
<1>2. CASE LoadWorkspace
  <2>1. PICK rest \in {<<>>, <<"end">>} : BeginThen(Sync, rest)
    BY <1>2 DEF LoadWorkspace
  <2>2. NoneStarts({Sync})
    BY <1>2 DEF LoadWorkspace, NoneStarts, Started, loaderVars, warmVars
  <2>. QED
    BY <1>2, <2>1, <2>2, TokenNames DEF Moves
<1>3. CASE HandleProgress
  <2>1. Head(tasks) = tasks[1] /\ 1 \in DOMAIN tasks
    BY <1>3, TailOf DEF HandleProgress, Channels
  <2>2. Head(tasks).what \in Kinds /\ ReportProgress(Head(tasks).token, Head(tasks).what)
    BY <1>3 DEF HandleProgress
  <2>3. Head(tasks).token \in {Sync, Index} /\ Started(Head(tasks).token)
    BY <2>1, <2>2 DEF Stages
  <2>4. NoneStarts({})
    BY <1>0, <1>3 DEF HandleProgress, loaderVars, warmVars
  <2>. QED
    BY <1>3, <2>2, <2>3, <2>4, TokenNames, ReportMoves
<1>4. CASE ApplyGraph
  <2>. DEFINE registers == LibrariesOf[Head(tasks).token[2]] # {}
  <2>1. CASE ~registers
    BY <1>0, <1>4, <2>1 DEF ApplyGraph, tokenVars, Moves
  <2>2. CASE registers
    <3>1. BeginThen(Index, <<>>)
      BY <1>4, <2>2 DEF ApplyGraph
    <3>2. NoneStarts({Index})
      BY <1>4 DEF ApplyGraph, NoneStarts, Started
    <3>. QED
      BY <1>4, <3>1, <3>2, TokenNames DEF Moves
  <2>. QED
    BY <2>1, <2>2
<1>5. CASE HandleScan
  <2>. DEFINE v == Head(scans)[1]
              kind == Head(scans)[2]
  <2>1. v \in Nat /\ kind \in Kinds
    BY <1>5, SeqTail DEF HandleScan, Channels
  <2>2. /\ IF v = version /\ (kind = "begin" \/ scanning = v)
           THEN ReportProgress(Scan(v), kind) ELSE UNCHANGED tokenVars
        /\ scanning' = CASE v = version /\ kind = "begin" -> v
                         [] v = version /\ kind = "end" /\ scanning = v -> 0
                         [] OTHER -> scanning
    BY <1>5 DEF HandleScan
  <2>3. UNCHANGED <<loads, warming>>
    BY <1>5 DEF HandleScan, warmVars
  <2>. HIDE DEF v, kind
  <2>4. CASE v = version /\ kind = "begin"
    <3>1. BeginThen(Scan(v), <<>>) /\ scanning' = v
      BY <2>2, <2>4 DEF ReportProgress
    <3>2. NoneStarts({Scan(v)})
      BY <2>3, <3>1 DEF NoneStarts, Started
    <3>. QED
      BY <2>1, <3>1, <3>2, TokenNames DEF Moves
  <2>5. CASE v = version /\ kind # "begin" /\ scanning = v
    <3>1. ReportProgress(Scan(v), kind) /\ scanning' \in {0, scanning}
      BY <2>2, <2>5
    <3>2. Started(Scan(v)) /\ Scan(v) \in AnyToken
      BY <2>1, <2>5, TokenNames DEF Started
    <3>3. NoneStarts({})
      BY <2>3, <3>1, TokenNames DEF NoneStarts, Started
    <3>. QED
      BY <2>1, <2>5, <3>1, <3>2, <3>3, ReportMoves
  <2>6. CASE ~(v = version /\ (kind = "begin" \/ scanning = v))
    <3>1. UNCHANGED tokenVars /\ scanning' = scanning
      BY <2>2, <2>6
    <3>. QED
      BY <1>0, <2>3, <3>1 DEF Moves, tokenVars
  <2>. QED
    BY <2>4, <2>5, <2>6
<1>6. CASE \E l \in Loads : SyncSends(l)
  BY <1>0, <1>6 DEF SyncSends, tokenVars, loaderVars, warmVars, Moves
<1>7. ASSUME NEW l \in Loads, WarmupStep(l)
      PROVE  Moves
  <2>1. PICK b \in Libraries, step \in {"counted", "last", "ending", "done"} :
            warming[l][b] # "none" /\ warming' = [warming EXCEPT ![l][b] = step]
    BY <1>7 DEF WarmupStep, WarmupCounts, WarmupReports, WarmupEnds
  <2>2. \A k \in Loads, c \in Libraries : warming'[k][c] # "none" => warming[k][c] # "none"
    BY <2>1 DEF Stages
  <2>3. UNCHANGED <<token, asked, view, loads, scanning>>
    BY <1>7 DEF WarmupStep, WarmupCounts, WarmupReports, WarmupEnds, tokenVars, loaderVars
  <2>. QED
    BY <2>2, <2>3 DEF Moves, NoneStarts, Started
<1>8. CASE ClientGrants \/ ClientRefuses
  BY <1>0, <1>8 DEF ClientGrants, ClientRefuses, loaderVars, warmVars, Moves
<1>. QED
  BY <1>1, <1>2, <1>3, <1>4, <1>5, <1>6, <1>7, <1>8 DEF Next

LEMMA StagesKept ==
    ASSUME Channels, Stages, [Next]_vars
    PROVE  Stages'
<1>. DEFINE Steps == {"none", "running", "counted", "last", "ending", "done"}
<1>. USE ProgressAssumption
<1>0. tasks \in Seq(AnyTask)
  BY DEF Channels
(* What has started stays so for syncs and warmups. *)
<1>1. /\ loads' >= loads
      /\ \A l \in Loads, b \in Libraries : warming[l][b] # "none" => warming'[l][b] # "none"
      /\ warming' \in [Loads -> [Libraries -> Steps]]
  <2>0. loads \in Nat /\ warming \in [Loads -> [Libraries -> Steps]]
    BY DEF Channels, Stages
  <2>1. CASE UNCHANGED <<loads, warming>>
    BY <2>0, <2>1
  <2>2. CASE LoadWorkspace
    BY <2>0, <2>2 DEF LoadWorkspace, warmVars
  <2>3. CASE ApplyGraph
    <3>. DEFINE l == Head(tasks).token[2]
                jobs == [b \in Libraries |-> IF b \in LibrariesOf[l] THEN "running" ELSE warming[l][b]]
    <3>1. CASE LibrariesOf[l] = {}
      BY <2>0, <2>3, <3>1 DEF ApplyGraph
    <3>2. CASE LibrariesOf[l] # {}
      <4>1. warming' = [warming EXCEPT ![l] = jobs]
        BY <2>3, <3>2 DEF ApplyGraph
      <4>2. l \in Loads => jobs \in [Libraries -> Steps]
        BY <2>0
      <4>3. \A k \in Loads : warming'[k] = warming[k] \/ (k = l /\ warming'[k] = jobs)
        BY <2>0, <4>1
      <4>4. warming' \in [Loads -> [Libraries -> Steps]] /\ loads' = loads
        BY <2>0, <2>3, <4>1, <4>2 DEF ApplyGraph
      <4>. QED
        BY <2>0, <4>3, <4>4
    <3>. QED
      BY <3>1, <3>2
  <2>4. ASSUME NEW l \in Loads, WarmupStep(l)
        PROVE  /\ loads' >= loads
               /\ \A k \in Loads, c \in Libraries : warming[k][c] # "none" => warming'[k][c] # "none"
               /\ warming' \in [Loads -> [Libraries -> Steps]]
    <3>1. PICK b \in Libraries, step \in Steps \ {"none"} : warming' = [warming EXCEPT ![l][b] = step]
      BY <2>4 DEF WarmupStep, WarmupCounts, WarmupReports, WarmupEnds
    <3>2. loads' = loads
      BY <2>4 DEF WarmupStep, WarmupCounts, WarmupReports, WarmupEnds
    <3>. QED
      BY <2>0, <3>1, <3>2
  <2>. QED
    BY <2>1, <2>2, <2>3, <2>4
       DEF Next, HandleProgress, HandleScan, SyncSends, ClientGrants, ClientRefuses,
           warmVars, vars
<1>. PICK S \in SUBSET {Sync, Index} : \A t \in {Sync, Index} : t \in S <=> Started(t)'
  <2>. DEFINE now == {t \in {Sync, Index} : Started(t)'}
  <2>1. now \in SUBSET {Sync, Index} /\ \A t \in {Sync, Index} : t \in now <=> Started(t)'
    OBVIOUS
  <2>. QED
    BY <2>1
<1>. DEFINE Fine(q) == \A i \in DOMAIN q : q[i].what \in Kinds => q[i].token \in S
<1>2. \A t \in {Sync, Index} : Started(t) => t \in S
  <2>1. loads \in Nat /\ loads' \in Nat /\ loads' >= loads
    BY <1>1, StepOnChannels DEF Channels
  <2>. QED
    BY <1>1, <2>1, TokenNames DEF Started
<1>3. Fine(tasks)
  BY <1>2 DEF Stages
<1>4. ASSUME tasks # <<>>
      PROVE  Fine(Tail(tasks))
  BY <1>0, <1>3, <1>4, TailOf
<1>5. ASSUME NEW e \in AnyTask, e.what \in Kinds => e.token \in S
      PROVE  Fine(Append(tasks, e))
  BY <1>0, <1>2, <1>3, <1>5, AppendOf
<1>. DEFINE LoadsCounted == \A l \in Loads : sync'[l] # <<>> => loads' > 0
<1>12. ASSUME Fine(tasks'), LoadsCounted
       PROVE  Stages'
  <2>1. \A i \in DOMAIN tasks' : tasks'[i].what \in Kinds =>
            tasks'[i].token \in {Sync, Index} /\ Started(tasks[i].token)'
    BY <1>12 DEF Started
  <2>. QED
    BY <1>1, <1>12, <2>1 DEF Stages
<1>6. CASE \/ UNCHANGED <<tasks, sync>>
           \/ tasks # <<>> /\ tasks' = Tail(tasks) /\ sync' = sync
  <2>1. Fine(tasks')
    BY <1>3, <1>4, <1>6
  <2>2. LoadsCounted
    <3>1. loads \in Nat /\ loads' \in Nat
      BY StepOnChannels DEF Channels
    <3>. QED
      BY <1>1, <1>6, <3>1 DEF Stages
  <2>. QED
    BY <1>12, <2>1, <2>2
<1>7. CASE LoadWorkspace
  <2>1. loads' > 0 /\ tasks' = tasks
    BY <1>7 DEF LoadWorkspace, Channels
  <2>. QED
    BY <1>3, <1>12, <2>1
<1>8. ASSUME NEW l \in Loads, SyncSends(l)
      PROVE  Stages'
  <2>1. loads > 0 /\ Started(Sync) /\ loads' = loads
    BY <1>8 DEF Stages, SyncSends, Started
  <2>2. Head(sync[l]) \in Kinds \cup {"loaded"}
    BY <1>8, SeqTail DEF SyncSends, Channels
  <2>3. PICK e \in AnyTask : /\ tasks' = Append(tasks, e)
                             /\ e.what \in Kinds => e.token = Sync
    <3>1. CASE Head(sync[l]) = "loaded"
      BY <1>8, <3>1, SentLoaded DEF SyncSends, Task, Kinds
    <3>2. CASE Head(sync[l]) # "loaded"
      <4>1. Head(sync[l]) \in Kinds /\ tasks' = Append(tasks, Task(Head(sync[l]), Sync))
        BY <1>8, <2>2, <3>2 DEF SyncSends
      <4>2. Task(Head(sync[l]), Sync) \in AnyTask /\ Task(Head(sync[l]), Sync).token = Sync
        BY <4>1, SentEvent DEF Task
      <4>. QED
        BY <4>1, <4>2
    <3>. QED
      BY <3>1, <3>2
  <2>4. Fine(tasks')
    BY <1>2, <1>5, <2>1, <2>3
  <2>5. LoadsCounted
    BY <2>1
  <2>. QED
    BY <1>12, <2>4, <2>5
<1>9. ASSUME NEW l \in Loads, WarmupStep(l)
      PROVE  Stages'
  <2>1. Started(Index)
    BY <1>9 DEF WarmupStep, WarmupCounts, WarmupReports, WarmupEnds, Started
  <2>2. /\ sync' = sync
        /\ \/ tasks' = tasks
           \/ \E kind \in Kinds : tasks' = Append(tasks, Task(kind, Index))
    BY <1>9 DEF WarmupStep, WarmupCounts, WarmupReports, WarmupEnds, Kinds
  <2>3. ASSUME NEW kind \in Kinds, tasks' = Append(tasks, Task(kind, Index))
        PROVE  Fine(tasks')
    <3>1. Task(kind, Index) \in AnyTask /\ Task(kind, Index).token = Index
      BY SentEvent DEF Task
    <3>. QED
      BY <1>2, <1>5, <2>1, <2>3, <3>1
  <2>4. loads' = loads
    BY <1>9 DEF WarmupStep, WarmupCounts, WarmupReports, WarmupEnds
  <2>5. LoadsCounted
    BY <2>2, <2>4 DEF Stages
  <2>. QED
    BY <1>3, <1>12, <2>2, <2>3, <2>5
<1>10. \/ UNCHANGED <<tasks, sync>>
       \/ tasks # <<>> /\ tasks' = Tail(tasks) /\ sync' = sync
       \/ LoadWorkspace \/ \E l \in Loads : SyncSends(l) \/ WarmupStep(l)
  BY DEF Next, HandleProgress, ApplyGraph, HandleScan, ClientGrants, ClientRefuses, vars
<1>. QED
  BY <1>6, <1>7, <1>8, <1>9, <1>10

(* What each move does to a token and to the client's view of it. *)

Kept(t) == token'[t] = token[t] /\ view'[t] = view[t]

LEMMA BeginMoves ==
    ASSUME Table, view \in [Tokens -> View], NEW u \in AnyToken, NEW rest \in {<<>>, <<"end">>},
           BeginThen(u, rest)
    PROVE  /\ \A t \in Tokens : t # u => Kept(t)
           /\ u \in Tokens =>
                 /\ token'[u] = Creating(<<"begin">> \o rest)
                 /\ token[u].state = "active" => ~view'[u].open
                 /\ token[u].state # "active" => view'[u].open = view[u].open
                 /\ "overlapped" \notin view'[u].strays =>
                       "overlapped" \notin view[u].strays /\ ~Awaited(u, asked)
                 /\ "reopened" \in view'[u].strays => "reopened" \in view[u].strays
                 /\ view[u].answer # "none" \/ token[u].state # "active" =>
                       ("unanswered" \in view'[u].strays => "unanswered" \in view[u].strays)
           /\ view' \in [Tokens -> View]
<1>1. CASE u \in Tokens
  <2>. DEFINE seen == ClosedView(u)
              again == Awaited(u, asked)
  <2>1. /\ seen \in View /\ view[u].strays \subseteq seen.strays
        /\ \A s \in {"reopened", "overlapped"} : s \in seen.strays => s \in view[u].strays
        /\ token[u].state = "active" => ~seen.open
        /\ token[u].state # "active" => seen.open = view[u].open
        /\ view[u].answer # "none" \/ token[u].state # "active" =>
              ("unanswered" \in seen.strays => "unanswered" \in view[u].strays)
    BY <1>1, SeeOne DEF ClosedView
  <2>2. /\ token' = [token EXCEPT ![u] = Creating(<<"begin">> \o rest)]
        /\ view' = [view EXCEPT ![u] = SeeAsked(seen, again)]
    BY DEF BeginThen
  <2>. HIDE DEF seen, again
  <2>3. /\ SeeAsked(seen, again) \in View
        /\ SeeAsked(seen, again).open = seen.open
        /\ SeeAsked(seen, again).strays = IF again THEN seen.strays \cup {"overlapped"}
                                                   ELSE seen.strays
    BY <2>1 DEF SeeAsked, View, Strays
  <2>. QED
    BY <1>1, <2>1, <2>2, <2>3 DEF Table, Kept, again
<1>2. CASE u \notin Tokens
  BY <1>2 DEF BeginThen, Table, Kept
<1>. QED
  BY <1>1, <1>2

LEMMA ContinueMoves ==
    ASSUME Table, view \in [Tokens -> View], NEW u \in AnyToken, NEW kind \in {"report", "end"},
           Continue(u, kind)
    PROVE  /\ \A t \in Tokens : t # u => Kept(t)
           /\ u \in Tokens /\ token[u].state = "creating" =>
                 token'[u] = Creating(Append(token[u].buffer, kind)) /\ view'[u] = view[u]
           /\ u \in Tokens /\ token[u].state # "creating" =>
                 /\ token'[u] = IF kind = "end" THEN None ELSE token[u]
                 /\ view'[u] = See(view[u], kind)
           /\ view' \in [Tokens -> View] /\ asked' = asked
<1>1. CASE u \in Tokens
  <2>1. See(view[u], kind) \in View
    BY <1>1, SeeOne
  <2>2. CASE token[u].state = "creating"
    <3>1. /\ token' = [token EXCEPT ![u] = Creating(Append(token[u].buffer, kind))]
          /\ view' = view /\ asked' = asked
      BY <2>2 DEF Continue
    <3>. QED
      BY <1>1, <2>2, <3>1 DEF Table, Kept
  <2>3. CASE token[u].state # "creating"
    <3>1. /\ token' = IF kind = "end" THEN [token EXCEPT ![u] = None] ELSE token
          /\ view' = [view EXCEPT ![u] = See(view[u], kind)] /\ asked' = asked
      BY <2>3 DEF Continue
    <3>. QED
      BY <1>1, <2>1, <2>3, <3>1 DEF Table, Kept
  <2>. QED
    BY <2>2, <2>3
<1>2. CASE u \notin Tokens
  BY <1>2 DEF Continue, Table, Kept
<1>. QED
  BY <1>1, <1>2

LEMMA AnswerMoves ==
    ASSUME Table, view \in [Tokens -> View], ClientGrants \/ ClientRefuses
    PROVE  /\ asked # <<>> /\ asked' = Tail(asked)
           /\ \A t \in Tokens : t # Head(asked) => Kept(t)
           /\ Head(asked) \in Tokens =>
                 \E v \in View :
                    /\ v.answer # "none" /\ v.open = view[Head(asked)].open
                    /\ v.strays = view[Head(asked)].strays
                    /\ \/ /\ ClientGrants
                          /\ token'[Head(asked)] = IF token[Head(asked)].state = "creating"
                                                   THEN Active ELSE None
                          /\ view'[Head(asked)] = SeeAll(v, token[Head(asked)].buffer)
                       \/ token'[Head(asked)] = None /\ view'[Head(asked)] = v
           /\ view' \in [Tokens -> View]
<1>. PICK u \in AnyToken : u = Head(asked)
  BY TailAwaited DEF Table, ClientGrants, ClientRefuses
<1>1. CASE u \notin Tokens
  BY <1>1 DEF ClientGrants, ClientRefuses, Table, Kept
<1>2. CASE u \in Tokens /\ ClientGrants
  <2>. DEFINE v == [view[u] EXCEPT !.answer = "granted"]
  <2>1. v \in View /\ v.answer # "none" /\ v.open = view[u].open /\ v.strays = view[u].strays
    BY <1>2 DEF View
  <2>2. /\ token' = [token EXCEPT ![u] = IF token[u].state = "creating" THEN Active ELSE None]
        /\ view' = [view EXCEPT ![u] = SeeAll(v, token[u].buffer)]
        /\ asked # <<>> /\ asked' = Tail(asked)
    BY <1>2 DEF ClientGrants
  <2>. HIDE DEF v
  <2>3. SeeAll(v, token[u].buffer) \in View
    BY <1>2, <2>1, SeeAllTyped DEF Table
  <2>. QED
    BY <1>2, <2>1, <2>2, <2>3 DEF Table, Kept
<1>3. CASE u \in Tokens /\ ClientRefuses
  <2>. DEFINE v == [view[u] EXCEPT !.answer = "refused"]
  <2>1. v \in View /\ v.answer # "none" /\ v.open = view[u].open /\ v.strays = view[u].strays
    BY <1>3 DEF View
  <2>2. /\ token' = [token EXCEPT ![u] = None] /\ view' = [view EXCEPT ![u] = v]
        /\ asked # <<>> /\ asked' = Tail(asked)
    BY <1>3 DEF ClientRefuses
  <2>. HIDE DEF v
  <2>. QED
    BY <1>3, <2>1, <2>2 DEF Table, Kept
<1>. QED
  BY <1>1, <1>2, <1>3

LEMMA ViewsKept ==
    ASSUME Table, Views, Moves
    PROVE  Views'
<1>. DEFINE Waits(t) == view[t].answer = "none" =>
                token[t].state = "creating" \/ (token[t].state = "none" /\ ~Started(t))
            Fine(t) == Waits(t) /\ "unanswered" \notin view[t].strays
<1>1. view \in [Tokens -> View] /\ \A t \in Tokens : Fine(t)
  BY DEF Views
<1>2. Creating(<<"begin">>).state = "creating" /\ \A b : Creating(b).state = "creating"
  BY DEF Creating
<1>3. ASSUME NEW t \in Tokens, Kept(t), ~Started(t)' \/ Started(t)
      PROVE  Fine(t)'
  BY <1>1, <1>3 DEF Kept
<1>4. ASSUME NEW u \in AnyToken, NEW rest \in {<<>>, <<"end">>}, BeginThen(u, rest),
             NoneStarts({u})
      PROVE  Views'
  <2>1. /\ \A t \in Tokens : t # u => Kept(t)
        /\ u \in Tokens =>
              /\ token'[u] = Creating(<<"begin">> \o rest)
              /\ view[u].answer # "none" \/ token[u].state # "active" =>
                    ("unanswered" \in view'[u].strays => "unanswered" \in view[u].strays)
        /\ view' \in [Tokens -> View]
    BY <1>1, <1>4, BeginMoves
  <2>2. ASSUME u \in Tokens PROVE Fine(u)'
    <3>1. token'[u].state = "creating"
      BY <1>2, <2>1, <2>2
    <3>2. "unanswered" \notin view'[u].strays
      BY <1>1, <1>2, <2>1, <2>2
    <3>. QED
      BY <1>1, <2>2, <3>1, <3>2
  <2>3. ASSUME NEW t \in Tokens, t # u PROVE Fine(t)'
    <3>1. ~Started(t)' \/ Started(t)
      BY <1>4, <2>3 DEF NoneStarts
    <3>. QED
      BY <1>3, <2>1, <2>3, <3>1
  <2>. QED
    BY <2>1, <2>2, <2>3 DEF Views
<1>5. ASSUME NEW u \in AnyToken, NEW kind \in {"report", "end"}, Continue(u, kind), Started(u),
             NoneStarts({})
      PROVE  Views'
  <2>1. /\ \A t \in Tokens : t # u => Kept(t)
        /\ u \in Tokens /\ token[u].state = "creating" =>
              token'[u] = Creating(Append(token[u].buffer, kind)) /\ view'[u] = view[u]
        /\ u \in Tokens /\ token[u].state # "creating" => view'[u] = See(view[u], kind)
        /\ view' \in [Tokens -> View] /\ asked' = asked
    BY <1>1, <1>5, ContinueMoves
  <2>2. ASSUME NEW t \in Tokens PROVE ~Started(t)' \/ Started(t)
    BY <1>5 DEF NoneStarts
  <2>3. ASSUME u \in Tokens PROVE Fine(u)'
    <3>1. CASE token[u].state = "creating"
      BY <1>1, <1>2, <2>1, <2>3, <3>1
    <3>2. CASE token[u].state # "creating"
      <4>1. view[u].answer # "none" /\ view[u] \in View
        BY <1>1, <1>5, <2>3, <3>2
      <4>2. view'[u] = See(view[u], kind) /\ "unanswered" \notin view[u].strays
        BY <1>1, <1>5, <2>1, <2>3, <3>2
      <4>3. view'[u].answer # "none" /\ "unanswered" \notin view'[u].strays
        BY <4>1, <4>2, SeeOne
      <4>. QED
        BY <1>1, <2>3, <4>3
    <3>. QED
      BY <3>1, <3>2
  <2>. QED
    BY <1>3, <2>1, <2>2, <2>3 DEF Views
<1>6. CASE (ClientGrants \/ ClientRefuses) /\ NoneStarts({})
  <2>1. /\ asked # <<>> /\ asked' = Tail(asked)
        /\ \A t \in Tokens : t # Head(asked) => Kept(t)
        /\ view' \in [Tokens -> View]
    BY <1>1, <1>6, AnswerMoves
  <2>2. ASSUME NEW t \in Tokens PROVE ~Started(t)' \/ Started(t)
    BY <1>6 DEF NoneStarts
  <2>3. ASSUME NEW u \in Tokens, u = Head(asked) PROVE Fine(u)'
    <3>1. PICK v \in View :
             /\ v.answer # "none" /\ v.strays = view[u].strays
             /\ view'[u] = SeeAll(v, token[u].buffer) \/ view'[u] = v
      BY <1>1, <1>6, <2>3, AnswerMoves
    <3>2. token[u].buffer \in Seq(Kinds)
      BY DEF Table
    <3>3. view'[u].answer # "none" /\ ("unanswered" \in view'[u].strays => "unanswered" \in view[u].strays)
      BY <3>1, <3>2, SeeAllTyped
    <3>. QED
      BY <1>1, <3>3
  <2>. QED
    BY <1>3, <2>1, <2>2, <2>3 DEF Views
<1>7. CASE UNCHANGED <<token, asked, view>> /\ NoneStarts({})
  <2>1. \A t \in Tokens : Kept(t)
    BY <1>7 DEF Kept
  <2>2. ASSUME NEW t \in Tokens PROVE ~Started(t)' \/ Started(t)
    BY <1>7 DEF NoneStarts
  <2>. QED
    BY <1>1, <1>3, <1>7, <2>1, <2>2 DEF Views
<1>. QED
  BY <1>4, <1>5, <1>6, <1>7 DEF Moves

LEMMA ViewsInitially == Init => Stages /\ Views
<1>1. [answer |-> "none", open |-> FALSE, strays |-> {}] \in View
  BY DEF View
<1>2. ASSUME Init, NEW t \in Tokens
      PROVE  ~Started(t)
  BY <1>2, TokenNames DEF Init, Started
<1>3. Init => Views
  BY <1>1, <1>2 DEF Init, Views, None
<1>. QED
  BY <1>3, ProgressAssumption DEF Init, Stages

-----------------------------------------------------------------------------
(* A token the client was never asked for twice at once: at most one create *)
(* request for it is open, none unless the token is being created, its bar  *)
(* is closed while the token is created or forgotten, and what is buffered  *)
(* begins once.                                                             *)
Orderly(t) ==
    /\ token[t].state # "creating" => ~Awaited(t, asked)
    /\ \A i, j \in DOMAIN asked : asked[i] = t /\ asked[j] = t => i = j
    /\ token[t].state # "active" => ~view[t].open
    /\ "reopened" \notin view[t].strays

Bars ==
    \A t \in Tokens :
        /\ token[t].state = "creating" => OneBegin(token[t].buffer)
        /\ token[t].state # "creating" => token[t].buffer = <<>>
        /\ "overlapped" \notin view[t].strays => Orderly(t)

LEMMA OneBeginKept ==
    /\ \A rest \in {<<>>, <<"end">>} : OneBegin(<<"begin">> \o rest)
    /\ \A b \in Seq(Kinds), kind \in {"report", "end"} : OneBegin(b) => OneBegin(Append(b, kind))
<1>1. OneBegin(<<"begin">> \o <<>>) /\ OneBegin(<<"begin">> \o <<"end">>)
  BY DEF OneBegin
<1>2. ASSUME NEW b \in Seq(Kinds), NEW kind \in {"report", "end"}, OneBegin(b)
      PROVE  OneBegin(Append(b, kind))
  <2>1. /\ Len(Append(b, kind)) = Len(b) + 1 /\ Append(b, kind)[Len(b) + 1] = kind
        /\ \A i \in 1..Len(b) : Append(b, kind)[i] = b[i]
        /\ Len(b) \in Nat
    BY DEF Kinds
  <2>2. Len(b) > 0
    BY <1>2 DEF OneBegin
  <2>3. Append(b, kind) # <<>> /\ Append(b, kind)[1] = "begin"
    BY <1>2, <2>1, <2>2 DEF OneBegin
  <2>4. \A i \in 2..Len(Append(b, kind)) : Append(b, kind)[i] # "begin"
    BY <1>2, <2>1 DEF OneBegin
  <2>. QED
    BY <2>3, <2>4 DEF OneBegin
<1>. QED
  BY <1>1, <1>2

(* What is buffered is one Begin and what followed it. *)
LEMMA BuffersKept ==
    ASSUME Table, Views, Bars, Moves, NEW t \in Tokens
    PROVE  /\ token'[t].state = "creating" => OneBegin(token'[t].buffer)
           /\ token'[t].state # "creating" => token'[t].buffer = <<>>
<1>1. /\ view \in [Tokens -> View] /\ token \in [Tokens -> [state : States, buffer : Seq(Kinds)]]
      /\ token[t].state = "creating" => OneBegin(token[t].buffer)
      /\ token[t].state # "creating" => token[t].buffer = <<>>
  BY DEF Views, Table, Bars
<1>2. /\ \A b : Creating(b).state = "creating" /\ Creating(b).buffer = b
      /\ None.state = "none" /\ None.buffer = <<>> /\ Active.state = "active" /\ Active.buffer = <<>>
  BY DEF Creating, None, Active
<1>3. CASE Kept(t)
  BY <1>1, <1>3 DEF Kept
<1>4. ASSUME NEW rest \in {<<>>, <<"end">>}, token'[t] = Creating(<<"begin">> \o rest)
      PROVE  OneBegin(token'[t].buffer) /\ token'[t].state = "creating"
  BY <1>2, <1>4, OneBeginKept
<1>5. ASSUME NEW kind \in {"report", "end"}, token[t].state = "creating",
             token'[t] = Creating(Append(token[t].buffer, kind))
      PROVE  OneBegin(token'[t].buffer) /\ token'[t].state = "creating"
  <2>1. OneBegin(Append(token[t].buffer, kind))
    BY <1>1, <1>5, OneBeginKept
  <2>. QED
    BY <1>2, <1>5, <2>1
<1>6. CASE token'[t] \in {None, Active}
  BY <1>2, <1>6
<1>7. ASSUME NEW u \in AnyToken, NEW rest \in {<<>>, <<"end">>}, BeginThen(u, rest)
      PROVE  Kept(t) \/ token'[t] = Creating(<<"begin">> \o rest)
  BY <1>1, <1>7, BeginMoves
<1>8. ASSUME NEW u \in AnyToken, NEW kind \in {"report", "end"}, Continue(u, kind)
      PROVE  \/ Kept(t)
             \/ token[t].state = "creating" /\ token'[t] = Creating(Append(token[t].buffer, kind))
             \/ token'[t] = None
             \/ token[t].state # "creating" /\ token'[t] = token[t]
  BY <1>1, <1>8, ContinueMoves
<1>9. CASE ClientGrants \/ ClientRefuses
  <2>1. Kept(t) \/ token'[t] \in {None, Active}
    BY <1>1, <1>9, AnswerMoves
  <2>. QED
    BY <1>3, <1>6, <2>1
<1>10. CASE UNCHANGED <<token, asked, view>>
  BY <1>3, <1>10 DEF Kept
<1>11. ASSUME NEW u \in AnyToken, NEW kind \in {"report", "end"}, Continue(u, kind)
       PROVE  /\ token'[t].state = "creating" => OneBegin(token'[t].buffer)
              /\ token'[t].state # "creating" => token'[t].buffer = <<>>
  BY <1>1, <1>3, <1>5, <1>6, <1>8, <1>11
<1>. QED
  BY <1>3, <1>4, <1>7, <1>9, <1>10, <1>11 DEF Moves

(* A token stays orderly unless the client is asked for it a second time. *)
LEMMA OrderlyKept ==
    ASSUME Table, Views, Bars, Moves, NEW t \in Tokens, "overlapped" \notin view'[t].strays
    PROVE  Orderly(t)'
<1>0. asked \in Seq(AnyToken) /\ view[t] \in View
  BY DEF Views, Table
<1>1. /\ view \in [Tokens -> View]
      /\ token \in [Tokens -> [state : States, buffer : Seq(Kinds)]]
      /\ token[t].state = "creating" => Awaited(t, asked) /\ OneBegin(token[t].buffer)
      /\ token[t].state # "creating" => token[t].buffer = <<>>
      /\ "overlapped" \notin view[t].strays => Orderly(t)
  BY DEF Views, Table, Bars, BufferAwaitsAnswer
<1>2. /\ \A b : Creating(b).state = "creating"
      /\ None.state = "none" /\ Active.state = "active"
  BY DEF Creating, None, Active
<1>3. ASSUME Kept(t), asked' = asked
      PROVE  Orderly(t)'
  BY <1>1, <1>3 DEF Orderly, Kept, Awaited
<1>4. ASSUME NEW u \in AnyToken, NEW rest \in {<<>>, <<"end">>}, BeginThen(u, rest)
      PROVE  Orderly(t)'
  <2>1. asked' = Append(asked, u)
    BY <1>4 DEF BeginThen
  <2>2. \A i \in DOMAIN asked' : \/ i \in DOMAIN asked /\ asked'[i] = asked[i]
                                 \/ i = Len(asked) + 1 /\ asked'[i] = u
    BY <1>0, <2>1, AppendOf
  <2>3. CASE t = u
    <3>1. /\ token'[t] = Creating(<<"begin">> \o rest)
          /\ token[t].state = "active" => ~view'[t].open
          /\ token[t].state # "active" => view'[t].open = view[t].open
          /\ "overlapped" \notin view[t].strays /\ ~Awaited(t, asked)
          /\ "reopened" \in view'[t].strays => "reopened" \in view[t].strays
      BY <1>1, <1>4, <2>3, BeginMoves
    <3>2. Orderly(t)
      BY <1>1, <3>1
    <3>3. ~view'[t].open /\ "reopened" \notin view'[t].strays
      BY <3>1, <3>2 DEF Orderly
    <3>4. \A i \in DOMAIN asked : asked[i] # t
      BY <3>1 DEF Awaited
    <3>5. \A i, j \in DOMAIN asked' : asked'[i] = t /\ asked'[j] = t => i = j
      BY <2>2, <3>4
    <3>6. token'[t].state = "creating"
      BY <1>2, <3>1
    <3>. QED
      BY <3>3, <3>5, <3>6 DEF Orderly
  <2>4. CASE t # u
    <3>1. Kept(t)
      BY <1>1, <1>4, <2>4, BeginMoves
    <3>2. Orderly(t)
      BY <1>1, <3>1 DEF Kept
    <3>3. \A i \in DOMAIN asked' : asked'[i] = t => i \in DOMAIN asked /\ asked[i] = t
      BY <2>2, <2>4
    <3>4. /\ Awaited(t, asked') => Awaited(t, asked)
          /\ \A i, j \in DOMAIN asked' : asked'[i] = t /\ asked'[j] = t => i = j
      BY <3>2, <3>3 DEF Orderly, Awaited
    <3>. QED
      BY <3>1, <3>2, <3>4 DEF Orderly, Kept
  <2>. QED
    BY <2>3, <2>4
<1>5. ASSUME NEW u \in AnyToken, NEW kind \in {"report", "end"}, Continue(u, kind)
      PROVE  Orderly(t)'
  <2>1. asked' = asked
    BY <1>5 DEF Continue
  <2>2. CASE t # u
    <3>1. Kept(t)
      BY <1>1, <1>5, <2>2, ContinueMoves
    <3>. QED
      BY <1>3, <2>1, <3>1
  <2>3. CASE t = u /\ token[t].state = "creating"
    <3>1. token'[t].state = "creating" /\ view'[t] = view[t]
      BY <1>1, <1>2, <1>5, <2>3, ContinueMoves
    <3>. QED
      BY <1>1, <2>1, <2>3, <3>1 DEF Orderly, Awaited
  <2>4. CASE t = u /\ token[t].state # "creating"
    <3>1. /\ token'[t] = IF kind = "end" THEN None ELSE token[t]
          /\ view'[t] = See(view[t], kind)
      BY <1>1, <1>5, <2>4, ContinueMoves
    <3>2. /\ view'[t].open <=> (kind = "report" /\ view[t].open)
          /\ \A s \in {"reopened", "overlapped"} : s \in view'[t].strays => s \in view[t].strays
          /\ view[t].strays \subseteq view'[t].strays
      BY <1>0, <3>1, SeeOne
    <3>3. Orderly(t)
      BY <1>1, <3>2
    <3>4. token'[t].state # "creating" /\ "reopened" \notin view'[t].strays
      BY <1>2, <2>4, <3>1, <3>2, <3>3 DEF Orderly
    <3>5. token'[t].state # "active" => ~view'[t].open
      BY <1>2, <3>1, <3>2, <3>3 DEF Orderly
    <3>. QED
      BY <2>1, <2>4, <3>3, <3>4, <3>5 DEF Orderly, Awaited
  <2>. QED
    BY <2>2, <2>3, <2>4
<1>6. CASE ClientGrants \/ ClientRefuses
  <2>1. asked # <<>> /\ asked' = Tail(asked)
    BY <1>1, <1>6, AnswerMoves
  <2>2. Head(asked) = asked[1] /\ 1 \in DOMAIN asked /\ DOMAIN asked \subseteq Nat
    BY <1>0, <2>1, TailOf
  <2>3. \A i \in DOMAIN asked' : i + 1 \in DOMAIN asked /\ asked'[i] = asked[i + 1] /\ i \in Nat /\ i > 0
    <3>1. DOMAIN Tail(asked) \subseteq Nat \ {0}
      BY <1>0, <2>1
    <3>. QED
      BY <1>0, <2>1, <3>1, TailOf
  <2>4. CASE t # Head(asked)
    <3>1. Kept(t)
      BY <1>1, <1>6, <2>4, AnswerMoves
    <3>2. Orderly(t)
      BY <1>1, <3>1 DEF Kept
    <3>3. Awaited(t, asked') => Awaited(t, asked)
      BY <2>3 DEF Awaited
    <3>4. ASSUME NEW i \in DOMAIN asked', NEW j \in DOMAIN asked', asked'[i] = t, asked'[j] = t
          PROVE  i = j
      <4>1. /\ i + 1 \in DOMAIN asked /\ asked[i + 1] = t /\ i \in Nat
            /\ j + 1 \in DOMAIN asked /\ asked[j + 1] = t /\ j \in Nat
        BY <2>3, <3>4
      <4>2. i + 1 = j + 1
        BY <3>2, <4>1 DEF Orderly
      <4>. QED
        BY <4>1, <4>2
    <3>. QED
      BY <3>1, <3>2, <3>3, <3>4 DEF Orderly, Kept
  <2>5. CASE t = Head(asked)
    <3>1. PICK v \in View :
             /\ v.open = view[t].open /\ v.strays = view[t].strays
             /\ \/ /\ token'[t] = IF token[t].state = "creating" THEN Active ELSE None
                   /\ view'[t] = SeeAll(v, token[t].buffer)
                \/ token'[t] = None /\ view'[t] = v
      BY <1>1, <1>6, <2>5, AnswerMoves
    <3>2. token[t].buffer \in Seq(Kinds)
      BY <1>1
    <3>3. view[t].strays \subseteq view'[t].strays
      BY <3>1, <3>2, SeeAllTyped
    <3>4. Orderly(t)
      BY <1>1, <3>3
    <3>5. token[t].state = "creating" /\ ~view[t].open /\ ~v.open
      BY <2>2, <2>5, <3>1, <3>4 DEF Orderly, Awaited
    <3>6. "reopened" \notin view'[t].strays
      BY <1>1, <3>1, <3>2, <3>4, <3>5, SeeBuffer DEF Orderly
    <3>7. \A i \in DOMAIN asked : asked[i] = t => i = 1
      BY <2>2, <2>5, <3>4 DEF Orderly
    <3>8. ~Awaited(t, asked')
      <4>1. ASSUME NEW i \in DOMAIN asked', asked'[i] = t
            PROVE  FALSE
        <5>1. i + 1 \in DOMAIN asked /\ asked[i + 1] = t /\ i \in Nat /\ i > 0
          BY <2>3, <4>1
        <5>2. i + 1 = 1
          BY <3>7, <5>1
        <5>. QED
          BY <5>1, <5>2
      <4>. QED
        BY <4>1 DEF Awaited
    <3>9. token'[t].state # "active" => ~view'[t].open
      BY <1>2, <3>1, <3>5
    <3>. QED
      BY <3>6, <3>8, <3>9 DEF Orderly, Awaited
  <2>. QED
    BY <2>4, <2>5
<1>7. CASE UNCHANGED <<token, asked, view>>
  BY <1>3, <1>7 DEF Kept
<1>. QED
  BY <1>4, <1>5, <1>6, <1>7 DEF Moves

LEMMA BarsInitially == Init => Bars
<1>1. None.state = "none" /\ None.buffer = <<>>
  BY DEF None
<1>. SUFFICES ASSUME Init, NEW t \in Tokens
              PROVE  Orderly(t) /\ token[t] = None
  BY <1>1 DEF Bars
<1>2. token[t] = None /\ asked = <<>> /\ ~view[t].open /\ view[t].strays = {}
  BY DEF Init
<1>3. DOMAIN asked = {}
  BY <1>2
<1>. QED
  BY <1>1, <1>2, <1>3 DEF Orderly, Awaited

(* However often the workspace is synced, whatever the client refuses and   *)
(* whatever order stages and answers come in: from the Begin that asks for  *)
(* a token to the client's answer nothing is sent under it, and a bar is    *)
(* begun again while it is open, or open while its token is not active,     *)
(* only under a token the client was asked for a second time before it had  *)
(* answered the first (report_progress, flush_progress, complete_request).  *)
THEOREM BarsInOrder == Spec => []NotificationsInOrder
<1>. DEFINE All == Table /\ Channels /\ Stages /\ Views /\ Bars
<1>1. Init => All
  BY Initially, ViewsInitially, BarsInitially
<1>2. ASSUME All, [Next]_vars
      PROVE  All'
  <2>1. Table' /\ Channels' /\ Stages' /\ Moves
    BY <1>2, StepOnTable, StepOnChannels, StagesKept, StepMoves
  <2>2. Views'
    BY <1>2, <2>1, ViewsKept
  <2>3. Bars'
    BY <1>2, <2>1, BuffersKept, OrderlyKept DEF Bars
  <2>. QED
    BY <2>1, <2>2, <2>3
<1>3. All => NotificationsInOrder
  BY DEF Views, Bars, Orderly, NotificationsInOrder
<1>. QED
  BY <1>1, <1>2, <1>3, PTL DEF Spec

-----------------------------------------------------------------------------
(* The percentage a sync reports (SyncProgress). *)

(* A part of a whole, scaled to a width and rounded down, fits the width.  *)
LEMMA ShareFits ==
    ASSUME NEW width \in Nat, NEW whole \in Nat, whole > 0, NEW part \in Nat, part <= whole
    PROVE  (width * part) \div whole \in 0..width
<1>. DEFINE share == (width * part) \div whole
<1>1. width * part \in Nat /\ width * whole \in Nat /\ width * part <= width * whole
  OBVIOUS
<1>2. share \in Int /\ share * whole <= width * part /\ width * part < (share + 1) * whole
  BY <1>1
<1>3. share >= 0
  BY <1>1, <1>2
<1>4. share <= width
  BY <1>1, <1>2
<1>. QED
  BY <1>2, <1>3, <1>4
Figures ==
    /\ phase \in Phases /\ got \in Nat /\ expected \in Nat
    /\ project \in [named : BOOLEAN, index : Nat, total : Nat]
    /\ finished \in BOOLEAN

(* Whatever the figures are, the budgeted percentage is in its window. *)
LEMMA BudgetInWindow ==
    ASSUME Figures'
    PROVE  /\ BudgetedPercentage \in Nat /\ BudgetedPercentage <= 99
           /\ Low(phase)' <= BudgetedPercentage /\ BudgetedPercentage <= High(phase)'
<1>1. \A p \in Phases : /\ Low(p) \in Nat /\ High(p) \in Nat
                        /\ Low(p) <= High(p) /\ High(p) <= 99
  BY DEF Low, High, Phases
<1>2. PICK p \in Phases : p = phase'
  BY DEF Figures
<1>3. ASSUME NEW part \in Nat, NEW whole \in Nat, whole > 0
      PROVE  /\ Advance(p, AtMost(part, whole), whole) \in Nat
             /\ Low(p) <= Advance(p, AtMost(part, whole), whole)
             /\ Advance(p, AtMost(part, whole), whole) <= High(p)
  <2>. DEFINE width == High(p) - Low(p)
              least == AtMost(part, whole)
  <2>1. width \in Nat /\ Low(p) \in Nat /\ Low(p) + width = High(p)
    BY <1>1
  <2>2. least \in Nat /\ least <= whole
    BY <1>3 DEF AtMost
  <2>3. Advance(p, least, whole) = Low(p) + (width * least) \div whole
    BY DEF Advance
  <2>. HIDE DEF width, least
  <2>4. (width * least) \div whole \in 0..width
    BY <1>3, <2>1, <2>2, ShareFits
  <2>5. /\ Advance(p, least, whole) \in Nat /\ Low(p) <= Advance(p, least, whole)
        /\ Advance(p, least, whole) <= High(p)
    BY <2>1, <2>3, <2>4
  <2>. QED
    BY <2>5 DEF least
<1>. DEFINE InWindow == /\ BudgetedPercentage \in Nat
                        /\ Low(p) <= BudgetedPercentage /\ BudgetedPercentage <= High(p)
<1>4. ASSUME p = "Downloading" /\ expected' > 0 /\ got' > 0
      PROVE  InWindow
  <2>1. BudgetedPercentage = Advance(p, AtMost(got', expected'), expected')
    BY <1>2, <1>4 DEF BudgetedPercentage
  <2>. QED
    BY <1>1, <1>2, <1>3, <1>4, <2>1 DEF Figures
<1>5. ASSUME p \in {"Configuring", "Compiling"} /\ project'.total > 0
      PROVE  InWindow
  <2>1. BudgetedPercentage = Advance(p, AtMost(project'.index, project'.total), project'.total)
    BY <1>2, <1>5 DEF BudgetedPercentage
  <2>2. project'.index \in Nat /\ project'.total \in Nat
    BY DEF Figures
  <2>. QED
    BY <1>1, <1>2, <1>3, <1>5, <2>1, <2>2
<1>6. ASSUME /\ ~(p = "Downloading" /\ expected' > 0 /\ got' > 0)
             /\ ~(p \in {"Configuring", "Compiling"} /\ project'.total > 0)
      PROVE  InWindow
  <2>1. BudgetedPercentage \in {Low(p), High(p)}
    BY <1>2, <1>6 DEF BudgetedPercentage
  <2>. QED
    BY <1>1, <1>2, <2>1
<1>7. InWindow
  BY <1>4, <1>5, <1>6
<1>. QED
  BY <1>1, <1>2, <1>7

LEMMA SyncReports ==
    ASSUME Figures', Report
    PROVE  BarInWindow'
<1>1. report'.percentage = IF finished' THEN 100 ELSE BudgetedPercentage
  BY DEF Report
<1>2. BudgetedPercentage \in Nat /\ BudgetedPercentage <= 99
  BY BudgetInWindow
<1>3. /\ Low(phase)' <= BudgetedPercentage /\ BudgetedPercentage <= High(phase)'
  BY BudgetInWindow
<1>4. finished' \in BOOLEAN
  BY DEF Figures
<1>5. finished' <=> report'.percentage = 100
  BY <1>1, <1>2, <1>4
<1>6. ~finished' => Low(phase)' <= report'.percentage /\ report'.percentage <= High(phase)'
  BY <1>1, <1>3
<1>. QED
  BY <1>5, <1>6 DEF BarInWindow

(* Whatever a build tool reports, in whatever order, the bar of its sync    *)
(* stays in the window of its phase and shows 100 at the end and only then  *)
(* (PhaseProgressAggregator::current_status, budgeted_percentage).          *)
THEOREM BarStaysInWindow == SyncSpec => []BarInWindow
<1>1. ASSUME SyncStart
      PROVE  Figures /\ BarInWindow
  <2>1. report = Nothing /\ Nothing.percentage # 100 /\ finished = FALSE
    BY <1>1 DEF SyncStart, Nothing
  <2>. QED
    BY <1>1, <2>1 DEF SyncStart, Figures, BarInWindow, Phases
<1>2. ASSUME Figures, SyncNext
      PROVE  Figures' /\ BarInWindow'
  <2>1. ASSUME NEW p \in Phases, OnPhase(p)
        PROVE  Figures' /\ Report
    BY <1>2, <2>1 DEF OnPhase, Figures, Phases
  <2>2. ASSUME NEW bytes \in Sizes \cup {0}, NEW total \in Sizes \cup {0}, OnDownload(bytes, total)
        PROVE  Figures' /\ Report
    BY <1>2, <2>2, SyncAssumption DEF OnDownload, Figures, Phases
  <2>3. ASSUME NEW index \in Modules \cup {0}, NEW total \in Modules \cup {0},
               NEW action \in {"Compiling", "Configuring", "other"},
               OnProject(index, total, action)
        PROVE  Figures' /\ Report
    BY <1>2, <2>3, SyncAssumption DEF OnProject, Figures, Phases
  <2>4. ASSUME NEW end \in BOOLEAN, OnModel(end)
        PROVE  Figures' /\ Report
    BY <1>2, <2>4 DEF OnModel, Figures, Phases
  <2>5. ASSUME NEW success \in BOOLEAN, OnSyncComplete(success)
        PROVE  Figures' /\ Report
    BY <1>2, <2>5 DEF OnSyncComplete, Figures, Phases
  <2>6. Figures' /\ Report
    BY <1>2, <2>1, <2>2, <2>3, <2>4, <2>5 DEF SyncNext
  <2>. QED
    BY <2>6, SyncReports
<1>3. ASSUME Figures, BarInWindow, UNCHANGED syncVars
      PROVE  Figures' /\ BarInWindow'
  BY <1>3 DEF Figures, BarInWindow, syncVars
<1>4. Figures /\ BarInWindow /\ [SyncNext]_syncVars => (Figures /\ BarInWindow)'
  BY <1>2, <1>3
<1>. QED
  BY <1>1, <1>4, PTL DEF SyncSpec

-----------------------------------------------------------------------------
(* The build tool of a sync, its reader threads and the loop (BuildTool)     *)

(* What the loop receives of a line *)
Shows == {"begin", "end", "json", "plain", ""}
TailLines == [on : Streams, line : Shows]
Outcomes == [kind : {"running", "io", "graph", "parse", "SyncError"},
             tail : Seq(TailLines), of : Nat]

ToolTypeOK ==
    /\ commands \in Nat \ {0} /\ attempt \in 1..commands
    /\ tool \in {"none", "running", "ok", "failed"}
    /\ script \in Seq(ScriptLines) /\ written \in 0..Len(script)
    /\ pipe \in [Streams -> Seq(Lines)]
    /\ streams \subseteq Streams /\ readers \subseteq Streams /\ drained \subseteq Streams
    /\ read \in [Streams -> Nat] /\ sent \in [Streams -> Nat]
    /\ received \in [Streams -> Nat]
    /\ tail \in Seq(TailLines) /\ primary \in Seq(TailLines)
    /\ capturing \in BOOLEAN /\ truncated \in BOOLEAN
    /\ model \in Seq(Shows) \cup {NoModel}
    /\ outcome \in Outcomes

(* A line goes from the pipe to a reader's hand, from there to the channel   *)
(* and from there to the loop; a reader that ends while the loop runs leaves *)
(* nothing behind.                                                           *)
PipesFlow ==
    /\ \A s \in Streams : /\ received[s] <= sent[s] /\ sent[s] <= read[s]
                          /\ read[s] <= Len(pipe[s]) /\ read[s] <= sent[s] + 1
    /\ tool = "none" => readers = {} /\ drained = {} /\ written = 0
    /\ tool \in {"ok", "failed"} => written = Len(script)
    /\ \A s \in Streams : tool # "none" /\ s \notin streams => written = Len(script)
    /\ \A s \in Streams : Running /\ tool # "none" /\ s \notin readers =>
            s \notin streams /\ read[s] = sent[s] /\ read[s] = Len(pipe[s])
    /\ \A s \in drained : Running /\ tool # "none" => s \notin readers /\ sent[s] = received[s]
    /\ outcome.kind \in {"graph", "parse", "SyncError"} => tool \in {"ok", "failed"}

LEMMA ToolLines ==
    /\ \A l \in Lines : LineOf(l) \in Shows
    /\ \A l \in Lines : LineOf(l) = "end" <=> l = "end"
    /\ \A l \in Lines : LineOf(l) = "begin" <=> l = "begin"
    /\ \A l \in Lines : LineOf(l) = "json" <=> l = "json"
    /\ \A l \in Lines : LineOf(l) = "" <=> l = "garbled"
    /\ \A m \in Seq(Shows) : m # NoModel
<1>1. ASSUME NEW m \in Seq(Shows), m = NoModel PROVE FALSE
  <2>1. m[1] = "none" /\ 1 \in 1..Len(m)
    BY <1>1 DEF NoModel
  <2>2. m[1] \in Shows
    BY <2>1
  <2>. QED
    BY <2>1, <2>2 DEF Shows
<1>. QED
    BY <1>1 DEF LineOf, Lines, Shows

LEMMA ToolStartTyped ==
    ASSUME ToolStart, commands \in CommandCounts
    PROVE  ToolTypeOK /\ PipesFlow
<1>0. /\ <<>> \in Seq(ScriptLines) /\ Len(<<>>) = 0 /\ <<>> \in Seq(TailLines) /\ <<>> \in Seq(Lines)
    OBVIOUS
<1>4. outcome \in Outcomes
    BY <1>0 DEF ToolStart, Outcomes
<1>5. commands \in Nat \ {0} /\ attempt \in 1..commands
    BY ToolAssumption DEF ToolStart
<1>6. /\ script \in Seq(ScriptLines) /\ written \in 0..Len(script)
      /\ tail \in Seq(TailLines) /\ primary \in Seq(TailLines)
    BY <1>0 DEF ToolStart
<1>7. /\ pipe \in [Streams -> Seq(Lines)] /\ read \in [Streams -> Nat]
      /\ sent \in [Streams -> Nat] /\ received \in [Streams -> Nat]
    BY <1>0 DEF ToolStart
<1>1. ToolTypeOK
    BY <1>4, <1>5, <1>6, <1>7 DEF ToolStart, ToolTypeOK
<1>2. \A s \in Streams : pipe[s] = <<>> /\ read[s] = 0 /\ sent[s] = 0 /\ received[s] = 0
    BY DEF ToolStart
<1>3. Len(<<>>) = 0
    OBVIOUS
<1>. QED
    BY <1>1, <1>2, <1>3 DEF ToolStart, PipesFlow, Running

LEMMA AppendLine ==
    ASSUME NEW S, NEW q \in Seq(S), NEW x \in S
    PROVE  /\ Append(q, x) \in Seq(S) /\ Len(Append(q, x)) = Len(q) + 1
           /\ Append(q, x)[Len(q) + 1] = x
           /\ \A k \in 1..Len(q) : Append(q, x)[k] = q[k]
           /\ Append(q, x) # <<>>
    BY AppendProperties

LEMMA AppendedIs ==
    ASSUME NEW S, NEW q \in Seq(S), NEW x \in S
    PROVE  Append(q, x) \in Seq(S) /\ Append(q, x) # <<>>
    BY AppendProperties

LEMMA OneMoreOnBoth ==
    ASSUME NEW a \in Nat, NEW b \in Nat
    PROVE  (a + 1) - (b + 1) = a - b
    OBVIOUS

LEMMA TailLine ==
    ASSUME NEW S, NEW q \in Seq(S), q # <<>>
    PROVE  /\ Tail(q) \in Seq(S) /\ Len(Tail(q)) = Len(q) - 1
           /\ \A k \in 1..(Len(q) - 1) : Tail(q)[k] = q[k + 1]
    OBVIOUS

LEMMA WriteKeeps ==
    ASSUME ToolTypeOK, PipesFlow, WriteLine
    PROVE  /\ ToolTypeOK' /\ PipesFlow'
           /\ \A s \in Streams : /\ Len(pipe[s]) <= Len(pipe'[s])
                                 /\ \A k \in 1..Len(pipe[s]) : pipe'[s][k] = pipe[s][k]
<1>. PICK w \in Streams, l \in Lines : w = script[written + 1].on /\ l = script[written + 1].line
  <2>1. written + 1 \in 1..Len(script)
    BY DEF WriteLine, MayWrite, ToolTypeOK
  <2>2. script[written + 1] \in ScriptLines
    BY <2>1 DEF ToolTypeOK
  <2>. QED
    BY <2>2 DEF ScriptLines
<1>1. pipe' = [pipe EXCEPT ![w] = Append(@, l)]
    BY DEF WriteLine
<1>2. /\ Append(pipe[w], l) \in Seq(Lines) /\ Len(Append(pipe[w], l)) = Len(pipe[w]) + 1
      /\ \A k \in 1..Len(pipe[w]) : Append(pipe[w], l)[k] = pipe[w][k]
    BY AppendLine DEF ToolTypeOK
<1>3. /\ pipe' \in [Streams -> Seq(Lines)] /\ pipe'[w] = Append(pipe[w], l)
      /\ \A s \in Streams \ {w} : pipe'[s] = pipe[s]
    BY <1>1, <1>2 DEF ToolTypeOK
<1>4. written' \in 0..Len(script) /\ written' = written + 1 /\ written < Len(script)
    BY DEF WriteLine, MayWrite, ToolTypeOK
<1>5. ToolTypeOK'
    BY <1>3, <1>4 DEF WriteLine, ToolTypeOK, pipeVars, loopVars
<1>6. \A s \in Streams : Len(pipe[s]) \in Nat
    BY DEF ToolTypeOK
<1>7. \A s \in Streams : /\ Len(pipe[s]) <= Len(pipe'[s])
                         /\ \A k \in 1..Len(pipe[s]) : pipe'[s][k] = pipe[s][k]
  <2>. SUFFICES ASSUME NEW s \in Streams
                PROVE  /\ Len(pipe[s]) <= Len(pipe'[s])
                       /\ \A k \in 1..Len(pipe[s]) : pipe'[s][k] = pipe[s][k]
    OBVIOUS
  <2>1. Len(pipe[s]) \in Nat
    BY <1>6
  <2>2. CASE s = w
    <3>1. Len(pipe'[s]) = Len(pipe[s]) + 1 /\ \A k \in 1..Len(pipe[s]) : pipe'[s][k] = pipe[s][k]
      BY <1>2, <1>3, <2>2
    <3>. QED
      BY <2>1, <3>1
  <2>3. CASE s # w
    <3>1. pipe'[s] = pipe[s]
      BY <1>3, <2>3
    <3>. QED
      BY <2>1, <3>1
  <2>. QED
    BY <2>2, <2>3
<1>8. /\ tool = "running" /\ tool' = tool /\ Running' = Running /\ outcome' = outcome
      /\ UNCHANGED <<streams, readers, read, sent, received, drained, script>>
    BY DEF WriteLine, MayWrite, pipeVars, loopVars, Running
<1>9. \A s \in Streams : read[s] <= Len(pipe'[s])
  <2>. SUFFICES ASSUME NEW s \in Streams PROVE read[s] <= Len(pipe'[s])
    OBVIOUS
  <2>1. read[s] <= Len(pipe[s]) /\ read[s] \in Nat /\ Len(pipe'[s]) \in Nat
    BY <1>3 DEF PipesFlow, ToolTypeOK
  <2>. QED
    BY <2>1, <1>6, <1>7
<1>10. \A s \in Streams : s \in streams
    BY <1>8, <1>4 DEF PipesFlow, ToolTypeOK
<1>11. PipesFlow'
    BY <1>8, <1>9, <1>10, <1>4 DEF PipesFlow
<1>. QED
    BY <1>5, <1>7, <1>11

(* The steps that leave the pipes as they are *)
LEMMA SpawnKeeps ==
    ASSUME ToolTypeOK, PipesFlow, NEW s \in Scripts, Spawn(s)
    PROVE  ToolTypeOK' /\ PipesFlow'
<1>1. script' \in Seq(ScriptLines) /\ written' \in 0..Len(script')
  <2>1. s \in Seq(ScriptLines) /\ Len(s) \in Nat
    BY ToolAssumption
  <2>. QED
    BY <2>1 DEF Spawn, MaySpawn, PipesFlow
<1>2. ToolTypeOK'
    BY <1>1 DEF Spawn, MaySpawn, ToolTypeOK, loopVars
<1>3. PipesFlow'
    BY DEF Spawn, MaySpawn, ToolTypeOK, PipesFlow, loopVars, Running
<1>. QED
    BY <1>2, <1>3

LEMMA ProcessKeeps ==
    ASSUME ToolTypeOK, PipesFlow,
           \/ \E status \in {"ok", "failed"} : ExitTool(status)
           \/ \E s \in Streams : CloseStream(s)
    PROVE  ToolTypeOK' /\ PipesFlow'
<1>1. CASE \E status \in {"ok", "failed"} : ExitTool(status)
  <2>1. ToolTypeOK'
    BY <1>1 DEF ExitTool, MayExit, ToolTypeOK, pipeVars, loopVars
  <2>2. PipesFlow'
    BY <1>1 DEF ExitTool, MayExit, PipesFlow, pipeVars, loopVars, Running
  <2>. QED
    BY <2>1, <2>2
<1>2. CASE \E s \in Streams : CloseStream(s)
  <2>1. ToolTypeOK'
    BY <1>2 DEF CloseStream, MayClose, ToolTypeOK, pipeVars, loopVars
  <2>2. PipesFlow'
    BY <1>2 DEF CloseStream, MayClose, PipesFlow, pipeVars, loopVars, Running
  <2>. QED
    BY <2>1, <2>2
<1>. QED
    BY <1>1, <1>2

LEMMA ReaderKeeps ==
    ASSUME ToolTypeOK, PipesFlow, NEW s \in Streams,
           ReadLine(s) \/ SendLine(s) \/ ReaderEnds(s)
    PROVE  ToolTypeOK' /\ PipesFlow'
<1>1. /\ read[s] \in Nat /\ sent[s] \in Nat /\ received[s] \in Nat /\ Len(pipe[s]) \in Nat
      /\ received[s] <= sent[s] /\ sent[s] <= read[s]
      /\ read[s] <= Len(pipe[s]) /\ read[s] <= sent[s] + 1
    BY DEF ToolTypeOK, PipesFlow
<1>2. CASE ReadLine(s)
  <2>1. read' = [read EXCEPT ![s] = @ + 1] /\ read' \in [Streams -> Nat] /\ read'[s] = read[s] + 1
        /\ \A t \in Streams \ {s} : read'[t] = read[t]
    BY <1>2 DEF ReadLine, ToolTypeOK
  <2>2. ToolTypeOK'
    BY <1>2, <2>1 DEF ReadLine, ToolTypeOK, loopVars
  <2>3. read[s] = sent[s] /\ read[s] < Len(pipe[s]) /\ s \in readers
    BY <1>1, <1>2 DEF ReadLine, MayRead, Holding
  <2>4. read[s] + 1 <= Len(pipe[s])
    BY <1>1, <2>3
  <2>5. /\ received[s] <= sent[s] /\ sent[s] <= read'[s]
        /\ read'[s] <= Len(pipe[s]) /\ read'[s] <= sent[s] + 1
    BY <1>1, <2>1, <2>3, <2>4
  <2>6. PipesFlow'
    BY <1>2, <2>1, <2>3, <2>5 DEF ReadLine, MayRead, PipesFlow, loopVars, Running
  <2>. QED
    BY <2>2, <2>6
<1>3. CASE SendLine(s)
  <2>1. sent' = [sent EXCEPT ![s] = @ + 1] /\ sent' \in [Streams -> Nat] /\ sent'[s] = sent[s] + 1
        /\ \A t \in Streams \ {s} : sent'[t] = sent[t]
    BY <1>3 DEF SendLine, ToolTypeOK
  <2>2. ToolTypeOK'
    BY <1>3, <2>1 DEF SendLine, ToolTypeOK, loopVars
  <2>3. read[s] = sent[s] + 1 /\ s \in readers
    BY <1>1, <1>3 DEF SendLine, MaySend, Holding
  <2>4. /\ received[s] <= sent'[s] /\ sent'[s] <= read[s] /\ read[s] <= sent'[s] + 1
    BY <1>1, <2>1, <2>3
  <2>5. PipesFlow'
    BY <1>1, <1>3, <2>1, <2>3, <2>4 DEF SendLine, MaySend, PipesFlow, loopVars, Running
  <2>. QED
    BY <2>2, <2>5
<1>4. CASE ReaderEnds(s)
  <2>1. ToolTypeOK'
    BY <1>4 DEF ReaderEnds, ToolTypeOK, loopVars
  <2>2. Running => read[s] = sent[s] /\ read[s] = Len(pipe[s]) /\ s \notin streams
    BY <1>1, <1>4 DEF ReaderEnds, MayEnd, Holding
  <2>3. PipesFlow'
    BY <1>4, <2>2 DEF ReaderEnds, PipesFlow, loopVars, Running
  <2>. QED
    BY <2>1, <2>3
<1>. QED
    BY <1>2, <1>3, <1>4

(* What one turn of the loop makes of the tail and of the model is typed *)
LEMMA GrownTail ==
    ASSUME ToolTypeOK, NEW s \in Streams, ReceiveLine(s), PipesFlow
    PROVE  /\ received[s] + 1 \in 1..Len(pipe[s])
           /\ pipe[s][received[s] + 1] \in Lines
           /\ \E line \in Shows : \E entry \in TailLines :
                /\ line = LineOf(pipe[s][received[s] + 1])
                /\ entry.on = s /\ entry.line = line
                /\ tail' = IF Len(Append(tail, entry)) > TailMax
                           THEN Tail(Append(tail, entry)) ELSE Append(tail, entry)
                /\ IF s = "stdout" THEN Capture(line)
                   ELSE UNCHANGED <<capturing, model, truncated>>
<1>1. /\ received[s] \in Nat /\ sent[s] \in Nat /\ read[s] \in Nat /\ Len(pipe[s]) \in Nat
      /\ received[s] < sent[s] /\ sent[s] <= read[s] /\ read[s] <= Len(pipe[s])
    BY DEF ReceiveLine, MayReceive, Ready, ToolTypeOK, PipesFlow
<1>2. received[s] + 1 \in 1..Len(pipe[s])
    BY <1>1
<1>3. pipe[s][received[s] + 1] \in Lines
    BY <1>2 DEF ToolTypeOK
<1>4. PICK line : line = LineOf(pipe[s][received[s] + 1])
    OBVIOUS
<1>5. PICK entry : entry = [on |-> s, line |-> line]
    OBVIOUS
<1>6. line \in Shows /\ entry \in TailLines /\ entry.on = s /\ entry.line = line
    BY <1>3, <1>4, <1>5, ToolLines DEF TailLines
<1>7. /\ tail' = IF Len(Append(tail, entry)) > TailMax
                 THEN Tail(Append(tail, entry)) ELSE Append(tail, entry)
      /\ IF s = "stdout" THEN Capture(line) ELSE UNCHANGED <<capturing, model, truncated>>
    BY <1>4, <1>5 DEF ReceiveLine, Captures
<1>. QED
    BY <1>2, <1>3, <1>4, <1>6, <1>7

LEMMA CaptureTyped ==
    ASSUME model \in Seq(Shows) \cup {NoModel}, capturing \in BOOLEAN, truncated \in BOOLEAN,
           NEW line \in Shows, Capture(line), capturing => model # NoModel
    PROVE  /\ model' \in Seq(Shows) \cup {NoModel}
           /\ capturing' \in BOOLEAN /\ truncated' \in BOOLEAN
<1>1. CASE capturing
  <2>1. model \in Seq(Shows) /\ Append(model, line) \in Seq(Shows)
    BY <1>1
  <2>. QED
    BY <1>1, <2>1 DEF Capture
<1>2. CASE ~capturing
  <2>1. <<>> \in Seq(Shows)
    OBVIOUS
  <2>. QED
    BY <1>2, <2>1 DEF Capture
<1>. QED
    BY <1>1, <1>2

LEMMA ReceiveKeeps ==
    ASSUME ToolTypeOK, PipesFlow, capturing => model # NoModel,
           NEW s \in Streams, ReceiveLine(s)
    PROVE  ToolTypeOK' /\ PipesFlow'
<1>1. PICK line \in Shows :
        \E entry \in TailLines :
            /\ tail' = IF Len(Append(tail, entry)) > TailMax
                       THEN Tail(Append(tail, entry)) ELSE Append(tail, entry)
            /\ IF s = "stdout" THEN Capture(line) ELSE UNCHANGED <<capturing, model, truncated>>
    BY GrownTail
<1>2. tail' \in Seq(TailLines)
  <2>1. PICK entry \in TailLines :
            tail' = IF Len(Append(tail, entry)) > TailMax
                    THEN Tail(Append(tail, entry)) ELSE Append(tail, entry)
    BY <1>1
  <2>2. Append(tail, entry) \in Seq(TailLines) /\ Append(tail, entry) # <<>>
    <3>1. tail \in Seq(TailLines)
      BY DEF ToolTypeOK
    <3>. QED
      BY <3>1, AppendedIs
  <2>3. Tail(Append(tail, entry)) \in Seq(TailLines)
    BY <2>2, TailLine
  <2>. QED
    BY <2>1, <2>2, <2>3
<1>3. /\ model' \in Seq(Shows) \cup {NoModel}
      /\ capturing' \in BOOLEAN /\ truncated' \in BOOLEAN
  <2>1. /\ model \in Seq(Shows) \cup {NoModel}
        /\ capturing \in BOOLEAN /\ truncated \in BOOLEAN
    BY DEF ToolTypeOK
  <2>2. CASE s = "stdout"
    BY <2>1, <2>2, <1>1, CaptureTyped
  <2>3. CASE s # "stdout"
    BY <2>1, <2>3, <1>1
  <2>. QED
    BY <2>2, <2>3
<1>4. /\ received' \in [Streams -> Nat] /\ received'[s] = received[s] + 1
      /\ \A t \in Streams \ {s} : received'[t] = received[t]
    BY DEF ReceiveLine, ToolTypeOK
<1>5. ToolTypeOK'
    BY <1>2, <1>3, <1>4 DEF ReceiveLine, ToolTypeOK, pipeVars
<1>6. received[s] \in Nat /\ sent[s] \in Nat /\ received[s] < sent[s]
    BY DEF ReceiveLine, MayReceive, Ready, ToolTypeOK, PipesFlow
<1>7. received'[s] <= sent[s] /\ (s \in drained => tool = "none")
    BY <1>4, <1>6 DEF PipesFlow, ReceiveLine, MayReceive
<1>8. s \notin drained
    BY <1>7 DEF PipesFlow
<1>9. PipesFlow'
    BY <1>4, <1>7, <1>8 DEF ReceiveLine, PipesFlow, pipeVars, Running
<1>. QED
    BY <1>5, <1>9

LEMMA DrainKeeps ==
    ASSUME ToolTypeOK, PipesFlow, NEW s \in Streams, Drain(s)
    PROVE  ToolTypeOK' /\ PipesFlow'
<1>1. ToolTypeOK'
    BY DEF Drain, ToolTypeOK, pipeVars
<1>2. PipesFlow'
    BY DEF Drain, MayDrain, Disconnected, PipesFlow, pipeVars, Running
<1>. QED
    BY <1>1, <1>2

LEMMA RetryKeeps ==
    ASSUME ToolTypeOK, PipesFlow, Retry
    PROVE  ToolTypeOK' /\ PipesFlow'
<1>1. Waited /\ attempt' = attempt + 1 /\ attempt < commands
    BY DEF Retry, MayRetry
<1>2. attempt' \in 1..commands' /\ commands' \in Nat \ {0}
    BY <1>1 DEF Retry, ToolTypeOK
<1>3. readers = {}
    BY <1>1 DEF Waited, PipesFlow, ToolTypeOK
<1>4. /\ <<>> \in Seq(ScriptLines) /\ Len(<<>>) = 0 /\ <<>> \in Seq(TailLines)
      /\ <<>> \in Seq(Lines)
    OBVIOUS
<1>5. /\ script' \in Seq(ScriptLines) /\ written' \in 0..Len(script')
      /\ tail' \in Seq(TailLines)
    BY <1>4 DEF Retry, Fresh
<1>6. primary' \in Seq(TailLines) /\ outcome' \in Outcomes
    BY DEF Retry, ToolTypeOK
<1>7. /\ pipe' \in [Streams -> Seq(Lines)] /\ read' \in [Streams -> Nat]
      /\ sent' \in [Streams -> Nat] /\ received' \in [Streams -> Nat]
    BY <1>4 DEF Retry, Fresh
<1>8. /\ tool' = "none" /\ streams' = {} /\ readers' = {} /\ drained' = {}
      /\ capturing' = FALSE /\ truncated' = FALSE /\ model' = NoModel /\ written' = 0
    BY DEF Retry, Fresh
<1>9. ToolTypeOK'
    BY <1>2, <1>5, <1>6, <1>7, <1>8 DEF ToolTypeOK
<1>10. \A s \in Streams : pipe'[s] = <<>> /\ read'[s] = 0 /\ sent'[s] = 0 /\ received'[s] = 0
    BY DEF Retry, Fresh
<1>11. Running /\ outcome' = outcome
    BY <1>1 DEF Waited, Retry
<1>12. PipesFlow'
    BY <1>4, <1>8, <1>10, <1>11 DEF PipesFlow, Running
<1>. QED
    BY <1>9, <1>12

(* What the sync returns *)
LEMMA ReturnKeeps ==
    ASSUME ToolTypeOK, PipesFlow, NEW kind \in {"io", "graph", "parse", "SyncError"},
           NEW of \in Nat, NEW lines \in Seq(TailLines), Return(kind, of, lines),
           kind # "io" => tool \in {"ok", "failed"}
    PROVE  ToolTypeOK' /\ PipesFlow' /\ ~Running'
<1>1. outcome' = [kind |-> kind, tail |-> lines, of |-> of]
    BY DEF Return
<1>2. outcome' \in Outcomes /\ outcome'.kind = kind
    BY <1>1 DEF Outcomes
<1>3. ToolTypeOK'
    BY <1>2 DEF Return, ToolTypeOK, pipeVars, loopVars
<1>4. PipesFlow'
    BY <1>2 DEF Return, PipesFlow, pipeVars, loopVars, Running
<1>. QED
    BY <1>2, <1>3, <1>4 DEF Running

LEMMA ReturnsKeep ==
    ASSUME ToolTypeOK, PipesFlow, Conclude \/ SpawnFails \/ LogFails
    PROVE  ToolTypeOK' /\ PipesFlow' /\ ~Running'
<1>1. attempt \in Nat /\ <<>> \in Seq(TailLines) /\ tail \in Seq(TailLines)
      /\ primary \in Seq(TailLines) /\ 1 \in Nat
    BY DEF ToolTypeOK
<1>2. CASE SpawnFails \/ LogFails
  <2>1. Return("io", attempt, <<>>)
    BY <1>2 DEF SpawnFails, LogFails
  <2>. QED
    BY <1>1, <2>1, ReturnKeeps
<1>3. CASE Conclude
  <2>1. tool \in {"ok", "failed"}
    BY <1>3 DEF Conclude, MayConclude, Waited
  <2>2. PICK lines \in Seq(TailLines), of \in Nat, kind \in {"graph", "parse", "SyncError"} :
            Return(kind, of, lines)
    BY <1>1, <1>3 DEF Conclude
  <2>. QED
    BY <2>1, <2>2, ReturnKeeps
<1>. QED
    BY <1>2, <1>3

(* What is captured, against what stdout has given the loop: the model is    *)
(* what followed a begin marker, up to an end marker or to the last line     *)
(* received, and it is cut only if that much was shown.                      *)
Out(k) == pipe["stdout"][k]
Got == received["stdout"]
NoEnd(i, j) == \A k \in i..j : Out(k) # "end"
Follows(i) ==
    /\ Out(i) = "begin" /\ NoEnd(i + 1, i + Len(model))
    /\ \A k \in 1..Len(model) : model[k] = LineOf(Out(i + k))
    /\ capturing => i + Len(model) = Got
    /\ ~capturing => i + Len(model) + 1 <= Got /\ Out(i + Len(model) + 1) = "end"
Overflows(i) ==
    Out(i) = "begin" /\ i + ModelMax + 1 <= Got /\ NoEnd(i + 1, i + ModelMax + 1)
CaptureFollows ==
    /\ capturing => model # NoModel
    /\ model = NoModel => ~truncated /\ \A k \in 1..Got : Out(k) # "begin"
    /\ model # NoModel /\ ~truncated =>
            Len(model) <= ModelMax /\ \E i \in 1..Got : Follows(i)
    /\ truncated => \E i \in 1..Got : Overflows(i)

LEMMA CaptureStays ==
    ASSUME ToolTypeOK, PipesFlow, CaptureFollows,
           UNCHANGED <<Got, capturing, model, truncated>>,
           \A s \in Streams : \A k \in 1..Len(pipe[s]) : pipe'[s][k] = pipe[s][k]
    PROVE  CaptureFollows'
<1>1. Got \in Nat /\ Got' = Got
    BY DEF Got, ToolTypeOK, Streams
<1>2. \A k \in 1..Got : Out(k)' = Out(k)
  <2>1. /\ sent["stdout"] \in Nat /\ read["stdout"] \in Nat /\ Len(pipe["stdout"]) \in Nat
        /\ Got <= sent["stdout"] /\ sent["stdout"] <= read["stdout"]
        /\ read["stdout"] <= Len(pipe["stdout"])
    BY DEF ToolTypeOK, PipesFlow, Streams, Got
  <2>2. Got <= Len(pipe["stdout"])
    BY <1>1, <2>1
  <2>3. \A k \in 1..Got : k \in 1..Len(pipe["stdout"])
    BY <1>1, <2>1, <2>2
  <2>. QED
    BY <2>3 DEF Out, Streams
<1>3. ASSUME NEW i \in 1..Got, Follows(i), model # NoModel PROVE Follows(i)'
  <2>1. Len(model) \in Nat
    BY <1>3 DEF ToolTypeOK
  <2>2. i + Len(model) <= Got
    BY <1>1, <1>3, <2>1 DEF Follows
  <2>3. \A k \in (i + 1)..(i + Len(model)) : k \in 1..Got
    BY <1>1, <2>1, <2>2
  <2>4. NoEnd(i + 1, i + Len(model))'
    BY <2>3, <1>2, <1>3 DEF NoEnd, Follows
  <2>5. \A k \in 1..Len(model) : i + k \in 1..Got
    BY <1>1, <2>1, <2>2
  <2>6. \A k \in 1..Len(model) : model'[k] = LineOf(Out(i + k)')
    BY <2>5, <1>2, <1>3 DEF Follows
  <2>7. ~capturing => i + Len(model) + 1 \in 1..Got
    BY <1>1, <1>3, <2>1 DEF Follows
  <2>8. ~capturing => Out(i + Len(model) + 1)' = "end"
    BY <2>7, <1>2, <1>3 DEF Follows
  <2>9. Out(i)' = "begin"
    BY <1>2, <1>3 DEF Follows
  <2>10. /\ capturing => i + Len(model) = Got
         /\ ~capturing => i + Len(model) + 1 <= Got
    BY <1>3 DEF Follows
  <2>. QED
    BY <2>4, <2>6, <2>8, <2>9, <2>10, <1>1 DEF Follows, LineOf
<1>4. ASSUME NEW i \in 1..Got, Overflows(i) PROVE Overflows(i)'
  <2>1. \A k \in (i + 1)..(i + ModelMax + 1) : k \in 1..Got
    BY <1>1, <1>4, ToolAssumption DEF Overflows
  <2>2. NoEnd(i + 1, i + ModelMax + 1)'
    BY <2>1, <1>2, <1>4 DEF NoEnd, Overflows
  <2>. QED
    BY <2>2, <1>1, <1>2, <1>4 DEF Overflows
<1>. QED
    BY <1>1, <1>2, <1>3, <1>4 DEF CaptureFollows

LEMMA CaptureStep ==
    ASSUME ToolTypeOK, PipesFlow, CaptureFollows, ReceiveLine("stdout")
    PROVE  CaptureFollows'
<1>0. "stdout" \in Streams
    BY DEF Streams
<1>1. PICK line \in Shows : line = LineOf(pipe["stdout"][Got + 1]) /\ Capture(line)
    BY <1>0, GrownTail DEF Got
<1>2. pipe' = pipe /\ Got \in Nat /\ Got' = Got + 1
    BY <1>0 DEF ReceiveLine, ToolTypeOK, Got
<1>3. \A k : Out(k)' = Out(k)
    BY <1>2 DEF Out
<1>4. Out(Got + 1) \in Lines
    BY <1>0, GrownTail DEF Got, Out
<1>5. /\ line = "end" <=> Out(Got + 1) = "end"
      /\ line = "begin" <=> Out(Got + 1) = "begin"
    BY <1>1, <1>4, ToolLines DEF Out
<1>6. \A i \in 1..Got : i \in 1..Got'
    BY <1>2
<1>7. ASSUME NEW i \in 1..Got, Overflows(i) PROVE Overflows(i)'
  <2>1. i + ModelMax + 1 <= Got'
    BY <1>2, <1>7, ToolAssumption DEF Overflows
  <2>. QED
    BY <1>3, <1>7, <2>1 DEF Overflows, NoEnd
<1>8. CASE capturing /\ truncated
  <2>1. model' = model /\ truncated' /\ model # NoModel
    BY <1>1, <1>8 DEF Capture, CaptureFollows
  <2>. QED
    BY <2>1, <1>6, <1>7, <1>8 DEF CaptureFollows
<1>9. CASE capturing /\ ~truncated
  <2>1. model \in Seq(Shows) /\ model # NoModel /\ Len(model) \in Nat /\ Len(model) <= ModelMax
    BY <1>9 DEF CaptureFollows, ToolTypeOK
  <2>2. PICK i \in 1..Got : Follows(i)
    BY <1>9, <2>1 DEF CaptureFollows
  <2>3. i + Len(model) = Got
    BY <2>2, <1>9 DEF Follows
  <2>4. CASE line = "end"
    <3>0. ~(Len(model) > ModelMax)
      BY <2>1, ToolAssumption
    <3>1. model' = model /\ ~capturing' /\ ~truncated'
      BY <1>1, <1>9, <3>0, <2>4 DEF Capture
    <3>2. i + Len(model') + 1 <= Got' /\ i + Len(model') + 1 = Got + 1
      BY <3>1, <2>1, <2>3, <1>2
    <3>3. Follows(i)'
      BY <3>1, <3>2, <1>3, <1>5, <2>2, <2>4 DEF Follows, NoEnd, LineOf
    <3>. QED
      BY <3>1, <3>3, <2>1, <1>6 DEF CaptureFollows
  <2>5. CASE line # "end"
    <3>1. /\ model' = Append(model, line) /\ capturing' = TRUE
          /\ truncated' = (truncated \/ Len(model') > ModelMax)
      BY <1>1, <1>9, <2>5 DEF Capture
    <3>2. /\ model' \in Seq(Shows) /\ Len(model') = Len(model) + 1 /\ model'[Len(model) + 1] = line
          /\ \A k \in 1..Len(model) : model'[k] = model[k]
      BY <3>1, <2>1, AppendLine
    <3>3. model' # NoModel
      BY <3>2, ToolLines
    <3>4. i + Len(model') = Got + 1 /\ Got + 1 = Got'
      BY <3>2, <2>1, <2>3, <1>2
    <3>5. NoEnd(i + 1, Got + 1)
      <4>1. ASSUME NEW k \in (i + 1)..(Got + 1) PROVE k = Got + 1 \/ k \in (i + 1)..(i + Len(model))
        BY <1>2, <2>3
      <4>2. NoEnd(i + 1, i + Len(model)) /\ Out(Got + 1) # "end"
        BY <2>2, <2>5, <1>5 DEF Follows
      <4>. QED
        BY <4>1, <4>2 DEF NoEnd
    <3>6. CASE Len(model') > ModelMax
      <4>1. i + ModelMax + 1 <= Got' /\ i + ModelMax + 1 <= Got + 1
        BY <3>6, <3>4, <3>2, <2>1, <1>2, ToolAssumption
      <4>2. NoEnd(i + 1, i + ModelMax + 1)'
        <5>1. \A k \in (i + 1)..(i + ModelMax + 1) : k \in (i + 1)..(Got + 1)
          BY <4>1, <1>2, ToolAssumption
        <5>. QED
          BY <5>1, <3>5, <1>3 DEF NoEnd
      <4>3. Overflows(i)'
        BY <4>1, <4>2, <1>3, <2>2 DEF Overflows, Follows
      <4>. QED
        BY <4>3, <3>1, <3>3, <3>6, <1>6 DEF CaptureFollows
    <3>7. CASE ~(Len(model') > ModelMax)
      <4>1. Len(model') <= ModelMax
        BY <3>2, <3>7, <2>1, ToolAssumption
      <4>2. ~truncated'
        BY <3>1, <3>7, <1>9
      <4>3. \A k \in (i + 1)..(i + Len(model')) : Out(k)' # "end"
        BY <3>4, <3>5, <1>3 DEF NoEnd
      <4>4. \A k \in 1..Len(model') : model'[k] = LineOf(Out(i + k))
        <5>1. ASSUME NEW k \in 1..Len(model') PROVE model'[k] = LineOf(Out(i + k))
          <6>1. k = Len(model) + 1 \/ k \in 1..Len(model)
            BY <3>2, <2>1
          <6>2. i + Len(model) + 1 = Got + 1 /\ i + (Len(model) + 1) = Got + 1
            BY <2>1, <2>3
          <6>3. CASE k = Len(model) + 1
            BY <6>2, <6>3, <3>2, <1>1 DEF Out
          <6>4. CASE k \in 1..Len(model)
            BY <6>4, <3>2, <2>2 DEF Follows
          <6>. QED
            BY <6>1, <6>3, <6>4
        <5>. QED
          BY <5>1
      <4>5. \A k \in 1..Len(model') : model'[k] = LineOf(Out(i + k)')
        BY <4>4, <1>3
      <4>6. Follows(i)'
        BY <4>3, <4>5, <3>1, <3>4, <1>3, <2>2 DEF Follows, NoEnd, LineOf
      <4>. QED
        BY <4>1, <4>2, <4>6, <3>1, <3>3, <1>6 DEF CaptureFollows
    <3>. QED
      BY <3>6, <3>7
  <2>. QED
    BY <2>4, <2>5
<1>10. CASE ~capturing /\ line = "begin"
  <2>1. model' = <<>> /\ capturing' = TRUE /\ truncated' = truncated
    BY <1>1, <1>10 DEF Capture
  <2>2. <<>> \in Seq(Shows) /\ Len(<<>>) = 0
    OBVIOUS
  <2>a. <<>> # NoModel
    BY <2>2, ToolLines
  <2>b. 0 <= ModelMax
    BY ToolAssumption
  <2>3. model' # NoModel /\ Len(model') = 0 /\ 0 <= ModelMax
    BY <2>1, <2>2, <2>a, <2>b
  <2>4. PICK j \in 1..Got' : j = Got + 1 /\ j + Len(model') = Got'
    BY <1>2, <2>3
  <2>5. 1..Len(model') = {} /\ (j + 1)..(j + Len(model')) = {}
    BY <2>3, <2>4, <1>2
  <2>6. Out(j)' = "begin"
    BY <1>3, <1>5, <1>10, <2>4
  <2>7. Follows(j)'
    BY <2>1, <2>4, <2>5, <2>6 DEF Follows, NoEnd
  <2>. QED
    BY <2>1, <2>3, <2>7, <1>6, <1>7 DEF CaptureFollows
<1>11. CASE ~capturing /\ line # "begin"
  <2>1. model' = model /\ capturing' = FALSE /\ truncated' = truncated
    BY <1>1, <1>11 DEF Capture
  <2>2. CASE model = NoModel
    <3>1. \A k \in 1..Got' : k \in 1..Got \/ k = Got + 1
      BY <1>2
    <3>2. \A k \in 1..Got' : Out(k)' # "begin"
      BY <3>1, <2>2, <1>3, <1>5, <1>11 DEF CaptureFollows
    <3>. QED
      BY <3>2, <2>1, <2>2 DEF CaptureFollows
  <2>3. CASE model # NoModel
    <3>1. ASSUME NEW i \in 1..Got, Follows(i) PROVE Follows(i)'
      <4>1. Len(model) \in Nat
        BY <2>3 DEF ToolTypeOK
      <4>2. i + Len(model) + 1 <= Got'
        BY <4>1, <3>1, <1>2, <1>11 DEF Follows
      <4>. QED
        BY <4>2, <3>1, <2>1, <1>3, <1>11 DEF Follows, NoEnd, LineOf
    <3>. QED
      BY <3>1, <2>1, <2>3, <1>6, <1>7 DEF CaptureFollows
  <2>. QED
    BY <2>2, <2>3
<1>. QED
    BY <1>8, <1>9, <1>10, <1>11 DEF ToolTypeOK

(* The tail: what is kept of a stream are its last lines *)
LEMMA BehindTyped ==
    ASSUME NEW q \in Seq(TailLines), NEW k \in 1..Len(q)
    PROVE  /\ Behind(q, k) \in Nat
           /\ IsFiniteSet({l \in 1..Len(q) : l > k /\ q[l].on = q[k].on})
           /\ Behind(q, k) = Cardinality({l \in 1..Len(q) : l > k /\ q[l].on = q[k].on})
<1>1. Len(q) \in Nat /\ DOMAIN q = 1..Len(q)
    OBVIOUS
<1>2. IsFiniteSet(1..Len(q))
    BY <1>1, FS_Interval
<1>3. IsFiniteSet({l \in 1..Len(q) : l > k /\ q[l].on = q[k].on})
    BY <1>2, FS_Subset
<1>. QED
    BY <1>1, <1>3, FS_CardinalityType DEF Behind

LEMMA BehindAppend ==
    ASSUME NEW q \in Seq(TailLines), NEW e \in TailLines
    PROVE  /\ Behind(Append(q, e), Len(q) + 1) = 0
           /\ \A k \in 1..Len(q) :
                Behind(Append(q, e), k) = Behind(q, k) + (IF q[k].on = e.on THEN 1 ELSE 0)
<1>. PICK g : g = Append(q, e)
    OBVIOUS
<1>1. /\ g \in Seq(TailLines) /\ Len(g) = Len(q) + 1 /\ g[Len(q) + 1] = e /\ Len(q) \in Nat
      /\ \A k \in 1..Len(q) : g[k] = q[k]
    BY AppendLine
<1>2. DOMAIN g = 1..(Len(q) + 1)
    BY <1>1
<1>3. Behind(g, Len(q) + 1) = 0
  <2>1. {l \in DOMAIN g : l > Len(q) + 1 /\ g[l].on = g[Len(q) + 1].on} = {}
    BY <1>1, <1>2
  <2>. QED
    BY <2>1, FS_EmptySet DEF Behind
<1>4. ASSUME NEW k \in 1..Len(q)
      PROVE  Behind(g, k) = Behind(q, k) + (IF q[k].on = e.on THEN 1 ELSE 0)
  <2>. DEFINE old == {l \in 1..Len(q) : l > k /\ q[l].on = q[k].on}
              new == {l \in DOMAIN g : l > k /\ g[l].on = g[k].on}
  <2>1. IsFiniteSet(old) /\ Behind(q, k) = Cardinality(old) /\ Behind(q, k) \in Nat
    BY BehindTyped
  <2>2. Behind(g, k) = Cardinality(new)
    BY DEF Behind
  <2>3. k \in 1..(Len(q) + 1) /\ Len(q) + 1 > k /\ g[k] = q[k]
    BY <1>1
  <2>4. CASE q[k].on = e.on
    <3>1. new = old \cup {Len(q) + 1}
      BY <1>1, <1>2, <2>3, <2>4
    <3>2. Len(q) + 1 \notin old
      BY <1>1
    <3>3. Cardinality(new) = Cardinality(old) + 1
      <4>. HIDE DEF old, new
      <4>. QED
        BY <2>1, <3>1, <3>2, FS_AddElement
    <3>. QED
      BY <2>1, <2>2, <2>4, <3>3
  <2>5. CASE q[k].on # e.on
    <3>1. new = old
      BY <1>1, <1>2, <2>3, <2>5
    <3>2. Behind(g, k) = Behind(q, k)
      <4>. HIDE DEF old, new
      <4>. QED
        BY <2>1, <2>2, <3>1
    <3>. QED
      BY <2>1, <2>5, <3>2
  <2>. QED
    BY <2>4, <2>5
<1>. QED
    BY <1>3, <1>4

LEMMA BehindTail ==
    ASSUME NEW q \in Seq(TailLines), q # <<>>, NEW k \in 1..(Len(q) - 1)
    PROVE  Behind(Tail(q), k) = Behind(q, k + 1)
<1>. PICK t : t = Tail(q)
    OBVIOUS
<1>1. /\ t \in Seq(TailLines) /\ Len(t) = Len(q) - 1 /\ Len(q) \in Nat
      /\ \A l \in 1..(Len(q) - 1) : t[l] = q[l + 1]
    BY TailLine
<1>2. DOMAIN t = 1..(Len(q) - 1) /\ DOMAIN q = 1..Len(q)
    BY <1>1
<1>. DEFINE less == {l \in 1..Len(t) : l > k /\ t[l].on = t[k].on}
            more == {l \in 1..Len(q) : l > k + 1 /\ q[l].on = q[k + 1].on}
            up == [l \in less |-> l + 1]
<1>3. IsFiniteSet(less) /\ IsFiniteSet(more)
      /\ Behind(t, k) = Cardinality(less) /\ Behind(q, k + 1) = Cardinality(more)
  <2>1. k \in 1..Len(t) /\ k + 1 \in 1..Len(q)
    BY <1>1
  <2>. QED
    BY <1>1, <2>1, BehindTyped
<1>4. up \in Bijection(less, more)
  <2>1. \A l \in less : l + 1 \in more
    BY <1>1
  <2>2. \A m \in more : m - 1 \in less /\ (m - 1) + 1 = m
    BY <1>1
  <2>3. up \in [less -> more]
    BY <2>1
  <2>4. \A a, b \in less : up[a] = up[b] => a = b
    BY <1>1
  <2>5. \A m \in more : \E l \in less : up[l] = m
    BY <2>2
  <2>. HIDE DEF up, less, more
  <2>. QED
    BY <2>3, <2>4, <2>5, Fun_IsBij
<1>. HIDE DEF up, less, more
<1>5. ExistsBijection(less, more)
    BY <1>4 DEF ExistsBijection
<1>. QED
    BY <1>3, <1>5, FS_Bijection

LEMMA LastGrows ==
    ASSUME NEW q \in Seq(TailLines), NEW e \in TailLines, NEW upTo \in [Streams -> Nat],
           LastOf(q, upTo), pipe \in [Streams -> Seq(Lines)],
           upTo[e.on] + 1 \in 1..Len(pipe[e.on]),
           e.line = LineOf(pipe[e.on][upTo[e.on] + 1])
    PROVE  LastOf(Append(q, e), [upTo EXCEPT ![e.on] = @ + 1])
<1>. PICK g : g = Append(q, e)
    OBVIOUS
<1>. PICK on : on = e.on
    OBVIOUS
<1>. PICK now : now = [upTo EXCEPT ![on] = @ + 1]
    OBVIOUS
<1>0. on \in Streams /\ \A k \in 1..Len(q) : q[k].on \in Streams
  <2>1. \A k \in 1..Len(q) : q[k] \in TailLines
    OBVIOUS
  <2>. QED
    BY <2>1 DEF TailLines
<1>1. /\ g \in Seq(TailLines) /\ Len(g) = Len(q) + 1 /\ g[Len(q) + 1] = e /\ Len(q) \in Nat
      /\ \A k \in 1..Len(q) : g[k] = q[k]
    BY AppendLine
<1>2. now[on] = upTo[on] + 1 /\ \A s \in Streams \ {on} : now[s] = upTo[s]
    BY <1>0
<1>3. ASSUME NEW k \in 1..(Len(q) + 1)
      PROVE  /\ now[g[k].on] - Behind(g, k) \in DOMAIN pipe[g[k].on]
             /\ g[k].line = LineOf(pipe[g[k].on][now[g[k].on] - Behind(g, k)])
  <2>1. CASE k = Len(q) + 1
    <3>1. Behind(g, k) = 0 /\ g[k] = e
      BY <2>1, <1>1, BehindAppend
    <3>2. now[on] - 0 = upTo[on] + 1 /\ upTo[on] \in Nat
      BY <1>0, <1>2
    <3>3. DOMAIN pipe[on] = 1..Len(pipe[on])
      BY <1>0
    <3>. QED
      BY <3>1, <3>2, <3>3
  <2>2. CASE k # Len(q) + 1
    <3>1. k \in 1..Len(q)
      BY <2>2, <1>1
    <3>a. PICK s \in Streams : s = q[k].on
      BY <3>1, <1>0
    <3>b. PICK n : n = upTo[s] - Behind(q, k)
      OBVIOUS
    <3>2. s = q[k].on /\ n = upTo[s] - Behind(q, k)
      BY <3>a, <3>b
    <3>3. n \in DOMAIN pipe[s] /\ q[k].line = LineOf(pipe[s][n])
      BY <3>1, <3>2 DEF LastOf
    <3>4. Behind(q, k) \in Nat /\ upTo[s] \in Nat
      BY <3>1, BehindTyped
    <3>5. Behind(g, k) = Behind(q, k) + (IF s = on THEN 1 ELSE 0)
      BY <3>1, <3>2, BehindAppend
    <3>6. now[s] - Behind(g, k) = n
      <4>1. CASE s = on
        <5>1. Behind(g, k) = Behind(q, k) + 1 /\ now[s] = upTo[s] + 1
          BY <4>1, <3>5, <1>2
        <5>2. (upTo[s] + 1) - (Behind(q, k) + 1) = upTo[s] - Behind(q, k)
          BY <3>4, OneMoreOnBoth
        <5>. QED
          BY <5>1, <5>2, <3>2
      <4>2. CASE s # on
        <5>1. Behind(g, k) = Behind(q, k) /\ now[s] = upTo[s]
          BY <4>2, <3>5, <3>4, <1>2
        <5>. QED
          BY <5>1, <3>2
      <4>. QED
        BY <4>1, <4>2
    <3>7. g[k] = q[k] /\ g[k].on = s
      BY <3>1, <3>2, <1>1
    <3>. QED
      BY <3>3, <3>6, <3>7
  <2>. QED
    BY <2>1, <2>2
<1>4. DOMAIN g = 1..(Len(q) + 1)
    BY <1>1
<1>5. LastOf(g, now)
    BY <1>3, <1>4 DEF LastOf
<1>. QED
    BY <1>5

LEMMA LastShrinks ==
    ASSUME NEW q \in Seq(TailLines), q # <<>>, NEW upTo, LastOf(q, upTo)
    PROVE  LastOf(Tail(q), upTo)
<1>. PICK t : t = Tail(q)
    OBVIOUS
<1>1. /\ t \in Seq(TailLines) /\ Len(t) = Len(q) - 1 /\ Len(q) \in Nat
      /\ \A l \in 1..(Len(q) - 1) : t[l] = q[l + 1]
    BY TailLine
<1>2. DOMAIN t = 1..(Len(q) - 1) /\ DOMAIN q = 1..Len(q)
    BY <1>1
<1>3. ASSUME NEW k \in 1..(Len(q) - 1)
      PROVE  t[k] = q[k + 1] /\ Behind(t, k) = Behind(q, k + 1) /\ k + 1 \in DOMAIN q
    BY <1>1, <1>2, BehindTail
<1>4. LastOf(t, upTo)
    BY <1>2, <1>3 DEF LastOf
<1>. QED
    BY <1>4

TailFollows == LastOf(tail, received)

LEMMA TailStays ==
    ASSUME ToolTypeOK, PipesFlow, TailFollows, UNCHANGED <<received, tail>>,
           \A s \in Streams : /\ Len(pipe[s]) <= Len(pipe'[s]) /\ pipe'[s] \in Seq(Lines)
                              /\ \A k \in 1..Len(pipe[s]) : pipe'[s][k] = pipe[s][k]
    PROVE  TailFollows'
<1>1. ASSUME NEW k \in 1..Len(tail)
      PROVE  /\ received[tail[k].on] - Behind(tail, k) \in DOMAIN pipe'[tail[k].on]
             /\ tail[k].line = LineOf(pipe'[tail[k].on][received[tail[k].on] - Behind(tail, k)])
  <2>1. tail[k] \in TailLines /\ k \in DOMAIN tail
    BY DEF ToolTypeOK
  <2>2. PICK s \in Streams : s = tail[k].on
    BY <2>1 DEF TailLines
  <2>3. PICK n : n = received[s] - Behind(tail, k)
    OBVIOUS
  <2>4. n \in DOMAIN pipe[s] /\ tail[k].line = LineOf(pipe[s][n])
    BY <2>1, <2>2, <2>3 DEF TailFollows, LastOf
  <2>5. pipe[s] \in Seq(Lines) /\ pipe'[s] \in Seq(Lines)
    BY DEF ToolTypeOK
  <2>6. n \in 1..Len(pipe[s]) /\ n \in DOMAIN pipe'[s]
    BY <2>4, <2>5
  <2>. QED
    BY <2>2, <2>3, <2>4, <2>6
<1>2. DOMAIN tail = 1..Len(tail)
    BY DEF ToolTypeOK
<1>. QED
    BY <1>1, <1>2 DEF TailFollows, LastOf

LEMMA TailStep ==
    ASSUME ToolTypeOK, PipesFlow, TailFollows, NEW s \in Streams, ReceiveLine(s)
    PROVE  TailFollows'
<1>1. PICK line \in Shows : \E entry \in TailLines :
            /\ line = LineOf(pipe[s][received[s] + 1])
            /\ entry.on = s /\ entry.line = line
            /\ tail' = IF Len(Append(tail, entry)) > TailMax
                       THEN Tail(Append(tail, entry)) ELSE Append(tail, entry)
    BY GrownTail
<1>2. PICK entry \in TailLines :
            /\ entry.on = s /\ entry.line = LineOf(pipe[s][received[s] + 1])
            /\ tail' = IF Len(Append(tail, entry)) > TailMax
                       THEN Tail(Append(tail, entry)) ELSE Append(tail, entry)
    BY <1>1
<1>3. PICK grown : grown = Append(tail, entry)
    OBVIOUS
<1>4. PICK now : now = received'
    OBVIOUS
<1>5. PICK kept : kept = tail'
    OBVIOUS
<1>6. now = [received EXCEPT ![entry.on] = @ + 1] /\ pipe' = pipe
    BY <1>2, <1>4 DEF ReceiveLine
<1>7. received[s] + 1 \in 1..Len(pipe[s])
    BY GrownTail
<1>8. /\ tail \in Seq(TailLines) /\ received \in [Streams -> Nat]
      /\ pipe \in [Streams -> Seq(Lines)] /\ LastOf(tail, received)
    BY DEF ToolTypeOK, TailFollows
<1>9. LastOf(grown, now)
    BY <1>2, <1>3, <1>6, <1>7, <1>8, LastGrows
<1>10. grown \in Seq(TailLines) /\ grown # <<>>
    BY <1>3, <1>8, AppendLine
<1>11. LastOf(Tail(grown), now)
    BY <1>9, <1>10, LastShrinks
<1>12. LastOf(kept, now)
    BY <1>2, <1>3, <1>5, <1>9, <1>11
<1>. QED
    BY <1>4, <1>5, <1>6, <1>12 DEF TailFollows, LastOf

(* The loop is over: everything written has been received. *)
LEMMA AllReceived ==
    ASSUME ToolTypeOK, PipesFlow, Waited
    PROVE  /\ tool # "none" /\ received = [s \in Streams |-> Len(pipe[s])]
           /\ \A s \in Streams : received[s] = Len(pipe[s])
<1>1. tool # "none" /\ Running /\ drained = Streams
    BY DEF Waited
<1>2. \A s \in Streams : received[s] = Len(pipe[s])
    BY <1>1 DEF PipesFlow
<1>. QED
    BY <1>1, <1>2 DEF ToolTypeOK

(* Then the model is what was shown behind one of the begin markers. *)
LEMMA StopIs ==
    ASSUME ToolTypeOK, NEW i \in 1..Len(pipe["stdout"]), NEW n \in Nat,
           NoEnd(i + 1, i + n), i + n <= Len(pipe["stdout"]),
           i + n < Len(pipe["stdout"]) => Out(i + n + 1) = "end"
    PROVE  Stop(i) = i + n + 1
<1>1. Len(pipe["stdout"]) \in Nat /\ DOMAIN pipe["stdout"] = 1..Len(pipe["stdout"])
    BY DEF ToolTypeOK, Streams
<1>2. \A k \in EndsAfter(i) : k \in 1..Len(pipe["stdout"]) /\ k > i /\ Out(k) = "end"
    BY <1>1 DEF EndsAfter, Out
<1>3. \A k \in EndsAfter(i) : k >= i + n + 1
  <2>1. ASSUME NEW k \in EndsAfter(i), ~(k >= i + n + 1) PROVE FALSE
    <3>1. k \in (i + 1)..(i + n)
      BY <1>2, <2>1
    <3>. QED
      BY <3>1, <1>2 DEF NoEnd
  <2>. QED
    BY <2>1
<1>4. CASE i + n < Len(pipe["stdout"])
  <2>1. i + n + 1 \in EndsAfter(i)
    BY <1>1, <1>4 DEF EndsAfter, Out
  <2>2. PICK c : c = CHOOSE k \in EndsAfter(i) : \A l \in EndsAfter(i) : k <= l
    OBVIOUS
  <2>3. c \in EndsAfter(i) /\ \A l \in EndsAfter(i) : c <= l
    BY <2>1, <2>2, <1>3
  <2>4. c <= i + n + 1 /\ c >= i + n + 1 /\ c \in Nat
    BY <2>1, <2>3, <1>2, <1>3
  <2>5. c = i + n + 1
    BY <2>4
  <2>. QED
    BY <2>1, <2>2, <2>5 DEF Stop
<1>5. CASE ~(i + n < Len(pipe["stdout"]))
  <2>1. i + n = Len(pipe["stdout"])
    BY <1>1, <1>5
  <2>2. EndsAfter(i) = {}
    BY <2>1, <1>1, <1>2, <1>3
  <2>. QED
    BY <2>1, <2>2 DEF Stop
<1>. QED
    BY <1>4, <1>5

LEMMA ShownIs ==
    ASSUME ToolTypeOK, NEW i \in 1..Len(pipe["stdout"])
    PROVE  /\ Stop(i) \in (i + 1)..(Len(pipe["stdout"]) + 1)
           /\ NoEnd(i + 1, Stop(i) - 1)
           /\ Stop(i) <= Len(pipe["stdout"]) => Out(Stop(i)) = "end"
           /\ DOMAIN Shown(i) = 1..(Stop(i) - 1 - i) /\ Len(Shown(i)) = Stop(i) - 1 - i
           /\ \A k \in 1..(Stop(i) - 1 - i) : Shown(i)[k] = Out(i + k) /\ Out(i + k) \in Lines
<1>1. Len(pipe["stdout"]) \in Nat /\ DOMAIN pipe["stdout"] = 1..Len(pipe["stdout"])
      /\ pipe["stdout"] \in Seq(Lines)
    BY DEF ToolTypeOK, Streams
<1>2. /\ Stop(i) \in (i + 1)..(Len(pipe["stdout"]) + 1) /\ \A l \in EndsAfter(i) : Stop(i) <= l
      /\ Stop(i) <= Len(pipe["stdout"]) => Out(Stop(i)) = "end"
  <2>1. CASE EndsAfter(i) = {}
    BY <2>1, <1>1 DEF Stop
  <2>2. CASE EndsAfter(i) # {}
    <3>1. EndsAfter(i) \in SUBSET Nat /\ \A k \in EndsAfter(i) : k \in (i + 1)..Len(pipe["stdout"])
      BY <1>1 DEF EndsAfter
    <3>2. PICK k \in EndsAfter(i) : \A l \in EndsAfter(i) : k <= l
      <4>1. PICK k \in EndsAfter(i) : \A l \in EndsAfter(i) : ~ (<<l, k>> \in OpToRel(<, Nat))
        BY <3>1, <2>2, NatLessThanWellFounded, WFMin
      <4>2. ASSUME NEW l \in EndsAfter(i) PROVE k <= l
        <5>1. ~(<<l, k>> \in OpToRel(<, Nat)) /\ l \in Nat /\ k \in Nat
          BY <4>1, <3>1
        <5>2. ~(l < k)
          BY <5>1 DEF OpToRel
        <5>3. l \in Nat /\ k \in Nat
          BY <3>1
        <5>. QED
          BY <5>2, <5>3
      <4>. QED
        BY <4>2
    <3>3. PICK c : c = CHOOSE j \in EndsAfter(i) : \A l \in EndsAfter(i) : j <= l
      OBVIOUS
    <3>4. c \in EndsAfter(i) /\ \A l \in EndsAfter(i) : c <= l
      BY <3>2, <3>3
    <3>5. Out(c) = "end"
      BY <3>4 DEF EndsAfter, Out
    <3>. QED
      BY <2>2, <3>1, <3>3, <3>4, <3>5, <1>1 DEF Stop
  <2>. QED
    BY <2>1, <2>2
<1>3. NoEnd(i + 1, Stop(i) - 1)
  <2>1. ASSUME NEW k \in (i + 1)..(Stop(i) - 1), Out(k) = "end" PROVE FALSE
    <3>1. k \in 1..Len(pipe["stdout"]) /\ k > i /\ k < Stop(i)
      BY <1>1, <1>2
    <3>2. k \in EndsAfter(i)
      BY <3>1, <2>1, <1>1 DEF EndsAfter, Out
    <3>. QED
      BY <3>1, <3>2, <1>2
  <2>. QED
    BY <2>1 DEF NoEnd
<1>4. PICK j, out : j = Stop(i) - 1 /\ out = pipe["stdout"]
  OBVIOUS
<1>5. j \in i..Len(out) /\ out \in Seq(Lines) /\ i \in 1..Len(out)
  BY <1>1, <1>2, <1>4
<1>6. /\ Len(SubSeq(out, i + 1, j)) = j - i /\ DOMAIN SubSeq(out, i + 1, j) = 1..(j - i)
      /\ \A k \in 1..(j - i) : SubSeq(out, i + 1, j)[k] = out[i + k] /\ i + k \in 1..Len(out)
  <2>1. SubSeq(out, i + 1, j) = [k \in 1..(j - i) |-> out[i + k]]
    <3>1. j - (i + 1) + 1 = j - i
      BY <1>5
    <3>2. SubSeq(out, i + 1, j) = [k \in 1..(j - (i + 1) + 1) |-> out[i + 1 + k - 1]]
      BY <1>5
    <3>3. \A k \in 1..(j - i) : i + 1 + k - 1 = i + k
      BY <1>5
    <3>. QED
      BY <3>1, <3>2, <3>3
  <2>2. j - i \in Nat /\ \A k \in 1..(j - i) : i + k \in 1..Len(out)
    BY <1>5
  <2>3. DOMAIN SubSeq(out, i + 1, j) = 1..(j - i)
    BY <2>1
  <2>4. Len(SubSeq(out, i + 1, j)) = j - i
    BY <2>2, <2>3, <1>5
  <2>. QED
    BY <2>1, <2>2, <2>3, <2>4
<1>7. Shown(i) = SubSeq(out, i + 1, j)
  BY <1>4 DEF Shown
<1>8. \A k \in 1..(j - i) : out[i + k] = Out(i + k) /\ Out(i + k) \in Lines
  BY <1>4, <1>5, <1>6 DEF Out
<1>. QED
  BY <1>2, <1>3, <1>4, <1>6, <1>7, <1>8

LEMMA ModelIsShown ==
    ASSUME ToolTypeOK, PipesFlow, CaptureFollows, Waited, model # NoModel, ~truncated
    PROVE  \E i \in Begins : /\ Shown(i) \in Seq(Lines) /\ Len(Shown(i)) = Len(model)
                             /\ \A k \in 1..Len(model) : model[k] = LineOf(Shown(i)[k])
<1>1. Got = Len(pipe["stdout"]) /\ Got \in Nat /\ DOMAIN pipe["stdout"] = 1..Got
    BY AllReceived DEF Got, ToolTypeOK, Streams
<1>2. PICK i \in 1..Got : Follows(i)
    BY DEF CaptureFollows
<1>3. PICK n \in Nat : n = Len(model)
    BY DEF ToolTypeOK
<1>4. /\ NoEnd(i + 1, i + n) /\ i + n <= Got /\ (i + n < Got => Out(i + n + 1) = "end")
    BY <1>1, <1>2, <1>3 DEF Follows, ToolTypeOK
<1>5. Stop(i) = i + n + 1
    BY <1>1, <1>4, StopIs
<1>6. /\ DOMAIN Shown(i) = 1..(Stop(i) - 1 - i) /\ Len(Shown(i)) = Stop(i) - 1 - i
      /\ \A k \in 1..(Stop(i) - 1 - i) : Shown(i)[k] = Out(i + k) /\ Out(i + k) \in Lines
    BY <1>1, ShownIs
<1>7. Stop(i) - 1 - i = n
    BY <1>5, <1>1
<1>8. Shown(i) = SubSeq(pipe["stdout"], i + 1, i + n)
  <2>1. Stop(i) - 1 = i + n
    BY <1>5, <1>1
  <2>. QED
    BY <2>1 DEF Shown
<1>9. Shown(i) \in Seq(Lines)
  <2>1. pipe["stdout"] \in Seq(Lines) /\ i + n <= Len(pipe["stdout"])
    BY <1>1, <1>4 DEF ToolTypeOK, Streams
  <2>2. \A k \in (i + 1)..(i + n) : pipe["stdout"][k] \in Lines
    BY <2>1, <1>1
  <2>. QED
    BY <2>1, <2>2, <1>8
<1>10. \A k \in 1..n : model[k] = LineOf(Shown(i)[k])
    BY <1>2, <1>3, <1>6, <1>7 DEF Follows
<1>11. i \in Begins
    BY <1>1, <1>2 DEF Begins, Follows, Out
<1>. QED
    BY <1>3, <1>6, <1>7, <1>9, <1>10, <1>11

LEMMA ModelOfLines ==
    ASSUME NEW lines \in Seq(Lines), NEW m \in Seq(Shows), Len(lines) = Len(m),
           \A k \in 1..Len(m) : m[k] = LineOf(lines[k])
    PROVE  IsModel(m) <=> HasModel(lines)
<1>1. /\ DOMAIN m = 1..Len(m) /\ DOMAIN lines = 1..Len(m) /\ \A k \in 1..Len(m) : lines[k] \in Lines
      /\ Len(m) \in Nat
    OBVIOUS
<1>2. \A k \in 1..Len(m) : /\ m[k] = "json" <=> lines[k] = "json"
                           /\ m[k] = "" <=> lines[k] = "garbled"
    BY <1>1, ToolLines
<1>. DEFINE jsons == {k \in DOMAIN lines : lines[k] = "json"}
<1>3. ASSUME IsModel(m) PROVE HasModel(lines)
  <2>1. PICK k \in 1..Len(m) : m[k] = "json" /\ \A l \in (1..Len(m)) \ {k} : m[l] = ""
    BY <1>1, <1>3 DEF IsModel
  <2>2. jsons = {k}
    BY <2>1, <1>1, <1>2
  <2>3. Cardinality(jsons) = 1
    BY <2>2, FS_Singleton
  <2>4. \A l \in 1..Len(m) : lines[l] \in {"json", "garbled"}
    BY <2>1, <1>2
  <2>. QED
    BY <2>3, <2>4, <1>1 DEF HasModel, IsClean
<1>4. ASSUME HasModel(lines) PROVE IsModel(m)
  <2>1. Cardinality(jsons) = 1
    BY <1>4 DEF HasModel
  <2>2. IsFiniteSet(jsons)
    <3>1. IsFiniteSet(1..Len(m))
      BY <1>1, FS_Interval
    <3>. QED
      BY <3>1, <1>1, FS_Subset
  <2>3. PICK k : jsons = {k}
    <3>. HIDE DEF jsons
    <3>. QED
      BY <2>1, <2>2, FS_Singleton
  <2>4. k \in 1..Len(m) /\ lines[k] = "json"
    BY <2>3, <1>1
  <2>5. \A l \in (1..Len(m)) \ {k} : lines[l] = "garbled"
    BY <2>3, <1>1, <1>4 DEF HasModel, IsClean
  <2>. QED
    BY <2>4, <2>5, <1>1, <1>2 DEF IsModel
<1>. QED
    BY <1>3, <1>4

LEMMA TooMuchShown ==
    ASSUME ToolTypeOK, NEW i \in 1..Len(pipe["stdout"]), Overflows(i),
           Got = Len(pipe["stdout"])
    PROVE  i \in Begins /\ Len(Shown(i)) > ModelMax
<1>1. /\ Stop(i) \in (i + 1)..(Got + 1) /\ (Stop(i) <= Got => Out(Stop(i)) = "end")
      /\ Len(Shown(i)) = Stop(i) - 1 - i
    BY ShownIs
<1>2. Got \in Nat /\ ModelMax \in Nat /\ DOMAIN pipe["stdout"] = 1..Got
    BY ToolAssumption DEF ToolTypeOK, Streams
<1>3. i + ModelMax + 1 <= Got /\ NoEnd(i + 1, i + ModelMax + 1)
    BY DEF Overflows
<1>4. Stop(i) > i + ModelMax + 1
  <2>1. ASSUME ~(Stop(i) > i + ModelMax + 1) PROVE FALSE
    <3>1. Stop(i) \in (i + 1)..(i + ModelMax + 1) /\ Stop(i) <= Got
      BY <2>1, <1>1, <1>2, <1>3
    <3>. QED
      BY <3>1, <1>1, <1>3 DEF NoEnd
  <2>. QED
    BY <2>1
<1>5. i \in Begins
    BY <1>2 DEF Begins, Overflows, Out
<1>. QED
    BY <1>1, <1>2, <1>4, <1>5

(* OutcomeIsTools of a given outcome *)
SaysTools(o) ==
    /\ o.kind = "graph" => tool = "ok" /\ \E i \in Begins : HasModel(Shown(i))
    /\ tool = "ok" /\ Cardinality(Begins) = 1
       /\ (\A i \in Begins : HasModel(Shown(i)) /\ Len(Shown(i)) <= ModelMax) =>
            o.kind \in {"running", "io", "graph"}
    /\ o.kind = "SyncError" /\ o.of = attempt =>
            LastOf(o.tail, [s \in Streams |-> Len(pipe[s])])

LEMMA SaysStays ==
    ASSUME UNCHANGED <<tool, pipe, attempt>>, NEW o, SaysTools(o), o = outcome'
    PROVE  OutcomeIsTools'
<1>1. Begins' = Begins
    BY DEF Begins
<1>2. \A i : Shown(i)' = Shown(i)
    BY DEF Shown, Stop, EndsAfter
<1>3. PICK upTo : upTo = [s \in Streams |-> Len(pipe[s])]
    OBVIOUS
<1>4. [s \in Streams |-> Len(pipe'[s])] = upTo
    BY <1>3
<1>5. LastOf(o.tail, upTo)' <=> LastOf(o.tail, upTo)
    BY DEF LastOf
<1>. QED
    BY <1>1, <1>2, <1>3, <1>4, <1>5 DEF OutcomeIsTools, SaysTools

LEMMA ConcludeSaysTools ==
    ASSUME ToolTypeOK, PipesFlow, CaptureFollows, TailFollows, Conclude
    PROVE  OutcomeIsTools'
<1>1. Waited /\ UNCHANGED <<tool, pipe, attempt>>
    BY DEF Conclude, MayConclude, Return
<1>2. /\ received = [s \in Streams |-> Len(pipe[s])] /\ Got = Len(pipe["stdout"]) /\ Got \in Nat
      /\ DOMAIN pipe["stdout"] = 1..Got
    BY <1>1, AllReceived DEF Got, Streams, ToolTypeOK
<1>3. LastOf(tail, [s \in Streams |-> Len(pipe[s])])
    BY <1>2 DEF TailFollows
<1>4. PICK o : o = outcome'
    OBVIOUS
<1>5. /\ tool = "failed" =>
            o.kind = "SyncError" /\ o.of = 1 /\ o.tail = IF attempt = 1 THEN tail ELSE primary
      /\ tool = "ok" /\ (truncated \/ model = NoModel) => o.kind = "SyncError" /\ o.tail = tail
      /\ tool = "ok" /\ ~truncated /\ model # NoModel =>
            o.kind = IF IsModel(model) THEN "graph" ELSE "parse"
      /\ tool \in {"ok", "failed"}
    BY <1>1, <1>4 DEF Conclude, Return, Waited
<1>6. o.kind = "graph" => tool = "ok" /\ ~truncated /\ model # NoModel /\ IsModel(model)
    BY <1>5
<1>7. ASSUME ~truncated, model # NoModel
      PROVE  \E i \in Begins : IsModel(model) <=> HasModel(Shown(i))
  <2>1. PICK i \in Begins : /\ Shown(i) \in Seq(Lines) /\ Len(Shown(i)) = Len(model)
                            /\ \A k \in 1..Len(model) : model[k] = LineOf(Shown(i)[k])
    BY <1>1, <1>7, ModelIsShown
  <2>2. model \in Seq(Shows)
    BY <1>7 DEF ToolTypeOK
  <2>3. IsModel(model) <=> HasModel(Shown(i))
    BY <2>1, <2>2, ModelOfLines
  <2>. QED
    BY <2>3
<1>8. o.kind = "graph" => \E i \in Begins : HasModel(Shown(i))
    BY <1>6, <1>7
<1>9. ASSUME tool = "ok", Cardinality(Begins) = 1,
             \A i \in Begins : HasModel(Shown(i)) /\ Len(Shown(i)) <= ModelMax
      PROVE  o.kind = "graph"
  <2>1. PICK b \in Begins : TRUE
    <3>1. Begins # {}
      BY <1>9, FS_EmptySet
    <3>. QED
      BY <3>1
  <2>2. model # NoModel
    BY <2>1, <1>2 DEF CaptureFollows, Begins, Out
  <2>3. ~truncated
    <3>1. ASSUME NEW i \in 1..Got, Overflows(i) PROVE FALSE
      <4>1. i \in Begins /\ Len(Shown(i)) > ModelMax
        BY <3>1, <1>2, TooMuchShown
      <4>2. Len(Shown(i)) \in Int /\ ModelMax \in Int
        <5>1. Stop(i) \in (i + 1)..(Got + 1) /\ Len(Shown(i)) = Stop(i) - 1 - i
          BY <1>2, ShownIs
        <5>. QED
          BY <5>1, <1>2, ToolAssumption
      <4>. QED
        BY <4>1, <4>2, <1>9
    <3>. QED
      BY <3>1 DEF CaptureFollows
  <2>4. IsModel(model)
    BY <2>2, <2>3, <1>7, <1>9
  <2>. QED
    BY <2>2, <2>3, <2>4, <1>5, <1>9
<1>10. ASSUME o.kind = "SyncError", o.of = attempt
       PROVE  LastOf(o.tail, [s \in Streams |-> Len(pipe[s])])
  <2>1. o.tail = tail
    BY <1>5, <1>10
  <2>. QED
    BY <2>1, <1>3
<1>11. SaysTools(o)
    BY <1>6, <1>8, <1>9, <1>10 DEF SaysTools
<1>. QED
    BY <1>1, <1>4, <1>11, SaysStays

(* The invariant of a sync's build tool, and that every step keeps it *)
ToolInv == ToolTypeOK /\ PipesFlow /\ CaptureFollows /\ TailFollows /\ OutcomeIsTools

LEMMA ToolInvInit ==
    ASSUME ToolStart, commands \in CommandCounts
    PROVE  ToolInv
<1>1. ToolTypeOK /\ PipesFlow
    BY ToolStartTyped
<1>2. CaptureFollows
  <2>1. Got = 0 /\ 1..0 = {}
    BY DEF ToolStart, Got, Streams
  <2>. QED
    BY <2>1 DEF ToolStart, CaptureFollows
<1>3. TailFollows
  <2>1. DOMAIN <<>> = {}
    OBVIOUS
  <2>. QED
    BY <2>1 DEF ToolStart, TailFollows, LastOf
<1>4. OutcomeIsTools
  <2>1. outcome.kind = "running"
    BY DEF ToolStart
  <2>. QED
    BY <2>1 DEF OutcomeIsTools
<1>. QED
    BY <1>1, <1>2, <1>3, <1>4 DEF ToolInv

LEMMA ToolInvStep ==
    ASSUME ToolInv, [ToolNext]_toolVars
    PROVE  ToolInv'
<1>. USE DEF ToolInv
<1>1. ASSUME pipe' = pipe PROVE \A s \in Streams :
            /\ Len(pipe[s]) <= Len(pipe'[s]) /\ pipe'[s] \in Seq(Lines)
            /\ \A k \in 1..Len(pipe[s]) : pipe'[s][k] = pipe[s][k]
  <2>1. \A s \in Streams : pipe[s] \in Seq(Lines) /\ Len(pipe[s]) \in Nat
    BY DEF ToolTypeOK
  <2>. QED
    BY <2>1, <1>1
<1>2. ASSUME UNCHANGED <<pipe, received, tail, capturing, model, truncated>>
      PROVE  CaptureFollows' /\ TailFollows'
  <2>1. \A s \in Streams :
            /\ Len(pipe[s]) <= Len(pipe'[s]) /\ pipe'[s] \in Seq(Lines)
            /\ \A k \in 1..Len(pipe[s]) : pipe'[s][k] = pipe[s][k]
    BY <1>1, <1>2
  <2>2. CaptureFollows'
    BY <2>1, <1>2, CaptureStays DEF Got
  <2>3. TailFollows'
    BY <2>1, <1>2, TailStays
  <2>. QED
    BY <2>2, <2>3
<1>3. ASSUME outcome'.kind \in {"running", "io"} PROVE OutcomeIsTools'
    BY <1>3 DEF OutcomeIsTools
<1>4. ASSUME Running, outcome' = outcome PROVE OutcomeIsTools'
    BY <1>3, <1>4 DEF Running
<1>5. ASSUME UNCHANGED <<outcome, tool, pipe, attempt>> PROVE OutcomeIsTools'
  <2>1. PICK o : o = outcome
    OBVIOUS
  <2>2. SaysTools(o)
    BY <2>1 DEF SaysTools, OutcomeIsTools
  <2>. QED
    BY <2>1, <2>2, <1>5, SaysStays
<1>6. ASSUME tool = "running", outcome' = outcome PROVE OutcomeIsTools'
  <2>1. outcome.kind \in {"running", "io"}
    BY <1>6 DEF ToolTypeOK, PipesFlow, Outcomes
  <2>. QED
    BY <2>1, <1>3, <1>6
<1>7. CASE \E s \in Scripts : Spawn(s)
  <2>1. PICK s \in Scripts : Spawn(s)
    BY <1>7
  <2>2. ToolTypeOK' /\ PipesFlow'
    BY <2>1, SpawnKeeps
  <2>3. /\ UNCHANGED <<pipe, received, tail, capturing, model, truncated>>
        /\ Running /\ outcome' = outcome
    BY <2>1 DEF Spawn, MaySpawn, loopVars
  <2>. QED
    BY <2>2, <2>3, <1>2, <1>4
<1>8. CASE WriteLine
  <2>1. /\ ToolTypeOK' /\ PipesFlow'
        /\ \A s \in Streams : /\ Len(pipe[s]) <= Len(pipe'[s])
                              /\ \A k \in 1..Len(pipe[s]) : pipe'[s][k] = pipe[s][k]
    BY <1>8, WriteKeeps
  <2>2. \A s \in Streams : pipe'[s] \in Seq(Lines)
    BY <2>1 DEF ToolTypeOK
  <2>3. /\ UNCHANGED <<received, tail, capturing, model, truncated>>
        /\ tool = "running" /\ outcome' = outcome
    BY <1>8 DEF WriteLine, MayWrite, loopVars
  <2>4. CaptureFollows'
    BY <2>1, <2>3, CaptureStays DEF Got
  <2>5. TailFollows'
    BY <2>1, <2>2, <2>3, TailStays
  <2>6. OutcomeIsTools'
    BY <2>3, <1>6
  <2>. QED
    BY <2>1, <2>4, <2>5, <2>6
<1>9. CASE \E status \in {"ok", "failed"} : ExitTool(status)
  <2>1. ToolTypeOK' /\ PipesFlow'
    BY <1>9, ProcessKeeps
  <2>2. /\ UNCHANGED <<pipe, received, tail, capturing, model, truncated>>
        /\ tool = "running" /\ outcome' = outcome
    BY <1>9 DEF ExitTool, MayExit, loopVars
  <2>. QED
    BY <2>1, <2>2, <1>2, <1>6
<1>10. CASE \E s \in Streams : CloseStream(s)
  <2>1. ToolTypeOK' /\ PipesFlow'
    BY <1>10, ProcessKeeps
  <2>2. UNCHANGED <<pipe, received, tail, capturing, model, truncated, outcome, tool, attempt>>
    BY <1>10 DEF CloseStream, loopVars
  <2>. QED
    BY <2>1, <2>2, <1>2, <1>5
<1>11. CASE \E s \in Streams : ReadLine(s) \/ SendLine(s) \/ ReaderEnds(s)
  <2>1. PICK s \in Streams : ReadLine(s) \/ SendLine(s) \/ ReaderEnds(s)
    BY <1>11
  <2>2. ToolTypeOK' /\ PipesFlow'
    BY <2>1, ReaderKeeps
  <2>3. UNCHANGED <<pipe, received, tail, capturing, model, truncated, outcome, tool, attempt>>
    BY <2>1 DEF ReadLine, SendLine, ReaderEnds, loopVars
  <2>. QED
    BY <2>2, <2>3, <1>2, <1>5
<1>12. CASE \E s \in Streams : ReceiveLine(s)
  <2>1. PICK s \in Streams : ReceiveLine(s)
    BY <1>12
  <2>2. ToolTypeOK' /\ PipesFlow'
    BY <2>1, ReceiveKeeps DEF CaptureFollows
  <2>3. TailFollows'
    BY <2>1, TailStep
  <2>4. Running /\ outcome' = outcome /\ pipe' = pipe
    BY <2>1 DEF ReceiveLine, MayReceive
  <2>5. CaptureFollows'
    <3>1. CASE s = "stdout"
      BY <2>1, <3>1, CaptureStep
    <3>2. CASE s # "stdout"
      <4>1. UNCHANGED <<Got, capturing, model, truncated>>
        BY <2>1, <3>2 DEF ReceiveLine, Captures, Got, ToolTypeOK, Streams
      <4>2. \A t \in Streams : \A k \in 1..Len(pipe[t]) : pipe'[t][k] = pipe[t][k]
        BY <2>4
      <4>. QED
        BY <4>1, <4>2, CaptureStays
    <3>. QED
      BY <3>1, <3>2
  <2>. QED
    BY <2>2, <2>3, <2>4, <2>5, <1>4
<1>13. CASE \E s \in Streams : Drain(s)
  <2>1. ToolTypeOK' /\ PipesFlow'
    BY <1>13, DrainKeeps
  <2>2. UNCHANGED <<pipe, received, tail, capturing, model, truncated, outcome, tool, attempt>>
    BY <1>13 DEF Drain
  <2>. QED
    BY <2>1, <2>2, <1>2, <1>5
<1>14. CASE Retry
  <2>1. ToolTypeOK' /\ PipesFlow'
    BY <1>14, RetryKeeps
  <2>2. Running /\ outcome' = outcome
    BY <1>14 DEF Retry, MayRetry, Waited
  <2>3. CaptureFollows'
    <3>1. Got' = 0 /\ 1..0 = {} /\ ~capturing' /\ ~truncated' /\ model' = NoModel
      BY <1>14 DEF Retry, Fresh, Got, Streams
    <3>. QED
      BY <3>1 DEF CaptureFollows
  <2>4. TailFollows'
    <3>1. tail' = <<>> /\ DOMAIN <<>> = {}
      BY <1>14 DEF Retry, Fresh
    <3>. QED
      BY <3>1 DEF TailFollows, LastOf
  <2>. QED
    BY <2>1, <2>2, <2>3, <2>4, <1>4
<1>15. CASE Conclude \/ SpawnFails \/ LogFails
  <2>1. ToolTypeOK' /\ PipesFlow'
    BY <1>15, ReturnsKeep
  <2>2. CaptureFollows' /\ TailFollows'
    <3>1. UNCHANGED <<pipe, received, tail, capturing, model, truncated>>
      BY <1>15 DEF Conclude, SpawnFails, LogFails, Return, loopVars
    <3>. QED
      BY <3>1, <1>2
  <2>3. CASE Conclude
    <3>1. OutcomeIsTools'
      BY <2>3, ConcludeSaysTools
    <3>. QED
      BY <2>1, <2>2, <3>1
  <2>4. CASE SpawnFails \/ LogFails
    <3>1. outcome' = [kind |-> "io", tail |-> <<>>, of |-> attempt]
      BY <2>4 DEF SpawnFails, LogFails, Return
    <3>2. OutcomeIsTools'
      BY <3>1, <1>3
    <3>. QED
      BY <2>1, <2>2, <3>2
  <2>. QED
    BY <2>3, <2>4, <1>15
<1>16. CASE UNCHANGED toolVars
  <2>1. UNCHANGED <<commands, attempt, tool, script, written, pipe, streams, readers, read, sent,
                    received, drained, tail, capturing, model, truncated, primary, outcome>>
    BY <1>16 DEF toolVars, pipeVars, loopVars
  <2>2. ToolTypeOK' /\ PipesFlow'
    BY <2>1 DEF ToolTypeOK, PipesFlow, Running
  <2>. QED
    BY <2>1, <2>2, <1>2, <1>5
<1>. QED
    BY <1>7, <1>8, <1>9, <1>10, <1>11, <1>12, <1>13, <1>14, <1>15, <1>16 DEF ToolNext, ToolStep

LEMMA ToolInvHolds == ToolSpec => []ToolInv
<1>1. ToolStart /\ commands \in CommandCounts => ToolInv
    BY ToolInvInit
<1>2. ToolInv /\ [ToolNext]_toolVars => ToolInv'
    BY ToolInvStep
<1>. QED
    BY <1>1, <1>2, PTL DEF ToolSpec

(* A sync yields a graph only from a command that ended well and wrote a     *)
(* whole model behind a marker, and from each that did so once, however the  *)
(* lines of its two streams are merged; a failure shows the last lines of    *)
(* the command (run_command_streaming, the runners of Gradle and Maven).     *)
THEOREM OutcomeBelongsToTool == ToolSpec => []OutcomeIsTools
<1>1. ToolInv => OutcomeIsTools
    BY DEF ToolInv
<1>. QED
    BY <1>1, ToolInvHolds, PTL

(* With pipes and channels of any capacity, the tool, its readers and the    *)
(* loop never wait for each other for ever: a full pipe has a reader, a full *)
(* channel the loop, and a closed one lets the loop end.                     *)
THEOREM ToolIsNeverStuck == ToolSpec => []NothingStuck
<1>1. ASSUME ToolTypeOK, PipesFlow, ~Over PROVE MayStep
  <2>1. \A s \in Streams : /\ received[s] \in Nat /\ sent[s] \in Nat /\ read[s] \in Nat
                           /\ Len(pipe[s]) \in Nat /\ received[s] <= sent[s]
                           /\ sent[s] <= read[s] /\ read[s] <= Len(pipe[s])
    BY <1>1 DEF ToolTypeOK, PipesFlow
  <2>2. ASSUME NEW s \in readers, Holding(s) PROVE MayStep
    <3>1. s \in Streams
      BY <1>1 DEF ToolTypeOK
    <3>2. CASE ~Running
      BY <2>2, <3>1, <3>2 DEF MayStep, MayEnd
    <3>3. CASE Running /\ sent[s] - received[s] < ChannelSize
      BY <2>2, <3>1, <3>3 DEF MayStep, MaySend
    <3>4. CASE Running /\ ~(sent[s] - received[s] < ChannelSize)
      <4>1. sent[s] > received[s]
        BY <2>1, <3>1, <3>4, ToolAssumption
      <4>. QED
        BY <4>1, <3>1, <3>4 DEF MayStep, MayReceive, Ready
    <3>. QED
      BY <3>2, <3>3, <3>4
  <2>3. CASE tool = "none"
    <3>1. Running
      BY <1>1, <2>3 DEF Over, PipesFlow
    <3>. QED
      BY <3>1, <2>3 DEF MayStep, MaySpawn
  <2>4. CASE tool = "running"
    <3>1. CASE written = Len(script)
      BY <2>4, <3>1 DEF MayStep, MayExit
    <3>2. CASE written # Len(script)
      <4>1. written < Len(script)
        BY <1>1, <3>2 DEF ToolTypeOK
      <4>2. PICK s : s = script[written + 1].on
        OBVIOUS
      <4>3. CASE s \in readers => Len(pipe[s]) - read[s] < PipeSize
        BY <2>4, <4>1, <4>2, <4>3 DEF MayStep, MayWrite
      <4>4. CASE s \in readers /\ ~(Len(pipe[s]) - read[s] < PipeSize)
        <5>1. s \in Streams
          BY <1>1, <4>4 DEF ToolTypeOK
        <5>2. read[s] < Len(pipe[s])
          BY <2>1, <4>4, <5>1, ToolAssumption
        <5>3. CASE Holding(s)
          BY <2>2, <4>4, <5>3
        <5>4. CASE ~Holding(s)
          BY <4>4, <5>1, <5>2, <5>4 DEF MayStep, MayRead
        <5>. QED
          BY <5>3, <5>4
      <4>. QED
        BY <4>3, <4>4
    <3>. QED
      BY <3>1, <3>2
  <2>5. CASE tool \in {"ok", "failed"} /\ readers # {}
    <3>1. PICK s \in readers : s \in Streams
      BY <1>1, <2>5 DEF ToolTypeOK
    <3>2. CASE s \in streams
      <4>1. written = Len(script)
        BY <1>1, <2>5 DEF PipesFlow
      <4>. QED
        BY <3>1, <3>2, <4>1 DEF MayStep, MayClose
    <3>3. CASE Holding(s)
      BY <2>2, <3>3
    <3>4. CASE s \notin streams /\ ~Holding(s) /\ read[s] < Len(pipe[s])
      BY <3>1, <3>4 DEF MayStep, MayRead
    <3>5. CASE s \notin streams /\ ~Holding(s) /\ ~(read[s] < Len(pipe[s]))
      <4>1. read[s] = Len(pipe[s])
        BY <2>1, <3>1, <3>5
      <4>. QED
        BY <3>1, <3>5, <4>1 DEF MayStep, MayEnd
    <3>. QED
      BY <3>2, <3>3, <3>4, <3>5
  <2>6. CASE tool \in {"ok", "failed"} /\ readers = {}
    <3>1. Running
      BY <1>1, <2>6 DEF Over
    <3>2. CASE \E s \in Streams : sent[s] > received[s]
      BY <3>1, <3>2 DEF MayStep, MayReceive, Ready
    <3>3. CASE drained # Streams /\ \A s \in Streams : ~(sent[s] > received[s])
      <4>1. PICK s \in Streams : s \notin drained
        BY <1>1, <3>3 DEF ToolTypeOK
      <4>2. sent[s] = received[s]
        BY <2>1, <3>3
      <4>. QED
        BY <2>6, <3>1, <4>1, <4>2 DEF MayStep, MayDrain, Disconnected
    <3>4. CASE drained = Streams
      <4>1. Waited
        BY <2>6, <3>1, <3>4 DEF Waited
      <4>2. attempt < commands \/ attempt = commands
        BY <1>1 DEF ToolTypeOK
      <4>. QED
        BY <4>1, <4>2, <2>6 DEF MayStep, MayRetry, MayConclude
    <3>. QED
      BY <3>2, <3>3, <3>4
  <2>. QED
    BY <2>3, <2>4, <2>5, <2>6, <1>1 DEF ToolTypeOK
<1>2. ToolInv => NothingStuck
    BY <1>1 DEF ToolInv, NothingStuck
<1>. QED
    BY <1>2, ToolInvHolds, PTL
=============================================================================
