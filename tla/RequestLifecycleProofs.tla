----------------------- MODULE RequestLifecycleProofs -----------------------
(***************************************************************************)
(* Theorems about RequestLifecycle, for any set of requests, any methods   *)
(* and any number of threads, with their proofs.                           *)
(***************************************************************************)
EXTENDS RequestLifecycle, TLAPS, SequenceTheorems, FiniteSetTheorems

USE ConstantAssumption

LEMMA RunJobType ==
    ASSUME NEW run \in Runs, NEW own \in BOOLEAN, NEW rev \in Nat
    PROVE  RunJob(run, own, rev) \in Jobs
BY DEF RunJob, Runs, Jobs, JobsOf, Stages

LEMMA DecompileJobType ==
    ASSUME NEW r \in Requests
    PROVE  PlainJob("decompile", r) \in Jobs
BY DEF PlainJob, Jobs, JobsOf, Stages

LEMMA LongJobType == PlainJob("long", NoReq) \in Jobs
BY DEF PlainJob, Jobs, JobsOf, Stages

LEMMA EventType ==
    ASSUME NEW type \in {"completed", "retry", "aborted", "load", "decompiled"},
           NEW r \in Requests, NEW allow \in BOOLEAN,
           NEW result \in {"result", "null", "error"}
    PROVE  Event(type, r, allow, result) \in Events
BY DEF Event, Events

(* The jobs run_pending_requests appends are jobs. *)
LEMMA RerunsType ==
    ASSUME NEW s \in Seq(Runs), NEW rev \in Nat
    PROVE  [i \in 1..Len(s) |-> RunJob(s[i], FALSE, rev)] \in Seq(Jobs)
<1>1. \A i \in 1..Len(s) : RunJob(s[i], FALSE, rev) \in Jobs
  <2> TAKE i \in 1..Len(s)
  <2>1. s[i] \in Runs
    BY ElementOfSeq
  <2>2. QED
    BY <2>1, RunJobType
<1> DEFINE f == [i \in 1..Len(s) |-> RunJob(s[i], FALSE, rev)]
<1>2. Len(s) \in Nat
  OBVIOUS
<1>3. f \in [1..Len(s) -> Jobs]
  BY <1>1
<1> HIDE DEF f
<1>4. f \in UNION {[1..n -> Jobs] : n \in Nat}
  BY <1>2, <1>3
<1>5. QED
  BY <1>4, SeqDef DEF f

(* A thread that serves a request runs a job of it. *)
LEMMA RunningJob ==
    ASSUME TypeOK, NEW w \in Workers,
           Running(w, "run") \/ Running(w, "decompile") \/ Running(w, "long")
    PROVE  /\ thread[w] \in Jobs
           /\ thread[w].allow \in BOOLEAN
           /\ ~Running(w, "long") => thread[w].req \in Requests
<1>1. thread[w] \in Jobs
  BY DEF TypeOK, Running, Idle, Dead
<1>2. QED
  BY <1>1 DEF Jobs, JobsOf, Running

(* A thread that finishes with an event leaves the types intact. *)
LEMMA EndWithType ==
    ASSUME TypeOK, NEW w \in Workers, NEW e \in Events, EndWith(w, e)
    PROVE  /\ thread' \in [Workers -> Jobs \cup {Idle, Dead}]
           /\ events' \in Seq(Events)
BY AppendProperties DEF TypeOK, EndWith

(* The head of the event channel is an event and what is left is a channel. *)
LEMMA HandleEventType ==
    ASSUME TypeOK, NEW type, HandleEvent(type)
    PROVE  /\ events' \in Seq(Events)
           /\ Head(events) \in Events
           /\ Head(events).req \in Requests
           /\ Head(events).allow \in BOOLEAN
           /\ Head(events).result \in ReplyKinds
           /\ loop' = "apply"
<1>1. Head(events) \in Events /\ Tail(events) \in Seq(Events)
  BY HeadTailProperties DEF TypeOK, HandleEvent
<1>2. QED
  BY <1>1 DEF HandleEvent, Handle, Events, ReplyKinds

(* Writing a response leaves the response channels well typed. *)
LEMMA ReplyType ==
    ASSUME TypeOK, NEW r \in Requests, NEW kind \in ReplyKinds, Reply(r, kind)
    PROVE  replies' \in [Requests -> Seq(ReplyKinds)]
BY AppendProperties DEF TypeOK, Reply

LEMMA RespondType ==
    ASSUME TypeOK, NEW r \in Requests, NEW kind \in ReplyKinds, Respond(r, kind)
    PROVE  /\ replies' \in [Requests -> Seq(ReplyKinds)]
           /\ incoming' \subseteq Requests
BY ReplyType DEF TypeOK, Respond

-----------------------------------------------------------------------------
(* Every step keeps the types, one action at a time. *)
LEMMA TypeStep == TypeOK /\ [Next]_vars => TypeOK'
<1> SUFFICES ASSUME TypeOK, [Next]_vars PROVE TypeOK'
  OBVIOUS
<1> USE DEF tableVars, loopVars, poolVars, boundVars
<1>1. ASSUME NEW r \in Requests, HandleShutdown(r) PROVE TypeOK'
  <2>1. replies' \in [Requests -> Seq(ReplyKinds)]
    BY <1>1, ReplyType DEF HandleShutdown, ReplyKinds
  <2>2. QED
    BY <1>1, <2>1 DEF HandleShutdown, Handle, TypeOK
<1>2. ASSUME NEW r \in Requests, RejectParams(r) PROVE TypeOK'
  <2>1. replies' \in [Requests -> Seq(ReplyKinds)]
    BY <1>2, ReplyType DEF RejectParams, ReplyKinds
  <2>2. QED
    BY <1>2, <2>1 DEF RejectParams, Handle, TypeOK
<1>3. ASSUME NEW r \in Requests, RejectUnknown(r) PROVE TypeOK'
  <2>1. replies' \in [Requests -> Seq(ReplyKinds)]
    BY <1>3, ReplyType DEF RejectUnknown, ReplyKinds
  <2>2. QED
    BY <1>3, <2>1 DEF RejectUnknown, Handle, TypeOK
<1>4. ASSUME NEW r \in Requests, DispatchAsync(r) PROVE TypeOK'
  <2>1. RunJob([req |-> r, allow |-> TRUE], TRUE, revision) \in Jobs
    BY RunJobType DEF TypeOK, Runs
  <2>2. jobs' \in Seq(Jobs)
    BY <1>4, <2>1, AppendProperties DEF DispatchAsync, TypeOK
  <2>3. QED
    BY <1>4, <2>2 DEF DispatchAsync, Handle, TypeOK
<1>5. ASSUME NEW r \in Requests, CancelRequest(r) PROVE TypeOK'
  <2>1. /\ replies' \in [Requests -> Seq(ReplyKinds)]
        /\ incoming' \subseteq Requests
    BY <1>5, RespondType DEF CancelRequest, ReplyKinds
  <2>2. QED
    BY <1>5, <2>1 DEF CancelRequest, Handle, TypeOK
<1>6. CASE HandleExit
  BY <1>6 DEF HandleExit, Handle, TypeOK
<1>7. CASE ChangeVfs
  BY <1>7 DEF ChangeVfs, Handle, TypeOK
<1>8. CASE StartLongJob
  <2>1. jobs' \in Seq(Jobs)
    BY <1>8, LongJobType, AppendProperties DEF StartLongJob, TypeOK
  <2>2. QED
    BY <1>8, <2>1 DEF StartLongJob, Handle, TypeOK
<1>9. CASE HandleCompleted
  <2>1. Head(events).req \in Requests /\ Head(events).result \in ReplyKinds
    BY <1>9, HandleEventType DEF HandleCompleted
  <2>2. /\ replies' \in [Requests -> Seq(ReplyKinds)]
        /\ incoming' \subseteq Requests
    BY <1>9, <2>1, RespondType DEF HandleCompleted
  <2>3. events' \in Seq(Events) /\ loop' = "apply"
    BY <1>9, HandleEventType DEF HandleCompleted
  <2>4. QED
    BY <1>9, <2>2, <2>3 DEF HandleCompleted, HandleEvent, Handle, TypeOK
<1>10. CASE HandleRetry
  <2>1. /\ Head(events).req \in Requests /\ Head(events).allow \in BOOLEAN
        /\ events' \in Seq(Events) /\ loop' = "apply"
    BY <1>10, HandleEventType DEF HandleRetry
  <2>2. [req |-> Head(events).req, allow |-> Head(events).allow] \in Runs
    BY <2>1 DEF Runs
  <2>3. pending' \in Seq(Runs)
    BY <1>10, <2>2, AppendProperties DEF HandleRetry, TypeOK
  <2>4. QED
    BY <1>10, <2>1, <2>3 DEF HandleRetry, HandleEvent, Handle, TypeOK
<1>11. CASE HandleAborted
  <2>1. events' \in Seq(Events) /\ loop' = "apply"
    BY <1>11, HandleEventType DEF HandleAborted
  <2>2. QED
    BY <1>11, <2>1 DEF HandleAborted, HandleEvent, Handle, TypeOK
<1>12. CASE HandleLoadFiles
  <2> DEFINE r == Head(events).req
  <2>1. /\ r \in Requests
        /\ events' \in Seq(Events) /\ loop' = "apply"
    BY <1>12, HandleEventType DEF HandleLoadFiles
  <2>2. [req |-> r, allow |-> FALSE] \in Runs
    BY <2>1 DEF Runs
  <2>3. PlainJob("decompile", r) \in Jobs
    BY <2>1, DecompileJobType
  <2>4. \/ pending' = Append(pending, [req |-> r, allow |-> FALSE]) /\ UNCHANGED jobs
        \/ jobs' = Append(jobs, PlainJob("decompile", r)) /\ UNCHANGED pending
    BY <1>12 DEF HandleLoadFiles
  <2>5. pending' \in Seq(Runs) /\ jobs' \in Seq(Jobs)
    <3> HIDE DEF r
    <3>1. Append(pending, [req |-> r, allow |-> FALSE]) \in Seq(Runs)
      BY <2>2, AppendProperties DEF TypeOK
    <3>2. Append(jobs, PlainJob("decompile", r)) \in Seq(Jobs)
      BY <2>3, AppendProperties DEF TypeOK
    <3>3. QED
      BY <2>4, <3>1, <3>2 DEF TypeOK
  <2>6. QED
    BY <1>12, <2>1, <2>5 DEF HandleLoadFiles, HandleEvent, Handle, TypeOK
<1>13. CASE HandleDecompiled
  <2>1. /\ Head(events).req \in Requests
        /\ events' \in Seq(Events) /\ loop' = "apply"
    BY <1>13, HandleEventType DEF HandleDecompiled
  <2>2. [req |-> Head(events).req, allow |-> FALSE] \in Runs
    BY <2>1 DEF Runs
  <2>3. pending' \in Seq(Runs)
    BY <1>13, <2>2, AppendProperties DEF HandleDecompiled, TypeOK
  <2>4. QED
    BY <1>13, <2>1, <2>3 DEF HandleDecompiled, HandleEvent, Handle, TypeOK
<1>14. CASE FinishIteration
  <2>1. revision' \in Nat
    BY <1>14 DEF FinishIteration, TypeOK
  <2>2. [i \in 1..Len(pending) |-> RunJob(pending[i], FALSE, revision')] \in Seq(Jobs)
    BY <2>1, RerunsType DEF TypeOK
  <2>3. jobs' \in Seq(Jobs)
    BY <1>14, <2>2, ConcatProperties DEF FinishIteration, TypeOK
  <2>4. pending' \in Seq(Runs)
    BY <1>14 DEF FinishIteration
  <2>5. loop' \in {"select", "apply", "exited"} /\ dirty' \in BOOLEAN
    BY <1>14 DEF FinishIteration
  <2>6. UNCHANGED <<shutdown, exiting, tableVars, thread, events, boundVars, deferrals>>
    BY <1>14 DEF FinishIteration
  <2>7. QED
    BY <2>1, <2>3, <2>4, <2>5, <2>6 DEF TypeOK
<1>15. ASSUME NEW w \in Workers, TakeJob(w) PROVE TypeOK'
  <2>1. Head(jobs) \in Jobs /\ jobs' \in Seq(Jobs)
    BY <1>15, HeadTailProperties DEF TakeJob, TypeOK
  <2>2. [Head(jobs) EXCEPT !.stage = "entered"] \in Jobs
    BY <2>1 DEF Jobs, JobsOf, Stages
  <2>3. QED
    BY <1>15, <2>1, <2>2 DEF TakeJob, TypeOK
<1>16. ASSUME NEW w \in Workers, WorkerStep(w) PROVE TypeOK'
  <2> USE <1>16
  <2>1. /\ Running(w, "run") \/ Running(w, "decompile") \/ Running(w, "long")
        /\ UNCHANGED <<loopVars, tableVars, pending, jobs, boundVars>>
    BY DEF WorkerStep, Enter, Abort, Complete, Retry, Defer, BeginRender, FinishRender,
           Unwind, FinishDecompile, FinishLongJob, InStage, EndWith
  <2>2. /\ thread[w] \in Jobs /\ thread[w].allow \in BOOLEAN
        /\ ~Running(w, "long") => thread[w].req \in Requests
    BY <2>1, RunningJob
  <2>3. /\ thread' \in [Workers -> Jobs \cup {Idle, Dead}]
        /\ events' \in Seq(Events)
    <3>1. CASE Enter(w) \/ BeginRender(w)
      <4>1. /\ [thread[w] EXCEPT !.stage = "computing"] \in Jobs
            /\ [thread[w] EXCEPT !.stage = "rendering"] \in Jobs
        BY <2>2 DEF Jobs, JobsOf, Stages
      <4>2. QED
        BY <3>1, <4>1 DEF Enter, BeginRender, TypeOK
    <3>2. CASE Unwind(w) \/ FinishLongJob(w)
      BY <3>2 DEF Unwind, FinishLongJob, TypeOK
    <3>3. ASSUME NEW e \in Events, EndWith(w, e) PROVE /\ thread' \in [Workers -> Jobs \cup {Idle, Dead}]
                                                        /\ events' \in Seq(Events)
      BY <3>3, EndWithType
    <3>4. CASE Abort(w) \/ Complete(w) \/ Retry(w) \/ Defer(w) \/ FinishRender(w)
                \/ FinishDecompile(w)
      <4>1. thread[w].req \in Requests
        BY <2>2, <3>4 DEF Abort, Complete, Retry, Defer, FinishRender, FinishDecompile,
                          InStage, Running
      <4>2. PICK type \in {"completed", "retry", "aborted", "load", "decompiled"},
                 allow \in BOOLEAN, result \in {"result", "null", "error"} :
                     EndWith(w, Event(type, thread[w].req, allow, result))
        BY <2>2, <3>4 DEF Abort, Complete, Retry, Defer, FinishRender, FinishDecompile
      <4>3. QED
        BY <3>3, <4>1, <4>2, EventType
    <3>5. QED
      BY <3>1, <3>2, <3>4 DEF WorkerStep
  <2>4. deferrals' \in [Requests -> Nat]
    <3>1. \/ UNCHANGED deferrals
          \/ \E r \in Requests : deferrals' = [deferrals EXCEPT ![r] = @ + 1]
      BY <2>2 DEF WorkerStep, Enter, Abort, Complete, Retry, Defer, BeginRender,
                  FinishRender, Unwind, FinishDecompile, FinishLongJob, InStage, Running
    <3>2. QED
      BY <3>1 DEF TypeOK
  <2>5. QED
    BY <2>1, <2>3, <2>4 DEF TypeOK
<1>17. CASE UNCHANGED vars
  BY <1>17 DEF vars, TypeOK
<1>18. QED
  BY <1>1, <1>2, <1>3, <1>4, <1>5, <1>6, <1>7, <1>8, <1>9, <1>10, <1>11, <1>12,
     <1>13, <1>14, <1>15, <1>16, <1>17 DEF Next, ClientMessage, BackgroundEvent

(* Every state is well typed: no handler or thread puts a malformed job,   *)
(* event or response on a channel, and a job or an event that serves a     *)
(* request names one.                                                      *)
THEOREM TypeCorrect == Spec => []TypeOK
<1>1. Init => TypeOK
  <2> SUFFICES ASSUME Init PROVE TypeOK
    OBVIOUS
  <2>1. /\ thread \in [Workers -> Jobs \cup {Idle, Dead}]
        /\ deferrals \in [Requests -> Nat]
        /\ replies \in [Requests -> Seq(ReplyKinds)]
    BY DEF Init
  <2>2. pending \in Seq(Runs) /\ jobs \in Seq(Jobs) /\ events \in Seq(Events)
    BY DEF Init
  <2>3. QED
    BY <2>1, <2>2 DEF Init, TypeOK
<1>2. QED
  BY <1>1, TypeStep, PTL DEF Spec

-----------------------------------------------------------------------------
(* What a step does to the request table, whoever takes it. *)
TableStep ==
    \/ UNCHANGED <<incoming, replies>>
    \/ \E r \in Requests, kind \in ReplyKinds : Respond(r, kind)
    \/ \E r \in Requests :
          /\ ~Seen(r)
          /\ \/ r \in Known /\ UNCHANGED incoming /\ Reply(r, "result")
             \/ r \in Known /\ UNCHANGED incoming /\ Reply(r, "error")
             \/ r \in Known /\ incoming' = incoming \cup {r} /\ UNCHANGED replies
             \/ /\ r \notin Known
                /\ incoming' = incoming \cup {r}
                /\ Reply(r, "notImplemented")

LEMMA StepOnTable == TypeOK /\ [Next]_vars => TableStep
<1> SUFFICES ASSUME TypeOK, [Next]_vars PROVE TableStep
  OBVIOUS
<1> USE DEF tableVars, TableStep
<1>1. ASSUME NEW r \in Requests, HandleShutdown(r) PROVE TableStep
  BY <1>1 DEF HandleShutdown, Known
<1>2. ASSUME NEW r \in Requests, RejectParams(r) PROVE TableStep
  BY <1>2 DEF RejectParams, Known
<1>3. ASSUME NEW r \in Requests, RejectUnknown(r) PROVE TableStep
  BY <1>3 DEF RejectUnknown, Known
<1>4. ASSUME NEW r \in Requests, DispatchAsync(r) PROVE TableStep
  BY <1>4 DEF DispatchAsync, Known, Async, AsyncMethods, Checkpointed, Deferring
<1>5. ASSUME NEW r \in Requests, CancelRequest(r) PROVE TableStep
  BY <1>5 DEF CancelRequest, ReplyKinds
<1>6. CASE HandleCompleted
  <2>1. Head(events).req \in Requests /\ Head(events).result \in ReplyKinds
    BY <1>6, HandleEventType DEF HandleCompleted
  <2>2. QED
    BY <1>6, <2>1 DEF HandleCompleted
<1>7. CASE HandleExit \/ ChangeVfs \/ StartLongJob
  BY <1>7 DEF HandleExit, ChangeVfs, StartLongJob
<1>8. CASE HandleRetry \/ HandleAborted \/ HandleLoadFiles \/ HandleDecompiled
  BY <1>8 DEF HandleRetry, HandleAborted, HandleLoadFiles, HandleDecompiled
<1>9. CASE FinishIteration
  BY <1>9 DEF FinishIteration
<1>10. ASSUME NEW w \in Workers, TakeJob(w) PROVE TableStep
  BY <1>10 DEF TakeJob
<1>11. ASSUME NEW w \in Workers, WorkerStep(w) PROVE TableStep
  BY <1>11 DEF WorkerStep, Enter, Abort, Complete, Retry, Defer, BeginRender, FinishRender,
              Unwind, FinishDecompile, FinishLongJob, EndWith
<1>12. CASE UNCHANGED vars
  BY <1>12 DEF vars
<1>13. QED
  BY <1>1, <1>2, <1>3, <1>4, <1>5, <1>6, <1>7, <1>8, <1>9, <1>10, <1>11, <1>12
     DEF Next, ClientMessage, BackgroundEvent

(* AtMostOneReply is not inductive: a request in `incoming` could already  *)
(* have its response.  For a method the dispatcher knows it never has.     *)
OpenUnanswered == \A r \in Known : r \in incoming => replies[r] = <<>>

TableInv == OpenUnanswered /\ AtMostOneReply

LEMMA TableInvStep == TypeOK /\ TableInv /\ TableStep => TableInv'
<1> SUFFICES ASSUME TypeOK, TableInv, TableStep, NEW q \in Known
             PROVE  /\ q \in incoming' => replies'[q] = <<>>
                    /\ Len(replies'[q]) <= 1
  BY DEF TableInv, OpenUnanswered, AtMostOneReply, Known
<1>1. /\ q \in Requests /\ replies[q] \in Seq(ReplyKinds)
      /\ q \in incoming => replies[q] = <<>>
      /\ Len(replies[q]) <= 1
  BY DEF TypeOK, TableInv, OpenUnanswered, AtMostOneReply, Known
<1>2. ASSUME NEW r \in Requests, NEW kind, Reply(r, kind), replies[q] = <<>> \/ r # q
      PROVE  Len(replies'[q]) <= 1
  BY <1>1, <1>2 DEF Reply, TypeOK
<1>3. CASE UNCHANGED <<incoming, replies>>
  BY <1>1, <1>3
<1>4. ASSUME NEW r \in Requests, NEW kind \in ReplyKinds, Respond(r, kind)
      PROVE  /\ q \in incoming' => replies'[q] = <<>>
             /\ Len(replies'[q]) <= 1
  <2>1. CASE r \in incoming
    BY <1>1, <1>2, <1>4, <2>1 DEF Respond, Reply, TypeOK
  <2>2. CASE r \notin incoming
    BY <1>1, <1>4, <2>2 DEF Respond
  <2>3. QED
    BY <2>1, <2>2
<1>5. ASSUME NEW r \in Requests, ~Seen(r), NEW kind, Reply(r, kind),
             \/ UNCHANGED incoming
             \/ r \notin Known /\ incoming' = incoming \cup {r}
      PROVE  /\ q \in incoming' => replies'[q] = <<>>
             /\ Len(replies'[q]) <= 1
  BY <1>1, <1>2, <1>5 DEF Seen, Reply, TypeOK
<1>6. ASSUME NEW r \in Requests, ~Seen(r), incoming' = incoming \cup {r}, UNCHANGED replies
      PROVE  /\ q \in incoming' => replies'[q] = <<>>
             /\ Len(replies'[q]) <= 1
  BY <1>1, <1>6 DEF Seen
<1>7. QED
  BY <1>3, <1>4, <1>5, <1>6 DEF TableStep

(* A request whose method the dispatcher knows is answered at most once:   *)
(* respond_ok, respond_err and cancel all answer by taking the entry out   *)
(* of req_queue.incoming, so a late result finds none.                     *)
THEOREM AnsweredOnce == Spec => []AtMostOneReply
<1>1. Init => TableInv
  BY DEF Init, TableInv, OpenUnanswered, AtMostOneReply, Known
<1>2. TypeOK /\ TableInv /\ [Next]_vars => TableInv'
  BY StepOnTable, TableInvStep
<1>3. Spec => []TableInv
  BY <1>1, <1>2, TypeCorrect, PTL DEF Spec
<1>4. TableInv => AtMostOneReply
  BY DEF TableInv
<1>5. QED
  BY <1>3, <1>4, PTL

(* Through the response channel alone the server is RequestService: every  *)
(* request it knows is received once, answered at most once, and never     *)
(* answered before it was received.                                        *)
THEOREM Refinement == Spec => ImplementsService
<1>1. Init => Service!Init
  BY DEF Init, Service!Init, Known
<1>2. TypeOK /\ TableInv /\ [Next]_vars => [Service!Next]_(Service!vars)
  <2> SUFFICES ASSUME TypeOK, TableInv, [Next]_vars
               PROVE  [Service!Next]_(Service!vars)
    OBVIOUS
  <2>1. TableStep
    BY StepOnTable
  <2> DEFINE open == incoming \cap Known
             answered == {r \in Known : replies[r] # <<>>}
  <2>2. CASE UNCHANGED <<incoming, replies>>
    BY <2>2 DEF Service!vars
  <2>3. ASSUME NEW r \in Requests, NEW kind \in ReplyKinds, Reply(r, kind)
        PROVE  answered' = IF r \in Known THEN answered \cup {r} ELSE answered
    <3>1. Append(replies[r], kind) # <<>>
      BY AppendProperties DEF TypeOK
    <3>2. \A q \in Requests : replies'[q] = IF q = r THEN Append(replies[r], kind) ELSE replies[q]
      BY <2>3 DEF Reply, TypeOK
    <3>3. QED
      BY <3>1, <3>2 DEF Known
  <2>4. ASSUME NEW r \in Requests, NEW kind \in ReplyKinds, Respond(r, kind)
        PROVE  [Service!Next]_(Service!vars)
    <3>1. CASE r \in incoming /\ r \in Known
      <4>1. open' = open \ {r} /\ answered' = answered \cup {r} /\ r \in open
        BY <2>3, <2>4, <3>1 DEF Respond
      <4>2. QED
        BY <3>1, <4>1 DEF Service!Next, Service!Answer
    <3>2. CASE r \in incoming /\ r \notin Known
      BY <2>3, <2>4, <3>2 DEF Respond, Service!vars
    <3>3. CASE r \notin incoming
      BY <2>4, <3>3 DEF Respond, Service!vars
    <3>4. QED
      BY <3>1, <3>2, <3>3
  <2>5. ASSUME NEW r \in Known, ~Seen(r), UNCHANGED incoming,
               Reply(r, "result") \/ Reply(r, "error")
        PROVE  [Service!Next]_(Service!vars)
    <3>1. answered' = answered \cup {r} /\ UNCHANGED open
      BY <2>3, <2>5 DEF Known, ReplyKinds
    <3>2. r \notin open \cup answered
      BY <2>5 DEF Seen
    <3>3. QED
      BY <3>1, <3>2 DEF Service!Next, Service!ReceiveAndAnswer
  <2>6. ASSUME NEW r \in Known, ~Seen(r), incoming' = incoming \cup {r}, UNCHANGED replies
        PROVE  [Service!Next]_(Service!vars)
    <3>1. open' = open \cup {r} /\ UNCHANGED answered
      BY <2>6
    <3>2. r \notin open \cup answered
      BY <2>6 DEF Seen
    <3>3. QED
      BY <3>1, <3>2 DEF Service!Next, Service!Receive
  <2>7. ASSUME NEW r \in Requests, r \notin Known, incoming' = incoming \cup {r},
               Reply(r, "notImplemented")
        PROVE  [Service!Next]_(Service!vars)
    BY <2>3, <2>7 DEF Service!vars, ReplyKinds
  <2>8. QED
    BY <2>1, <2>2, <2>4, <2>5, <2>6, <2>7 DEF TableStep
<1>3. Init => TableInv
  BY DEF Init, TableInv, OpenUnanswered, AtMostOneReply, Known
<1>4. TypeOK /\ TableInv /\ [Next]_vars => TableInv'
  BY StepOnTable, TableInvStep
<1>5. QED
  BY <1>1, <1>2, <1>3, <1>4, TypeCorrect, PTL DEF Spec, ImplementsService, Service!Spec

-----------------------------------------------------------------------------
(* A step on which no job is touched and the revision stands. *)
LEMMA SameSnapshots ==
    ASSUME SnapshotsCurrent, UNCHANGED <<jobs, thread, revision>>
    PROVE  SnapshotsCurrent'
BY DEF SnapshotsCurrent, SnapshotsQueued, SnapshotsRunning, Running

(* A step that appends one job. *)
LEMMA SnapshotAppended ==
    ASSUME TypeOK, SnapshotsCurrent, NEW j \in Jobs, j.kind = "run" => j.rev = revision,
           jobs' = Append(jobs, j), UNCHANGED <<thread, revision>>
    PROVE  SnapshotsCurrent'
<1>1. \A i \in DOMAIN jobs' : jobs'[i].kind = "run" => jobs'[i].rev = revision
  BY AppendProperties DEF TypeOK, SnapshotsCurrent, SnapshotsQueued
<1>2. QED
  BY <1>1 DEF SnapshotsCurrent, SnapshotsQueued, SnapshotsRunning, Running

(* A snapshot that is alive, in the queue or on a thread, is of the        *)
(* current revision: process_changes waits for all of them before salsa    *)
(* moves on, and run_pending_requests takes its snapshots afterwards.      *)
THEOREM SnapshotsStayCurrent == Spec => []SnapshotsCurrent
<1>1. Init => SnapshotsCurrent
  BY DEF Init, SnapshotsCurrent, SnapshotsQueued, SnapshotsRunning, Running, Idle
<1>2. TypeOK /\ SnapshotsCurrent /\ [Next]_vars => SnapshotsCurrent'
  <2> SUFFICES ASSUME TypeOK, SnapshotsCurrent, [Next]_vars PROVE SnapshotsCurrent'
    OBVIOUS
  <2> USE DEF tableVars, poolVars, loopVars
  <2>1. ASSUME NEW r \in Requests, \/ HandleShutdown(r) \/ RejectParams(r)
                                   \/ RejectUnknown(r) \/ CancelRequest(r)
        PROVE  SnapshotsCurrent'
    BY <2>1, SameSnapshots DEF HandleShutdown, RejectParams, RejectUnknown, CancelRequest
  <2>2. CASE HandleExit \/ ChangeVfs \/ HandleCompleted \/ HandleRetry \/ HandleAborted
              \/ HandleDecompiled \/ UNCHANGED vars
    BY <2>2, SameSnapshots DEF HandleExit, ChangeVfs, HandleCompleted, HandleRetry,
                               HandleAborted, HandleDecompiled, vars
  <2>3. ASSUME NEW r \in Requests, DispatchAsync(r) PROVE SnapshotsCurrent'
    <3> DEFINE j == RunJob([req |-> r, allow |-> TRUE], TRUE, revision)
    <3>1. j \in Jobs
      BY RunJobType DEF TypeOK, Runs
    <3>2. j.rev = revision
      BY DEF RunJob
    <3>3. QED
      BY <2>3, <3>1, <3>2, SnapshotAppended DEF DispatchAsync
  <2>4. CASE StartLongJob
    <3>1. PlainJob("long", NoReq).kind # "run"
      BY DEF PlainJob
    <3>2. QED
      BY <2>4, <3>1, LongJobType, SnapshotAppended DEF StartLongJob
  <2>5. CASE HandleLoadFiles
    <3> DEFINE r == Head(events).req
    <3>1. r \in Requests
      BY <2>5, HandleEventType DEF HandleLoadFiles
    <3>2. PlainJob("decompile", r) \in Jobs /\ PlainJob("decompile", r).kind # "run"
      BY <3>1, DecompileJobType DEF PlainJob
    <3>3. \/ UNCHANGED <<jobs, thread, revision>>
          \/ jobs' = Append(jobs, PlainJob("decompile", r)) /\ UNCHANGED <<thread, revision>>
      BY <2>5 DEF HandleLoadFiles
    <3>4. QED
      BY <3>2, <3>3, SameSnapshots, SnapshotAppended
  <2>6. CASE FinishIteration
    <3> DEFINE reruns == [i \in 1..Len(pending) |-> RunJob(pending[i], FALSE, revision')]
    <3>1. reruns \in Seq(Jobs)
      <4>1. revision' \in Nat
        BY <2>6 DEF FinishIteration, TypeOK
      <4>2. QED
        BY <4>1, RerunsType DEF TypeOK
    <3>2. \A i \in DOMAIN reruns : reruns[i].rev = revision'
      BY DEF RunJob
    <3>3. \A i \in DOMAIN jobs : jobs[i].kind = "run" => jobs[i].rev = revision'
      BY <2>6 DEF FinishIteration, SnapshotsCurrent, SnapshotsQueued
    <3>4. jobs' = jobs \o reruns
      BY <2>6 DEF FinishIteration
    <3> HIDE DEF reruns
    <3>5. \A i \in DOMAIN jobs' : jobs'[i].kind = "run" => jobs'[i].rev = revision'
      BY <3>1, <3>2, <3>3, <3>4, ConcatProperties DEF TypeOK
    <3>6. \A w \in SnapshotsRunning : thread[w].rev = revision'
      BY <2>6 DEF FinishIteration, SnapshotsCurrent
    <3>7. UNCHANGED thread
      BY <2>6 DEF FinishIteration
    <3>8. QED
      BY <3>5, <3>6, <3>7 DEF SnapshotsCurrent, SnapshotsQueued, SnapshotsRunning, Running
  <2>7. ASSUME NEW w \in Workers, TakeJob(w) PROVE SnapshotsCurrent'
    <3>1. Head(jobs).kind = "run" => Head(jobs).rev = revision
      BY <2>7, HeadTailProperties DEF TakeJob, TypeOK, SnapshotsCurrent, SnapshotsQueued
    <3>2. \A i \in DOMAIN jobs' : jobs'[i].kind = "run" => jobs'[i].rev = revision
      BY <2>7, HeadTailProperties DEF TakeJob, TypeOK, SnapshotsCurrent, SnapshotsQueued
    <3>3. Head(jobs) \in Jobs
      BY <2>7, HeadTailProperties DEF TakeJob, TypeOK
    <3>4. /\ [Head(jobs) EXCEPT !.stage = "entered"].kind = Head(jobs).kind
          /\ [Head(jobs) EXCEPT !.stage = "entered"].rev = Head(jobs).rev
      BY <3>3 DEF Jobs, JobsOf
    <3>5. \A v \in Workers : thread'[v].kind = "run" => thread'[v].rev = revision
      BY <2>7, <3>1, <3>4 DEF TakeJob, TypeOK, SnapshotsCurrent, SnapshotsRunning, Running
    <3>6. QED
      BY <2>7, <3>2, <3>5 DEF TakeJob, SnapshotsCurrent, SnapshotsQueued, SnapshotsRunning,
                              Running
  <2>8. ASSUME NEW w \in Workers, WorkerStep(w) PROVE SnapshotsCurrent'
    <3>1. UNCHANGED <<jobs, revision>>
      BY <2>8 DEF WorkerStep, Enter, Abort, Complete, Retry, Defer, BeginRender,
                  FinishRender, Unwind, FinishDecompile, FinishLongJob, EndWith
    <3>2. \/ thread' = [thread EXCEPT ![w] = Idle]
          \/ thread' = [thread EXCEPT ![w] = Dead]
          \/ /\ Running(w, "run")
             /\ \/ thread' = [thread EXCEPT ![w].stage = "computing"]
                \/ thread' = [thread EXCEPT ![w].stage = "rendering"]
      BY <2>8 DEF WorkerStep, Enter, Abort, Complete, Retry, Defer, BeginRender,
                  FinishRender, Unwind, FinishDecompile, FinishLongJob, EndWith, InStage
    <3>3. \A v \in Workers : thread'[v].kind = "run" => thread'[v].rev = revision
      <4> TAKE v \in Workers
      <4>0. thread[v].kind = "run" => thread[v].rev = revision
        BY DEF SnapshotsCurrent, SnapshotsRunning, Running
      <4>1. CASE thread' = [thread EXCEPT ![w] = Idle] \/ thread' = [thread EXCEPT ![w] = Dead]
        <5>1. v # w => thread'[v] = thread[v]
          BY <4>1 DEF TypeOK
        <5>2. v = w => thread'[v].kind # "run"
          BY <4>1 DEF TypeOK, Idle, Dead
        <5>3. QED
          BY <4>0, <5>1, <5>2
      <4>2. CASE /\ Running(w, "run")
                 /\ \/ thread' = [thread EXCEPT ![w].stage = "computing"]
                    \/ thread' = [thread EXCEPT ![w].stage = "rendering"]
        <5>1. thread[w] \in Jobs
          BY <4>2, RunningJob
        <5>2. v # w => thread'[v] = thread[v]
          BY <4>2 DEF TypeOK
        <5>3. \/ thread'[w] = [thread[w] EXCEPT !.stage = "computing"]
              \/ thread'[w] = [thread[w] EXCEPT !.stage = "rendering"]
          BY <4>2 DEF TypeOK
        <5>4. thread'[w].kind = thread[w].kind /\ thread'[w].rev = thread[w].rev
          BY <5>1, <5>3 DEF Jobs, JobsOf
        <5>5. QED
          BY <4>0, <5>2, <5>4
      <4>3. QED
        BY <3>2, <4>1, <4>2
    <3>4. QED
      BY <3>1, <3>3 DEF SnapshotsCurrent, SnapshotsQueued, SnapshotsRunning, Running
  <2>9. QED
    BY <2>1, <2>2, <2>3, <2>4, <2>5, <2>6, <2>7, <2>8
       DEF Next, ClientMessage, BackgroundEvent
<1>3. QED
  BY <1>1, <1>2, TypeCorrect, PTL DEF Spec

-----------------------------------------------------------------------------
(* How many elements of a sequence of jobs, runs or events serve a request,*)
(* and how the operations on channels change that number.                  *)
Positions(s, r) == {i \in DOMAIN s : s[i].req = r}

LEMMA PositionsFinite ==
    ASSUME NEW S, NEW s \in Seq(S), NEW r
    PROVE  /\ Positions(s, r) \subseteq 1..Len(s)
           /\ IsFiniteSet(Positions(s, r))
           /\ Cardinality(Positions(s, r)) \in Nat
<1>1. Len(s) \in Nat /\ DOMAIN s = 1..Len(s)
  BY LenProperties
<1>2. IsFiniteSet(1..Len(s))
  BY <1>1, FS_Interval
<1>3. Positions(s, r) \subseteq 1..Len(s)
  BY <1>1 DEF Positions
<1>4. IsFiniteSet(Positions(s, r))
  BY <1>2, <1>3, FS_Subset
<1>5. QED
  BY <1>3, <1>4, FS_CardinalityType

LEMMA PositionsAppend ==
    ASSUME NEW S, NEW s \in Seq(S), NEW x \in S, NEW r
    PROVE  Cardinality(Positions(Append(s, x), r))
           = Cardinality(Positions(s, r)) + (IF x.req = r THEN 1 ELSE 0)
<1> DEFINE n == Len(s) + 1
           t == Append(s, x)
<1>1. /\ Len(s) \in Nat /\ DOMAIN s = 1..Len(s)
      /\ t \in Seq(S) /\ Len(t) = n /\ t[n] = x
      /\ \A i \in 1..Len(s) : t[i] = s[i]
  BY LenProperties, AppendProperties
<1>2. DOMAIN t = 1..n
  BY <1>1, LenProperties
<1> HIDE DEF t
<1>3. n \notin Positions(s, r)
  BY <1>1 DEF Positions
<1>4. IsFiniteSet(Positions(s, r)) /\ Cardinality(Positions(s, r)) \in Nat
  BY PositionsFinite
<1>5. CASE x.req = r
  <2>1. Positions(t, r) = Positions(s, r) \cup {n}
    BY <1>1, <1>2, <1>5 DEF Positions
  <2>2. QED
    BY <1>3, <1>4, <1>5, <2>1, FS_AddElement DEF t
<1>6. CASE x.req # r
  <2>1. Positions(t, r) = Positions(s, r)
    BY <1>1, <1>2, <1>6 DEF Positions
  <2>2. QED
    BY <1>4, <1>6, <2>1 DEF t
<1>7. QED
  BY <1>5, <1>6

(* Moving every position by the same distance changes no count. *)
LEMMA ShiftedCount ==
    ASSUME NEW P \in SUBSET Nat, IsFiniteSet(P), NEW d \in Int,
           NEW Q \in SUBSET Nat, \A i \in P : i + d \in Q, \A j \in Q : j - d \in P
    PROVE  IsFiniteSet(Q) /\ Cardinality(Q) = Cardinality(P)
<1> DEFINE f == [i \in P |-> i + d]
<1>1. f \in Bijection(P, Q)
  BY DEF Bijection, Injection, Surjection, IsInjective
<1>2. ExistsBijection(P, Q)
  BY <1>1 DEF ExistsBijection
<1>3. QED
  BY <1>2, FS_Bijection

LEMMA PositionsTail ==
    ASSUME NEW S, NEW s \in Seq(S), s # <<>>, NEW r
    PROVE  Cardinality(Positions(Tail(s), r))
           = Cardinality(Positions(s, r)) - (IF Head(s).req = r THEN 1 ELSE 0)
<1> DEFINE t == Tail(s)
           rest == Positions(s, r) \ {1}
<1>1. /\ Len(s) \in Nat \ {0} /\ DOMAIN s = 1..Len(s) /\ Head(s) = s[1]
      /\ t \in Seq(S) /\ Len(t) = Len(s) - 1
      /\ \A i \in 1..Len(t) : t[i] = s[i + 1]
  BY LenProperties, EmptySeq, HeadTailProperties
<1>2. DOMAIN t = 1..(Len(s) - 1)
  BY <1>1, LenProperties
<1> HIDE DEF t
<1>3. /\ IsFiniteSet(Positions(s, r)) /\ Positions(s, r) \subseteq 1..Len(s)
      /\ Cardinality(Positions(s, r)) \in Nat
  BY PositionsFinite
<1>4. /\ IsFiniteSet(rest)
      /\ Cardinality(rest) = IF 1 \in Positions(s, r)
                             THEN Cardinality(Positions(s, r)) - 1
                             ELSE Cardinality(Positions(s, r))
  BY <1>3, FS_RemoveElement
<1>5. ASSUME NEW j \in Positions(t, r) PROVE j - (-1) \in rest
  <2>1. j \in 1..(Len(s) - 1) /\ s[j + 1].req = r
    BY <1>1, <1>2, <1>5 DEF Positions
  <2>2. j - (-1) = j + 1 /\ j + 1 \in 2..Len(s)
    BY <1>1, <2>1
  <2>3. QED
    BY <1>1, <2>1, <2>2 DEF Positions
<1>6. ASSUME NEW i \in rest PROVE i + (-1) \in Positions(t, r)
  <2>1. i \in 2..Len(s) /\ s[i].req = r
    BY <1>1, <1>3, <1>6 DEF Positions
  <2>2. i + (-1) \in 1..(Len(s) - 1) /\ (i + (-1)) + 1 = i
    BY <1>1, <2>1
  <2>3. t[i + (-1)] = s[i]
    BY <1>1, <2>2
  <2>4. QED
    BY <1>2, <2>1, <2>2, <2>3 DEF Positions
<1>7. Cardinality(Positions(t, r)) = Cardinality(rest)
  <2>1. rest \in SUBSET Nat /\ Positions(t, r) \in SUBSET Nat /\ -1 \in Int
    BY <1>1, <1>2, <1>3 DEF Positions
  <2> HIDE DEF rest
  <2>2. QED
    BY <1>4, <1>5, <1>6, <2>1, ShiftedCount
<1>8. 1 \in Positions(s, r) <=> Head(s).req = r
  BY <1>1 DEF Positions
<1>9. QED
  BY <1>3, <1>4, <1>7, <1>8 DEF t

LEMMA PositionsConcat ==
    ASSUME NEW S, NEW s \in Seq(S), NEW t \in Seq(S), NEW r
    PROVE  Cardinality(Positions(s \o t, r))
           = Cardinality(Positions(s, r)) + Cardinality(Positions(t, r))
<1> DEFINE u == s \o t
           n == Len(s)
           moved == {i + n : i \in Positions(t, r)}
<1>1. /\ n \in Nat /\ Len(t) \in Nat /\ DOMAIN s = 1..n /\ DOMAIN t = 1..Len(t)
      /\ u \in Seq(S) /\ Len(u) = n + Len(t)
      /\ \A i \in 1..(n + Len(t)) : u[i] = IF i <= n THEN s[i] ELSE t[i - n]
  BY LenProperties, ConcatProperties
<1>2. DOMAIN u = 1..(n + Len(t))
  BY <1>1, LenProperties
<1>3. /\ IsFiniteSet(Positions(s, r)) /\ Cardinality(Positions(s, r)) \in Nat
      /\ IsFiniteSet(Positions(t, r)) /\ Cardinality(Positions(t, r)) \in Nat
      /\ Positions(s, r) \subseteq 1..n /\ Positions(t, r) \subseteq 1..Len(t)
  BY PositionsFinite
<1> HIDE DEF u, n
<1>4. Positions(u, r) = Positions(s, r) \cup moved
  <2>1. ASSUME NEW j \in Positions(u, r), j > n PROVE j \in moved
    <3>1. j - n \in 1..Len(t) /\ t[j - n].req = r /\ j = (j - n) + n
      BY <1>1, <1>2, <2>1 DEF Positions
    <3>2. QED
      BY <1>1, <3>1 DEF Positions
  <2>2. ASSUME NEW j \in Positions(u, r), ~(j > n) PROVE j \in Positions(s, r)
    BY <1>1, <1>2, <2>2 DEF Positions
  <2>3. ASSUME NEW j \in Positions(s, r) PROVE j \in Positions(u, r)
    BY <1>1, <1>2, <1>3 DEF Positions
  <2>4. ASSUME NEW i \in Positions(t, r) PROVE i + n \in Positions(u, r)
    <3>1. i \in 1..Len(t) /\ t[i].req = r
      BY <1>1, <1>3 DEF Positions
    <3>2. i + n \in 1..(n + Len(t)) /\ ~(i + n <= n) /\ (i + n) - n = i
      BY <1>1, <3>1
    <3>3. u[i + n] = t[i]
      BY <1>1, <3>2
    <3>4. QED
      BY <1>2, <3>1, <3>2, <3>3 DEF Positions
  <2>5. QED
    BY <2>1, <2>2, <2>3, <2>4
<1>5. IsFiniteSet(moved) /\ Cardinality(moved) = Cardinality(Positions(t, r))
  <2>1. /\ Positions(t, r) \in SUBSET Nat /\ moved \in SUBSET Nat /\ n \in Int
        /\ \A i \in Positions(t, r) : i + n \in moved
        /\ \A j \in moved : j - n \in Positions(t, r)
    BY <1>1, <1>3
  <2> HIDE DEF moved
  <2>2. QED
    BY <1>3, <2>1, ShiftedCount
<1>6. Positions(s, r) \cap moved = {}
  BY <1>1, <1>3
<1> HIDE DEF moved
<1>7. Cardinality(Positions(u, r)) = Cardinality(Positions(s, r)) + Cardinality(moved) - 0
  <2>1. Cardinality({}) = 0
    BY FS_EmptySet
  <2>2. QED
    BY <1>3, <1>4, <1>5, <1>6, <2>1, FS_Union
<1>8. QED
  BY <1>3, <1>5, <1>7 DEF u

-----------------------------------------------------------------------------
(* The four places a request can be carried in, and what a step does to    *)
(* the number of its carriers.                                             *)
ThreadsFinite == \A q \in Requests : IsFiniteSet(InThreads(q))

LEMMA CarrierCounts ==
    ASSUME NEW q
    PROVE  /\ Carriers(q) = Cardinality(Positions(jobs, q)) + Cardinality(InThreads(q))
                            + Cardinality(Positions(events, q))
                            + Cardinality(Positions(pending, q))
           /\ Carriers(q)' = Cardinality(Positions(jobs', q)) + Cardinality(InThreads(q)')
                             + Cardinality(Positions(events', q))
                             + Cardinality(Positions(pending', q))
BY DEF Carriers, InJobs, InEvents, InPending, Positions

LEMMA CountsAreNaturals ==
    ASSUME TypeOK, ThreadsFinite, NEW q \in Requests
    PROVE  /\ Cardinality(Positions(jobs, q)) \in Nat
           /\ Cardinality(InThreads(q)) \in Nat
           /\ Cardinality(Positions(events, q)) \in Nat
           /\ Cardinality(Positions(pending, q)) \in Nat
           /\ Carriers(q) \in Nat
<1>1. /\ Cardinality(Positions(jobs, q)) \in Nat
      /\ Cardinality(Positions(events, q)) \in Nat
      /\ Cardinality(Positions(pending, q)) \in Nat
  BY PositionsFinite DEF TypeOK
<1>2. Cardinality(InThreads(q)) \in Nat
  BY FS_CardinalityType DEF ThreadsFinite
<1>3. QED
  BY <1>1, <1>2, CarrierCounts

(* A thread is busy exactly when it runs a job. *)
LEMMA BusyJob ==
    ASSUME TypeOK, NEW w \in Workers
    PROVE  /\ Busy(w) <=> thread[w] \in Jobs
           /\ thread[w] = Idle \/ thread[w] = Dead => ~Busy(w)
BY DEF TypeOK, Busy, Running, Jobs, JobsOf, Idle, Dead

LEMMA ThreadTakes ==
    ASSUME TypeOK, ThreadsFinite, NEW w \in Workers, thread[w] = Idle,
           NEW j \in Jobs, thread' = [thread EXCEPT ![w] = j], NEW q \in Requests
    PROVE  /\ IsFiniteSet(InThreads(q)')
           /\ Cardinality(InThreads(q)')
              = Cardinality(InThreads(q)) + (IF j.req = q THEN 1 ELSE 0)
<1>1. /\ thread'[w] = j
      /\ \A v \in Workers : v # w => thread'[v] = thread[v]
      /\ ~Busy(w)
  BY BusyJob DEF TypeOK
<1>2. thread'[w].kind \in {"run", "decompile", "long"}
  BY <1>1 DEF Jobs, JobsOf
<1>3. IsFiniteSet(InThreads(q)) /\ w \notin InThreads(q)
  BY <1>1 DEF ThreadsFinite, InThreads
<1>4. CASE j.req = q
  <2>1. InThreads(q)' = InThreads(q) \cup {w}
    BY <1>1, <1>2, <1>4 DEF InThreads, Busy, Running
  <2>2. QED
    BY <1>3, <1>4, <2>1, FS_AddElement
<1>5. CASE j.req # q
  <2>1. InThreads(q)' = InThreads(q)
    BY <1>1, <1>2, <1>5 DEF InThreads, Busy, Running
  <2>2. Cardinality(InThreads(q)) \in Nat
    BY CountsAreNaturals
  <2>3. QED
    BY <1>3, <1>5, <2>1, <2>2
<1>6. QED
  BY <1>4, <1>5

LEMMA ThreadDrops ==
    ASSUME TypeOK, ThreadsFinite, NEW w \in Workers, Busy(w),
           NEW x \in {Idle, Dead}, thread' = [thread EXCEPT ![w] = x], NEW q \in Requests
    PROVE  /\ IsFiniteSet(InThreads(q)')
           /\ Cardinality(InThreads(q)')
              = Cardinality(InThreads(q)) - (IF thread[w].req = q THEN 1 ELSE 0)
<1>1. /\ thread'[w] = x
      /\ \A v \in Workers : v # w => thread'[v] = thread[v]
  BY DEF TypeOK
<1>2. thread'[w].kind \in {"idle", "dead"}
  BY <1>1 DEF Idle, Dead
<1>3. InThreads(q)' = InThreads(q) \ {w}
  BY <1>1, <1>2 DEF InThreads, Busy, Running
<1>4. IsFiniteSet(InThreads(q)) /\ (w \in InThreads(q) <=> thread[w].req = q)
  BY DEF ThreadsFinite, InThreads
<1>5. Cardinality(InThreads(q)) \in Nat
  BY CountsAreNaturals
<1>6. QED
  BY <1>3, <1>4, <1>5, FS_RemoveElement

LEMMA ThreadAdvances ==
    ASSUME TypeOK, NEW w \in Workers, Busy(w), NEW stage \in Stages,
           thread' = [thread EXCEPT ![w].stage = stage]
    PROVE  /\ \A v \in Workers : v # w => thread'[v] = thread[v]
           /\ thread'[w] \in Jobs /\ thread'[w].stage = stage
           /\ thread'[w].kind = thread[w].kind /\ thread'[w].req = thread[w].req
           /\ thread'[w].allow = thread[w].allow
           /\ \A q \in Requests : InThreads(q)' = InThreads(q)
<1>1. thread[w] \in Jobs
  BY BusyJob
<1>2. /\ thread'[w] = [thread[w] EXCEPT !.stage = stage]
      /\ \A v \in Workers : v # w => thread'[v] = thread[v]
  BY DEF TypeOK
<1>3. /\ thread'[w] \in Jobs /\ thread'[w].stage = stage
      /\ thread'[w].kind = thread[w].kind /\ thread'[w].req = thread[w].req
      /\ thread'[w].allow = thread[w].allow
  BY <1>1, <1>2 DEF Jobs, JobsOf
<1>4. \A q \in Requests : InThreads(q)' = InThreads(q)
  BY <1>2, <1>3 DEF InThreads, Busy, Running
<1>5. QED
  BY <1>2, <1>3, <1>4

(* The number of carriers of r changes by n, that of no other request.     *)
Change(r, n) ==
    \A q \in Requests : /\ IsFiniteSet(InThreads(q)')
                        /\ Carriers(q)' = Carriers(q) + (IF q = r THEN n ELSE 0)

LEMMA SameThreads ==
    ASSUME ThreadsFinite, UNCHANGED thread, NEW q \in Requests
    PROVE  IsFiniteSet(InThreads(q)') /\ InThreads(q)' = InThreads(q)
BY DEF ThreadsFinite, InThreads, Busy, Running

(* A handler that touches no place of a request. *)
LEMMA NothingCarried ==
    ASSUME ThreadsFinite, TypeOK, UNCHANGED <<jobs, thread, events, pending>>
    PROVE  Change(NoReq, 0)
<1> SUFFICES ASSUME NEW q \in Requests
             PROVE  IsFiniteSet(InThreads(q)') /\ Carriers(q)' = Carriers(q) + 0
  BY DEF Change
<1>1. IsFiniteSet(InThreads(q)') /\ InThreads(q)' = InThreads(q)
  BY SameThreads
<1>2. Carriers(q)' = Carriers(q)
  BY <1>1 DEF Carriers, InJobs, InEvents, InPending
<1>3. QED
  BY <1>1, <1>2, CountsAreNaturals

(* A thread ends its job with an event of the request it served. *)
LEMMA EndWithCarries ==
    ASSUME TypeOK, ThreadsFinite, NEW w \in Workers, Busy(w), NEW e \in Events,
           e.req = thread[w].req, EndWith(w, e)
    PROVE  Change(NoReq, 0)
<1> SUFFICES ASSUME NEW q \in Requests
             PROVE  IsFiniteSet(InThreads(q)') /\ Carriers(q)' = Carriers(q) + 0
  BY DEF Change
<1> DEFINE d == IF e.req = q THEN 1 ELSE 0
<1>1. /\ IsFiniteSet(InThreads(q)')
      /\ Cardinality(InThreads(q)') = Cardinality(InThreads(q)) - d
  BY ThreadDrops DEF EndWith
<1>2. Cardinality(Positions(events', q)) = Cardinality(Positions(events, q)) + d
  BY PositionsAppend DEF EndWith, TypeOK
<1>3. UNCHANGED <<jobs, pending>>
  BY DEF EndWith
<1>4. d \in Int /\ -d \in Int
  OBVIOUS
<1> HIDE DEF d
<1>5. QED
  BY <1>1, <1>2, <1>3, <1>4, CountsAreNaturals, CarrierCounts

(* Only a dispatch makes a carrier; only an answer, an abort and a thread  *)
(* that dies take one away; everything else hands it on.                   *)
LEMMA StepOnCarriers ==
    ASSUME TypeOK, ThreadsFinite
    PROVE  /\ \A r \in Requests : DispatchAsync(r) => Change(r, 1)
           /\ HandleCompleted \/ HandleAborted => Change(Head(events).req, -1)
           /\ \A w \in Workers : Unwind(w) => Change(thread[w].req, -1)
           /\ \/ StartLongJob \/ HandleRetry \/ HandleLoadFiles
              \/ HandleDecompiled \/ FinishIteration
              => Change(NoReq, 0)
           /\ \A w \in Workers : \/ TakeJob(w)
                                 \/ WorkerStep(w) /\ ~Unwind(w)
                                 => Change(NoReq, 0)
<1> USE DEF tableVars, loopVars, poolVars
<1>3. ASSUME NEW j \in Jobs, NEW r, j.req = r,
             jobs' = Append(jobs, j), UNCHANGED <<thread, events, pending>>
      PROVE  Change(r, 1)
  <2> SUFFICES ASSUME NEW q \in Requests
               PROVE  /\ IsFiniteSet(InThreads(q)')
                      /\ Carriers(q)' = Carriers(q) + (IF q = r THEN 1 ELSE 0)
    BY DEF Change
  <2> DEFINE d == IF q = r THEN 1 ELSE 0
  <2>1. IsFiniteSet(InThreads(q)') /\ InThreads(q)' = InThreads(q)
    BY <1>3, SameThreads
  <2>2. Cardinality(Positions(jobs', q)) = Cardinality(Positions(jobs, q)) + d
    BY <1>3, PositionsAppend DEF TypeOK
  <2>3. d \in Int
    OBVIOUS
  <2> HIDE DEF d
  <2>4. Carriers(q)' = Carriers(q) + d
    BY <1>3, <2>1, <2>2, <2>3, CountsAreNaturals, CarrierCounts
  <2>5. QED
    BY <2>1, <2>4 DEF d
<1>4. ASSUME NEW r \in Requests, DispatchAsync(r) PROVE Change(r, 1)
  <2> DEFINE j == RunJob([req |-> r, allow |-> TRUE], TRUE, revision)
  <2>1. j \in Jobs /\ j.req = r
    BY RunJobType DEF TypeOK, Runs, RunJob
  <2>2. QED
    BY <1>3, <1>4, <2>1 DEF DispatchAsync
<1>5. ASSUME StartLongJob PROVE Change(NoReq, 0)
  <2>1. PlainJob("long", NoReq) \in Jobs /\ PlainJob("long", NoReq).req = NoReq
    BY LongJobType DEF PlainJob
  <2>2. Change(NoReq, 1)
    BY <1>3, <1>5, <2>1 DEF StartLongJob
  <2>3. QED
    BY <2>2 DEF Change
<1>6. ASSUME NEW type, HandleEvent(type), NEW q \in Requests
      PROVE  /\ Cardinality(Positions(events', q))
                = Cardinality(Positions(events, q)) + (IF Head(events).req = q THEN -1 ELSE 0)
             /\ Cardinality(Positions(events, q)) \in Nat
  BY <1>6, PositionsTail, CountsAreNaturals DEF HandleEvent, TypeOK
<1>7. ASSUME HandleCompleted \/ HandleAborted PROVE Change(Head(events).req, -1)
  <2> DEFINE r == Head(events).req
  <2> SUFFICES ASSUME NEW q \in Requests
               PROVE  /\ IsFiniteSet(InThreads(q)')
                      /\ Carriers(q)' = Carriers(q) + (IF q = r THEN -1 ELSE 0)
    BY DEF Change
  <2> DEFINE d == IF r = q THEN -1 ELSE 0
  <2>1. UNCHANGED <<jobs, thread, pending>>
    BY <1>7 DEF HandleCompleted, HandleAborted
  <2>2. IsFiniteSet(InThreads(q)') /\ InThreads(q)' = InThreads(q)
    BY <2>1, SameThreads
  <2>3. Cardinality(Positions(events', q)) = Cardinality(Positions(events, q)) + d
    BY <1>6, <1>7 DEF HandleCompleted, HandleAborted
  <2>4. d \in Int
    OBVIOUS
  <2> HIDE DEF d
  <2>5. Carriers(q)' = Carriers(q) + d
    BY <2>1, <2>2, <2>3, <2>4, CountsAreNaturals, CarrierCounts
  <2>6. QED
    BY <2>2, <2>5 DEF d
<1>8. ASSUME NEW type, HandleEvent(type), NEW run \in Runs, run.req = Head(events).req,
             pending' = Append(pending, run), UNCHANGED <<jobs, thread>>
      PROVE  Change(NoReq, 0)
  <2> SUFFICES ASSUME NEW q \in Requests
               PROVE  IsFiniteSet(InThreads(q)') /\ Carriers(q)' = Carriers(q) + 0
    BY DEF Change
  <2> DEFINE d == IF run.req = q THEN 1 ELSE 0
  <2>1. IsFiniteSet(InThreads(q)') /\ InThreads(q)' = InThreads(q)
    BY <1>8, SameThreads
  <2>2. Cardinality(Positions(events', q)) = Cardinality(Positions(events, q)) + (-d)
    BY <1>6, <1>8
  <2>3. Cardinality(Positions(pending', q)) = Cardinality(Positions(pending, q)) + d
    BY <1>8, PositionsAppend DEF TypeOK
  <2>4. d \in Int /\ -d \in Int
    OBVIOUS
  <2> HIDE DEF d
  <2>5. QED
    BY <1>8, <2>1, <2>2, <2>3, <2>4, CountsAreNaturals, CarrierCounts
<1>9. ASSUME HandleRetry PROVE Change(NoReq, 0)
  <2> DEFINE run == [req |-> Head(events).req, allow |-> Head(events).allow]
  <2>1. run \in Runs /\ run.req = Head(events).req
    BY <1>9, HandleEventType DEF HandleRetry, Runs
  <2>2. QED
    BY <1>8, <1>9, <2>1 DEF HandleRetry
<1>10. ASSUME HandleDecompiled PROVE Change(NoReq, 0)
  <2> DEFINE run == [req |-> Head(events).req, allow |-> FALSE]
  <2>1. run \in Runs /\ run.req = Head(events).req
    BY <1>10, HandleEventType DEF HandleDecompiled, Runs
  <2>2. QED
    BY <1>8, <1>10, <2>1 DEF HandleDecompiled
<1>11. ASSUME HandleLoadFiles PROVE Change(NoReq, 0)
  <2> DEFINE r == Head(events).req
             run == [req |-> r, allow |-> FALSE]
             j == PlainJob("decompile", r)
  <2>1. r \in Requests /\ HandleEvent("load") /\ UNCHANGED thread
    BY <1>11, HandleEventType DEF HandleLoadFiles
  <2>2. run \in Runs /\ run.req = r /\ j \in Jobs /\ j.req = r
    BY <2>1, DecompileJobType DEF Runs, PlainJob
  <2>3. \/ pending' = Append(pending, run) /\ UNCHANGED jobs
        \/ jobs' = Append(jobs, j) /\ UNCHANGED pending
    BY <1>11 DEF HandleLoadFiles
  <2> HIDE DEF run, j
  <2>4. CASE pending' = Append(pending, run) /\ UNCHANGED jobs
    BY <1>8, <2>1, <2>2, <2>4
  <2>5. CASE jobs' = Append(jobs, j) /\ UNCHANGED pending
    <3> SUFFICES ASSUME NEW q \in Requests
                 PROVE  IsFiniteSet(InThreads(q)') /\ Carriers(q)' = Carriers(q) + 0
      BY DEF Change
    <3> DEFINE d == IF r = q THEN 1 ELSE 0
    <3>1. IsFiniteSet(InThreads(q)') /\ InThreads(q)' = InThreads(q)
      BY <2>1, SameThreads
    <3>2. Cardinality(Positions(events', q)) = Cardinality(Positions(events, q)) + (-d)
      BY <1>6, <2>1
    <3>3. Cardinality(Positions(jobs', q)) = Cardinality(Positions(jobs, q)) + d
      BY <2>2, <2>5, PositionsAppend DEF TypeOK
    <3>4. d \in Int /\ -d \in Int
      OBVIOUS
    <3> HIDE DEF d
    <3>5. QED
      BY <2>5, <3>1, <3>2, <3>3, <3>4, CountsAreNaturals, CarrierCounts
  <2>6. QED
    BY <2>3, <2>4, <2>5
<1>12. ASSUME FinishIteration PROVE Change(NoReq, 0)
  <2> DEFINE reruns == [i \in 1..Len(pending) |-> RunJob(pending[i], FALSE, revision')]
  <2> SUFFICES ASSUME NEW q \in Requests
               PROVE  IsFiniteSet(InThreads(q)') /\ Carriers(q)' = Carriers(q) + 0
    BY DEF Change
  <2> DEFINE n == Cardinality(Positions(pending, q))
  <2>1. IsFiniteSet(InThreads(q)') /\ InThreads(q)' = InThreads(q) /\ UNCHANGED events
    BY <1>12, SameThreads DEF FinishIteration
  <2>2. revision' \in Nat
    BY <1>12 DEF FinishIteration, TypeOK
  <2>3. reruns \in Seq(Jobs)
    BY <2>2, RerunsType DEF TypeOK
  <2>4. Positions(reruns, q) = Positions(pending, q)
    <3>1. DOMAIN pending = 1..Len(pending)
      BY LenProperties DEF TypeOK
    <3>2. \A i \in 1..Len(pending) : reruns[i].req = pending[i].req
      BY DEF RunJob
    <3>3. DOMAIN reruns = 1..Len(pending)
      OBVIOUS
    <3> HIDE DEF reruns
    <3>4. QED
      BY <3>1, <3>2, <3>3 DEF Positions
  <2>5. jobs' = jobs \o reruns
    BY <1>12 DEF FinishIteration
  <2> HIDE DEF reruns
  <2>6. Cardinality(Positions(jobs', q)) = Cardinality(Positions(jobs, q)) + n
    BY <2>3, <2>4, <2>5, PositionsConcat DEF TypeOK
  <2>7. Cardinality(Positions(pending', q)) = 0
    <3>1. pending' = <<>> /\ DOMAIN <<>> = {}
      BY <1>12 DEF FinishIteration
    <3>2. Positions(pending', q) = {}
      BY <3>1 DEF Positions
    <3>3. QED
      BY <3>2, FS_EmptySet
  <2>8. n \in Nat
    BY CountsAreNaturals
  <2> HIDE DEF n
  <2>9. -n \in Int
    BY <2>8
  <2>10. Cardinality(Positions(pending', q)) = Cardinality(Positions(pending, q)) + (-n)
    BY <2>7, <2>8 DEF n
  <2>11. QED
    BY <2>1, <2>6, <2>8, <2>9, <2>10, CountsAreNaturals, CarrierCounts
<1>13. ASSUME NEW w \in Workers, TakeJob(w) PROVE Change(NoReq, 0)
  <2> DEFINE j == [Head(jobs) EXCEPT !.stage = "entered"]
  <2> SUFFICES ASSUME NEW q \in Requests
               PROVE  IsFiniteSet(InThreads(q)') /\ Carriers(q)' = Carriers(q) + 0
    BY DEF Change
  <2> DEFINE d == IF Head(jobs).req = q THEN 1 ELSE 0
  <2>1. Head(jobs) \in Jobs
    BY <1>13, HeadTailProperties DEF TakeJob, TypeOK
  <2>2. j \in Jobs /\ j.req = Head(jobs).req
    BY <2>1 DEF Jobs, JobsOf, Stages
  <2>3. /\ IsFiniteSet(InThreads(q)')
        /\ Cardinality(InThreads(q)') = Cardinality(InThreads(q)) + d
    <3>1. thread' = [thread EXCEPT ![w] = j] /\ thread[w] = Idle
      BY <1>13 DEF TakeJob
    <3> HIDE DEF j
    <3>2. QED
      BY <2>2, <3>1, ThreadTakes
  <2>4. Cardinality(Positions(jobs', q)) = Cardinality(Positions(jobs, q)) + (-d)
    BY <1>13, PositionsTail, CountsAreNaturals DEF TakeJob, TypeOK
  <2>5. UNCHANGED <<events, pending>>
    BY <1>13 DEF TakeJob
  <2>6. d \in Int /\ -d \in Int
    OBVIOUS
  <2> HIDE DEF d
  <2>7. QED
    BY <2>3, <2>4, <2>5, <2>6, CountsAreNaturals, CarrierCounts
<1>14. ASSUME NEW w \in Workers, Busy(w), NEW x \in {Idle, Dead},
              thread' = [thread EXCEPT ![w] = x], UNCHANGED <<jobs, events, pending>>
       PROVE  Change(thread[w].req, -1)
  <2> SUFFICES ASSUME NEW q \in Requests
               PROVE  /\ IsFiniteSet(InThreads(q)')
                      /\ Carriers(q)' = Carriers(q) + (IF q = thread[w].req THEN -1 ELSE 0)
    BY DEF Change
  <2> DEFINE d == IF thread[w].req = q THEN 1 ELSE 0
  <2>1. /\ IsFiniteSet(InThreads(q)')
        /\ Cardinality(InThreads(q)') = Cardinality(InThreads(q)) - d
    BY <1>14, ThreadDrops
  <2>2. d \in Int
    OBVIOUS
  <2> HIDE DEF d
  <2>3. Carriers(q)' = Carriers(q) - d
    BY <1>14, <2>1, <2>2, CountsAreNaturals, CarrierCounts
  <2>4. QED
    BY <2>1, <2>3, CountsAreNaturals DEF d
<1>15. ASSUME NEW w \in Workers, Unwind(w) PROVE Change(thread[w].req, -1)
  BY <1>14, <1>15 DEF Unwind, InStage, Running, Busy
<1>16. ASSUME NEW w \in Workers, WorkerStep(w), ~Unwind(w) PROVE Change(NoReq, 0)
  <2>1. Running(w, "run") \/ Running(w, "decompile") \/ Running(w, "long")
    BY <1>16 DEF WorkerStep, Enter, Abort, Complete, Retry, Defer, BeginRender, FinishRender,
                 Unwind, FinishDecompile, FinishLongJob, InStage
  <2>2. /\ thread[w] \in Jobs /\ thread[w].allow \in BOOLEAN
        /\ ~Running(w, "long") => thread[w].req \in Requests
        /\ Busy(w)
    BY <2>1, RunningJob DEF Busy, Running
  <2>3. CASE Enter(w) \/ BeginRender(w)
    <3>1. /\ \E stage \in Stages : thread' = [thread EXCEPT ![w].stage = stage]
          /\ UNCHANGED <<jobs, events, pending>>
      BY <2>3 DEF Enter, BeginRender, Stages
    <3>2. \A q \in Requests : InThreads(q)' = InThreads(q)
      BY <2>2, <3>1, ThreadAdvances
    <3>3. \A q \in Requests : Carriers(q)' = Carriers(q)
      BY <3>1, <3>2 DEF Carriers, InJobs, InEvents, InPending
    <3>4. QED
      BY <3>2, <3>3, CountsAreNaturals DEF Change, ThreadsFinite
  <2>4. CASE FinishLongJob(w)
    <3>1. thread[w].req = NoReq
      BY <2>2, <2>4 DEF FinishLongJob, Running, Jobs, JobsOf
    <3>2. Change(NoReq, -1)
      BY <1>14, <2>2, <2>4, <3>1 DEF FinishLongJob
    <3>3. QED
      BY <3>2 DEF Change
  <2>5. CASE Abort(w) \/ Complete(w) \/ Retry(w) \/ Defer(w) \/ FinishRender(w)
              \/ FinishDecompile(w)
    <3>1. thread[w].req \in Requests
      BY <2>2, <2>5 DEF Abort, Complete, Retry, Defer, FinishRender, FinishDecompile,
                        InStage, Running
    <3>2. PICK type \in {"completed", "retry", "aborted", "load", "decompiled"},
               allow \in BOOLEAN, result \in {"result", "null", "error"} :
                   EndWith(w, Event(type, thread[w].req, allow, result))
      BY <2>2, <2>5 DEF Abort, Complete, Retry, Defer, FinishRender, FinishDecompile
    <3> DEFINE e == Event(type, thread[w].req, allow, result)
    <3>3. e \in Events /\ e.req = thread[w].req
      BY <3>1, <3>2, EventType DEF Event
    <3> HIDE DEF e
    <3>4. QED
      BY <2>2, <3>2, <3>3, EndWithCarries DEF e
  <2>6. QED
    BY <1>16, <2>3, <2>4, <2>5 DEF WorkerStep
<1>17. QED
  BY <1>4, <1>5, <1>7, <1>9, <1>10, <1>11, <1>12, <1>13, <1>15, <1>16

-----------------------------------------------------------------------------
(* OneCarrier and NoTokenLeak are not inductive.  Four more facts make them*)
(* so: a request that is carried is one the client sent and the loop       *)
(* dispatched, a token is of a request that was sent and a flipped one is  *)
(* of a request that was answered, a run is aborted only for a flipped     *)
(* token, and only a handler outside the catch is ever in "rendering".     *)
CarriedOnce ==
    \A r \in Requests : /\ IsFiniteSet(InThreads(r))
                        /\ Carriers(r) <= 1
                        /\ Carriers(r) # 0 => r \in Async /\ Seen(r)

OpenIsCarried ==
    \A r \in (incoming \cap Async) \cup registered :
        Method[r] \notin Unguarded => Carriers(r) = 1

TokensSeen ==
    /\ registered \subseteq Async
    /\ \A r \in registered \cup flipped : Seen(r)
    /\ flipped \cap incoming = {}

AbortsFlipped ==
    \A i \in DOMAIN events : events[i].type = "aborted" => events[i].req \in flipped

RenderingUnguarded ==
    \A w \in Workers : InStage(w, "rendering") => Method[thread[w].req] \in Unguarded

CarrierInv ==
    CarriedOnce /\ OpenIsCarried /\ TokensSeen /\ AbortsFlipped /\ RenderingUnguarded

(* The three things a step of a busy thread can be: its run advances, it   *)
(* stops without an event, or it ends with an event of its request.        *)
LEMMA StepOfThread ==
    ASSUME TypeOK, NEW w \in Workers, WorkerStep(w)
    PROVE  /\ Busy(w) /\ thread[w] \in Jobs
           /\ UNCHANGED <<loopVars, tableVars, pending, jobs, boundVars>>
           /\ \/ /\ \E stage \in Stages :
                       /\ thread' = [thread EXCEPT ![w].stage = stage]
                       /\ stage = "rendering" => Method[thread[w].req] \in Unguarded
                 /\ UNCHANGED <<events, deferrals>>
              \/ /\ \E x \in {Idle, Dead} :
                       /\ thread' = [thread EXCEPT ![w] = x]
                       /\ x = Dead => InStage(w, "rendering")
                 /\ UNCHANGED <<events, deferrals>>
              \/ \E e \in Events :
                    /\ EndWith(w, e)
                    /\ e.req = thread[w].req
                    /\ e.type = "aborted" => e.req \in flipped
                    /\ e.allow => thread[w].allow
                    /\ \/ UNCHANGED deferrals
                       \/ /\ thread[w].allow /\ e.allow = FALSE
                          /\ deferrals' = [deferrals EXCEPT ![e.req] = @ + 1]
<1> USE DEF tableVars, loopVars, poolVars, boundVars
<1>1. /\ Running(w, "run") \/ Running(w, "decompile") \/ Running(w, "long")
      /\ UNCHANGED <<loopVars, tableVars, pending, jobs, boundVars>>
  BY DEF WorkerStep, Enter, Abort, Complete, Retry, Defer, BeginRender, FinishRender,
         Unwind, FinishDecompile, FinishLongJob, InStage, EndWith
<1>2. /\ thread[w] \in Jobs /\ thread[w].allow \in BOOLEAN
      /\ ~Running(w, "long") => thread[w].req \in Requests
      /\ Busy(w)
  BY <1>1, RunningJob DEF Busy, Running
<1>3. CASE Enter(w) \/ BeginRender(w)
  BY <1>1, <1>2, <1>3 DEF Enter, BeginRender, Stages
<1>4. CASE Unwind(w) \/ FinishLongJob(w)
  <2>1. Idle # Dead
    BY DEF Idle, Dead
  <2>2. QED
    BY <1>1, <1>2, <1>4, <2>1 DEF Unwind, FinishLongJob
<1>5. CASE Abort(w) \/ Complete(w) \/ Retry(w) \/ Defer(w) \/ FinishRender(w)
            \/ FinishDecompile(w)
  <2> DEFINE r == thread[w].req
  <2>1. r \in Requests
    BY <1>2, <1>5 DEF Abort, Complete, Retry, Defer, FinishRender, FinishDecompile,
                      InStage, Running
  <2>2. PICK type \in {"completed", "retry", "aborted", "load", "decompiled"},
             allow \in BOOLEAN, result \in {"result", "null", "error"} :
                 /\ EndWith(w, Event(type, r, allow, result))
                 /\ type = "aborted" => TokenSet(w)
                 /\ allow => thread[w].allow
                 /\ \/ UNCHANGED deferrals
                    \/ /\ thread[w].allow /\ allow = FALSE
                       /\ deferrals' = [deferrals EXCEPT ![r] = @ + 1]
    BY <1>2, <1>5 DEF Abort, Complete, Retry, Defer, FinishRender, FinishDecompile
  <2> DEFINE e == Event(type, r, allow, result)
  <2>3. e \in Events /\ e.req = r /\ e.type = type /\ e.allow = allow
    BY <2>1, <2>2, EventType DEF Event
  <2>4. type = "aborted" => r \in flipped
    BY <2>2 DEF TokenSet
  <2> HIDE DEF e, r
  <2>5. /\ EndWith(w, e) /\ e.req = r /\ e \in Events
        /\ e.type = "aborted" => e.req \in flipped
        /\ e.allow => thread[w].allow
        /\ \/ UNCHANGED deferrals
           \/ /\ thread[w].allow /\ e.allow = FALSE
              /\ deferrals' = [deferrals EXCEPT ![e.req] = @ + 1]
    BY <2>2, <2>3, <2>4 DEF e
  <2>6. QED
    BY <1>1, <1>2, <2>5 DEF r
<1>6. QED
  BY <1>3, <1>4, <1>5 DEF WorkerStep

(* A request the client has sent stays one it has sent. *)
LEMMA SeenForever ==
    ASSUME TypeOK, [Next]_vars, NEW r \in Requests, Seen(r)
    PROVE  Seen(r)'
<1>1. TableStep
  BY StepOnTable
<1>2. ASSUME NEW q \in Requests, NEW kind \in ReplyKinds, Reply(q, kind)
      PROVE  /\ replies'[q] # <<>>
             /\ r # q => replies'[r] = replies[r]
  <2>1. replies[q] \in Seq(ReplyKinds)
    BY DEF TypeOK
  <2>2. Append(replies[q], kind) # <<>>
    BY <2>1, AppendProperties
  <2>3. QED
    BY <1>2, <2>2 DEF Reply, TypeOK
<1>3. CASE UNCHANGED <<incoming, replies>>
  BY <1>3 DEF Seen
<1>4. ASSUME NEW q \in Requests, NEW kind \in ReplyKinds, Respond(q, kind)
      PROVE  Seen(r)'
  BY <1>2, <1>4 DEF Seen, Respond
<1>5. ASSUME NEW q \in Requests, NEW kind \in ReplyKinds, Reply(q, kind),
             incoming \subseteq incoming'
      PROVE  Seen(r)'
  BY <1>2, <1>5 DEF Seen
<1>6. ASSUME NEW q \in Requests, incoming' = incoming \cup {q}, UNCHANGED replies
      PROVE  Seen(r)'
  BY <1>6 DEF Seen
<1>7. QED
  BY <1>1, <1>3, <1>4, <1>5, <1>6 DEF TableStep, ReplyKinds

(* What happens to the event channel and to flipped, whoever steps. *)
LEMMA StepOnEvents ==
    ASSUME TypeOK, [Next]_vars
    PROVE  /\ flipped \subseteq flipped'
           /\ \/ UNCHANGED events
              \/ events # <<>> /\ events' = Tail(events)
              \/ \E w \in Workers, e \in Events : WorkerStep(w) /\ EndWith(w, e)
<1> USE DEF tableVars, loopVars, poolVars, boundVars
<1>1. ASSUME NEW r \in Requests, \/ HandleShutdown(r) \/ RejectParams(r)
                                 \/ RejectUnknown(r) \/ DispatchAsync(r) \/ CancelRequest(r)
      PROVE  flipped \subseteq flipped' /\ UNCHANGED events
  BY <1>1 DEF HandleShutdown, RejectParams, RejectUnknown, DispatchAsync, CancelRequest
<1>2. CASE HandleExit \/ ChangeVfs \/ StartLongJob \/ FinishIteration \/ UNCHANGED vars
  BY <1>2 DEF HandleExit, ChangeVfs, StartLongJob, FinishIteration, vars
<1>3. CASE BackgroundEvent
  BY <1>3 DEF BackgroundEvent, HandleCompleted, HandleRetry, HandleAborted, HandleLoadFiles,
              HandleDecompiled, HandleEvent
<1>4. ASSUME NEW w \in Workers, TakeJob(w) PROVE flipped \subseteq flipped' /\ UNCHANGED events
  BY <1>4 DEF TakeJob
<1>5. ASSUME NEW w \in Workers, WorkerStep(w)
      PROVE  /\ flipped \subseteq flipped'
             /\ UNCHANGED events \/ \E e \in Events : EndWith(w, e)
  BY <1>5, StepOfThread
<1>6. QED
  BY <1>1, <1>2, <1>3, <1>4, <1>5 DEF Next, ClientMessage

LEMMA AbortsFlippedStep == TypeOK /\ AbortsFlipped /\ [Next]_vars => AbortsFlipped'
<1> SUFFICES ASSUME TypeOK, AbortsFlipped, [Next]_vars PROVE AbortsFlipped'
  OBVIOUS
<1>1. flipped \subseteq flipped'
  BY StepOnEvents
<1>2. CASE UNCHANGED events
  BY <1>1, <1>2 DEF AbortsFlipped
<1>3. CASE events # <<>> /\ events' = Tail(events)
  BY <1>1, <1>3, HeadTailProperties, LenProperties DEF AbortsFlipped, TypeOK
<1>4. ASSUME NEW w \in Workers, WorkerStep(w), NEW f \in Events, EndWith(w, f)
      PROVE  AbortsFlipped'
  <2>1. CASE UNCHANGED events
    BY <1>2, <2>1
  <2>2. ASSUME NEW e \in Events, EndWith(w, e), e.type = "aborted" => e.req \in flipped
        PROVE  AbortsFlipped'
    <3>1. events' = Append(events, e)
      BY <2>2 DEF EndWith
    <3>2. /\ DOMAIN events = 1..Len(events) /\ DOMAIN events' = 1..(Len(events) + 1)
          /\ \A i \in 1..Len(events) : events'[i] = events[i]
          /\ events'[Len(events) + 1] = e /\ Len(events) \in Nat
      BY <3>1, AppendProperties, LenProperties DEF TypeOK
    <3>3. \A i \in DOMAIN events' : i \in DOMAIN events \/ events'[i] = e
      BY <3>2
    <3>4. QED
      BY <1>1, <2>2, <3>2, <3>3 DEF AbortsFlipped
  <2>3. QED
    BY <1>4, <2>1, <2>2, StepOfThread
<1>5. QED
  BY <1>2, <1>3, <1>4, StepOnEvents

LEMMA RenderingStep == TypeOK /\ RenderingUnguarded /\ [Next]_vars => RenderingUnguarded'
<1> SUFFICES ASSUME TypeOK, RenderingUnguarded, [Next]_vars PROVE RenderingUnguarded'
  OBVIOUS
<1> USE DEF tableVars, loopVars, poolVars, boundVars
<1>1. CASE UNCHANGED thread
  BY <1>1 DEF RenderingUnguarded, InStage, Running
<1>2. ASSUME NEW w \in Workers, TakeJob(w) PROVE RenderingUnguarded'
  <2> DEFINE j == [Head(jobs) EXCEPT !.stage = "entered"]
  <2>1. j.stage = "entered"
    <3>1. Head(jobs) \in Jobs
      BY <1>2, HeadTailProperties DEF TakeJob, TypeOK
    <3>2. QED
      BY <3>1 DEF Jobs, JobsOf
  <2>2. thread' = [thread EXCEPT ![w] = j]
    BY <1>2 DEF TakeJob
  <2> HIDE DEF j
  <2>3. \A v \in Workers : thread'[v] = IF v = w THEN j ELSE thread[v]
    BY <2>2 DEF TypeOK
  <2>4. QED
    BY <2>1, <2>3 DEF RenderingUnguarded, InStage, Running
<1>3. ASSUME NEW w \in Workers, WorkerStep(w) PROVE RenderingUnguarded'
  <2>1. ASSUME NEW x \in {Idle, Dead}, thread' = [thread EXCEPT ![w] = x]
        PROVE  RenderingUnguarded'
    <3>1. \A v \in Workers : thread'[v] = IF v = w THEN x ELSE thread[v]
      BY <2>1 DEF TypeOK
    <3>2. x.kind # "run"
      BY DEF Idle, Dead
    <3>3. QED
      BY <3>1, <3>2 DEF RenderingUnguarded, InStage, Running
  <2>2. ASSUME NEW stage \in Stages, thread' = [thread EXCEPT ![w].stage = stage],
               stage = "rendering" => Method[thread[w].req] \in Unguarded, Busy(w)
        PROVE  RenderingUnguarded'
    <3>1. /\ \A v \in Workers : v # w => thread'[v] = thread[v]
          /\ thread'[w].stage = stage /\ thread'[w].req = thread[w].req
      BY <2>2, ThreadAdvances
    <3>2. QED
      BY <2>2, <3>1 DEF RenderingUnguarded, InStage, Running
  <2>3. QED
    BY <1>3, <2>1, <2>2, StepOfThread DEF EndWith
<1>4. QED
  BY <1>1, <1>2, <1>3 DEF Next, ClientMessage, BackgroundEvent, HandleShutdown, RejectParams,
     RejectUnknown, DispatchAsync, CancelRequest, HandleExit, ChangeVfs, StartLongJob,
     HandleCompleted, HandleRetry, HandleAborted, HandleLoadFiles, HandleDecompiled,
     FinishIteration, vars

LEMMA CarrierInvInit == Init => CarrierInv
<1> SUFFICES ASSUME Init PROVE CarrierInv
  OBVIOUS
<1>1. \A r : InThreads(r) = {}
  BY DEF Init, InThreads, Busy, Running, Idle
<1>2. \A r : Carriers(r) = 0 /\ IsFiniteSet(InThreads(r))
  <2> TAKE r
  <2>1. InJobs(r) = {} /\ InEvents(r) = {} /\ InPending(r) = {}
    BY DEF Init, InJobs, InEvents, InPending
  <2>2. Cardinality({}) = 0 /\ IsFiniteSet({})
    BY FS_EmptySet
  <2>3. QED
    BY <1>1, <2>1, <2>2 DEF Carriers
<1>3. AbortsFlipped /\ RenderingUnguarded
  BY DEF Init, AbortsFlipped, RenderingUnguarded, InStage, Running, Idle
<1>4. QED
  BY <1>2, <1>3 DEF Init, CarrierInv, CarriedOnce, OpenIsCarried, TokensSeen

(* The head of the event channel is a carrier of its request. *)
LEMMA HeadCarries ==
    ASSUME TypeOK, CarriedOnce, NEW type, HandleEvent(type)
    PROVE  /\ Head(events).req \in Requests
           /\ Carriers(Head(events).req) = 1
<1> DEFINE r == Head(events).req
<1>1. r \in Requests
  BY HandleEventType
<1>2. ThreadsFinite
  BY DEF ThreadsFinite, CarriedOnce
<1>3. /\ Cardinality(Positions(events', r)) = Cardinality(Positions(events, r)) - 1
      /\ Cardinality(Positions(events', r)) \in Nat
  <2>1. events \in Seq(Events) /\ events # <<>> /\ events' = Tail(events)
    BY DEF HandleEvent, TypeOK
  <2>2. events' \in Seq(Events)
    BY HandleEventType
  <2>3. QED
    BY <2>1, <2>2, PositionsTail, PositionsFinite
<1>4. Carriers(r) >= 1
  BY <1>1, <1>2, <1>3, CarrierCounts, CountsAreNaturals
<1>5. Carriers(r) <= 1 /\ Carriers(r) \in Nat
  BY <1>1, <1>2, CountsAreNaturals DEF CarriedOnce
<1>6. QED
  BY <1>1, <1>4, <1>5

(* A busy thread is the only carrier of the request it serves. *)
LEMMA BusyCarries ==
    ASSUME TypeOK, CarriedOnce, NEW w \in Workers, Busy(w), NEW r \in Requests,
           r = thread[w].req
    PROVE  /\ Carriers(r) = 1
           /\ Positions(jobs, r) = {} /\ Positions(events, r) = {} /\ Positions(pending, r) = {}
           /\ InThreads(r) = {w}
<1>1. ThreadsFinite
  BY DEF ThreadsFinite, CarriedOnce
<1>2. IsFiniteSet(InThreads(r)) /\ w \in InThreads(r)
  BY <1>1 DEF ThreadsFinite, InThreads
<1>3. Cardinality(InThreads(r)) # 0
  BY <1>2, FS_EmptySet
<1>4. Carriers(r) <= 1
  BY DEF CarriedOnce
<1>5. /\ Carriers(r) = 1 /\ Cardinality(InThreads(r)) = 1
      /\ Cardinality(Positions(jobs, r)) = 0
      /\ Cardinality(Positions(events, r)) = 0
      /\ Cardinality(Positions(pending, r)) = 0
  <2>1. /\ Cardinality(Positions(jobs, r)) \in Nat /\ Cardinality(InThreads(r)) \in Nat
        /\ Cardinality(Positions(events, r)) \in Nat
        /\ Cardinality(Positions(pending, r)) \in Nat
    BY <1>1, CountsAreNaturals
  <2>2. Carriers(r) = Cardinality(Positions(jobs, r)) + Cardinality(InThreads(r))
                      + Cardinality(Positions(events, r))
                      + Cardinality(Positions(pending, r))
    BY CarrierCounts
  <2>3. QED
    BY <1>3, <1>4, <2>1, <2>2
<1>6. InThreads(r) = {w}
  BY <1>2, <1>5, FS_Singleton
<1>7. /\ IsFiniteSet(Positions(jobs, r)) /\ IsFiniteSet(Positions(events, r))
      /\ IsFiniteSet(Positions(pending, r))
  BY PositionsFinite DEF TypeOK
<1>8. QED
  BY <1>5, <1>6, <1>7, FS_EmptySet

(* A step that hands on every carrier and adds no entry and no token. *)
LEMMA CarriersHandedOn ==
    ASSUME TypeOK, CarriedOnce, OpenIsCarried, TokensSeen, [Next]_vars, Change(NoReq, 0),
           incoming' \cap Async \subseteq incoming, registered' \subseteq registered
    PROVE  CarriedOnce' /\ OpenIsCarried' /\ (\A r \in registered' : Seen(r)')
<1>1. \A r \in Requests : Carriers(r)' = Carriers(r) /\ Carriers(r) \in Nat
                          /\ IsFiniteSet(InThreads(r)')
  BY CountsAreNaturals DEF Change, CarriedOnce, ThreadsFinite
<1>2. \A r \in Requests : Seen(r) => Seen(r)'
  BY SeenForever
<1>3. QED
  BY <1>1, <1>2 DEF CarriedOnce, OpenIsCarried, TokensSeen, TypeOK, Async

LEMMA CarrierInvStep == TypeOK /\ CarrierInv /\ [Next]_vars => CarrierInv'
<1> SUFFICES ASSUME TypeOK, CarrierInv, [Next]_vars PROVE CarrierInv'
  OBVIOUS
<1> USE DEF CarrierInv, tableVars, loopVars, poolVars
<1>1. AbortsFlipped' /\ RenderingUnguarded'
  BY AbortsFlippedStep, RenderingStep
<1>2. ThreadsFinite
  BY DEF CarriedOnce, ThreadsFinite
<1>3. \A r \in Requests : Seen(r) => Seen(r)'
  BY SeenForever
<1>4. \A r \in Requests : Carriers(r) \in Nat
  BY <1>2, CountsAreNaturals
<1> SUFFICES CarriedOnce' /\ OpenIsCarried' /\ TokensSeen'
  BY <1>1
<1>5. ASSUME UNCHANGED <<incoming, flipped>>, registered' \subseteq registered, Change(NoReq, 0)
      PROVE  CarriedOnce' /\ OpenIsCarried' /\ TokensSeen'
  <2>1. CarriedOnce' /\ OpenIsCarried' /\ (\A r \in registered' : Seen(r)')
    BY <1>5, CarriersHandedOn
  <2>2. QED
    BY <1>3, <1>5, <2>1 DEF TokensSeen, TypeOK
<1>6. ASSUME UNCHANGED <<jobs, thread, events, pending>> PROVE Change(NoReq, 0)
  BY <1>2, <1>6, NothingCarried
<1>7. ASSUME NEW r \in Requests, HandleShutdown(r) \/ RejectParams(r)
      PROVE  CarriedOnce' /\ OpenIsCarried' /\ TokensSeen'
  BY <1>5, <1>6, <1>7 DEF HandleShutdown, RejectParams
<1>8. CASE HandleExit \/ ChangeVfs \/ UNCHANGED vars
  BY <1>5, <1>6, <1>8 DEF HandleExit, ChangeVfs, vars
<1>9. ASSUME NEW r \in Requests, RejectUnknown(r)
      PROVE  CarriedOnce' /\ OpenIsCarried' /\ TokensSeen'
  <2>1. /\ Change(NoReq, 0) /\ r \notin Async /\ ~Seen(r)
        /\ incoming' = incoming \cup {r} /\ UNCHANGED <<registered, flipped>>
    BY <1>6, <1>9 DEF RejectUnknown, Async, AsyncMethods, Checkpointed, Deferring
  <2>2. CarriedOnce' /\ OpenIsCarried' /\ (\A q \in registered' : Seen(q)')
    BY <2>1, CarriersHandedOn
  <2>3. QED
    BY <1>3, <2>1, <2>2 DEF TokensSeen, TypeOK
<1>10. ASSUME NEW r \in Requests, CancelRequest(r)
       PROVE  CarriedOnce' /\ OpenIsCarried' /\ TokensSeen'
  <2>1. /\ Change(NoReq, 0) /\ UNCHANGED registered /\ incoming' = incoming \ {r}
        /\ flipped' \subseteq flipped \cup {r}
        /\ r \in incoming \cup registered
    BY <1>6, <1>10 DEF CancelRequest, Respond
  <2>2. CarriedOnce' /\ OpenIsCarried' /\ (\A q \in registered' : Seen(q)')
    BY <2>1, CarriersHandedOn
  <2>3. Seen(r)
    BY <2>1 DEF TokensSeen, Seen
  <2>4. QED
    BY <1>3, <2>1, <2>2, <2>3 DEF TokensSeen, TypeOK
<1>11. ASSUME NEW r \in Requests, DispatchAsync(r)
       PROVE  CarriedOnce' /\ OpenIsCarried' /\ TokensSeen'
  <2>1. /\ \A q \in Requests : /\ IsFiniteSet(InThreads(q)')
                               /\ Carriers(q)' = Carriers(q) + (IF q = r THEN 1 ELSE 0)
        /\ r \in Async /\ ~Seen(r) /\ Seen(r)'
        /\ incoming' = incoming \cup {r} /\ registered' = registered \cup {r}
        /\ UNCHANGED flipped
    BY <1>2, <1>11, StepOnCarriers DEF Change, DispatchAsync, Seen
  <2>2. Carriers(r) = 0
    BY <1>4, <2>1 DEF CarriedOnce
  <2>3. CarriedOnce' /\ OpenIsCarried'
    <3>1. \A q \in Requests : Carriers(q)' = IF q = r THEN 1 ELSE Carriers(q)
      BY <1>4, <2>1, <2>2
    <3>2. CarriedOnce'
      BY <1>3, <2>1, <3>1 DEF CarriedOnce
    <3>3. OpenIsCarried'
      BY <2>1, <3>1 DEF OpenIsCarried, TypeOK, Async
    <3>4. QED
      BY <3>2, <3>3
  <2>4. TokensSeen'
    BY <1>3, <2>1 DEF TokensSeen, TypeOK
  <2>5. QED
    BY <2>3, <2>4
<1>12. CASE StartLongJob \/ HandleRetry \/ HandleLoadFiles \/ HandleDecompiled \/ FinishIteration
  <2>1. Change(NoReq, 0)
    BY <1>2, <1>12, StepOnCarriers
  <2>2. UNCHANGED <<incoming, flipped>> /\ registered' \subseteq registered
    BY <1>12 DEF StartLongJob, HandleRetry, HandleLoadFiles, HandleDecompiled, FinishIteration
  <2>3. QED
    BY <1>5, <2>1, <2>2
<1>13. CASE HandleCompleted \/ HandleAborted
  <2> DEFINE r == Head(events).req
  <2>1. r \in Requests /\ Carriers(r) = 1
    BY <1>13, HeadCarries DEF HandleCompleted, HandleAborted
  <2>2. \A q \in Requests : /\ IsFiniteSet(InThreads(q)')
                            /\ Carriers(q)' = Carriers(q) + (IF q = r THEN -1 ELSE 0)
    BY <1>2, <1>13, StepOnCarriers DEF Change
  <2>3. registered' = registered \ {r} /\ UNCHANGED flipped
    BY <1>13 DEF HandleCompleted, HandleAborted
  <2>4. incoming' \subseteq incoming /\ r \notin incoming'
    <3>1. CASE HandleCompleted
      BY <3>1 DEF HandleCompleted, Respond
    <3>2. CASE HandleAborted
      <4>1. 1 \in DOMAIN events /\ Head(events) = events[1]
        BY <3>2, LenProperties, EmptySeq DEF HandleAborted, HandleEvent, TypeOK
      <4>2. r \in flipped
        BY <3>2, <4>1 DEF HandleAborted, HandleEvent, AbortsFlipped
      <4>3. QED
        BY <3>2, <4>2 DEF HandleAborted, TokensSeen
    <3>3. QED
      BY <1>13, <3>1, <3>2
  <2> HIDE DEF r
  <2>5. CarriedOnce' /\ OpenIsCarried'
    <3>1. \A q \in Requests : Carriers(q)' = IF q = r THEN 0 ELSE Carriers(q)
      BY <1>4, <2>1, <2>2
    <3>2. CarriedOnce'
      BY <1>3, <2>2, <3>1 DEF CarriedOnce
    <3>3. OpenIsCarried'
      BY <2>3, <2>4, <3>1 DEF OpenIsCarried, TypeOK, Async
    <3>4. QED
      BY <3>2, <3>3
  <2>6. TokensSeen'
    BY <1>3, <2>3, <2>4 DEF TokensSeen, TypeOK
  <2>7. QED
    BY <2>5, <2>6
<1>14. ASSUME NEW w \in Workers, TakeJob(w)
       PROVE  CarriedOnce' /\ OpenIsCarried' /\ TokensSeen'
  <2>1. Change(NoReq, 0)
    BY <1>2, <1>14, StepOnCarriers
  <2>2. QED
    BY <1>5, <1>14, <2>1 DEF TakeJob
<1>15. ASSUME NEW w \in Workers, WorkerStep(w)
       PROVE  CarriedOnce' /\ OpenIsCarried' /\ TokensSeen'
  <2>1. UNCHANGED tableVars
    BY <1>15, StepOfThread
  <2>2. CASE ~Unwind(w)
    <3>1. Change(NoReq, 0)
      BY <1>2, <1>15, <2>2, StepOnCarriers
    <3>2. QED
      BY <1>5, <2>1, <3>1
  <2>3. CASE Unwind(w)
    <3> DEFINE r == thread[w].req
    <3>1. Method[r] \in Unguarded
      BY <2>3 DEF Unwind, RenderingUnguarded
    <3>2. \A q \in Requests : /\ IsFiniteSet(InThreads(q)')
                              /\ Carriers(q)' = Carriers(q) + (IF q = r THEN -1 ELSE 0)
      BY <1>2, <2>3, StepOnCarriers DEF Change
    <3>3. r \in Requests /\ Carriers(r) = 1
      <4>1. Busy(w) /\ r \in Requests
        BY <2>3, RunningJob DEF Unwind, InStage, Running, Busy
      <4>2. QED
        BY <4>1, BusyCarries
    <3> HIDE DEF r
    <3>4. CarriedOnce' /\ OpenIsCarried'
      <4>1. \A q \in Requests : Carriers(q)' = IF q = r THEN 0 ELSE Carriers(q)
        BY <1>4, <3>2, <3>3
      <4>2. CarriedOnce'
        BY <1>3, <3>2, <4>1 DEF CarriedOnce
      <4>3. OpenIsCarried'
        BY <2>1, <3>1, <4>1 DEF OpenIsCarried, TypeOK, Async
      <4>4. QED
        BY <4>2, <4>3
    <3>5. TokensSeen'
      BY <1>3, <2>1 DEF TokensSeen, TypeOK
    <3>6. QED
      BY <3>4, <3>5
  <2>4. QED
    BY <2>2, <2>3
<1>16. QED
  BY <1>7, <1>8, <1>9, <1>10, <1>11, <1>12, <1>13, <1>14, <1>15
     DEF Next, ClientMessage, BackgroundEvent

LEMMA CarrierInvariant == Spec => []CarrierInv
BY CarrierInvInit, CarrierInvStep, TypeCorrect, PTL DEF Spec

LEMMA CarrierInvMeans == TypeOK /\ CarrierInv => OneCarrier /\ NoTokenLeak
<1> SUFFICES ASSUME TypeOK, CarrierInv PROVE OneCarrier /\ NoTokenLeak
  OBVIOUS
<1>1. OneCarrier
  BY DEF CarrierInv, CarriedOnce, OpenIsCarried, OneCarrier, Async
<1>2. NoTokenLeak
  BY DEF CarrierInv, OpenIsCarried, NoTokenLeak
<1>3. QED
  BY <1>1, <1>2

(* The closure of a request is in one place at a time, and as long as the  *)
(* request is unanswered it is in one: what takes it out of the job        *)
(* channel, off a thread, out of the event channel or out of               *)
(* pending_requests puts it into the next of them.                         *)
THEOREM NeverLostNorDoubled == Spec => []OneCarrier
BY CarrierInvariant, CarrierInvMeans, TypeCorrect, PTL

(* inflight_cancellations holds no token of a request nobody works on.     *)
THEOREM TokensAreReleased == Spec => []NoTokenLeak
BY CarrierInvariant, CarrierInvMeans, TypeCorrect, PTL

-----------------------------------------------------------------------------
(* DeferredOnce is not inductive: what allow_defer is worth is that a      *)
(* closure still allowed to defer, wherever it waits, is of a request that *)
(* was not deferred yet; and a request that was deferred was sent, so that *)
(* a dispatch starts it with a count of zero.                              *)
AllowFresh(s) == \A i \in DOMAIN s : s[i].allow => deferrals[s[i].req] = 0

ThreadsFresh ==
    \A w \in Workers : Busy(w) /\ thread[w].allow => deferrals[thread[w].req] = 0

MayDefer ==
    AllowFresh(jobs) /\ AllowFresh(events) /\ AllowFresh(pending) /\ ThreadsFresh

DeferredSeen == \A r \in Requests : deferrals[r] # 0 => Seen(r)

DeferInv == DeferredOnce /\ MayDefer /\ DeferredSeen

LEMMA FreshAppend ==
    ASSUME NEW S, NEW s \in Seq(S), NEW x \in S, AllowFresh(s),
           x.allow => deferrals[x.req] = 0
    PROVE  AllowFresh(Append(s, x))
<1>1. /\ DOMAIN s = 1..Len(s) /\ Len(s) \in Nat
      /\ DOMAIN Append(s, x) = 1..(Len(s) + 1)
      /\ \A i \in 1..Len(s) : Append(s, x)[i] = s[i]
      /\ Append(s, x)[Len(s) + 1] = x
  BY AppendProperties, LenProperties
<1>2. \A i \in 1..(Len(s) + 1) : i \in 1..Len(s) \/ i = Len(s) + 1
  BY <1>1
<1>3. QED
  BY <1>1, <1>2 DEF AllowFresh

LEMMA FreshTail ==
    ASSUME NEW S, NEW s \in Seq(S), s # <<>>, AllowFresh(s)
    PROVE  /\ AllowFresh(Tail(s))
           /\ Head(s).allow => deferrals[Head(s).req] = 0
<1>1. /\ DOMAIN s = 1..Len(s) /\ Len(s) \in Nat \ {0} /\ Head(s) = s[1]
      /\ DOMAIN Tail(s) = 1..(Len(s) - 1)
      /\ \A i \in 1..(Len(s) - 1) : Tail(s)[i] = s[i + 1]
  BY HeadTailProperties, LenProperties, EmptySeq
<1>2. \A i \in 1..(Len(s) - 1) : i + 1 \in 1..Len(s)
  BY <1>1
<1>3. QED
  BY <1>1, <1>2 DEF AllowFresh

LEMMA FreshConcat ==
    ASSUME NEW S, NEW s \in Seq(S), NEW t \in Seq(S), AllowFresh(s), AllowFresh(t)
    PROVE  AllowFresh(s \o t)
<1>1. /\ DOMAIN s = 1..Len(s) /\ Len(s) \in Nat /\ DOMAIN t = 1..Len(t) /\ Len(t) \in Nat
      /\ DOMAIN (s \o t) = 1..(Len(s) + Len(t))
      /\ \A i \in 1..(Len(s) + Len(t)) :
            (s \o t)[i] = IF i <= Len(s) THEN s[i] ELSE t[i - Len(s)]
  BY ConcatProperties, LenProperties
<1>2. \A i \in 1..(Len(s) + Len(t)) :
         IF i <= Len(s) THEN i \in 1..Len(s) ELSE i - Len(s) \in 1..Len(t)
  BY <1>1
<1>3. QED
  BY <1>1, <1>2 DEF AllowFresh

(* A step that defers nothing, seen from the four places. *)
LEMMA NothingDeferred ==
    ASSUME TypeOK, DeferInv, [Next]_vars, UNCHANGED deferrals,
           AllowFresh(jobs'), AllowFresh(events'), AllowFresh(pending'),
           \A w \in Workers : Busy(w)' /\ thread'[w].allow => deferrals[thread'[w].req] = 0
    PROVE  DeferInv'
<1>1. DeferredOnce' /\ MayDefer'
  BY DEF DeferInv, DeferredOnce, MayDefer, AllowFresh, ThreadsFresh
<1>2. DeferredSeen'
  BY SeenForever DEF DeferInv, DeferredSeen
<1>3. QED
  BY <1>1, <1>2 DEF DeferInv

LEMMA DeferInvStep == TypeOK /\ CarrierInv /\ DeferInv /\ [Next]_vars => DeferInv'
<1> SUFFICES ASSUME TypeOK, CarrierInv, DeferInv, [Next]_vars PROVE DeferInv'
  OBVIOUS
<1> USE DEF tableVars, loopVars, poolVars, boundVars
<1>1. AllowFresh(jobs) /\ AllowFresh(events) /\ AllowFresh(pending) /\ ThreadsFresh
  BY DEF DeferInv, MayDefer
<1>2. ASSUME UNCHANGED thread
      PROVE  \A w \in Workers : Busy(w)' /\ thread'[w].allow => deferrals[thread'[w].req] = 0
  BY <1>1, <1>2 DEF ThreadsFresh, Busy, Running
<1>3. ASSUME NEW r \in Requests, \/ HandleShutdown(r) \/ RejectParams(r)
                                 \/ RejectUnknown(r) \/ CancelRequest(r)
      PROVE  DeferInv'
  BY <1>1, <1>2, <1>3, NothingDeferred
     DEF HandleShutdown, RejectParams, RejectUnknown, CancelRequest
<1>4. CASE HandleExit \/ ChangeVfs \/ UNCHANGED vars
  BY <1>1, <1>2, <1>4, NothingDeferred DEF HandleExit, ChangeVfs, vars
<1>5. ASSUME NEW r \in Requests, DispatchAsync(r) PROVE DeferInv'
  <2> DEFINE j == RunJob([req |-> r, allow |-> TRUE], TRUE, revision)
  <2>1. j \in Jobs /\ j.req = r
    BY RunJobType DEF TypeOK, Runs, RunJob
  <2>2. deferrals[r] = 0
    BY <1>5 DEF DispatchAsync, DeferInv, DeferredSeen
  <2>3. jobs' = Append(jobs, j) /\ UNCHANGED <<thread, events, pending, deferrals>>
    BY <1>5 DEF DispatchAsync
  <2> HIDE DEF j
  <2>4. AllowFresh(jobs')
    BY <1>1, <2>1, <2>2, <2>3, FreshAppend DEF TypeOK
  <2>5. QED
    BY <1>1, <1>2, <2>3, <2>4, NothingDeferred
<1>6. CASE StartLongJob
  <2>1. PlainJob("long", NoReq) \in Jobs /\ ~PlainJob("long", NoReq).allow
    BY LongJobType DEF PlainJob
  <2>2. AllowFresh(jobs')
    BY <1>1, <1>6, <2>1, FreshAppend DEF StartLongJob, TypeOK
  <2>3. QED
    BY <1>1, <1>2, <1>6, <2>2, NothingDeferred DEF StartLongJob
<1>7. ASSUME NEW type, HandleEvent(type)
      PROVE  /\ AllowFresh(events')
             /\ Head(events).allow => deferrals[Head(events).req] = 0
  BY <1>1, <1>7, FreshTail DEF HandleEvent, TypeOK
<1>8. CASE HandleCompleted \/ HandleAborted
  <2>1. UNCHANGED <<jobs, thread, pending, deferrals>>
    BY <1>8 DEF HandleCompleted, HandleAborted
  <2>2. AllowFresh(events')
    BY <1>7, <1>8 DEF HandleCompleted, HandleAborted
  <2>3. QED
    BY <1>1, <1>2, <2>1, <2>2, NothingDeferred
<1>9. ASSUME NEW type, HandleEvent(type), NEW run \in Runs,
             run.allow => deferrals[run.req] = 0,
             pending' = Append(pending, run), UNCHANGED <<jobs, thread, deferrals>>
      PROVE  DeferInv'
  <2>1. AllowFresh(pending')
    BY <1>1, <1>9, FreshAppend DEF TypeOK
  <2>2. QED
    BY <1>1, <1>2, <1>7, <1>9, <2>1, NothingDeferred
<1>10. CASE HandleRetry
  <2> DEFINE run == [req |-> Head(events).req, allow |-> Head(events).allow]
  <2>1. run \in Runs
    BY <1>10, HandleEventType DEF HandleRetry, Runs
  <2>2. HandleEvent("retry") /\ pending' = Append(pending, run)
        /\ UNCHANGED <<jobs, thread, deferrals>>
    BY <1>10 DEF HandleRetry
  <2>3. run.allow => deferrals[run.req] = 0
    BY <1>7, <2>2
  <2> HIDE DEF run
  <2>4. QED
    BY <1>9, <2>1, <2>2, <2>3
<1>11. CASE HandleDecompiled
  <2> DEFINE run == [req |-> Head(events).req, allow |-> FALSE]
  <2>1. run \in Runs /\ ~run.allow
    BY <1>11, HandleEventType DEF HandleDecompiled, Runs
  <2>2. HandleEvent("decompiled") /\ pending' = Append(pending, run)
        /\ UNCHANGED <<jobs, thread, deferrals>>
    BY <1>11 DEF HandleDecompiled
  <2> HIDE DEF run
  <2>3. QED
    BY <1>9, <2>1, <2>2
<1>12. CASE HandleLoadFiles
  <2> DEFINE r == Head(events).req
             run == [req |-> r, allow |-> FALSE]
             j == PlainJob("decompile", r)
  <2>1. r \in Requests /\ HandleEvent("load") /\ UNCHANGED <<thread, deferrals>>
    BY <1>12, HandleEventType DEF HandleLoadFiles
  <2>2. run \in Runs /\ ~run.allow /\ j \in Jobs /\ ~j.allow
    BY <2>1, DecompileJobType DEF Runs, PlainJob
  <2>3. \/ pending' = Append(pending, run) /\ UNCHANGED jobs
        \/ jobs' = Append(jobs, j) /\ UNCHANGED pending
    BY <1>12 DEF HandleLoadFiles
  <2> HIDE DEF run, j, r
  <2>4. CASE pending' = Append(pending, run) /\ UNCHANGED jobs
    BY <1>9, <2>1, <2>2, <2>4
  <2>5. CASE jobs' = Append(jobs, j) /\ UNCHANGED pending
    <3>1. AllowFresh(jobs')
      BY <1>1, <2>2, <2>5, FreshAppend DEF TypeOK
    <3>2. QED
      BY <1>1, <1>2, <1>7, <2>1, <2>5, <3>1, NothingDeferred
  <2>6. QED
    BY <2>3, <2>4, <2>5
<1>13. CASE FinishIteration
  <2> DEFINE reruns == [i \in 1..Len(pending) |-> RunJob(pending[i], FALSE, revision')]
  <2>1. revision' \in Nat
    BY <1>13 DEF FinishIteration, TypeOK
  <2>2. reruns \in Seq(Jobs)
    BY <2>1, RerunsType DEF TypeOK
  <2>3. AllowFresh(reruns)
    <3>1. DOMAIN pending = 1..Len(pending)
      BY LenProperties DEF TypeOK
    <3>2. \A i \in 1..Len(pending) : /\ reruns[i].req = pending[i].req
                                     /\ reruns[i].allow = pending[i].allow
      BY DEF RunJob
    <3>3. DOMAIN reruns = 1..Len(pending)
      OBVIOUS
    <3> HIDE DEF reruns
    <3>4. QED
      BY <1>1, <3>1, <3>2, <3>3 DEF AllowFresh
  <2>4. jobs' = jobs \o reruns /\ pending' = <<>> /\ UNCHANGED <<thread, events, deferrals>>
    BY <1>13 DEF FinishIteration
  <2> HIDE DEF reruns
  <2>5. AllowFresh(jobs')
    BY <1>1, <2>2, <2>3, <2>4, FreshConcat DEF TypeOK
  <2>6. AllowFresh(pending')
    BY <2>4 DEF AllowFresh
  <2>7. QED
    BY <1>1, <1>2, <2>4, <2>5, <2>6, NothingDeferred
<1>14. ASSUME NEW w \in Workers, TakeJob(w) PROVE DeferInv'
  <2> DEFINE j == [Head(jobs) EXCEPT !.stage = "entered"]
  <2>1. jobs \in Seq(Jobs) /\ jobs # <<>> /\ jobs' = Tail(jobs)
    BY <1>14 DEF TakeJob, TypeOK
  <2>2. AllowFresh(jobs') /\ (Head(jobs).allow => deferrals[Head(jobs).req] = 0)
    BY <1>1, <2>1, FreshTail
  <2>3. Head(jobs) \in Jobs
    BY <2>1, HeadTailProperties
  <2>4. j.req = Head(jobs).req /\ j.allow = Head(jobs).allow
    BY <2>3 DEF Jobs, JobsOf
  <2>5. thread' = [thread EXCEPT ![w] = j] /\ UNCHANGED <<events, pending, deferrals>>
    BY <1>14 DEF TakeJob
  <2> HIDE DEF j
  <2>6. \A v \in Workers : thread'[v] = IF v = w THEN j ELSE thread[v]
    BY <2>5 DEF TypeOK
  <2>7. \A v \in Workers : Busy(v)' /\ thread'[v].allow => deferrals[thread'[v].req] = 0
    BY <1>1, <2>2, <2>4, <2>6 DEF ThreadsFresh, Busy, Running
  <2>8. QED
    BY <1>1, <2>2, <2>5, <2>7, NothingDeferred
<1>15. ASSUME NEW w \in Workers, WorkerStep(w) PROVE DeferInv'
  <2>1. Busy(w) /\ thread[w] \in Jobs /\ UNCHANGED <<pending, jobs>>
    BY <1>15, StepOfThread
  <2>2. ASSUME NEW stage \in Stages, thread' = [thread EXCEPT ![w].stage = stage],
               UNCHANGED <<events, deferrals>>
        PROVE  DeferInv'
    <3>1. /\ \A v \in Workers : v # w => thread'[v] = thread[v]
          /\ thread'[w].req = thread[w].req /\ thread'[w].allow = thread[w].allow
      BY <2>1, <2>2, ThreadAdvances
    <3>2. \A v \in Workers : Busy(v)' /\ thread'[v].allow => deferrals[thread'[v].req] = 0
      BY <1>1, <2>1, <3>1 DEF ThreadsFresh, Busy, Running
    <3>3. QED
      BY <1>1, <2>1, <2>2, <3>2, NothingDeferred
  <2>3. ASSUME NEW x \in {Idle, Dead}, thread' = [thread EXCEPT ![w] = x]
        PROVE  \A v \in Workers : Busy(v)' => v # w /\ Busy(v) /\ thread'[v] = thread[v]
    <3>1. \A v \in Workers : thread'[v] = IF v = w THEN x ELSE thread[v]
      BY <2>3 DEF TypeOK
    <3>2. x.kind \in {"idle", "dead"}
      BY DEF Idle, Dead
    <3>3. QED
      BY <3>1, <3>2 DEF Busy, Running
  <2>4. ASSUME NEW x \in {Idle, Dead}, thread' = [thread EXCEPT ![w] = x],
               UNCHANGED <<events, deferrals>>
        PROVE  DeferInv'
    <3>1. \A v \in Workers : Busy(v)' /\ thread'[v].allow => deferrals[thread'[v].req] = 0
      BY <1>1, <2>3, <2>4 DEF ThreadsFresh
    <3>2. QED
      BY <1>1, <2>1, <2>4, <3>1, NothingDeferred
  <2>5. ASSUME NEW e \in Events, EndWith(w, e), e.req = thread[w].req,
               e.allow => thread[w].allow
        PROVE  /\ events' = Append(events, e)
               /\ AllowFresh(events')
               /\ \A v \in Workers : Busy(v)' => v # w /\ Busy(v) /\ thread'[v] = thread[v]
    <3>1. e.allow => deferrals[e.req] = 0
      BY <1>1, <2>1, <2>5 DEF ThreadsFresh
    <3>2. AllowFresh(events')
      BY <1>1, <2>5, <3>1, FreshAppend DEF EndWith, TypeOK
    <3>3. QED
      BY <2>3, <2>5, <3>2 DEF EndWith
  <2>6. ASSUME NEW e \in Events, EndWith(w, e), e.req = thread[w].req,
               e.allow => thread[w].allow, UNCHANGED deferrals
        PROVE  DeferInv'
    <3>1. \A v \in Workers : Busy(v)' /\ thread'[v].allow => deferrals[thread'[v].req] = 0
      BY <1>1, <2>5, <2>6 DEF ThreadsFresh
    <3>2. QED
      BY <1>1, <2>1, <2>5, <2>6, <3>1, NothingDeferred
  <2>7. ASSUME NEW e \in Events, EndWith(w, e), e.req = thread[w].req,
               thread[w].allow, e.allow = FALSE,
               deferrals' = [deferrals EXCEPT ![e.req] = @ + 1]
        PROVE  DeferInv'
    <3> DEFINE r == e.req
    <3>1. r \in Requests
      BY DEF Events
    <3>2. /\ Positions(jobs, r) = {} /\ Positions(events, r) = {}
          /\ Positions(pending, r) = {} /\ InThreads(r) = {w} /\ Carriers(r) = 1
      BY <2>1, <2>7, <3>1, BusyCarries DEF CarrierInv
    <3>3. deferrals[r] = 0
      BY <1>1, <2>1, <2>7 DEF ThreadsFresh
    <3>4. \A q \in Requests : deferrals'[q] = IF q = r THEN 1 ELSE deferrals[q]
      BY <2>7, <3>1, <3>3 DEF TypeOK
    <3> HIDE DEF r
    <3>5. DeferredOnce'
      BY <3>4 DEF DeferInv, DeferredOnce
    <3>6. DeferredSeen'
      <4>1. Seen(r)
        BY <3>1, <3>2 DEF CarrierInv, CarriedOnce
      <4>2. QED
        BY <3>1, <3>4, <4>1, SeenForever DEF DeferInv, DeferredSeen
    <3>7. \A q : q # r => deferrals'[q] = deferrals[q]
      BY <2>7 DEF r
    <3>8. ASSUME NEW s, AllowFresh(s), Positions(s, r) = {}
          PROVE  \A i \in DOMAIN s : s[i].allow => deferrals'[s[i].req] = 0
      <4>1. \A i \in DOMAIN s : s[i].req # r
        BY <3>8 DEF Positions
      <4>2. QED
        BY <3>7, <3>8, <4>1 DEF AllowFresh
    <3>9. AllowFresh(jobs)' /\ AllowFresh(pending)'
      BY <1>1, <2>1, <3>2, <3>8 DEF AllowFresh
    <3>10. AllowFresh(events)'
      <4>1. events' = Append(events, e)
        BY <2>7 DEF EndWith
      <4>2. /\ DOMAIN events = 1..Len(events) /\ Len(events) \in Nat
            /\ DOMAIN events' = 1..(Len(events) + 1)
            /\ \A i \in 1..Len(events) : events'[i] = events[i]
            /\ events'[Len(events) + 1] = e
        BY <4>1, AppendProperties, LenProperties DEF TypeOK
      <4>3. \A i \in DOMAIN events' :
               events'[i] = e \/ (i \in DOMAIN events /\ events'[i] = events[i])
        BY <4>2
      <4>4. \A i \in DOMAIN events : events[i].allow => deferrals'[events[i].req] = 0
        BY <1>1, <3>2, <3>8
      <4>5. QED
        BY <2>7, <4>3, <4>4 DEF AllowFresh
    <3>11. ThreadsFresh'
      <4>1. \A v \in Workers : Busy(v)' => v # w /\ Busy(v) /\ thread'[v] = thread[v]
        BY <2>3, <2>7 DEF EndWith
      <4>2. \A v \in Workers : v # w /\ Busy(v) => thread[v].req # r
        BY <3>2 DEF InThreads
      <4>3. QED
        BY <1>1, <3>7, <4>1, <4>2 DEF ThreadsFresh
    <3>12. QED
      BY <3>5, <3>6, <3>9, <3>10, <3>11 DEF DeferInv, MayDefer
  <2>8. QED
    BY <1>15, <2>2, <2>4, <2>6, <2>7, StepOfThread
<1>16. QED
  BY <1>3, <1>4, <1>5, <1>6, <1>8, <1>10, <1>11, <1>12, <1>13, <1>14, <1>15
     DEF Next, ClientMessage, BackgroundEvent

(* A request is sent back for library files at most once, however many     *)
(* pending writes cancel its runs before and after.                        *)
THEOREM DeferralHappensOnce == Spec => []DeferredOnce
<1>1. Init => DeferInv
  BY DEF Init, DeferInv, DeferredOnce, MayDefer, AllowFresh, ThreadsFresh, DeferredSeen,
         Busy, Running, Idle
<1>2. DeferInv => DeferredOnce
  BY DEF DeferInv
<1>3. QED
  BY <1>1, <1>2, DeferInvStep, TypeCorrect, CarrierInvariant, PTL DEF Spec

=============================================================================
