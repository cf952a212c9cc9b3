----------------------------- MODULE BuildTool -----------------------------
(***************************************************************************)
(* A sync's build tool: run_command_streaming (project-model/src/          *)
(* build_system.rs) starts a process, two threads read its streams and     *)
(* hand every line over a bounded channel to one loop, which logs the line *)
(* and takes the workspace model off stdout.  What the sync makes of the   *)
(* outcome is Gradle's (gradle/runner.rs) or Maven's (maven/runner.rs).    *)
(*                                                                         *)
(* The process follows a script, the lines it writes to either stream in   *)
(* the order it writes them.  A full pipe blocks it, and what it started   *)
(* may keep a stream open after it has ended.  A line is one of            *)
(* "begin", "end" (contain a marker), "json" (a whole model), "garbled"    *)
(* (not UTF-8) and "plain".                                                *)
(***************************************************************************)
EXTENDS Naturals, Sequences, FiniteSets

CONSTANTS Scripts,      \* the scripts a tool may follow
          CommandCounts,\* how many commands a build system tries: {1} or {3}
          PipeSize,     \* lines in a pipe
          ChannelSize,  \* lines in a channel
          TailMax,      \* TAIL_MAX_LINES
          ModelMax      \* MODEL_JSON_MAX_BYTES, in lines

Streams == {"stdout", "stderr"}
Lines == {"begin", "end", "json", "garbled", "plain"}
ScriptLines == [on : Streams, line : Lines]

ASSUME ToolAssumption ==
    /\ Scripts # {} /\ Scripts \subseteq Seq(ScriptLines)
    /\ CommandCounts \subseteq Nat \ {0}
    /\ PipeSize \in Nat \ {0} /\ ChannelSize \in Nat \ {0}
    /\ TailMax \in Nat /\ ModelMax \in Nat

VARIABLES commands,     \* how many commands this sync may try
          attempt,      \* the number of the one it is at
          tool,         \* "none", "running", "ok" or "failed"
          script,       \* what the tool writes
          written,      \* how much of it has been written
          pipe,         \* per stream, what has been written to it
          streams,      \* the streams that are open
          readers,      \* the reader threads that run
          read,         \* per stream, lines its reader has taken from the pipe
          sent,         \* per stream, lines its reader has sent
          received,     \* per stream, lines the loop has received
          drained,      \* stdout_done, stderr_done
          tail,         \* the last lines received
          capturing,    \* capturing_model
          model,        \* model_json: None or the lines captured
          truncated,    \* model_truncated
          primary,      \* the tail of the first command
          logged,       \* the command whose output the log file holds, or 0
          outcome       \* what the sync has returned
pipeVars == <<readers, read, sent>>
loopVars == <<received, drained, tail, capturing, model, truncated>>
toolVars == <<commands, attempt, tool, script, written, pipe, streams, pipeVars, loopVars,
              primary, logged, outcome>>

NoModel == <<"none">>
Running == outcome.kind = "running"

(* A reader has at most one line in hand: it waits in send(). *)
Holding(s) == read[s] > sent[s]
Disconnected(s) == s \notin readers /\ sent[s] = received[s]

Fresh ==
    /\ script' = <<>> /\ written' = 0 /\ pipe' = [s \in Streams |-> <<>>] /\ streams' = {}
    /\ readers' = {} /\ read' = [s \in Streams |-> 0] /\ sent' = [s \in Streams |-> 0]
    /\ received' = [s \in Streams |-> 0] /\ drained' = {} /\ tail' = <<>>
    /\ capturing' = FALSE /\ model' = NoModel /\ truncated' = FALSE

ToolStart ==
    /\ attempt = 1 /\ tool = "none"
    /\ script = <<>> /\ written = 0 /\ pipe = [s \in Streams |-> <<>>] /\ streams = {}
    /\ readers = {} /\ read = [s \in Streams |-> 0] /\ sent = [s \in Streams |-> 0]
    /\ received = [s \in Streams |-> 0] /\ drained = {} /\ tail = <<>>
    /\ capturing = FALSE /\ model = NoModel /\ truncated = FALSE
    /\ primary = <<>> /\ logged = 0
    /\ outcome = [kind |-> "running", tail |-> <<>>, of |-> 0]

-----------------------------------------------------------------------------
(* The process *)

(* spawn: both streams are piped, each gets a reader, and File::create       *)
(* empties the log of the command before.                                    *)
MaySpawn == Running /\ tool = "none"
Spawn(s) ==
    /\ MaySpawn
    /\ tool' = "running" /\ script' = s
    /\ streams' = Streams /\ readers' = Streams
    /\ logged' = attempt
    /\ UNCHANGED <<commands, attempt, written, pipe, read, sent, loopVars, primary, outcome>>

(* A line goes to a pipe with room, or is lost in one that nobody reads.     *)
MayWrite ==
    /\ tool = "running" /\ written < Len(script)
    /\ LET s == script[written + 1].on
       IN s \in readers => Len(pipe[s]) - read[s] < PipeSize
WriteLine ==
    /\ MayWrite
    /\ written' = written + 1
    /\ pipe' = [pipe EXCEPT ![script[written + 1].on] = Append(@, script[written + 1].line)]
    /\ UNCHANGED <<commands, attempt, tool, script, streams, pipeVars, loopVars,
                   primary, logged, outcome>>

MayExit == tool = "running" /\ written = Len(script)
ExitTool(status) ==
    /\ MayExit
    /\ tool' = status
    /\ UNCHANGED <<commands, attempt, script, written, pipe, streams, pipeVars, loopVars,
                   primary, logged, outcome>>

(* The last process that has the stream open closes it, before or after the  *)
(* tool itself ends.                                                         *)
MayClose(s) == s \in streams /\ written = Len(script)
CloseStream(s) ==
    /\ MayClose(s)
    /\ streams' = streams \ {s}
    /\ UNCHANGED <<commands, attempt, tool, script, written, pipe, pipeVars, loopVars,
                   primary, logged, outcome>>

-----------------------------------------------------------------------------
(* The reader threads *)

MayRead(s) == s \in readers /\ ~Holding(s) /\ read[s] < Len(pipe[s])
ReadLine(s) ==
    /\ MayRead(s)
    /\ read' = [read EXCEPT ![s] = @ + 1]
    /\ UNCHANGED <<commands, attempt, tool, script, written, pipe, streams, readers, sent,
                   loopVars, primary, logged, outcome>>

MaySend(s) ==
    s \in readers /\ Holding(s) /\ Running /\ sent[s] - received[s] < ChannelSize
SendLine(s) ==
    /\ MaySend(s)
    /\ sent' = [sent EXCEPT ![s] = @ + 1]
    /\ UNCHANGED <<commands, attempt, tool, script, written, pipe, streams, readers, read,
                   loopVars, primary, logged, outcome>>

(* At the end of the stream, or when send() fails: the loop has returned and *)
(* dropped its receivers.                                                    *)
MayEnd(s) ==
    /\ s \in readers
    /\ \/ ~Holding(s) /\ read[s] = Len(pipe[s]) /\ s \notin streams
       \/ Holding(s) /\ ~Running
ReaderEnds(s) ==
    /\ MayEnd(s)
    /\ readers' = readers \ {s}
    /\ UNCHANGED <<commands, attempt, tool, script, written, pipe, streams, read, sent,
                   loopVars, primary, logged, outcome>>

-----------------------------------------------------------------------------
(* The loop: select! takes a line of either channel that has one *)

(* Mutant: markers are looked for in the merged output. *)
CapturesMerged(s) == TRUE

(* "Model markers are printed on stdout only" *)
Captures(s) == s = "stdout"

(* Mutant: stdout is read to its end before stderr. *)
ReadyInTurn(s) ==
    sent[s] > received[s] /\ (s = "stdout" \/ "stdout" \in drained)

Ready(s) == sent[s] > received[s]

(* BufReader::lines gives an error for a line that is not UTF-8, and         *)
(* unwrap_or_default makes it an empty one.                                  *)
LineOf(line) == IF line = "garbled" THEN "" ELSE line

Capture(line) ==
    IF capturing
    THEN /\ capturing' = (line # "end")
         /\ model' = IF line = "end" \/ truncated THEN model ELSE Append(model, line)
         /\ truncated' = (truncated \/ Len(model') > ModelMax)
    ELSE /\ capturing' = (line = "begin")
         /\ model' = IF line = "begin" THEN <<>> ELSE model
         /\ UNCHANGED truncated

MayReceive(s) == Running /\ Ready(s)
ReceiveLine(s) ==
    /\ MayReceive(s)
    /\ LET line == LineOf(pipe[s][received[s] + 1])
           grown == Append(tail, [on |-> s, line |-> line])
       IN /\ tail' = IF Len(grown) > TailMax THEN Tail(grown) ELSE grown
          /\ IF Captures(s) THEN Capture(line)
             ELSE UNCHANGED <<capturing, model, truncated>>
    /\ received' = [received EXCEPT ![s] = @ + 1]
    /\ UNCHANGED <<commands, attempt, tool, script, written, pipe, streams, pipeVars, drained,
                   primary, logged, outcome>>

MayDrain(s) == Running /\ tool # "none" /\ Disconnected(s) /\ s \notin drained
Drain(s) ==
    /\ MayDrain(s)
    /\ drained' = drained \cup {s}
    /\ UNCHANGED <<commands, attempt, tool, script, written, pipe, streams, pipeVars, received,
                   tail, capturing, model, truncated, primary, logged, outcome>>

-----------------------------------------------------------------------------
(* What the sync returns *)

(* A log file is kept for a SyncError and removed otherwise (main_loop.rs).  *)
Return(kind, of, lines) ==
    /\ outcome' = [kind |-> kind, tail |-> lines, of |-> of]
    /\ logged' = IF kind = "SyncError" THEN logged ELSE 0
    /\ UNCHANGED <<commands, attempt, tool, script, written, pipe, streams, pipeVars, loopVars,
                   primary>>

SpawnFails == MaySpawn /\ Return("io", attempt, <<>>)

(* Creating the log, writing a line to it or flushing it fails: ? returns at *)
(* once, and nobody waits for the tool.                                      *)
LogFails ==
    /\ Running /\ tool # "none"
    /\ \/ \A s \in Streams : received[s] = 0
       \/ \E s \in Streams : Ready(s)
       \/ drained = Streams
    /\ Return("io", attempt, <<>>)

(* join and wait: the loop is over, the threads are, and the tool has ended. *)
Waited == Running /\ drained = Streams /\ tool \in {"ok", "failed"}

(* Maven: a command that fails is followed by one that does less.            *)
MayRetry == Waited /\ tool = "failed" /\ attempt < commands
Retry ==
    /\ MayRetry
    /\ attempt' = attempt + 1 /\ tool' = "none"
    /\ primary' = IF attempt = 1 THEN tail ELSE primary
    /\ Fresh
    /\ UNCHANGED <<commands, logged, outcome>>

(* serde_json::from_str, after trim: one line is a whole model.              *)
IsModel(lines) ==
    \E k \in DOMAIN lines : lines[k] = "json" /\ \A l \in DOMAIN lines \ {k} : lines[l] = ""

(* A failure is reported with the output of the first command.               *)
MayConclude == Waited /\ (tool = "failed" => attempt = commands)
Conclude ==
    /\ MayConclude
    /\ \/ tool = "failed" /\ Return("SyncError", 1, IF attempt = 1 THEN tail ELSE primary)
       \/ tool = "ok" /\ (truncated \/ model = NoModel) /\ Return("SyncError", attempt, tail)
       \/ tool = "ok" /\ ~truncated /\ model # NoModel
          /\ Return(IF IsModel(model) THEN "graph" ELSE "parse", attempt, <<>>)

ToolStep ==
    \/ \E s \in Scripts : Spawn(s)
    \/ WriteLine
    \/ \E status \in {"ok", "failed"} : ExitTool(status)
    \/ \E s \in Streams : \/ CloseStream(s) \/ ReadLine(s) \/ SendLine(s)
                          \/ ReaderEnds(s) \/ ReceiveLine(s) \/ Drain(s)
    \/ Retry \/ Conclude
ToolNext == ToolStep \/ SpawnFails \/ LogFails

ToolSpec == ToolStart /\ commands \in CommandCounts /\ [][ToolNext]_toolVars

-----------------------------------------------------------------------------
(* Properties *)

(* What the tool wrote to stdout behind its i-th line, up to an end marker   *)
Begins == {k \in DOMAIN pipe["stdout"] : pipe["stdout"][k] = "begin"}
EndsAfter(i) == {k \in DOMAIN pipe["stdout"] : k > i /\ pipe["stdout"][k] = "end"}
Stop(i) ==
    IF EndsAfter(i) = {} THEN Len(pipe["stdout"]) + 1
    ELSE CHOOSE k \in EndsAfter(i) : \A l \in EndsAfter(i) : k <= l
Shown(i) == SubSeq(pipe["stdout"], i + 1, Stop(i) - 1)
IsClean(lines) == \A k \in DOMAIN lines : lines[k] \in {"json", "garbled"}
HasModel(lines) ==
    IsClean(lines) /\ Cardinality({k \in DOMAIN lines : lines[k] = "json"}) = 1

(* How many lines of its stream follow the k-th of a merged list of lines    *)
Behind(lines, k) ==
    Cardinality({l \in DOMAIN lines : l > k /\ lines[l].on = lines[k].on})

(* The lines kept of a stream are the last of the first upTo it was given    *)
LastOf(lines, upTo) ==
    \A k \in DOMAIN lines :
        LET s == lines[k].on
            n == upTo[s] - Behind(lines, k)
        IN n \in DOMAIN pipe[s] /\ lines[k].line = LineOf(pipe[s][n])

(* A sync yields a graph only from a command that ended well and wrote a     *)
(* whole model behind a marker, and from each that did so once, however its  *)
(* two streams were merged on the way; a failure of the last command shows   *)
(* the last lines it wrote.                                                  *)
OutcomeIsTools ==
    /\ outcome.kind = "graph" => tool = "ok" /\ \E i \in Begins : HasModel(Shown(i))
    /\ tool = "ok" /\ Cardinality(Begins) = 1
       /\ (\A i \in Begins : HasModel(Shown(i)) /\ Len(Shown(i)) <= ModelMax) =>
            outcome.kind \in {"running", "io", "graph"}
    /\ outcome.kind = "SyncError" /\ outcome.of = attempt =>
            LastOf(outcome.tail, [s \in Streams |-> Len(pipe[s])])

(* The tool, the readers and the loop never wait for each other for ever:    *)
(* as long as the sync has not returned, or has left a thread or the tool    *)
(* behind, one of them has a step that is not a failure.                     *)
Over == ~Running /\ tool # "running" /\ readers = {}
MayStep ==
    \/ MaySpawn \/ MayWrite \/ MayExit \/ MayRetry \/ MayConclude
    \/ \E s \in Streams : \/ MayClose(s) \/ MayRead(s) \/ MaySend(s)
                          \/ MayEnd(s) \/ MayReceive(s) \/ MayDrain(s)
NothingStuck == Over \/ MayStep
=============================================================================
