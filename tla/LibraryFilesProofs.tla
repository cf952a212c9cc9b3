------------------------- MODULE LibraryFilesProofs -------------------------
(***************************************************************************)
(* What holds of LibraryFiles for any files, requests and needs, and       *)
(* however many writes fail, loads prune and servers die.                  *)
(***************************************************************************)
EXTENDS LibraryFiles, TLAPS, SequenceTheorems, FiniteSetTheorems

-----------------------------------------------------------------------------
(* The invariants.                                                         *)

Texts == ClassFiles \X {"part", "whole"}

Jobs == [files : SUBSET ClassFiles, step : Steps, file : ClassFiles \cup {"none"},
         produced : Seq(Texts)]

Event == [event : {"load"}, request : Requests, files : SUBSET Files]
             \cup [event : {"decompiled"}, request : Requests, files : Seq(Texts)]

Typed ==
    /\ TypeOK
    /\ job \in [Requests -> Jobs] /\ events \in Seq(Event)

(* At most one event of the channel is about a request.                    *)
Apart(evs) ==
    \A n, m \in DOMAIN evs : evs[n].request = evs[m].request => n = m

(* What a job at this step knows of its file.                              *)
Steady(j) ==
    /\ j.step # "next" => j.file \in ClassFiles
    /\ j.step = "writing" => disk[j.file] # "none"
    /\ j.step = "lost" => j.file \in spoilt
    /\ j.step = "read" => disk[j.file] # "none" \/ j.file \in spoilt

JobsSteady == \A r \in Requests : Steady(job[r])

Arrived(f) == vfs[f] # "none" \/ f \in spoilt

Made(produced, f) == \E n \in DOMAIN produced : produced[n][1] = f

InJob(j, f) == f \in j.files \/ (j.step # "next" /\ j.file = f) \/ Made(j.produced, f)

InEvent(e, f) ==
    \/ e.event = "load" /\ f \in e.files
    \/ e.event = "decompiled" /\ Made(e.files, f)

(* Each file a deferred request needs is in the database, or spoilt, or    *)
(* with whatever is under way for the request.                             *)
RetriedHas(r) == request[r] = "retried" => \A f \in Needs[r] : Arrived(f)

DecompilingHas(r) ==
    request[r] = "decompiling" => \A f \in Needs[r] : Arrived(f) \/ InJob(job[r], f)

EventHas(e) == \A f \in Needs[e.request] : Arrived(f) \/ InEvent(e, f)

OnTheWay ==
    /\ \A r \in Requests : RetriedHas(r) /\ DecompilingHas(r)
    /\ \A n \in DOMAIN events : EventHas(events[n])

(* What TextsAreWhole says of sources and of the cache.                    *)
CacheIsWhole ==
    /\ \A f \in SourceFiles : vfs[f] \in {"none", "whole"}
    /\ failures = 0 /\ crashes = 0 =>
          \A f \in Files :
              disk[f] = "part" => \E r \in Requests : Working(r, "writing") /\ job[r].file = f

(* The inductive invariant: all of this together.                          *)
FilesInv ==
    /\ Typed /\ Apart(events) /\ JobsSteady /\ OnTheWay
    /\ NullHasCause /\ CacheIsWhole

(* A job has files its request needs, and if nothing failed or crashed it  *)
(* has read part of a class only where another request needs it too.       *)
Calm == failures = 0 /\ crashes = 0

PartsShared(produced) ==
    \A n \in DOMAIN produced : produced[n][2] = "part" => Shared(produced[n][1])

JobReads(r) ==
    /\ job[r].files \subseteq Needs[r]
    /\ job[r].step # "next" => job[r].file \in Needs[r]
    /\ Calm => PartsShared(job[r].produced)

EventReads(e) ==
    /\ e.event = "load" => e.files \subseteq Needs[e.request]
    /\ e.event = "decompiled" /\ Calm => PartsShared(e.files)

ReadInv ==
    /\ \A r \in Requests : JobReads(r)
    /\ \A n \in DOMAIN events : EventReads(events[n])
    /\ Calm => \A f \in ClassFiles : vfs[f] = "part" => Shared(f)

-----------------------------------------------------------------------------
(* Sequences, and what the invariant says of one request.                  *)

LEMMA Appended ==
    ASSUME NEW S, NEW s \in Seq(S), NEW e \in S
    PROVE  /\ Append(s, e) \in Seq(S) /\ Len(s) \in Nat
           /\ \A i \in DOMAIN s : i \in DOMAIN Append(s, e) /\ Append(s, e)[i] = s[i]
           /\ Len(s) + 1 \in DOMAIN Append(s, e) /\ Append(s, e)[Len(s) + 1] = e
           /\ \A i \in DOMAIN Append(s, e) : i \in DOMAIN s \/ i = Len(s) + 1
<1>1. /\ Append(s, e) \in Seq(S) /\ Len(Append(s, e)) = Len(s) + 1
      /\ \A i \in 1..Len(s) : Append(s, e)[i] = s[i]
      /\ Append(s, e)[Len(s) + 1] = e
  BY AppendProperties
<1>2. /\ Len(s) \in Nat /\ DOMAIN s = 1..Len(s)
      /\ DOMAIN Append(s, e) = 1..Len(s) + 1
  BY <1>1, LenProperties
<1>. QED
  BY <1>1, <1>2

LEMMA Tailed ==
    ASSUME NEW S, NEW s \in Seq(S), s # << >>
    PROVE  /\ Head(s) \in S /\ Tail(s) \in Seq(S)
           /\ 1 \in DOMAIN s /\ Head(s) = s[1]
           /\ \A i \in DOMAIN Tail(s) :
                 i \in Nat \ {0} /\ i + 1 \in DOMAIN s /\ Tail(s)[i] = s[i + 1]
<1>1. /\ Head(s) \in S /\ Tail(s) \in Seq(S) /\ Len(Tail(s)) = Len(s) - 1
      /\ \A i \in 1..Len(Tail(s)) : Tail(s)[i] = s[i + 1]
  BY HeadTailProperties
<1>2. /\ Len(s) \in Nat \ {0} /\ DOMAIN s = 1..Len(s) /\ DOMAIN Tail(s) = 1..Len(s) - 1
      /\ Head(s) = s[1]
  BY <1>1, LenProperties, EmptySeq
<1>3. \A i \in DOMAIN Tail(s) :
          i \in Nat \ {0} /\ i + 1 \in DOMAIN s /\ Tail(s)[i] = s[i + 1]
  BY <1>1, <1>2
<1>. QED
  BY <1>1, <1>2, <1>3

LEMMA NeedsAreFiles ==
    /\ IsFiniteSet(Files) /\ SourceFiles \cap ClassFiles = {}
    /\ \A r \in Requests : Needs[r] \subseteq Files
    /\ SourceFiles \subseteq Files /\ ClassFiles \subseteq Files
BY LibraryFilesAssumption DEF Files

LEMMA NoJobTyped ==
    /\ NoJob \in Jobs /\ NoJob.files = {} /\ NoJob.step = "next" /\ NoJob.produced = << >>
    /\ \A f : ~InJob(NoJob, f)
    /\ Steady(NoJob)
<1>1. /\ NoJob.files = {} /\ NoJob.step = "next" /\ NoJob.file = "none"
      /\ NoJob.produced = << >>
  BY DEF NoJob
<1>2. << >> \in Seq(Texts) /\ DOMAIN << >> = {}
  BY EmptySeq, LenProperties
<1>3. NoJob \in Jobs
  BY <1>2 DEF Jobs, NoJob, Steps
<1>. QED
  BY <1>1, <1>2, <1>3 DEF InJob, Made, Steady

LEMMA JobTyped ==
    ASSUME Typed, NEW r \in Requests
    PROVE  /\ job[r] \in Jobs /\ job[r].files \subseteq ClassFiles /\ job[r].step \in Steps
           /\ job[r].produced \in Seq(Texts) /\ job[r].file \in ClassFiles \cup {"none"}
           /\ request[r] # "decompiling" => job[r] = NoJob
           /\ request[r] \in RequestStates
<1>1. job[r] \in Jobs
  BY DEF Typed
<1>. QED
  BY <1>1 DEF Typed, TypeOK, Jobs

LEMMA EventTyped ==
    ASSUME Typed, NEW n \in DOMAIN events
    PROVE  /\ events[n] \in Event /\ events[n].request \in Requests
           /\ request[events[n].request] = "deferred"
<1>1. events \in Seq(Event) /\ n \in 1..Len(events)
  BY LenProperties DEF Typed
<1>2. events[n] \in Event
  BY <1>1, ElementOfSeq
<1>. QED
  BY <1>2 DEF Typed, TypeOK

(* The event the main loop takes is the only one about its request.        *)
LEMMA TakenEvent ==
    ASSUME FilesInv, events # << >>
    PROVE  /\ Head(events) \in Event /\ Head(events).request \in Requests
           /\ request[Head(events).request] = "deferred"
           /\ job[Head(events).request] = NoJob
           /\ EventHas(Head(events))
           /\ Tail(events) \in Seq(Event) /\ Apart(Tail(events))
           /\ \A n \in DOMAIN Tail(events) :
                 /\ Tail(events)[n] \in Event
                 /\ Tail(events)[n].request \in Requests
                 /\ Tail(events)[n].request # Head(events).request
                 /\ request[Tail(events)[n].request] = "deferred"
                 /\ EventHas(Tail(events)[n])
<1>1. /\ Head(events) \in Event /\ Tail(events) \in Seq(Event)
      /\ 1 \in DOMAIN events /\ Head(events) = events[1]
      /\ \A n \in DOMAIN Tail(events) :
            n \in Nat \ {0} /\ n + 1 \in DOMAIN events /\ Tail(events)[n] = events[n + 1]
  BY Tailed DEF FilesInv, Typed
<1>2. Head(events).request \in Requests /\ request[Head(events).request] = "deferred"
  BY <1>1, EventTyped DEF FilesInv
<1>3. job[Head(events).request] = NoJob /\ EventHas(Head(events))
  BY <1>1, <1>2, JobTyped DEF FilesInv, OnTheWay
<1>4. ASSUME NEW n \in DOMAIN Tail(events)
      PROVE  /\ Tail(events)[n] \in Event
             /\ Tail(events)[n].request \in Requests
             /\ Tail(events)[n].request # Head(events).request
             /\ request[Tail(events)[n].request] = "deferred"
             /\ EventHas(Tail(events)[n])
  <2>1. n + 1 \in DOMAIN events /\ n + 1 # 1 /\ Tail(events)[n] = events[n + 1]
    BY <1>1
  <2>2. EventHas(events[n + 1]) /\ events[n + 1].request # events[1].request
    BY <1>1, <2>1 DEF FilesInv, OnTheWay, Apart
  <2>. QED
    BY <1>1, <2>1, <2>2, EventTyped DEF FilesInv
<1>5. Apart(Tail(events))
  <2>. SUFFICES ASSUME NEW n \in DOMAIN Tail(events), NEW m \in DOMAIN Tail(events),
                       Tail(events)[n].request = Tail(events)[m].request
                PROVE  n = m
    BY DEF Apart
  <2>1. n + 1 = m + 1
    BY <1>1 DEF FilesInv, Apart
  <2>2. n \in Nat /\ m \in Nat
    BY <1>1
  <2>. QED
    BY <2>1, <2>2
<1>. QED
  BY <1>1, <1>2, <1>3, <1>4, <1>5

(* Files that have arrived stay so, and so do those spoilt.                *)
LEMMA ArrivedStays ==
    ASSUME FilesInv, \A f \in Files : vfs[f] # "none" => vfs'[f] # "none",
           spoilt \subseteq spoilt'
    PROVE  /\ \A r \in Requests : \A f \in Needs[r] : Arrived(f) => Arrived(f)'
           /\ \A r \in Requests :
                 /\ RetriedHas(r) /\ request'[r] = request[r] => RetriedHas(r)'
                 /\ DecompilingHas(r) /\ request'[r] = request[r] /\ job'[r] = job[r]
                       => DecompilingHas(r)'
           /\ \A e \in Event : e.request \in Requests /\ EventHas(e) => EventHas(e)'
           /\ NullHasCause => \A r \in Requests :
                 request'[r] = request[r] => (request'[r] = "null" => Needs[r] \cap spoilt' # {})
<1>1. \A r \in Requests : \A f \in Needs[r] : Arrived(f) => Arrived(f)'
  BY NeedsAreFiles DEF Arrived
<1>2. \A r \in Requests : RetriedHas(r) /\ request'[r] = request[r] => RetriedHas(r)'
  BY <1>1 DEF RetriedHas
<1>3. \A r \in Requests :
          DecompilingHas(r) /\ request'[r] = request[r] /\ job'[r] = job[r] => DecompilingHas(r)'
  BY <1>1 DEF DecompilingHas, InJob
<1>4. \A e \in Event : e.request \in Requests /\ EventHas(e) => EventHas(e)'
  BY <1>1 DEF EventHas
<1>. QED
  BY <1>1, <1>2, <1>3, <1>4 DEF NullHasCause

-----------------------------------------------------------------------------
(* Requests and the main loop.                                             *)

(* A request that has no job and no event goes on.                         *)
LEMMA RequestKeeps ==
    ASSUME FilesInv, NEW r \in Requests, request[r] \in {"new", "retried"},
           NEW x \in {"answered", "null", "deferred"}, request' = [request EXCEPT ![r] = x],
           UNCHANGED <<disk, vfs, job, spoilt, bounds>>,
           x = "null" => Needs[r] \cap spoilt # {},
           \/ events' = events
           \/ x = "deferred" /\ \E e \in Event :
                 e.request = r /\ EventHas(e) /\ events' = Append(events, e)
    PROVE  FilesInv'
<1>1. /\ request' \in [Requests -> RequestStates] /\ request'[r] = x
      /\ \A q \in Requests \ {r} : request'[q] = request[q]
  BY DEF FilesInv, Typed, TypeOK, RequestStates
<1>2. UNCHANGED <<disk, vfs, job, spoilt, failures, prunes, crashes>>
  BY DEF bounds
<1>3. \A n \in DOMAIN events : events[n] \in Event /\ events[n].request \in Requests \ {r}
                               /\ request[events[n].request] = "deferred"
  BY EventTyped DEF FilesInv
<1>4. job[r] = NoJob
  BY JobTyped DEF FilesInv
<1>5. events \in Seq(Event)
  BY DEF FilesInv, Typed
<1>6. /\ events' \in Seq(Event) /\ Apart(events')
      /\ \A n \in DOMAIN events' :
            /\ events'[n].request \in Requests /\ request'[events'[n].request] = "deferred"
            /\ EventHas(events'[n])
  <2>1. CASE events' = events
    BY <1>1, <1>3, <1>5, <2>1 DEF FilesInv, OnTheWay
  <2>2. ASSUME x = "deferred", NEW e \in Event, e.request = r, EventHas(e),
               events' = Append(events, e)
        PROVE  /\ events' \in Seq(Event) /\ Apart(events')
               /\ \A n \in DOMAIN events' :
                     /\ events'[n].request \in Requests
                     /\ request'[events'[n].request] = "deferred"
                     /\ EventHas(events'[n])
    <3>1. /\ events' \in Seq(Event) /\ events'[Len(events) + 1] = e
          /\ \A n \in DOMAIN events : events'[n] = events[n]
          /\ \A n \in DOMAIN events' : n \in DOMAIN events \/ n = Len(events) + 1
      BY <1>5, <2>2, Appended
    <3>2. Apart(events')
      BY <1>3, <2>2, <3>1 DEF FilesInv, Apart
    <3>. QED
      BY <1>1, <1>3, <2>2, <3>1, <3>2 DEF FilesInv, OnTheWay
  <2>. QED
    BY <2>1, <2>2
<1>7. Typed'
  BY <1>1, <1>2, <1>4, <1>6 DEF FilesInv, Typed, TypeOK
<1>8. \A f : Arrived(f)' = Arrived(f)
  BY <1>2 DEF Arrived
<1>9. \A q \in Requests : RetriedHas(q)' /\ DecompilingHas(q)'
  BY <1>1, <1>2, <1>8 DEF FilesInv, OnTheWay, RetriedHas, DecompilingHas
<1>10. OnTheWay'
  BY <1>6, <1>8, <1>9 DEF OnTheWay, EventHas
<1>11. JobsSteady'
  BY <1>2 DEF FilesInv, JobsSteady, Steady
<1>12. NullHasCause'
  BY <1>1, <1>2 DEF FilesInv, NullHasCause
<1>13. \A q \in Requests : request[q] = "decompiling" => request'[q] = request[q]
  BY <1>1
<1>14. CacheIsWhole'
  BY <1>2, <1>13 DEF FilesInv, CacheIsWhole, Working
<1>. QED
  BY <1>6, <1>7, <1>10, <1>11, <1>12, <1>14 DEF FilesInv

LEMMA RunRequestKeeps ==
    ASSUME FilesInv, NEW r \in Requests, RunRequest(r)
    PROVE  FilesInv'
<1>1. request[r] \in {"new", "retried"} /\ UNCHANGED <<disk, vfs, job, spoilt, bounds>>
  BY DEF RunRequest
<1>2. CASE Missing(r) = {}
  <2>1. request' = [request EXCEPT ![r] = "answered"] /\ events' = events
    BY <1>2 DEF RunRequest
  <2>. QED
    BY <1>1, <2>1, RequestKeeps
<1>3. CASE Missing(r) # {} /\ request[r] = "new"
  <2>. DEFINE e == LoadLibraryFiles(r, Missing(r))
  <2>1. request' = [request EXCEPT ![r] = "deferred"] /\ events' = Append(events, e)
    BY <1>3 DEF RunRequest
  <2>2. e \in Event /\ e.request = r
    BY NeedsAreFiles DEF LoadLibraryFiles, Event, Missing
  <2>3. EventHas(e)
    BY DEF LoadLibraryFiles, EventHas, InEvent, Missing, Arrived
  <2>. HIDE DEF e
  <2>. QED
    BY <1>1, <2>1, <2>2, <2>3, RequestKeeps
<1>4. CASE Missing(r) # {} /\ request[r] # "new"
  <2>1. request' = [request EXCEPT ![r] = "null"] /\ events' = events
    BY <1>4 DEF RunRequest
  <2>2. Needs[r] \cap spoilt # {}
    BY <1>1, <1>4 DEF FilesInv, OnTheWay, RetriedHas, Arrived, Missing
  <2>. QED
    BY <1>1, <2>1, <2>2, RequestKeeps
<1>. QED
  BY <1>2, <1>3, <1>4

(* The main loop takes the event of a request: it brings in some texts, or *)
(* starts the job.                                                         *)
LEMMA LoopKeeps ==
    ASSUME FilesInv, events # << >>, events' = Tail(events), NEW r, r = Head(events).request,
           NEW x \in {"retried", "decompiling"}, request' = [request EXCEPT ![r] = x],
           NEW files \in SUBSET ClassFiles,
           job' = [job EXCEPT ![r] = [NoJob EXCEPT !.files = files]],
           x = "retried" => files = {},
           disk' \in [Files -> Contents], vfs' \in [Files -> Contents],
           \A f \in Files : disk[f] # "none" => disk'[f] = disk[f],
           \A f \in Files : disk'[f] # disk[f] => disk'[f] = "whole",
           \A f \in Files : vfs[f] # "none" => vfs'[f] # "none",
           \A f \in SourceFiles : vfs'[f] \in {"none", "whole"},
           spoilt \subseteq spoilt', spoilt' \subseteq Files,
           failures' \in 0..MaxFailures, failures' = 0 => failures = 0,
           UNCHANGED <<prunes, crashes>>,
           \A f \in Needs[r] : Arrived(f)' \/ f \in files
    PROVE  FilesInv'
<1>1. /\ r \in Requests /\ request[r] = "deferred" /\ job[r] = NoJob
      /\ events' \in Seq(Event) /\ Apart(events')
      /\ \A n \in DOMAIN events' :
            /\ events'[n] \in Event /\ events'[n].request \in Requests \ {r}
            /\ request[events'[n].request] = "deferred" /\ EventHas(events'[n])
  BY TakenEvent
<1>. DEFINE j == [NoJob EXCEPT !.files = files]
<1>2. /\ j \in Jobs /\ j.files = files /\ j.step = "next" /\ j.produced = << >>
      /\ files = {} => j = NoJob
  BY NoJobTyped DEF Jobs, NoJob
<1>3. job \in [Requests -> Jobs] /\ request \in [Requests -> RequestStates]
  BY DEF FilesInv, Typed, TypeOK
<1>4. job' = [job EXCEPT ![r] = j]
  OBVIOUS
<1>. HIDE DEF j
<1>5. /\ request' \in [Requests -> RequestStates] /\ request'[r] = x
      /\ \A q \in Requests \ {r} : request'[q] = request[q]
  BY <1>1, <1>3 DEF RequestStates
<1>6. /\ job' \in [Requests -> Jobs] /\ job'[r] = j
      /\ \A q \in Requests \ {r} : job'[q] = job[q]
  BY <1>1, <1>2, <1>3, <1>4
<1>7. \A q \in Requests : job'[q].files \subseteq ClassFiles /\ job'[q].step \in Steps
  BY <1>6 DEF Jobs
<1>8. \A q \in Requests : job'[q] # NoJob => request'[q] = "decompiling"
  BY <1>2, <1>5, <1>6 DEF FilesInv, Typed, TypeOK
<1>9. Typed'
  BY <1>1, <1>5, <1>6, <1>7, <1>8 DEF FilesInv, Typed, TypeOK
<1>10. JobsSteady'
  <2>1. Steady(j)'
    BY <1>2 DEF Steady
  <2>2. \A f \in ClassFiles : disk[f] # "none" => disk'[f] # "none"
    BY NeedsAreFiles
  <2>3. ASSUME NEW q \in Requests, NEW k, k = job'[q], q # r
        PROVE  Steady(k)'
    <3>1. Steady(k)
      BY <1>6, <2>3 DEF FilesInv, JobsSteady
    <3>. QED
      BY <2>2, <3>1 DEF Steady
  <2>4. \A q \in Requests : \A k : k = job'[q] => Steady(k)'
    BY <1>6, <2>1, <2>3
  <2>. QED
    BY <2>4 DEF JobsSteady, Steady
<1>11. OnTheWay'
  <2>1. \A q \in Requests \ {r} : RetriedHas(q)' /\ DecompilingHas(q)'
    BY <1>5, <1>6, ArrivedStays DEF FilesInv, OnTheWay
  <2>2. RetriedHas(r)' /\ DecompilingHas(r)'
    BY <1>2, <1>5, <1>6 DEF RetriedHas, DecompilingHas, InJob
  <2>3. ASSUME NEW e \in Event, e.request \in Requests, EventHas(e)
        PROVE  EventHas(e)'
    BY <2>3, ArrivedStays
  <2>4. \A n \in DOMAIN events' : \A e : e = events'[n] => EventHas(e)'
    BY <1>1, <2>3
  <2>5. \A n \in DOMAIN events' : \A f \in Needs[events'[n].request] :
            Arrived(f)' \/ InEvent(events'[n], f)
    BY <2>4 DEF EventHas
  <2>. QED
    BY <2>1, <2>2, <2>5 DEF OnTheWay, EventHas
<1>12. NullHasCause'
  BY <1>1, <1>5, ArrivedStays DEF FilesInv, NullHasCause
<1>13. CacheIsWhole'
  <2>1. ASSUME failures' = 0, crashes' = 0, NEW f \in Files, disk'[f] = "part"
        PROVE  \E q \in Requests : Working(q, "writing")' /\ job'[q].file = f
    <3>1. disk[f] = "part"
      BY <2>1 DEF Contents
    <3>2. PICK q \in Requests : Working(q, "writing") /\ job[q].file = f
      BY <2>1, <3>1 DEF FilesInv, CacheIsWhole
    <3>3. q # r
      BY <1>1, <3>2 DEF Working
    <3>. QED
      BY <1>5, <1>6, <3>2, <3>3 DEF Working
  <2>. QED
    BY <2>1 DEF CacheIsWhole
<1>. QED
  BY <1>1, <1>9, <1>10, <1>11, <1>12, <1>13 DEF FilesInv

LEMMA HandleLoadKeeps ==
    ASSUME FilesInv, HandleLoad
    PROVE  FilesInv'
<1>. DEFINE e == Head(events)
            sources == {f \in e.files \cap SourceFiles : vfs[f] = "none"}
            classes == e.files \cap ClassFiles
<1>1. /\ events # << >> /\ e.event = "load" /\ events' = Tail(events)
      /\ UNCHANGED <<prunes, crashes>>
  BY DEF HandleLoad, LoadFiles
<1>2. PICK failed \in SUBSET sources :
          /\ failures + Cardinality(failed) <= MaxFailures
          /\ failures' = failures + Cardinality(failed) /\ spoilt' = spoilt \cup failed
          /\ vfs' = [f \in Files |-> IF f \in sources \ failed THEN "whole" ELSE vfs[f]]
          /\ disk' = [f \in Files |->
                         IF f \in sources \ failed /\ disk[f] = "none" THEN "whole" ELSE disk[f]]
          /\ request' = [request EXCEPT ![e.request] =
                            IF classes = {} THEN "retried" ELSE "decompiling"]
          /\ job' = [job EXCEPT ![e.request] = [NoJob EXCEPT !.files = classes]]
  BY DEF HandleLoad, LoadFiles
<1>3. /\ e \in Event /\ e.request \in Requests /\ EventHas(e) /\ e.files \subseteq Files
  BY <1>1, TakenEvent DEF Event
<1>4. /\ disk \in [Files -> Contents] /\ vfs \in [Files -> Contents] /\ spoilt \subseteq Files
      /\ failures \in Nat /\ MaxFailures \in Nat
      /\ \A f \in SourceFiles : vfs[f] \in {"none", "whole"}
  BY LibraryFilesAssumption DEF FilesInv, Typed, TypeOK, CacheIsWhole
<1>5. sources \subseteq Files /\ sources \subseteq SourceFiles /\ classes \subseteq ClassFiles
      /\ \A f \in e.files : f \in classes \/ f \in sources \/ vfs[f] # "none"
  BY <1>3 DEF Files
<1>6. \A f \in Needs[e.request] : Arrived(f) \/ f \in e.files
  BY <1>1, <1>3 DEF EventHas, InEvent
<1>. HIDE DEF e, sources, classes
<1>7. Cardinality(failed) \in Nat
  <2>1. IsFiniteSet(failed)
    BY <1>2, <1>5, NeedsAreFiles, FS_Subset
  <2>. QED
    BY <2>1, FS_CardinalityType
<1>8. failures' \in 0..MaxFailures /\ (failures' = 0 => failures = 0)
  BY <1>2, <1>4, <1>7
<1>9. /\ disk' \in [Files -> Contents] /\ vfs' \in [Files -> Contents]
      /\ spoilt \subseteq spoilt' /\ spoilt' \subseteq Files
  BY <1>2, <1>4, <1>5 DEF Contents
<1>10. /\ \A f \in Files : disk[f] # "none" => disk'[f] = disk[f]
       /\ \A f \in Files : disk'[f] # disk[f] => disk'[f] = "whole"
       /\ \A f \in Files : vfs[f] # "none" => vfs'[f] # "none"
  BY <1>2
<1>11. \A f \in SourceFiles : vfs'[f] \in {"none", "whole"}
  BY <1>2, <1>4, NeedsAreFiles
<1>12. \A f \in Needs[e.request] : Arrived(f)' \/ f \in classes
  <2>. SUFFICES ASSUME NEW f \in Needs[e.request], f \notin classes
                PROVE  vfs'[f] # "none" \/ f \in spoilt'
    BY DEF Arrived
  <2>1. f \in Files
    BY <1>3, NeedsAreFiles
  <2>2. f \in sources \/ vfs[f] # "none" \/ f \in spoilt
    BY <1>5, <1>6 DEF Arrived
  <2>. QED
    BY <1>2, <2>1, <2>2
<1>. DEFINE x == IF classes = {} THEN "retried" ELSE "decompiling"
<1>13. /\ x \in {"retried", "decompiling"} /\ (x = "retried" => classes = {})
       /\ request' = [request EXCEPT ![e.request] = x]
  BY <1>2
<1>. HIDE DEF x
<1>. QED
  BY <1>1, <1>2, <1>5, <1>8, <1>9, <1>10, <1>11, <1>12, <1>13, LoopKeeps DEF e

LEMMA HandleDecompiledKeeps ==
    ASSUME FilesInv, HandleDecompiled
    PROVE  FilesInv'
<1>. DEFINE e == Head(events)
            produced == e.files
            At(f) == CHOOSE n \in DOMAIN produced : produced[n][1] = f
<1>1. /\ events # << >> /\ e.event = "decompiled" /\ events' = Tail(events)
      /\ vfs' = [f \in Files |-> IF Made(produced, f) THEN produced[At(f)][2] ELSE vfs[f]]
      /\ request' = [request EXCEPT ![e.request] = "retried"]
      /\ UNCHANGED <<disk, job, spoilt, failures, prunes, crashes>>
  BY DEF HandleDecompiled, bounds, Made
<1>2. /\ e \in Event /\ e.request \in Requests /\ EventHas(e) /\ job[e.request] = NoJob
      /\ produced \in Seq(Texts)
  BY <1>1, TakenEvent DEF Event
<1>3. \A f : Made(produced, f) => At(f) \in DOMAIN produced /\ produced[At(f)][1] = f
  BY DEF Made
<1>4. \A f \in Needs[e.request] : Arrived(f) \/ Made(produced, f)
  BY <1>1, <1>2 DEF EventHas, InEvent
<1>. HIDE DEF e, produced, At
<1>5. \A n \in DOMAIN produced : produced[n] \in Texts
  BY <1>2, ElementOfSeq, LenProperties
<1>6. \A f : Made(produced, f) => f \in ClassFiles /\ produced[At(f)][2] \in {"part", "whole"}
  BY <1>3, <1>5 DEF Texts
<1>7. /\ disk \in [Files -> Contents] /\ vfs \in [Files -> Contents] /\ spoilt \subseteq Files
      /\ failures \in 0..MaxFailures /\ job \in [Requests -> Jobs]
      /\ \A f \in SourceFiles : vfs[f] \in {"none", "whole"}
  BY DEF FilesInv, Typed, TypeOK, CacheIsWhole
<1>8. /\ vfs' \in [Files -> Contents]
      /\ \A f \in Files : vfs[f] # "none" => vfs'[f] # "none"
  BY <1>1, <1>6, <1>7 DEF Contents
<1>9. \A f \in SourceFiles : vfs'[f] \in {"none", "whole"}
  BY <1>1, <1>6, <1>7, NeedsAreFiles
<1>10. \A f \in Needs[e.request] : Arrived(f)'
  BY <1>1, <1>2, <1>4, <1>6, NeedsAreFiles DEF Arrived
<1>11. job' = [job EXCEPT ![e.request] = [NoJob EXCEPT !.files = {}]]
  <2>1. [NoJob EXCEPT !.files = {}] = NoJob
    BY DEF NoJob
  <2>. QED
    BY <1>1, <1>2, <1>7, <2>1
<1>12. /\ \A f \in Files : disk[f] # "none" => disk'[f] = disk[f]
       /\ \A f \in Files : disk'[f] # disk[f] => disk'[f] = "whole"
       /\ disk' \in [Files -> Contents] /\ failures' \in 0..MaxFailures
       /\ failures' = 0 => failures = 0
       /\ spoilt \subseteq spoilt' /\ spoilt' \subseteq Files
       /\ UNCHANGED <<prunes, crashes>>
  BY <1>1, <1>7
<1>. DEFINE x == "retried"
            files == {}
<1>13. /\ x \in {"retried", "decompiling"} /\ files \in SUBSET ClassFiles
       /\ x = "retried" => files = {}
       /\ request' = [request EXCEPT ![e.request] = x]
       /\ job' = [job EXCEPT ![e.request] = [NoJob EXCEPT !.files = files]]
       /\ \A f \in Needs[e.request] : Arrived(f)' \/ f \in files
  BY <1>1, <1>10, <1>11
<1>14. events # << >> /\ events' = Tail(events) /\ e.request = Head(events).request
  BY <1>1 DEF e
<1>. HIDE DEF x, files
<1>. QED
  BY <1>8, <1>9, <1>12, <1>13, <1>14, LoopKeeps

-----------------------------------------------------------------------------
(* The jobs.                                                               *)

(* A step of the job of r.                                                 *)
LEMMA JobKeeps ==
    ASSUME FilesInv, NEW r \in Requests, request[r] = "decompiling",
           NEW j \in Jobs, job' = [job EXCEPT ![r] = j],
           UNCHANGED <<vfs, request, events, prunes, crashes>>,
           disk' \in [Files -> Contents],
           \A f \in Files : disk[f] # "none" => disk'[f] # "none",
           spoilt \subseteq spoilt', spoilt' \subseteq Files, failures' \in 0..MaxFailures,
           Steady(j)',
           \A f : InJob(job[r], f) => InJob(j, f) \/ f \in spoilt',
           failures' = 0 /\ crashes = 0 => \A f \in Files : disk'[f] = "part" =>
               \/ j.step = "writing" /\ j.file = f
               \/ \E q \in Requests \ {r} : Working(q, "writing") /\ job[q].file = f
    PROVE  FilesInv'
<1>1. /\ job' \in [Requests -> Jobs] /\ job'[r] = j
      /\ \A q \in Requests \ {r} : job'[q] = job[q]
  BY DEF FilesInv, Typed
<1>2. \A q \in Requests : /\ job'[q].files \subseteq ClassFiles /\ job'[q].step \in Steps
                          /\ job'[q] # NoJob => request[q] = "decompiling"
  BY <1>1, JobTyped DEF FilesInv, Jobs
<1>3. Typed'
  BY <1>1, <1>2 DEF FilesInv, Typed, TypeOK, Event
<1>4. JobsSteady'
  <2>1. \A f \in ClassFiles : disk[f] # "none" => disk'[f] # "none"
    BY NeedsAreFiles
  <2>2. ASSUME NEW q \in Requests, NEW k, k = job'[q], q # r
        PROVE  Steady(k)'
    <3>1. Steady(k)
      BY <1>1, <2>2 DEF FilesInv, JobsSteady
    <3>. QED
      BY <2>1, <3>1 DEF Steady
  <2>3. \A q \in Requests : \A k : k = job'[q] => Steady(k)'
    BY <1>1, <2>2
  <2>. QED
    BY <2>3 DEF JobsSteady, Steady
<1>5. /\ \A q \in Requests \ {r} : DecompilingHas(q)'
      /\ \A q \in Requests : RetriedHas(q)'
      /\ \A q \in Requests : \A f \in Needs[q] : Arrived(f) => Arrived(f)'
  BY <1>1, ArrivedStays DEF FilesInv, OnTheWay
<1>6. DecompilingHas(r)'
  <2>1. \A f \in Needs[r] : Arrived(f) \/ InJob(job[r], f)
    BY DEF FilesInv, OnTheWay, DecompilingHas
  <2>2. \A f \in Needs[r] : Arrived(f)' \/ InJob(j, f)
    BY <1>5, <2>1 DEF Arrived
  <2>. QED
    BY <1>1, <2>2 DEF DecompilingHas, InJob
<1>7. \A n \in DOMAIN events : \A f \in Needs[events[n].request] :
          Arrived(f)' \/ InEvent(events[n], f)
  BY <1>5, EventTyped DEF FilesInv, OnTheWay, EventHas
<1>8. OnTheWay'
  BY <1>5, <1>6, <1>7 DEF OnTheWay, EventHas
<1>9. NullHasCause'
  BY ArrivedStays DEF FilesInv, NullHasCause
<1>10. CacheIsWhole'
  BY <1>1 DEF FilesInv, CacheIsWhole, Working
<1>. QED
  BY <1>3, <1>4, <1>8, <1>9, <1>10 DEF FilesInv, Apart

LEMMA NextFileKeeps ==
    ASSUME FilesInv, NEW r \in Requests, NextFile(r)
    PROVE  FilesInv'
<1>1. /\ Working(r, "next") /\ request[r] = "decompiling" /\ job[r].step = "next"
      /\ UNCHANGED <<disk, vfs, request, events, prunes, crashes, spoilt, failures>>
  BY DEF NextFile, Working, Rest
<1>2. PICK f \in job[r].files :
          job' = [job EXCEPT ![r].files = @ \ {f}, ![r].file = f,
                             ![r].step = IF disk[f] = "none" THEN "decompile" ELSE "read"]
  BY DEF NextFile
<1>0. PICK j : j = [job[r] EXCEPT !.files = @ \ {f}, !.file = f,
                        !.step = IF disk[f] = "none" THEN "decompile" ELSE "read"]
  OBVIOUS
<1>3. job[r] \in Jobs /\ job[r].files \subseteq ClassFiles /\ job \in [Requests -> Jobs]
  BY JobTyped DEF FilesInv, Typed
<1>4. /\ j \in Jobs /\ j.files = job[r].files \ {f} /\ j.file = f
      /\ j.produced = job[r].produced
      /\ \/ j.step = "decompile"
         \/ j.step = "read" /\ disk[f] # "none"
  BY <1>0, <1>3 DEF Jobs, Steps
<1>5. job' = [job EXCEPT ![r] = j]
  BY <1>0, <1>2, <1>3
<1>6. Steady(j)'
  BY <1>1, <1>3, <1>4 DEF Steady
<1>7. \A g : InJob(job[r], g) => InJob(j, g)
  BY <1>1, <1>4 DEF InJob, Made
<1>8. /\ disk' \in [Files -> Contents] /\ spoilt' \subseteq Files /\ failures' \in 0..MaxFailures
      /\ \A g \in Files : disk[g] # "none" => disk'[g] # "none"
  BY <1>1 DEF FilesInv, Typed, TypeOK
<1>9. failures' = 0 /\ crashes = 0 => \A g \in Files : disk'[g] = "part" =>
          \E q \in Requests \ {r} : Working(q, "writing") /\ job[q].file = g
  BY <1>1 DEF FilesInv, CacheIsWhole, Working
<1>. QED
  BY <1>1, <1>4, <1>5, <1>6, <1>7, <1>8, <1>9, JobKeeps

(* A step that leaves the job's files and what it has produced alone.      *)
LEMMA StepKeeps ==
    ASSUME FilesInv, NEW r \in Requests, request[r] = "decompiling", job[r].step # "next",
           NEW step \in Steps, Goto(r, step),
           UNCHANGED <<vfs, request, events, prunes, crashes>>,
           disk' \in [Files -> Contents],
           \A f \in Files : disk[f] # "none" => disk'[f] # "none",
           spoilt \subseteq spoilt', spoilt' \subseteq Files, failures' \in 0..MaxFailures,
           step = "next" => job[r].file \in spoilt',
           step = "writing" => disk'[job[r].file] # "none",
           step = "read" => disk'[job[r].file] # "none" \/ job[r].file \in spoilt',
           step # "lost",
           failures' = 0 /\ crashes = 0 => \A f \in Files : disk'[f] = "part" =>
               \/ step = "writing" /\ job[r].file = f
               \/ \E q \in Requests \ {r} : Working(q, "writing") /\ job[q].file = f
    PROVE  FilesInv'
<1>0. PICK j : j = [job[r] EXCEPT !.step = step]
  OBVIOUS
<1>1. job[r] \in Jobs /\ job \in [Requests -> Jobs] /\ Steady(job[r])
  BY JobTyped DEF FilesInv, Typed, JobsSteady
<1>2. /\ j \in Jobs /\ j.files = job[r].files /\ j.file = job[r].file /\ j.step = step
      /\ j.produced = job[r].produced
  BY <1>0, <1>1 DEF Jobs
<1>3. job' = [job EXCEPT ![r] = j]
  BY <1>0, <1>1 DEF Goto
<1>4. Steady(j)'
  BY <1>1, <1>2 DEF Steady
<1>5. \A f : InJob(job[r], f) => InJob(j, f) \/ f \in spoilt'
  BY <1>2 DEF InJob, Made
<1>. QED
  BY <1>2, <1>3, <1>4, <1>5, JobKeeps

LEMMA FailKeeps ==
    ASSUME FilesInv, NEW r \in Requests, Fail(r)
    PROVE  FilesInv'
<1>1. /\ request[r] = "decompiling" /\ job[r].step # "next" /\ Goto(r, "next")
      /\ failures < MaxFailures /\ failures' = failures + 1
      /\ spoilt' = spoilt \cup {job[r].file}
      /\ UNCHANGED <<disk, vfs, request, events, prunes, crashes>>
  BY DEF Fail, Working, Rest
<1>2. /\ disk \in [Files -> Contents] /\ spoilt \subseteq Files /\ failures \in 0..MaxFailures
      /\ MaxFailures \in Nat
  BY LibraryFilesAssumption DEF FilesInv, Typed, TypeOK
<1>3. failures' \in 0..MaxFailures /\ failures' # 0
  BY <1>1, <1>2
<1>4. job[r].file \in Files
  BY <1>1, NeedsAreFiles DEF FilesInv, JobsSteady, Steady
<1>. QED
  BY <1>1, <1>2, <1>3, <1>4, StepKeeps DEF Steps

(* Steps that leave the disk alone, of a job that does not write.          *)
LEMMA QuietKeeps ==
    ASSUME FilesInv, NEW r \in Requests, request[r] = "decompiling",
           job[r].step \notin {"next", "writing"},
           NEW step \in {"write", "open", "read"}, Goto(r, step),
           UNCHANGED <<disk, vfs, request, events, prunes, crashes, spoilt, failures>>,
           step = "read" => disk[job[r].file] # "none" \/ job[r].file \in spoilt
    PROVE  FilesInv'
<1>1. /\ disk' \in [Files -> Contents] /\ spoilt' \subseteq Files /\ failures' \in 0..MaxFailures
      /\ \A f \in Files : disk[f] # "none" => disk'[f] # "none"
  BY DEF FilesInv, Typed, TypeOK
<1>2. failures' = 0 /\ crashes = 0 => \A f \in Files : disk'[f] = "part" =>
          \E q \in Requests \ {r} : Working(q, "writing") /\ job[q].file = f
  BY DEF FilesInv, CacheIsWhole, Working
<1>. QED
  BY <1>1, <1>2, StepKeeps DEF Steps

LEMMA DecompileKeeps ==
    ASSUME FilesInv, NEW r \in Requests, Decompile(r)
    PROVE  FilesInv'
BY QuietKeeps DEF Decompile, Working, Rest

LEMMA MaterializeKeeps ==
    ASSUME FilesInv, NEW r \in Requests, Materialize(r)
    PROVE  FilesInv'
<1>1. /\ request[r] = "decompiling" /\ job[r].step = "write"
      /\ UNCHANGED <<disk, vfs, request, events, prunes, crashes, spoilt, failures>>
  BY DEF Materialize, Working, Rest
<1>2. CASE disk[job[r].file] = "none"
  <2>1. Goto(r, "open")
    BY <1>2 DEF Materialize
  <2>. QED
    BY <1>1, <2>1, QuietKeeps
<1>3. CASE disk[job[r].file] # "none"
  <2>1. Goto(r, "read")
    BY <1>3 DEF Materialize
  <2>. QED
    BY <1>1, <1>3, <2>1, QuietKeeps
<1>. QED
  BY <1>2, <1>3

LEMMA OpenKeeps ==
    ASSUME FilesInv, NEW r \in Requests, Open(r)
    PROVE  FilesInv'
<1>1. /\ request[r] = "decompiling" /\ job[r].step = "open" /\ Goto(r, "writing")
      /\ disk' = [disk EXCEPT ![job[r].file] = "part"]
      /\ UNCHANGED <<vfs, request, events, prunes, crashes, spoilt, failures>>
  BY DEF Open, Working, Rest
<1>2. job[r].file \in Files
  BY <1>1, NeedsAreFiles DEF FilesInv, JobsSteady, Steady
<1>3. /\ disk \in [Files -> Contents] /\ spoilt \subseteq Files /\ failures \in 0..MaxFailures
  BY DEF FilesInv, Typed, TypeOK
<1>4. /\ disk' \in [Files -> Contents] /\ disk'[job[r].file] = "part"
      /\ \A f \in Files : f # job[r].file => disk'[f] = disk[f]
  BY <1>1, <1>2, <1>3 DEF Contents
<1>5. failures' = 0 /\ crashes = 0 => \A f \in Files : disk'[f] = "part" =>
          \/ job[r].file = f
          \/ \E q \in Requests \ {r} : Working(q, "writing") /\ job[q].file = f
  BY <1>1, <1>4 DEF FilesInv, CacheIsWhole, Working
<1>. QED
  BY <1>1, <1>3, <1>4, <1>5, StepKeeps DEF Steps

LEMMA WriteKeeps ==
    ASSUME FilesInv, NEW r \in Requests, Write(r)
    PROVE  FilesInv'
<1>1. /\ request[r] = "decompiling" /\ job[r].step \in {"writing", "lost"} /\ Goto(r, "read")
      /\ UNCHANGED <<vfs, request, events, prunes, crashes, spoilt, failures>>
  BY DEF Write, Working, Rest
<1>2. /\ job[r].file \in Files
      /\ job[r].step = "writing" => disk[job[r].file] # "none"
      /\ job[r].step = "lost" => job[r].file \in spoilt
  BY <1>1, NeedsAreFiles DEF FilesInv, JobsSteady, Steady
<1>3. /\ disk \in [Files -> Contents] /\ spoilt \subseteq Files /\ failures \in 0..MaxFailures
  BY DEF FilesInv, Typed, TypeOK
<1>4. \/ disk' = disk /\ job[r].step = "lost"
      \/ disk' = disk /\ job[r].step = "writing"
         /\ \E q \in Requests \ {r} : Working(q, "writing") /\ job[q].file = job[r].file
      \/ disk' = [disk EXCEPT ![job[r].file] = "whole"] /\ job[r].step = "writing"
  BY DEF Write, Working
<1>5. /\ disk' \in [Files -> Contents]
      /\ \A f \in Files : disk[f] # "none" => disk'[f] # "none"
  BY <1>2, <1>3, <1>4 DEF Contents
<1>6. disk'[job[r].file] # "none" \/ job[r].file \in spoilt
  BY <1>1, <1>2, <1>5
<1>7. failures' = 0 /\ crashes = 0 => \A f \in Files : disk'[f] = "part" =>
          \E q \in Requests \ {r} : Working(q, "writing") /\ job[q].file = f
  <2>. SUFFICES ASSUME failures = 0, crashes = 0, NEW f \in Files, disk'[f] = "part"
                PROVE  \E q \in Requests \ {r} : Working(q, "writing") /\ job[q].file = f
    BY <1>1
  <2>1. disk[f] = "part"
    BY <1>2, <1>3, <1>4
  <2>2. PICK q \in Requests : Working(q, "writing") /\ job[q].file = f
    BY <2>1 DEF FilesInv, CacheIsWhole
  <2>3. CASE q # r
    BY <2>2, <2>3
  <2>4. CASE q = r
    <3>1. f = job[r].file /\ job[r].step = "writing"
      BY <2>2, <2>4 DEF Working
    <3>2. disk' # [disk EXCEPT ![job[r].file] = "whole"]
      BY <1>2, <1>3, <3>1
    <3>. QED
      BY <1>4, <3>1, <3>2
  <2>. QED
    BY <2>3, <2>4
<1>. QED
  BY <1>1, <1>3, <1>5, <1>6, <1>7, StepKeeps DEF Steps

LEMMA ReadKeeps ==
    ASSUME FilesInv, NEW r \in Requests, Read(r)
    PROVE  FilesInv'
<1>. DEFINE f == job[r].file
<1>1. /\ request[r] = "decompiling" /\ job[r].step = "read"
      /\ job' = [job EXCEPT ![r].step = "next",
                            ![r].produced = IF disk[f] = "none" THEN @ ELSE Append(@, <<f, disk[f]>>)]
      /\ UNCHANGED <<disk, vfs, request, events, prunes, crashes, spoilt, failures>>
  BY DEF Read, Working, Rest
<1>2. /\ job[r] \in Jobs /\ job \in [Requests -> Jobs] /\ job[r].produced \in Seq(Texts)
      /\ f \in ClassFiles /\ f \in Files /\ (disk[f] # "none" \/ f \in spoilt)
  BY <1>1, JobTyped, NeedsAreFiles DEF FilesInv, Typed, JobsSteady, Steady
<1>3. /\ disk' \in [Files -> Contents] /\ spoilt' \subseteq Files /\ failures' \in 0..MaxFailures
      /\ \A g \in Files : disk[g] # "none" => disk'[g] # "none"
      /\ disk[f] \in Contents
  BY <1>1, <1>2 DEF FilesInv, Typed, TypeOK
<1>4. PICK produced : produced = IF disk[f] = "none" THEN job[r].produced
                                 ELSE Append(job[r].produced, <<f, disk[f]>>)
  OBVIOUS
<1>5. /\ produced \in Seq(Texts)
      /\ \A g : Made(job[r].produced, g) => Made(produced, g)
      /\ Made(produced, f) \/ f \in spoilt
  <2>1. CASE disk[f] = "none"
    BY <1>2, <1>4, <2>1
  <2>2. CASE disk[f] # "none"
    <3>. DEFINE t == <<f, disk[f]>>
    <3>1. t \in Texts /\ t[1] = f
      BY <1>2, <1>3, <2>2 DEF Texts, Contents
    <3>2. produced = Append(job[r].produced, t)
      BY <1>4, <2>2
    <3>. HIDE DEF t
    <3>. QED
      BY <1>2, <3>1, <3>2, Appended DEF Made
  <2>. QED
    BY <2>1, <2>2
<1>6. PICK j : j = [job[r] EXCEPT !.step = "next", !.produced = produced]
  OBVIOUS
<1>7. /\ j \in Jobs /\ j.files = job[r].files /\ j.step = "next" /\ j.produced = produced
  BY <1>2, <1>5, <1>6 DEF Jobs, Steps
<1>8. job' = [job EXCEPT ![r] = j]
  BY <1>1, <1>2, <1>4, <1>6
<1>9. Steady(j)'
  BY <1>7 DEF Steady
<1>10. \A g : InJob(job[r], g) => InJob(j, g) \/ g \in spoilt'
  BY <1>1, <1>5, <1>7 DEF InJob
<1>11. failures' = 0 /\ crashes = 0 => \A g \in Files : disk'[g] = "part" =>
          \E q \in Requests \ {r} : Working(q, "writing") /\ job[q].file = g
  BY <1>1 DEF FilesInv, CacheIsWhole, Working
<1>. QED
  BY <1>1, <1>3, <1>7, <1>8, <1>9, <1>10, <1>11, JobKeeps

(* What the job has produced is reported, and the request deferred again.  *)
LEMMA ReportKeeps ==
    ASSUME FilesInv, NEW r \in Requests, Report(r)
    PROVE  FilesInv'
<1>1. /\ request[r] = "decompiling" /\ job[r].step = "next" /\ job[r].files = {}
      /\ job' = [job EXCEPT ![r] = NoJob] /\ request' = [request EXCEPT ![r] = "deferred"]
      /\ UNCHANGED <<disk, vfs, spoilt, failures, prunes, crashes>>
  BY DEF Report, Working, bounds
<1>2. PICK e : e = LibraryDecompiled(r, job[r].produced)
  OBVIOUS
<1>3. events' = Append(events, e)
  BY <1>2 DEF Report
<1>4. e \in Event /\ e.event = "decompiled" /\ e.request = r /\ e.files = job[r].produced
  BY <1>2, JobTyped DEF LibraryDecompiled, Event, FilesInv
<1>5. \A f \in Needs[r] : Arrived(f) \/ InEvent(e, f)
  BY <1>1, <1>4 DEF FilesInv, OnTheWay, DecompilingHas, InJob, InEvent
<1>6. /\ job \in [Requests -> Jobs] /\ request \in [Requests -> RequestStates]
      /\ events \in Seq(Event)
  BY DEF FilesInv, Typed, TypeOK
<1>7. /\ job' \in [Requests -> Jobs] /\ job'[r] = NoJob
      /\ \A q \in Requests \ {r} : job'[q] = job[q]
  BY <1>1, <1>6, NoJobTyped
<1>8. /\ request' \in [Requests -> RequestStates] /\ request'[r] = "deferred"
      /\ \A q \in Requests \ {r} : request'[q] = request[q]
  BY <1>1, <1>6 DEF RequestStates
<1>9. \A n \in DOMAIN events : events[n].request \in Requests \ {r}
                               /\ request[events[n].request] = "deferred"
  BY <1>1, EventTyped DEF FilesInv
<1>10. /\ events' \in Seq(Event) /\ events'[Len(events) + 1] = e
       /\ \A n \in DOMAIN events : events'[n] = events[n]
       /\ \A n \in DOMAIN events' : n \in DOMAIN events \/ n = Len(events) + 1
  BY <1>3, <1>4, <1>6, Appended
<1>11. Apart(events')
  BY <1>4, <1>9, <1>10 DEF FilesInv, Apart
<1>12. \A n \in DOMAIN events' :
           events'[n].request \in Requests /\ request'[events'[n].request] = "deferred"
  BY <1>4, <1>8, <1>9, <1>10
<1>13. \A q \in Requests : job'[q].files \subseteq ClassFiles /\ job'[q].step \in Steps
  BY <1>7 DEF Jobs
<1>14. \A q \in Requests : job'[q] # NoJob => request'[q] = "decompiling"
  BY <1>7, <1>8 DEF FilesInv, Typed, TypeOK
<1>15. Typed'
  BY <1>1, <1>7, <1>8, <1>10, <1>12, <1>13, <1>14 DEF FilesInv, Typed, TypeOK
<1>16. JobsSteady'
  BY <1>1, <1>7, NoJobTyped DEF FilesInv, JobsSteady, Steady
<1>17. OnTheWay'
  <2>1. \A f : Arrived(f)' = Arrived(f)
    BY <1>1 DEF Arrived
  <2>2. \A q \in Requests : RetriedHas(q)' /\ DecompilingHas(q)'
    BY <1>7, <1>8, <2>1 DEF FilesInv, OnTheWay, RetriedHas, DecompilingHas, InJob
  <2>3. \A n \in DOMAIN events' : \A f \in Needs[events'[n].request] :
            Arrived(f) \/ InEvent(events'[n], f)
    BY <1>4, <1>5, <1>10 DEF FilesInv, OnTheWay, EventHas
  <2>. QED
    BY <2>1, <2>2, <2>3 DEF OnTheWay, EventHas
<1>18. NullHasCause'
  BY <1>1, <1>8 DEF FilesInv, NullHasCause
<1>19. CacheIsWhole'
  <2>1. ASSUME NEW q \in Requests, NEW f, Working(q, "writing"), job[q].file = f
        PROVE  Working(q, "writing")' /\ job'[q].file = f
    BY <1>1, <1>7, <1>8, <2>1 DEF Working
  <2>. QED
    BY <1>1, <2>1 DEF FilesInv, CacheIsWhole
<1>. QED
  BY <1>11, <1>15, <1>16, <1>17, <1>18, <1>19 DEF FilesInv

-----------------------------------------------------------------------------
(* Prunes and crashes.                                                     *)

(* Whoever writes a file that is removed does not know.                    *)
LEMMA PruneKeeps ==
    ASSUME FilesInv, Prune
    PROVE  FilesInv'
<1>1. /\ prunes < MaxPrunes /\ prunes' = prunes + 1
      /\ UNCHANGED <<vfs, request, events, failures, crashes>>
  BY DEF Prune
<1>2. PICK files \in SUBSET Files :
          /\ disk' = [f \in Files |-> IF f \in files THEN "none" ELSE disk[f]]
          /\ spoilt' = spoilt \cup files
          /\ job' = [r \in Requests |->
                        IF Working(r, "writing") /\ job[r].file \in files
                        THEN [job[r] EXCEPT !.step = "lost"] ELSE job[r]]
  BY DEF Prune
<1>3. /\ disk \in [Files -> Contents] /\ spoilt \subseteq Files /\ prunes \in Nat
      /\ MaxPrunes \in Nat
  BY LibraryFilesAssumption DEF FilesInv, Typed, TypeOK
<1>4. /\ disk' \in [Files -> Contents] /\ spoilt \subseteq spoilt' /\ spoilt' \subseteq Files
  BY <1>2, <1>3 DEF Contents
<1>5. prunes' \in 0..MaxPrunes
  BY <1>1, <1>3
<1>6. ASSUME NEW r \in Requests
      PROVE  /\ job'[r] \in Jobs
             /\ job'[r].files = job[r].files /\ job'[r].file = job[r].file
             /\ job'[r].produced = job[r].produced
             /\ \/ job'[r].step = job[r].step
                   /\ (request[r] = "decompiling" /\ job[r].step = "writing"
                          => job[r].file \notin files)
                \/ job'[r].step = "lost" /\ job[r].step = "writing" /\ job[r].file \in files
             /\ job'[r] # NoJob => request[r] = "decompiling"
  <2>1. job[r] \in Jobs /\ (job[r] # NoJob => request[r] = "decompiling")
    BY JobTyped DEF FilesInv
  <2>2. CASE Working(r, "writing") /\ job[r].file \in files
    <3>1. job'[r] = [job[r] EXCEPT !.step = "lost"]
      BY <1>2, <2>2
    <3>. QED
      BY <2>1, <2>2, <3>1 DEF Working, Jobs, Steps
  <2>3. CASE ~(Working(r, "writing") /\ job[r].file \in files)
    <3>1. job'[r] = job[r]
      BY <1>2, <2>3
    <3>. QED
      BY <2>1, <2>3, <3>1 DEF Working
  <2>. QED
    BY <2>2, <2>3
<1>7. job' \in [Requests -> Jobs]
  <2>1. /\ \A r \in Requests : job'[r] \in Jobs
        /\ job' = [r \in Requests |-> job'[r]]
    BY <1>2, <1>6
  <2>. QED
    BY <2>1
<1>8. \A r \in Requests : job'[r].files \subseteq ClassFiles /\ job'[r].step \in Steps
  BY <1>7 DEF Jobs
<1>9. Typed'
  BY <1>1, <1>4, <1>5, <1>6, <1>7, <1>8 DEF FilesInv, Typed, TypeOK, Event
<1>10. JobsSteady'
  <2>. SUFFICES ASSUME NEW r \in Requests
                PROVE  Steady(job[r])'
    BY DEF JobsSteady
  <2>1. Steady(job[r]) /\ (job[r].step # "next" => job[r].file \in Files)
    BY NeedsAreFiles DEF FilesInv, JobsSteady, Steady
  <2>2. job[r].step # "next" => request[r] = "decompiling"
    BY JobTyped, NoJobTyped DEF FilesInv
  <2>3. \A f \in Files : (disk[f] # "none" => disk'[f] # "none" \/ f \in spoilt')
                           /\ (f \notin files => disk'[f] = disk[f])
    BY <1>2
  <2>4. files \subseteq spoilt' /\ spoilt \subseteq spoilt'
    BY <1>2
  <2>5. CASE /\ job'[r].step = job[r].step
             /\ request[r] = "decompiling" /\ job[r].step = "writing"
                   => job[r].file \notin files
    <3>1. job'[r].file = job[r].file
      BY <1>6
    <3>. QED
      BY <2>1, <2>2, <2>3, <2>4, <2>5, <3>1 DEF Steady
  <2>6. CASE job'[r].step = "lost" /\ job[r].step = "writing" /\ job[r].file \in files
    <3>1. job'[r].file = job[r].file
      BY <1>6
    <3>. QED
      BY <2>1, <2>4, <2>6, <3>1 DEF Steady
  <2>. QED
    BY <1>6, <2>5, <2>6
<1>11. OnTheWay'
  <2>1. \A f : Arrived(f) => Arrived(f)'
    BY <1>1, <1>4 DEF Arrived
  <2>2. ASSUME NEW r \in Requests
        PROVE  RetriedHas(r)' /\ DecompilingHas(r)'
    <3>1. \A f : InJob(job[r], f) => InJob(job[r], f)'
      BY <1>6 DEF InJob
    <3>. QED
      BY <1>1, <2>1, <3>1 DEF FilesInv, OnTheWay, RetriedHas, DecompilingHas
  <2>3. \A n \in DOMAIN events : \A f \in Needs[events[n].request] :
            Arrived(f)' \/ InEvent(events[n], f)
    BY <2>1 DEF FilesInv, OnTheWay, EventHas
  <2>. QED
    BY <1>1, <2>2, <2>3 DEF OnTheWay, EventHas
<1>12. NullHasCause'
  BY <1>1, <1>4 DEF FilesInv, NullHasCause
<1>13. CacheIsWhole'
  <2>. SUFFICES ASSUME failures = 0, crashes = 0, NEW f \in Files, disk'[f] = "part"
                PROVE  \E r \in Requests : Working(r, "writing")' /\ job'[r].file = f
    BY <1>1 DEF FilesInv, CacheIsWhole
  <2>1. f \notin files /\ disk[f] = "part"
    BY <1>2
  <2>2. PICK r \in Requests : Working(r, "writing") /\ job[r].file = f
    BY <2>1 DEF FilesInv, CacheIsWhole
  <2>. QED
    BY <1>1, <1>6, <2>1, <2>2 DEF Working
<1>. QED
  BY <1>1, <1>9, <1>10, <1>11, <1>12, <1>13 DEF FilesInv

LEMMA CrashKeeps ==
    ASSUME FilesInv, Crash
    PROVE  FilesInv'
<1>1. /\ crashes < MaxCrashes /\ crashes' = crashes + 1
      /\ vfs' = [f \in Files |-> "none"] /\ events' = << >>
      /\ job' = [r \in Requests |-> NoJob] /\ request' = [r \in Requests |-> "new"]
      /\ UNCHANGED <<spoilt, failures, prunes>>
  BY DEF Crash
<1>2. PICK files :
          disk' = [f \in Files |-> IF f \in files /\ disk[f] = "none" THEN "part" ELSE disk[f]]
  BY DEF Crash
<1>3. /\ disk \in [Files -> Contents] /\ crashes \in Nat /\ MaxCrashes \in Nat
  BY LibraryFilesAssumption DEF FilesInv, Typed, TypeOK
<1>4. disk' \in [Files -> Contents] /\ vfs' \in [Files -> Contents]
  BY <1>1, <1>2, <1>3 DEF Contents
<1>5. crashes' \in 0..MaxCrashes /\ crashes' # 0
  BY <1>1, <1>3
<1>6. /\ events' \in Seq(Event) /\ DOMAIN events' = {}
      /\ job' \in [Requests -> Jobs] /\ request' \in [Requests -> RequestStates]
  BY <1>1, NoJobTyped, EmptySeq, LenProperties DEF RequestStates
<1>7. \A r \in Requests : job'[r] = NoJob /\ NoJob.files \subseteq ClassFiles
                          /\ NoJob.step \in Steps /\ request'[r] = "new"
  BY <1>1, NoJobTyped DEF Steps
<1>8. Typed'
  BY <1>1, <1>4, <1>5, <1>6, <1>7 DEF FilesInv, Typed, TypeOK
<1>9. JobsSteady'
  BY <1>7, NoJobTyped DEF JobsSteady, Steady
<1>10. OnTheWay' /\ NullHasCause'
  BY <1>6, <1>7 DEF OnTheWay, RetriedHas, DecompilingHas, NullHasCause
<1>11. CacheIsWhole'
  BY <1>1, <1>5, NeedsAreFiles DEF CacheIsWhole
<1>. QED
  BY <1>6, <1>8, <1>9, <1>10, <1>11 DEF FilesInv, Apart

-----------------------------------------------------------------------------
(* What jobs read.                                                         *)

(* A step of the job of r that reads nothing.                              *)
LEMMA JobGoesOn ==
    ASSUME FilesInv, ReadInv, NEW r \in Requests, NEW j \in Jobs,
           job' = [job EXCEPT ![r] = j],
           j.files \subseteq Needs[r], j.step # "next" => j.file \in Needs[r],
           Calm' => Calm /\ PartsShared(j.produced),
           UNCHANGED <<vfs, events>>
    PROVE  ReadInv'
<1>1. /\ job'[r] = j
      /\ \A q \in Requests \ {r} : job'[q] = job[q]
  BY DEF FilesInv, Typed
<1>2. \A q \in Requests : JobReads(q)'
  BY <1>1 DEF ReadInv, JobReads, PartsShared, Shared
<1>3. \A n \in DOMAIN events : EventReads(events[n])'
  BY DEF ReadInv, EventReads, PartsShared, Shared
<1>. QED
  BY <1>2, <1>3 DEF ReadInv, EventReads, PartsShared, Shared

LEMMA NextFileReads ==
    ASSUME FilesInv, ReadInv, NEW r \in Requests, NextFile(r)
    PROVE  ReadInv'
<1>1. PICK f \in job[r].files :
          job' = [job EXCEPT ![r].files = @ \ {f}, ![r].file = f,
                             ![r].step = IF disk[f] = "none" THEN "decompile" ELSE "read"]
  BY DEF NextFile
<1>2. PICK j : j = [job[r] EXCEPT !.files = @ \ {f}, !.file = f,
                        !.step = IF disk[f] = "none" THEN "decompile" ELSE "read"]
  OBVIOUS
<1>3. job[r] \in Jobs /\ job[r].files \subseteq ClassFiles /\ job \in [Requests -> Jobs]
  BY JobTyped DEF FilesInv, Typed
<1>4. /\ j \in Jobs /\ j.files = job[r].files \ {f} /\ j.file = f
      /\ j.produced = job[r].produced
  BY <1>2, <1>3 DEF Jobs, Steps
<1>5. job' = [job EXCEPT ![r] = j]
  BY <1>1, <1>2, <1>3
<1>6. JobReads(r) /\ UNCHANGED <<vfs, events, failures, crashes>>
  BY DEF ReadInv, NextFile, Rest
<1>7. /\ j.files \subseteq Needs[r] /\ j.file \in Needs[r]
      /\ Calm' => Calm /\ PartsShared(j.produced)
  BY <1>4, <1>6 DEF JobReads, Calm
<1>. QED
  BY <1>4, <1>5, <1>6, <1>7, JobGoesOn

(* Steps that only take the job further with its file.                     *)
LEMMA StepReads ==
    ASSUME FilesInv, ReadInv, NEW r \in Requests, job[r].step # "next",
           NEW step \in Steps, Goto(r, step),
           failures' = failures \/ failures' = failures + 1,
           UNCHANGED <<vfs, events, crashes>>
    PROVE  ReadInv'
<1>1. PICK j : j = [job[r] EXCEPT !.step = step]
  OBVIOUS
<1>2. job[r] \in Jobs /\ job \in [Requests -> Jobs] /\ failures \in Nat
  BY JobTyped, LibraryFilesAssumption DEF FilesInv, Typed, TypeOK
<1>3. /\ j \in Jobs /\ j.files = job[r].files /\ j.file = job[r].file
      /\ j.produced = job[r].produced
  BY <1>1, <1>2 DEF Jobs
<1>4. job' = [job EXCEPT ![r] = j]
  BY <1>1, <1>2 DEF Goto
<1>5. Calm' => Calm
  BY <1>2 DEF Calm
<1>6. /\ j.files \subseteq Needs[r] /\ j.file \in Needs[r]
      /\ Calm' => Calm /\ PartsShared(j.produced)
  BY <1>3, <1>5 DEF ReadInv, JobReads
<1>. QED
  BY <1>3, <1>4, <1>6, JobGoesOn

(* Whoever finds part of a class finds it while another job writes it.     *)
LEMMA ReadReads ==
    ASSUME FilesInv, ReadInv, NEW r \in Requests, Read(r)
    PROVE  ReadInv'
<1>. DEFINE f == job[r].file
<1>1. /\ request[r] = "decompiling" /\ job[r].step = "read"
      /\ job' = [job EXCEPT ![r].step = "next",
                            ![r].produced = IF disk[f] = "none" THEN @ ELSE Append(@, <<f, disk[f]>>)]
      /\ UNCHANGED <<vfs, events, crashes, failures>>
  BY DEF Read, Working, Rest
<1>2. /\ job[r] \in Jobs /\ job \in [Requests -> Jobs] /\ job[r].produced \in Seq(Texts)
      /\ f \in ClassFiles /\ f \in Files /\ disk[f] \in Contents
  BY <1>1, JobTyped, NeedsAreFiles DEF FilesInv, Typed, TypeOK, JobsSteady, Steady
<1>3. PICK produced : produced = IF disk[f] = "none" THEN job[r].produced
                                 ELSE Append(job[r].produced, <<f, disk[f]>>)
  OBVIOUS
<1>4. JobReads(r)
  BY DEF ReadInv
<1>5. Calm /\ disk[f] = "part" => Shared(f)
  <2>. SUFFICES ASSUME Calm, disk[f] = "part"
                PROVE  Shared(f)
    OBVIOUS
  <2>1. PICK q \in Requests : Working(q, "writing") /\ job[q].file = f
    BY <1>2 DEF FilesInv, CacheIsWhole, Calm
  <2>2. q # r /\ f \in Needs[q] /\ f \in Needs[r]
    BY <1>1, <1>4, <2>1 DEF ReadInv, JobReads, Working
  <2>. QED
    BY <2>2 DEF Shared
<1>6. produced \in Seq(Texts) /\ (Calm => PartsShared(produced))
  <2>1. CASE disk[f] = "none"
    BY <1>2, <1>3, <1>4, <2>1 DEF JobReads
  <2>2. CASE disk[f] # "none"
    <3>. DEFINE t == <<f, disk[f]>>
    <3>1. t \in Texts /\ t[1] = f /\ t[2] = disk[f]
      BY <1>2, <2>2 DEF Texts, Contents
    <3>2. produced = Append(job[r].produced, t)
      BY <1>3, <2>2
    <3>3. Calm /\ t[2] = "part" => Shared(t[1])
      BY <1>5, <3>1
    <3>. HIDE DEF t
    <3>4. /\ produced \in Seq(Texts) /\ produced[Len(job[r].produced) + 1] = t
          /\ \A n \in DOMAIN job[r].produced : produced[n] = job[r].produced[n]
          /\ \A n \in DOMAIN produced :
                n \in DOMAIN job[r].produced \/ n = Len(job[r].produced) + 1
      BY <1>2, <3>1, <3>2, Appended
    <3>5. Calm => PartsShared(job[r].produced)
      BY <1>4 DEF JobReads
    <3>6. ASSUME Calm, NEW n \in DOMAIN produced, produced[n][2] = "part"
          PROVE  Shared(produced[n][1])
      <4>1. CASE n \in DOMAIN job[r].produced
        BY <3>4, <3>5, <3>6, <4>1 DEF PartsShared
      <4>2. CASE n = Len(job[r].produced) + 1
        BY <3>3, <3>4, <3>6, <4>2
      <4>. QED
        BY <3>4, <4>1, <4>2
    <3>. QED
      BY <3>4, <3>6 DEF PartsShared
  <2>. QED
    BY <2>1, <2>2
<1>7. PICK j : j = [job[r] EXCEPT !.step = "next", !.produced = produced]
  OBVIOUS
<1>8. /\ j \in Jobs /\ j.files = job[r].files /\ j.step = "next" /\ j.produced = produced
  BY <1>2, <1>6, <1>7 DEF Jobs, Steps
<1>9. job' = [job EXCEPT ![r] = j]
  BY <1>1, <1>2, <1>3, <1>7
<1>10. /\ j.files \subseteq Needs[r] /\ j.step = "next"
       /\ Calm' => Calm /\ PartsShared(j.produced)
  BY <1>1, <1>4, <1>6, <1>8 DEF JobReads, Calm
<1>. QED
  BY <1>1, <1>8, <1>9, <1>10, JobGoesOn

LEMMA JobReadsOn ==
    ASSUME FilesInv, ReadInv, NEW r \in Requests, Job(r)
    PROVE  ReadInv'
<1>1. ASSUME NEW step \in Steps, job[r].step # "next", Goto(r, step),
             failures' = failures \/ failures' = failures + 1,
             UNCHANGED <<vfs, events, crashes>>
      PROVE  ReadInv'
  BY <1>1, StepReads
<1>2. CASE NextFile(r)
  BY <1>2, NextFileReads
<1>3. CASE Fail(r)
  <2>1. /\ job[r].step # "next" /\ Goto(r, "next") /\ failures' = failures + 1
        /\ UNCHANGED <<vfs, events, crashes>>
    BY <1>3 DEF Fail, Working, Rest
  <2>. QED
    BY <1>1, <2>1 DEF Steps
<1>4. CASE Decompile(r)
  <2>1. /\ job[r].step # "next" /\ Goto(r, "write") /\ failures' = failures
        /\ UNCHANGED <<vfs, events, crashes>>
    BY <1>4 DEF Decompile, Working, Rest
  <2>. QED
    BY <1>1, <2>1 DEF Steps
<1>5. CASE Materialize(r)
  <2>1. /\ job[r].step # "next" /\ (Goto(r, "open") \/ Goto(r, "read")) /\ failures' = failures
        /\ UNCHANGED <<vfs, events, crashes>>
    BY <1>5 DEF Materialize, Working, Rest
  <2>. QED
    BY <1>1, <2>1 DEF Steps
<1>6. CASE Open(r)
  <2>1. /\ job[r].step # "next" /\ Goto(r, "writing") /\ failures' = failures
        /\ UNCHANGED <<vfs, events, crashes>>
    BY <1>6 DEF Open, Working, Rest
  <2>. QED
    BY <1>1, <2>1 DEF Steps
<1>7. CASE Write(r)
  <2>1. /\ job[r].step # "next" /\ Goto(r, "read") /\ failures' = failures
        /\ UNCHANGED <<vfs, events, crashes>>
    BY <1>7 DEF Write, Working, Rest
  <2>. QED
    BY <1>1, <2>1 DEF Steps
<1>8. CASE Read(r)
  BY <1>8, ReadReads
<1>9. CASE Report(r)
  <2>1. /\ job' = [job EXCEPT ![r] = NoJob] /\ UNCHANGED <<vfs, failures, crashes>>
        /\ events' = Append(events, LibraryDecompiled(r, job[r].produced))
    BY <1>9 DEF Report, bounds
  <2>2. PICK e : e = LibraryDecompiled(r, job[r].produced)
    OBVIOUS
  <2>3. e \in Event /\ e.event = "decompiled" /\ e.request = r /\ e.files = job[r].produced
    BY <2>2, JobTyped DEF LibraryDecompiled, Event, FilesInv
  <2>4. events \in Seq(Event) /\ job \in [Requests -> Jobs] /\ events' = Append(events, e)
    BY <2>1, <2>2 DEF FilesInv, Typed
  <2>5. /\ events'[Len(events) + 1] = e
        /\ \A n \in DOMAIN events : events'[n] = events[n]
        /\ \A n \in DOMAIN events' : n \in DOMAIN events \/ n = Len(events) + 1
    BY <2>3, <2>4, Appended
  <2>6. /\ EventReads(e)'
        /\ \A n \in DOMAIN events : \A d : d = events[n] => EventReads(d)'
    BY <2>1, <2>3 DEF ReadInv, JobReads, EventReads, PartsShared, Calm, Shared
  <2>7. \A n \in DOMAIN events' : \A d : d = events'[n] => EventReads(d)'
    BY <2>5, <2>6
  <2>8. \A n \in DOMAIN events' : EventReads(events[n])'
    BY <2>7 DEF EventReads
  <2>9. \A q \in Requests : JobReads(q)'
    <3>1. job'[r] = NoJob /\ \A q \in Requests \ {r} : job'[q] = job[q]
      BY <2>1, <2>4, NoJobTyped
    <3>2. \A q \in Requests \ {r} : JobReads(q)'
      BY <2>1, <3>1 DEF ReadInv, JobReads, PartsShared, Calm, Shared
    <3>3. JobReads(r)'
      BY <3>1, NoJobTyped DEF JobReads, PartsShared
    <3>. QED
      BY <3>2, <3>3
  <2>. QED
    BY <2>1, <2>8, <2>9 DEF ReadInv, Calm, Shared
<1>. QED
  BY <1>2, <1>3, <1>4, <1>5, <1>6, <1>7, <1>8, <1>9 DEF Job

(* Requests and the main loop.                                             *)
LEMMA RunRequestReads ==
    ASSUME FilesInv, ReadInv, NEW r \in Requests, RunRequest(r)
    PROVE  ReadInv'
<1>1. UNCHANGED <<vfs, job, failures, crashes>>
  BY DEF RunRequest, bounds
<1>2. /\ \A q \in Requests : JobReads(q)'
      /\ Calm' => \A f \in ClassFiles : vfs'[f] = "part" => Shared(f)
  BY <1>1 DEF ReadInv, JobReads, PartsShared, Calm, Shared
<1>3. \A n \in DOMAIN events : \A d : d = events[n] => EventReads(d)'
  BY <1>1 DEF ReadInv, EventReads, PartsShared, Calm, Shared
<1>4. CASE events' = events
  <2>1. \A n \in DOMAIN events' : EventReads(events[n])'
    BY <1>3, <1>4 DEF EventReads
  <2>. QED
    BY <1>2, <2>1 DEF ReadInv, Shared
<1>5. CASE events' = Append(events, LoadLibraryFiles(r, Missing(r)))
  <2>1. PICK e : e = LoadLibraryFiles(r, Missing(r))
    OBVIOUS
  <2>2. e \in Event /\ e.event = "load" /\ e.request = r /\ e.files = Missing(r)
    BY <2>1, NeedsAreFiles DEF LoadLibraryFiles, Event, Missing
  <2>3. events \in Seq(Event) /\ events' = Append(events, e)
    BY <1>5, <2>1 DEF FilesInv, Typed
  <2>4. /\ events'[Len(events) + 1] = e
        /\ \A n \in DOMAIN events : events'[n] = events[n]
        /\ \A n \in DOMAIN events' : n \in DOMAIN events \/ n = Len(events) + 1
    BY <2>2, <2>3, Appended
  <2>5. EventReads(e)'
    BY <2>2 DEF EventReads, Missing
  <2>6. \A n \in DOMAIN events' : \A d : d = events'[n] => EventReads(d)'
    BY <1>3, <2>4, <2>5
  <2>7. \A n \in DOMAIN events' : EventReads(events[n])'
    BY <2>6 DEF EventReads
  <2>. QED
    BY <1>2, <2>7 DEF ReadInv, Shared
<1>. QED
  BY <1>4, <1>5 DEF RunRequest

(* The main loop takes the event of a request.                             *)
LEMMA TakenReads ==
    ASSUME FilesInv, ReadInv, events # << >>, events' = Tail(events), Calm' => Calm
    PROVE  /\ \A n \in DOMAIN events' : EventReads(events[n])'
           /\ EventReads(Head(events))
<1>1. events \in Seq(Event)
  BY DEF FilesInv, Typed
<1>2. /\ Head(events) = events[1] /\ 1 \in DOMAIN events
      /\ \A n \in DOMAIN events' : n + 1 \in DOMAIN events /\ events'[n] = events[n + 1]
  BY <1>1, Tailed
<1>3. EventReads(Head(events))
  BY <1>2 DEF ReadInv
<1>4. \A n \in DOMAIN events' : EventReads(events'[n])
  BY <1>2 DEF ReadInv
<1>. QED
  BY <1>3, <1>4 DEF EventReads, PartsShared, Shared

LEMMA HandleLoadReads ==
    ASSUME FilesInv, ReadInv, HandleLoad
    PROVE  ReadInv'
<1>. DEFINE e == Head(events)
            sources == {f \in e.files \cap SourceFiles : vfs[f] = "none"}
            classes == e.files \cap ClassFiles
<1>1. /\ events # << >> /\ e.event = "load" /\ events' = Tail(events) /\ crashes' = crashes
  BY DEF HandleLoad, LoadFiles
<1>2. PICK failed \in SUBSET sources :
          /\ failures' = failures + Cardinality(failed)
          /\ vfs' = [f \in Files |-> IF f \in sources \ failed THEN "whole" ELSE vfs[f]]
          /\ job' = [job EXCEPT ![e.request] = [NoJob EXCEPT !.files = classes]]
  BY DEF HandleLoad, LoadFiles
<1>3. e \in Event /\ e.request \in Requests /\ e.files \subseteq Files
  BY <1>1, TakenEvent DEF Event
<1>4. Cardinality(failed) \in Nat /\ failures \in Nat
  <2>1. IsFiniteSet(failed)
    BY <1>2, <1>3, NeedsAreFiles, FS_Subset
  <2>. QED
    BY <2>1, FS_CardinalityType, LibraryFilesAssumption DEF FilesInv, Typed, TypeOK
<1>5. Calm' => Calm
  BY <1>1, <1>2, <1>4 DEF Calm
<1>6. /\ \A n \in DOMAIN events' : EventReads(events[n])'
      /\ EventReads(e)
  BY <1>1, <1>5, TakenReads
<1>7. classes \subseteq Needs[e.request]
  BY <1>1, <1>6 DEF EventReads
<1>8. \A f \in ClassFiles : vfs'[f] = "part" => vfs[f] = "part"
  BY <1>2, NeedsAreFiles
<1>9. PICK j : j = [NoJob EXCEPT !.files = classes]
  OBVIOUS
<1>10. j \in Jobs /\ j.files = classes /\ j.step = "next" /\ j.produced = << >>
  BY <1>9, NoJobTyped DEF Jobs, NoJob
<1>11. job' = [job EXCEPT ![e.request] = j] /\ job \in [Requests -> Jobs]
  BY <1>2, <1>9 DEF FilesInv, Typed
<1>12. PICK r \in Requests : r = e.request
  BY <1>3
<1>. HIDE DEF e, sources, classes
<1>13. \A q \in Requests : JobReads(q)'
  <2>0. /\ job'[r] = j /\ \A q \in Requests \ {r} : job'[q] = job[q]
        /\ classes \subseteq Needs[r]
    BY <1>7, <1>11, <1>12
  <2>1. \A q \in Requests \ {r} : JobReads(q)'
    BY <1>5, <2>0 DEF ReadInv, JobReads, PartsShared, Shared
  <2>2. JobReads(r)'
    BY <1>10, <2>0 DEF JobReads, PartsShared
  <2>. QED
    BY <2>1, <2>2
<1>. QED
  BY <1>5, <1>6, <1>8, <1>13 DEF ReadInv, Shared

LEMMA HandleDecompiledReads ==
    ASSUME FilesInv, ReadInv, HandleDecompiled
    PROVE  ReadInv'
<1>. DEFINE e == Head(events)
            produced == e.files
            At(f) == CHOOSE n \in DOMAIN produced : produced[n][1] = f
<1>1. /\ events # << >> /\ e.event = "decompiled" /\ events' = Tail(events)
      /\ vfs' = [f \in Files |-> IF Made(produced, f) THEN produced[At(f)][2] ELSE vfs[f]]
      /\ UNCHANGED <<job, failures, crashes>>
  BY DEF HandleDecompiled, bounds, Made
<1>2. Calm' = Calm
  BY <1>1 DEF Calm
<1>3. /\ \A n \in DOMAIN events' : EventReads(events[n])'
      /\ EventReads(e)
  BY <1>1, <1>2, TakenReads
<1>4. \A f : Made(produced, f) => At(f) \in DOMAIN produced /\ produced[At(f)][1] = f
  BY DEF Made
<1>5. Calm => PartsShared(produced)
  BY <1>1, <1>3 DEF EventReads
<1>. HIDE DEF e, produced, At
<1>6. Calm => \A f \in ClassFiles : vfs'[f] = "part" => Shared(f)
  <2>. SUFFICES ASSUME Calm, NEW f \in ClassFiles, vfs'[f] = "part"
                PROVE  Shared(f)
    OBVIOUS
  <2>1. CASE Made(produced, f)
    <3>1. produced[At(f)][2] = "part"
      BY <1>1, <2>1, NeedsAreFiles
    <3>. QED
      BY <1>4, <1>5, <2>1, <3>1 DEF PartsShared
  <2>2. CASE ~Made(produced, f)
    <3>1. vfs[f] = "part"
      BY <1>1, <2>2, NeedsAreFiles
    <3>. QED
      BY <3>1 DEF ReadInv
  <2>. QED
    BY <2>1, <2>2
<1>7. \A q \in Requests : JobReads(q)'
  BY <1>1, <1>2 DEF ReadInv, JobReads, PartsShared, Shared
<1>. QED
  BY <1>2, <1>3, <1>6, <1>7 DEF ReadInv, Shared

(* A prune only tells jobs that what they write is lost; a crash ends all. *)
LEMMA PruneReads ==
    ASSUME FilesInv, ReadInv, Prune
    PROVE  ReadInv'
<1>1. UNCHANGED <<vfs, events, failures, crashes>>
  BY DEF Prune
<1>2. PICK files \in SUBSET Files :
          job' = [r \in Requests |->
                     IF Working(r, "writing") /\ job[r].file \in files
                     THEN [job[r] EXCEPT !.step = "lost"] ELSE job[r]]
  BY DEF Prune
<1>3. ASSUME NEW r \in Requests
      PROVE  /\ job'[r].files = job[r].files /\ job'[r].file = job[r].file
             /\ job'[r].produced = job[r].produced
             /\ job'[r].step = job[r].step \/ job[r].step = "writing"
  <2>1. job[r] \in Jobs
    BY JobTyped DEF FilesInv
  <2>2. job'[r] = job[r] \/ (job[r].step = "writing" /\ job'[r] = [job[r] EXCEPT !.step = "lost"])
    BY <1>2 DEF Working
  <2>. QED
    BY <2>1, <2>2 DEF Jobs
<1>4. \A r \in Requests : JobReads(r)'
  BY <1>1, <1>3 DEF ReadInv, JobReads, PartsShared, Calm, Shared
<1>. QED
  BY <1>1, <1>4 DEF ReadInv, EventReads, PartsShared, Calm, Shared

LEMMA CrashReads ==
    ASSUME FilesInv, Crash
    PROVE  ReadInv'
<1>1. crashes' = crashes + 1 /\ events' = << >> /\ job' = [r \in Requests |-> NoJob]
  BY DEF Crash
<1>2. crashes \in Nat
  BY LibraryFilesAssumption DEF FilesInv, Typed, TypeOK
<1>3. ~Calm'
  BY <1>1, <1>2 DEF Calm
<1>4. DOMAIN events' = {}
  BY <1>1, EmptySeq, LenProperties
<1>5. \A r \in Requests : JobReads(r)'
  BY <1>1, <1>3, NoJobTyped DEF JobReads
<1>. QED
  BY <1>3, <1>4, <1>5 DEF ReadInv

-----------------------------------------------------------------------------
(* The theorems.                                                           *)

LEMMA FilesInvInit == Init => FilesInv
<1>. SUFFICES ASSUME Init
              PROVE  FilesInv
  OBVIOUS
<1>1. /\ disk \in [Files -> Contents] /\ vfs \in [Files -> Contents]
      /\ request \in [Requests -> RequestStates] /\ spoilt = {}
      /\ \A f \in Files : disk[f] # "part" /\ vfs[f] = "none"
      /\ \A r \in Requests : request[r] = "new" /\ job[r] = NoJob
  BY DEF Init, Contents, RequestStates
<1>2. /\ events \in Seq(Event) /\ DOMAIN events = {} /\ job \in [Requests -> Jobs]
  BY NoJobTyped, EmptySeq, LenProperties DEF Init
<1>3. failures \in 0..MaxFailures /\ prunes \in 0..MaxPrunes /\ crashes \in 0..MaxCrashes
  BY LibraryFilesAssumption DEF Init
<1>4. Typed
  BY <1>1, <1>2, <1>3, NoJobTyped DEF Typed, TypeOK, Steps
<1>. QED
  BY <1>1, <1>2, <1>4, NoJobTyped, NeedsAreFiles
  DEF FilesInv, Apart, JobsSteady, OnTheWay, RetriedHas, DecompilingHas, NullHasCause,
      CacheIsWhole

LEMMA StutterKeeps ==
    ASSUME FilesInv, UNCHANGED vars
    PROVE  FilesInv'
<1>1. UNCHANGED <<disk, vfs, request, events, job, spoilt, failures, prunes, crashes>>
  BY DEF vars, bounds
<1>2. Typed' /\ Apart(events') /\ JobsSteady'
  BY <1>1 DEF FilesInv, Typed, TypeOK, JobsSteady, Steady
<1>3. OnTheWay'
  BY <1>1 DEF FilesInv, OnTheWay, RetriedHas, DecompilingHas, EventHas, Arrived
<1>4. NullHasCause' /\ CacheIsWhole'
  BY <1>1 DEF FilesInv, NullHasCause, CacheIsWhole, Working
<1>. QED
  BY <1>1, <1>2, <1>3, <1>4 DEF FilesInv

LEMMA FilesInvStep == FilesInv /\ [Next]_vars => FilesInv'
<1>. SUFFICES ASSUME FilesInv, [Next]_vars
              PROVE  FilesInv'
  OBVIOUS
<1>1. ASSUME NEW r \in Requests, RunRequest(r)
      PROVE  FilesInv'
  BY <1>1, RunRequestKeeps
<1>2. ASSUME NEW r \in Requests, Job(r)
      PROVE  FilesInv'
  BY <1>2, NextFileKeeps, FailKeeps, DecompileKeeps, MaterializeKeeps, OpenKeeps, WriteKeeps,
     ReadKeeps, ReportKeeps DEF Job
<1>3. CASE Loop
  BY <1>3, HandleLoadKeeps, HandleDecompiledKeeps DEF Loop
<1>4. CASE Prune
  BY <1>4, PruneKeeps
<1>5. CASE Crash
  BY <1>5, CrashKeeps
<1>6. CASE UNCHANGED vars
  BY <1>6, StutterKeeps
<1>. QED
  BY <1>1, <1>2, <1>3, <1>4, <1>5, <1>6 DEF Next

LEMMA FilesInvariant == Spec => []FilesInv
BY FilesInvInit, FilesInvStep, PTL DEF Spec

LEMMA ReadInvInit == Init => ReadInv
<1>. SUFFICES ASSUME Init
              PROVE  ReadInv
  OBVIOUS
<1>1. DOMAIN events = {} /\ \A f \in ClassFiles : vfs[f] = "none"
  BY NeedsAreFiles, EmptySeq, LenProperties DEF Init
<1>2. \A r \in Requests : job[r] = NoJob
  BY DEF Init
<1>. QED
  BY <1>1, <1>2, NoJobTyped DEF ReadInv, JobReads, PartsShared

LEMMA ReadInvStep == FilesInv /\ ReadInv /\ [Next]_vars => ReadInv'
<1>. SUFFICES ASSUME FilesInv, ReadInv, [Next]_vars
              PROVE  ReadInv'
  OBVIOUS
<1>1. ASSUME NEW r \in Requests, RunRequest(r)
      PROVE  ReadInv'
  BY <1>1, RunRequestReads
<1>2. ASSUME NEW r \in Requests, Job(r)
      PROVE  ReadInv'
  BY <1>2, JobReadsOn
<1>3. CASE Loop
  BY <1>3, HandleLoadReads, HandleDecompiledReads DEF Loop
<1>4. CASE Prune
  BY <1>4, PruneReads
<1>5. CASE Crash
  BY <1>5, CrashReads
<1>6. CASE UNCHANGED vars
  <2>1. UNCHANGED <<vfs, job, events, failures, crashes>>
    BY <1>6 DEF vars, bounds
  <2>. QED
    BY <2>1 DEF ReadInv, JobReads, EventReads, PartsShared, Calm, Shared
<1>. QED
  BY <1>1, <1>2, <1>3, <1>4, <1>5, <1>6 DEF Next

LEMMA ReadInvariant == Spec => []ReadInv
BY FilesInvariant, ReadInvInit, ReadInvStep, PTL DEF Spec

(* Every variable has its type, only a request that waits has a job, and   *)
(* every event of the task channel is about a request that was deferred,   *)
(* for any files, requests and needs.                                      *)
THEOREM TypeCorrect == Spec => []TypeOK
<1>1. FilesInv => TypeOK
  BY DEF FilesInv, Typed
<1>. QED
  BY <1>1, FilesInvariant, PTL

(* However many requests decompile the same file at once, and whatever is  *)
(* pruned, fails or crashes meanwhile: the one retry a request has finds   *)
(* every file it needs, unless that very file could not be made or was     *)
(* removed.                                                                *)
THEOREM NullIsExplained == Spec => []NullHasCause
<1>1. FilesInv => NullHasCause
  BY DEF FilesInv
<1>. QED
  BY <1>1, FilesInvariant, PTL

(* The database never has part of a source, although a crash may leave     *)
(* part of it in the cache; and without failures and crashes the cache has *)
(* part of a class only while a job is writing it, and the database only   *)
(* if several requests need it, whatever is pruned meanwhile.              *)
THEOREM NoTornText == Spec => []TextsAreWhole
<1>1. FilesInv /\ ReadInv => TextsAreWhole
  BY DEF FilesInv, ReadInv, CacheIsWhole, TextsAreWhole, Calm
<1>. QED
  BY <1>1, FilesInvariant, ReadInvariant, PTL
=============================================================================
