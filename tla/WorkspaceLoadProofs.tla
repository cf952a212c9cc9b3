------------------------ MODULE WorkspaceLoadProofs ------------------------
(***************************************************************************)
(* What holds of WorkspaceLoad for any folders, build systems and build    *)
(* files, however often these change and in whatever order syncs end.      *)
(***************************************************************************)
EXTENDS WorkspaceLoad, ModulePath, TLAPS, SequenceTheorems, FiniteSetTheorems,
        WellFoundedInduction

-----------------------------------------------------------------------------
(* The invariants.                                                         *)

(* Something under way will start a load of the folder, or end unanswered. *)
Waits(folders, f) == \E i \in DOMAIN folders : folders[i] = f

Pending(evs, f) ==
    \E i \in DOMAIN evs :
        evs[i].event \in {"probe", "ambiguous", "load"} /\ evs[i].folder = f

Unanswered(f) == \E d \in DOMAIN dialogs : dialogs[d].folder = f /\ dialogs[d].answer # "chosen"

(* A change of a build file the server knows, yet to be reported.          *)
Noticed(f) == \E s \in Known : <<f, s>> \in notices

Work(f) == Waits(toProbe, f) \/ Noticed(f) \/ Pending(events, f) \/ Unanswered(f)

LastOf(n) == \A m \in DOMAIN loads : m > n => loads[m].folder # loads[n].folder

(* With a JDK, unless there is work for the folder, its last load has read *)
(* the newest build files, or is going to read them.                       *)
NewestIsRead ==
    jdk => \A n \in DOMAIN loads :
               LastOf(n) => \/ loads[n].step = "queued"
                            \/ loads[n].version = edits[loads[n].folder]
                            \/ Work(loads[n].folder)

(* Without one every load is a plain graph, of its moment.                 *)
PlainInOrder ==
    ~jdk => \A n \in DOMAIN loads :
                /\ loads[n].step = "ended"
                /\ \A m \in DOMAIN loads :
                       n <= m /\ loads[n].folder = loads[m].folder
                          => loads[n].version <= loads[m].version

VersionsExist == \A n \in DOMAIN loads : loads[n].version <= edits[loads[n].folder]

Sent(evs) ==
    \A i \in DOMAIN evs :
        evs[i].event = "ended" => loads[evs[i].load].step \in {"sent", "ended"}

(* A graph that has replaced that of a later load has set overtaken.       *)
LaterIsOvertaken ==
    current # 0 =>
        \A n \in DOMAIN loads :
            n > current /\ loads[n].folder = loads[current].folder
                        /\ loads[n].step = "ended" /\ loads[n].ok => overtaken

LoadInv ==
    /\ TypeOK /\ NewestIsRead /\ PlainInOrder /\ VersionsExist
    /\ Sent(events) /\ LaterIsOvertaken

-----------------------------------------------------------------------------
(* Sequences.                                                              *)

LEMMA Appended ==
    ASSUME NEW S, NEW s \in Seq(S), NEW e \in S
    PROVE  /\ Append(s, e) \in Seq(S) /\ Len(s) \in Nat
           /\ DOMAIN s = 1..Len(s) /\ DOMAIN Append(s, e) = 1..Len(s) + 1
           /\ \A i \in DOMAIN s : i \in DOMAIN Append(s, e) /\ Append(s, e)[i] = s[i]
           /\ Len(s) + 1 \in DOMAIN Append(s, e) /\ Append(s, e)[Len(s) + 1] = e
           /\ \A i \in DOMAIN Append(s, e) : i \in DOMAIN s \/ i = Len(s) + 1
           /\ \A i \in DOMAIN s : i < Len(s) + 1
<1>1. /\ Append(s, e) \in Seq(S) /\ Len(Append(s, e)) = Len(s) + 1
      /\ \A i \in 1..Len(s) : Append(s, e)[i] = s[i]
      /\ Append(s, e)[Len(s) + 1] = e
  BY AppendProperties
<1>2. /\ Len(s) \in Nat /\ DOMAIN s = 1..Len(s)
      /\ DOMAIN Append(s, e) = 1..Len(s) + 1
  BY <1>1, LenProperties
<1>. QED
  BY <1>1, <1>2

LEMMA Tailed ==
    ASSUME NEW S, NEW s \in Seq(S), s # << >>
    PROVE  /\ Head(s) \in S /\ Tail(s) \in Seq(S)
           /\ 1 \in DOMAIN s /\ Head(s) = s[1]
           /\ \A i \in DOMAIN Tail(s) : i + 1 \in DOMAIN s /\ Tail(s)[i] = s[i + 1]
           /\ \A i \in DOMAIN s : i = 1 \/ (i - 1 \in DOMAIN Tail(s) /\ Tail(s)[i - 1] = s[i])
<1>1. /\ Head(s) \in S /\ Tail(s) \in Seq(S) /\ Len(Tail(s)) = Len(s) - 1
      /\ \A i \in 1..Len(Tail(s)) : Tail(s)[i] = s[i + 1]
  BY HeadTailProperties
<1>2. /\ Len(s) \in Nat \ {0} /\ DOMAIN s = 1..Len(s) /\ DOMAIN Tail(s) = 1..Len(s) - 1
      /\ Head(s) = s[1]
  BY <1>1, LenProperties, EmptySeq
<1>3. \A i \in DOMAIN Tail(s) : i + 1 \in DOMAIN s /\ Tail(s)[i] = s[i + 1]
  BY <1>1, <1>2
<1>4. ASSUME NEW i \in DOMAIN s, i # 1
      PROVE  i - 1 \in DOMAIN Tail(s) /\ Tail(s)[i - 1] = s[i]
  <2>1. i - 1 \in DOMAIN Tail(s) /\ (i - 1) + 1 = i
    BY <1>2, <1>4
  <2>. QED
    BY <1>3, <2>1
<1>. QED
  BY <1>1, <1>2, <1>3, <1>4

LEMMA PendingAppended ==
    ASSUME NEW S, NEW evs \in Seq(S), NEW e \in S, NEW f
    PROVE  /\ Pending(evs, f) => Pending(Append(evs, e), f)
           /\ e.event \in {"probe", "ambiguous", "load"} /\ e.folder = f
                 => Pending(Append(evs, e), f)
BY Appended DEF Pending

LEMMA PendingTailed ==
    ASSUME NEW S, NEW evs \in Seq(S), evs # << >>, NEW f, Pending(evs, f)
    PROVE  \/ Pending(Tail(evs), f)
           \/ Head(evs).event \in {"probe", "ambiguous", "load"} /\ Head(evs).folder = f
<1>1. PICK i \in DOMAIN evs :
          evs[i].event \in {"probe", "ambiguous", "load"} /\ evs[i].folder = f
  BY DEF Pending
<1>2. CASE i = 1
  <2>1. Head(evs) = evs[i]
    BY <1>2, Tailed
  <2>. QED
    BY <1>1, <2>1
<1>3. CASE i # 1
  <2>1. i - 1 \in DOMAIN Tail(evs) /\ Tail(evs)[i - 1] = evs[i]
    BY <1>3, Tailed
  <2>. QED
    BY <1>1, <2>1 DEF Pending
<1>. QED
  BY <1>2, <1>3

LEMMA SentAppended ==
    ASSUME NEW S, NEW evs \in Seq(S), NEW e \in S, Sent(evs),
           e.event = "ended" => loads[e.load].step \in {"sent", "ended"}
    PROVE  Sent(Append(evs, e))
BY Appended DEF Sent

LEMMA SentTailed ==
    ASSUME NEW S, NEW evs \in Seq(S), evs # << >>, Sent(evs)
    PROVE  Sent(Tail(evs))
BY Tailed DEF Sent

LEMMA LoadsTyped ==
    ASSUME TypeOK
    PROVE  /\ Len(loads) \in Nat /\ DOMAIN loads = 1..Len(loads)
           /\ \A n \in DOMAIN loads : loads[n] \in Load
           /\ current # 0 => current \in DOMAIN loads
BY ElementOfSeq, LenProperties DEF TypeOK

LEMMA EventsTyped ==
    ASSUME TypeOK, NEW i \in DOMAIN events
    PROVE  /\ events[i] \in Event
           /\ events[i].event = "ended" => events[i].load \in DOMAIN loads
           /\ events[i].event # "ended" => events[i].folder \in Roots
<1>1. events[i] \in Event
  BY ElementOfSeq, LenProperties DEF TypeOK
<1>. QED
  BY <1>1 DEF Event

(* Loads are added or changed, so an event of one stays an event.          *)
LEMMA EventsGrow ==
    ASSUME DOMAIN loads \subseteq DOMAIN loads', NEW evs \in Seq(Event)
    PROVE  evs \in Seq(Event')
<1>1. Event \subseteq Event'
  BY DEF Event
<1>. HIDE DEF Event
<1>. QED
  BY <1>1, SeqMonotonic

-----------------------------------------------------------------------------
(* A load is added.                                                        *)

LEMMA AddedShape ==
    ASSUME TypeOK, NEW l \in Load, loads' = Append(loads, l)
    PROVE  /\ loads' \in Seq(Load) /\ Len(loads) \in Nat /\ Len(loads') = Len(loads) + 1
           /\ DOMAIN loads = 1..Len(loads) /\ DOMAIN loads' = 1..Len(loads) + 1
           /\ \A n \in DOMAIN loads : n \in DOMAIN loads' /\ loads'[n] = loads[n]
           /\ Len(loads) + 1 \in DOMAIN loads' /\ loads'[Len(loads) + 1] = l
           /\ \A n \in DOMAIN loads' : n \in DOMAIN loads \/ n = Len(loads) + 1
           /\ \A n \in DOMAIN loads : n < Len(loads) + 1
<1>1. loads \in Seq(Load)
  BY DEF TypeOK
<1>. QED
  BY <1>1, Appended, AppendProperties

LEMMA AddedVersions ==
    ASSUME LoadInv, NEW l \in Load, loads' = Append(loads, l), UNCHANGED <<edits, jdk>>,
           \/ l.step = "queued" /\ l.version = 0 /\ jdk
           \/ l.step = "ended" /\ l.version = edits[l.folder],
           \A g \in Roots : g # l.folder /\ Work(g) => Work(g)'
    PROVE  NewestIsRead' /\ PlainInOrder' /\ VersionsExist'
<1>. DEFINE top == Len(loads) + 1
<1>1. /\ top \in DOMAIN loads' /\ loads'[top] = l /\ l.folder \in Roots
      /\ \A n \in DOMAIN loads : n \in DOMAIN loads' /\ loads'[n] = loads[n]
      /\ \A n \in DOMAIN loads' : n \in DOMAIN loads \/ n = top
      /\ \A n \in DOMAIN loads : n < top /\ loads[n] \in Load
      /\ top \in Nat /\ DOMAIN loads \subseteq Nat
  BY AddedShape, LoadsTyped DEF LoadInv, Load
<1>. HIDE DEF top
<1>2. \A f \in Roots : edits[f] \in Nat
  BY DEF LoadInv, TypeOK
<1>3. NewestIsRead'
  <2>. SUFFICES ASSUME jdk', NEW n \in DOMAIN loads', LastOf(n)',
                       NEW f, f = loads'[n].folder
                PROVE  loads'[n].step = "queued" \/ loads'[n].version = edits'[f] \/ Work(f)'
    BY DEF NewestIsRead, Work
  <2>1. CASE n = top
    BY <1>1, <2>1
  <2>2. CASE n \in DOMAIN loads
    <3>1. loads[n].folder # l.folder /\ LastOf(n) /\ loads'[n] = loads[n]
      BY <1>1, <2>2 DEF LastOf
    <3>2. f \in Roots /\ f # l.folder /\ f = loads[n].folder
      BY <1>1, <2>2, <3>1 DEF Load
    <3>3. loads[n].step = "queued" \/ loads[n].version = edits[f] \/ Work(f)
      BY <2>2, <3>1, <3>2 DEF LoadInv, NewestIsRead
    <3>. QED
      BY <3>1, <3>2, <3>3
  <2>. QED
    BY <1>1, <2>1, <2>2
<1>4. PlainInOrder'
  <2>. SUFFICES ASSUME ~jdk, NEW n \in DOMAIN loads'
                PROVE  /\ loads'[n].step = "ended"
                       /\ \A m \in DOMAIN loads' :
                              n <= m /\ loads'[n].folder = loads'[m].folder
                                 => loads'[n].version <= loads'[m].version
    BY DEF PlainInOrder
  <2>1. \A k \in DOMAIN loads : loads[k].version <= edits[loads[k].folder]
    BY DEF LoadInv, VersionsExist
  <2>2. ASSUME NEW m \in DOMAIN loads', n <= m, loads'[n].folder = loads'[m].folder
        PROVE  loads'[n].version <= loads'[m].version
    <3>1. CASE m = top /\ n = top
      BY <1>1, <1>2, <3>1
    <3>2. CASE m = top /\ n \in DOMAIN loads
      BY <1>1, <2>1, <2>2, <3>2
    <3>3. CASE m \in DOMAIN loads /\ n \in DOMAIN loads
      BY <1>1, <2>2, <3>3 DEF LoadInv, PlainInOrder
    <3>4. ~(m \in DOMAIN loads /\ n = top)
      BY <1>1, <2>2
    <3>. QED
      BY <1>1, <3>1, <3>2, <3>3, <3>4
  <2>. QED
    BY <1>1, <2>2 DEF LoadInv, PlainInOrder
<1>5. VersionsExist'
  <2>1. l.version <= edits[l.folder]
    BY <1>1, <1>2
  <2>. QED
    BY <1>1, <2>1 DEF LoadInv, VersionsExist
<1>. QED
  BY <1>3, <1>4, <1>5

(* A load goes on, or ends.                                                *)

LEMMA ChangedShape ==
    ASSUME TypeOK, NEW n \in DOMAIN loads, NEW r \in Load, loads' = [loads EXCEPT ![n] = r]
    PROVE  /\ loads' \in Seq(Load) /\ Len(loads') = Len(loads) /\ DOMAIN loads' = DOMAIN loads
           /\ loads'[n] = r /\ \A m \in DOMAIN loads : m # n => loads'[m] = loads[m]
<1>1. loads \in Seq(Load) /\ n \in 1..Len(loads)
  BY LoadsTyped DEF TypeOK
<1>2. loads' \in Seq(Load) /\ Len(loads') = Len(loads)
  BY <1>1, ExceptSeq
<1>. QED
  BY <1>1, <1>2

LEMMA ChangedVersions ==
    ASSUME LoadInv, NEW n \in DOMAIN loads, NEW r \in Load, loads' = [loads EXCEPT ![n] = r],
           r.folder = loads[n].folder, UNCHANGED <<edits, jdk>>,
           \/ r.version = edits[r.folder] /\ loads[n].step # "ended"
           \/ r.version = loads[n].version /\ loads[n].step # "queued"
                                           /\ (loads[n].step = "ended" => r.step = "ended"),
           \A g \in Roots : Work(g) => Work(g)'
    PROVE  NewestIsRead' /\ PlainInOrder' /\ VersionsExist'
<1>1. /\ DOMAIN loads' = DOMAIN loads /\ loads'[n] = r
      /\ \A m \in DOMAIN loads : m # n => loads'[m] = loads[m]
      /\ \A m \in DOMAIN loads : loads[m] \in Load /\ loads[m].folder \in Roots
      /\ \A m \in DOMAIN loads : loads'[m].folder = loads[m].folder
  BY ChangedShape, LoadsTyped DEF LoadInv, Load
<1>2. \A f \in Roots : edits[f] \in Nat
  BY DEF LoadInv, TypeOK
<1>3. NewestIsRead'
  <2>. SUFFICES ASSUME jdk', NEW m \in DOMAIN loads', LastOf(m)',
                       NEW f, f = loads'[m].folder
                PROVE  loads'[m].step = "queued" \/ loads'[m].version = edits'[f] \/ Work(f)'
    BY DEF NewestIsRead, Work
  <2>1. m \in DOMAIN loads /\ LastOf(m) /\ f \in Roots /\ f = loads[m].folder
    BY <1>1 DEF LastOf
  <2>2. loads[m].step = "queued" \/ loads[m].version = edits[f] \/ Work(f)
    BY <2>1 DEF LoadInv, NewestIsRead
  <2>3. CASE m = n
    BY <1>1, <2>1, <2>2, <2>3
  <2>4. CASE m # n
    BY <1>1, <2>1, <2>2, <2>4
  <2>. QED
    BY <2>3, <2>4
<1>4. PlainInOrder'
  <2>. SUFFICES ASSUME ~jdk PROVE PlainInOrder'
    BY DEF PlainInOrder
  <2>1. loads[n].step = "ended" /\ r.step = "ended" /\ r.version = loads[n].version
    BY DEF LoadInv, PlainInOrder
  <2>2. \A m \in DOMAIN loads : loads'[m].version = loads[m].version
                                  /\ loads'[m].step = loads[m].step
    BY <1>1, <2>1
  <2>. QED
    BY <1>1, <2>2 DEF LoadInv, PlainInOrder
<1>5. VersionsExist'
  <2>1. r.version <= edits[r.folder]
    BY <1>1, <1>2 DEF LoadInv, VersionsExist
  <2>. QED
    BY <1>1, <2>1 DEF LoadInv, VersionsExist
<1>. QED
  BY <1>3, <1>4, <1>5

(* No load changes; a folder whose build files do has work.                *)
LEMMA KeptVersions ==
    ASSUME LoadInv, UNCHANGED <<loads, jdk>>, edits' \in [Roots -> Nat],
           \A g \in Roots : /\ Work(g) => Work(g)'
                            /\ edits'[g] = edits[g] \/ (edits'[g] > edits[g] /\ Work(g)')
    PROVE  NewestIsRead' /\ PlainInOrder' /\ VersionsExist'
<1>1. \A m \in DOMAIN loads : loads[m] \in Load /\ loads[m].folder \in Roots
                               /\ loads[m].version \in Nat
  BY LoadsTyped DEF LoadInv, Load
<1>2. \A f \in Roots : edits[f] \in Nat /\ edits'[f] \in Nat /\ edits[f] <= edits'[f]
  <2>1. \A f \in Roots : edits[f] \in Nat /\ edits'[f] \in Nat
    BY DEF LoadInv, TypeOK
  <2>2. \A f \in Roots : edits'[f] = edits[f] \/ edits'[f] > edits[f]
    OBVIOUS
  <2>. QED
    BY <2>1, <2>2
<1>3. NewestIsRead'
  <2>. SUFFICES ASSUME jdk', NEW m \in DOMAIN loads', LastOf(m)',
                       NEW f, f = loads'[m].folder
                PROVE  loads'[m].step = "queued" \/ loads'[m].version = edits'[f] \/ Work(f)'
    BY DEF NewestIsRead, Work
  <2>1. m \in DOMAIN loads /\ LastOf(m) /\ f \in Roots /\ f = loads[m].folder
    BY <1>1 DEF LastOf
  <2>2. loads[m].step = "queued" \/ loads[m].version = edits[f] \/ Work(f)
    BY <2>1 DEF LoadInv, NewestIsRead
  <2>. QED
    BY <2>1, <2>2
<1>4. PlainInOrder'
  BY DEF LoadInv, PlainInOrder
<1>5. VersionsExist'
  BY <1>1, <1>2 DEF LoadInv, VersionsExist
<1>. QED
  BY <1>3, <1>4, <1>5

(* Apply, whichever load it is of.                                         *)
LEMMA ApplyOvertakes ==
    ASSUME NEW n \in DOMAIN loads', DOMAIN loads' = 1..Len(loads'), Len(loads') \in Nat,
           Apply(n, loads')
    PROVE  LaterIsOvertaken' /\ current' = n /\ overtaken' \in BOOLEAN
<1>1. current' = n
  BY DEF Apply
<1>2. ASSUME NEW m \in DOMAIN loads', m > n, loads'[m].folder = loads'[n].folder,
             loads'[m].step = "ended", loads'[m].ok
      PROVE  overtaken'
  <2>1. m \in n + 1 .. Len(loads')
    BY <1>2
  <2>. QED
    BY <1>2, <2>1 DEF Apply
<1>. QED
  BY <1>1, <1>2 DEF LaterIsOvertaken, Apply

LEMMA PlainTyped ==
    ASSUME TypeOK, NEW f \in Roots
    PROVE  /\ Plain(f) \in Load /\ Plain(f).ok /\ Plain(f).step = "ended"
           /\ Plain(f).folder = f /\ Plain(f).version = edits[f]
BY DEF TypeOK, Plain, Load

LEMMA SyncTyped ==
    ASSUME NEW f \in Roots, NEW s \in Systems
    PROVE  /\ Sync(f, s) \in Load /\ Sync(f, s).step = "queued"
           /\ Sync(f, s).folder = f /\ Sync(f, s).version = 0
BY DEF Sync, Load

LEMMA EventKinds ==
    ASSUME NEW f \in Roots
    PROVE  /\ /\ ProbeWorkspace(f) \in Event /\ ProbeWorkspace(f).event = "probe"
              /\ ProbeWorkspace(f).folder = f
           /\ \A systems \in SUBSET Systems :
                  /\ AmbiguousWorkspace(f, systems) \in Event
                  /\ AmbiguousWorkspace(f, systems).event = "ambiguous"
                  /\ AmbiguousWorkspace(f, systems).folder = f
           /\ \A s \in Systems :
                  /\ StartSync(f, s) \in Event /\ StartSync(f, s).event = "load"
                  /\ StartSync(f, s).folder = f
BY DEF ProbeWorkspace, AmbiguousWorkspace, StartSync, Event

(* A probe, of on_initialized or of the main loop.                         *)
LEMMA ProbeKeeps ==
    ASSUME LoadInv, NEW f \in Roots, NEW rest \in Seq(Event), Probe(f, rest), Sent(rest),
           UNCHANGED <<diskVars, dialogs, jdk>>, toProbe' \in Seq(Roots),
           \A g \in Roots : g # f /\ Work(g) =>
               Waits(toProbe', g) \/ Noticed(g) \/ Pending(rest, g) \/ Unanswered(g)
    PROVE  LoadInv'
<1>1. CASE ~(buildFiles[f] = {} /\ events' = rest)
  <2>0. UNCHANGED <<loads, current, overtaken>>
    BY <1>1 DEF Probe
  <2>1. PICK e \in Event : /\ events' = Append(rest, e) /\ e.folder = f
                           /\ e.event \in {"probe", "ambiguous", "load"}
    <3>1. CASE /\ Cardinality(buildFiles[f]) = 1
               /\ events' = Append(rest, StartSync(f, CHOOSE s \in buildFiles[f] : TRUE))
      <4>1. buildFiles[f] \subseteq Systems
        BY DEF LoadInv, TypeOK
      <4>2. buildFiles[f] # {}
        <5>1. Cardinality({}) # 1
          BY FS_EmptySet
        <5>. QED
          BY <3>1, <5>1
      <4>3. (CHOOSE s \in buildFiles[f] : TRUE) \in Systems
        BY <4>1, <4>2
      <4>. DEFINE e0 == StartSync(f, CHOOSE s \in buildFiles[f] : TRUE)
      <4>4. e0 \in Event /\ e0.event = "load" /\ e0.folder = f
        BY <4>3, EventKinds
      <4>5. events' = Append(rest, e0)
        BY <3>1
      <4>. HIDE DEF e0
      <4>. QED
        BY <4>4, <4>5
    <3>2. CASE events' = Append(rest, AmbiguousWorkspace(f, buildFiles[f]))
      <4>1. buildFiles[f] \subseteq Systems
        BY DEF LoadInv, TypeOK
      <4>. DEFINE e0 == AmbiguousWorkspace(f, buildFiles[f])
      <4>2. e0 \in Event /\ e0.event = "ambiguous" /\ e0.folder = f
        BY <4>1, EventKinds
      <4>3. events' = Append(rest, e0)
        BY <3>2
      <4>. HIDE DEF e0
      <4>. QED
        BY <4>2, <4>3
    <3>. QED
      BY <1>1, <3>1, <3>2 DEF Probe
  <2>2. events' \in Seq(Event) /\ Event' = Event
    BY <2>0, <2>1, AppendProperties DEF Event
  <2>3. \A g \in Roots : (Pending(rest, g) => Pending(events', g)) /\ Pending(events', f)
    BY <2>1, PendingAppended
  <2>4. \A g \in Roots : Unanswered(g)' = Unanswered(g)
    BY DEF Unanswered
  <2>5. \A g \in Roots : Work(g) => Work(g)'
    BY <2>3, <2>4 DEF Work, Noticed, diskVars
  <2>6. NewestIsRead' /\ PlainInOrder' /\ VersionsExist'
    BY <2>0, <2>5, KeptVersions DEF diskVars, LoadInv, TypeOK
  <2>7. Sent(events)'
    <3>1. Sent(events')
      BY <2>1, SentAppended
    <3>. QED
      BY <2>0, <3>1 DEF Sent
  <2>. QED
    BY <2>0, <2>2, <2>6, <2>7 DEF LoadInv, TypeOK, LaterIsOvertaken, diskVars
<1>2. CASE buildFiles[f] = {} /\ events' = rest
  <2>1. loads' = Append(loads, Plain(f)) /\ Apply(Len(loads'), loads')
    BY <1>2, FS_EmptySet DEF Probe
  <2>2. /\ Plain(f) \in Load /\ Plain(f).ok /\ Plain(f).step = "ended"
        /\ Plain(f).folder = f /\ Plain(f).version = edits[f]
    BY PlainTyped DEF LoadInv
  <2>. HIDE DEF Plain
  <2>3. /\ loads' \in Seq(Load) /\ Len(loads) \in Nat /\ Len(loads') = Len(loads) + 1
        /\ DOMAIN loads = 1..Len(loads) /\ DOMAIN loads' = 1..Len(loads) + 1
        /\ \A n \in DOMAIN loads : n \in DOMAIN loads' /\ loads'[n] = loads[n]
        /\ loads'[Len(loads) + 1] = Plain(f)
    BY <2>1, <2>2, AddedShape DEF LoadInv
  <2>4. \A g \in Roots : Unanswered(g)' = Unanswered(g)
    BY DEF Unanswered
  <2>5. \A g \in Roots : g # f /\ Work(g) => Work(g)'
    BY <1>2, <2>4 DEF Work, Noticed, diskVars
  <2>6. NewestIsRead' /\ PlainInOrder' /\ VersionsExist'
    BY <2>1, <2>2, <2>5, AddedVersions DEF diskVars
  <2>7. LaterIsOvertaken' /\ current' = Len(loads') /\ overtaken' \in BOOLEAN
    BY <2>1, <2>3, ApplyOvertakes
  <2>8. Sent(events)'
    <3>1. \A i \in DOMAIN rest : rest[i] \in Event
      BY ElementOfSeq, LenProperties
    <3>2. \A i \in DOMAIN rest : rest[i].event = "ended" => rest[i].load \in DOMAIN loads
      BY <3>1 DEF Event
    <3>. QED
      BY <1>2, <2>3, <3>2 DEF Sent
  <2>9. events' \in Seq(Event')
    BY <1>2, <2>3, EventsGrow
  <2>10. /\ current' \in 0..Len(loads') /\ loads'[current'].ok
         /\ loads'[current'].step = "ended"
    BY <2>2, <2>3, <2>7
  <2>12. TypeOK'
    BY <2>3, <2>7, <2>9, <2>10 DEF LoadInv, TypeOK, diskVars
  <2>. QED
    BY <2>6, <2>7, <2>8, <2>12 DEF LoadInv
<1>. QED
  BY <1>1, <1>2

-----------------------------------------------------------------------------
(* Each action keeps the invariant.                                        *)

LEMMA TakenEvent ==
    ASSUME LoadInv, NEW kind, Takes(kind)
    PROVE  /\ events \in Seq(Event) /\ events # << >> /\ Tail(events) \in Seq(Event)
           /\ Head(events) \in Event /\ Head(events).event = kind
           /\ Sent(Tail(events))
           /\ kind # "ended" => Head(events).folder \in Roots
           /\ kind = "ended" => Head(events).load \in DOMAIN loads
           /\ kind = "ended" => loads[Head(events).load].step \in {"sent", "ended"}
           /\ \A g \in Roots : Pending(events, g) =>
                 \/ Pending(Tail(events), g)
                 \/ kind \in {"probe", "ambiguous", "load"} /\ Head(events).folder = g
<1>1. events \in Seq(Event) /\ events # << >> /\ Head(events).event = kind
  BY DEF LoadInv, TypeOK, Takes
<1>2. /\ Tail(events) \in Seq(Event) /\ Head(events) \in Event
      /\ 1 \in DOMAIN events /\ Head(events) = events[1]
  BY <1>1, Tailed
<1>3. Sent(Tail(events))
  BY <1>1, SentTailed DEF LoadInv
<1>4. /\ kind # "ended" => Head(events).folder \in Roots
      /\ kind = "ended" => Head(events).load \in DOMAIN loads
  BY <1>1, <1>2, EventsTyped DEF LoadInv
<1>5. kind = "ended" => loads[Head(events).load].step \in {"sent", "ended"}
  BY <1>1, <1>2 DEF LoadInv, Sent
<1>6. \A g \in Roots : Pending(events, g) =>
                 \/ Pending(Tail(events), g)
                 \/ kind \in {"probe", "ambiguous", "load"} /\ Head(events).folder = g
  BY <1>1, PendingTailed
<1>. QED
  BY <1>1, <1>2, <1>3, <1>4, <1>5, <1>6

LEMMA TriggerProbeKeeps ==
    ASSUME LoadInv, TriggerProbe
    PROVE  LoadInv'
<1>1. /\ toProbe \in Seq(Roots) /\ toProbe # << >> /\ toProbe' = Tail(toProbe)
      /\ Probe(Head(toProbe), events) /\ UNCHANGED <<diskVars, dialogs, jdk>>
      /\ events \in Seq(Event) /\ Sent(events)
  BY DEF TriggerProbe, LoadInv, TypeOK
<1>2. /\ Head(toProbe) \in Roots /\ toProbe' \in Seq(Roots)
      /\ Head(toProbe) = toProbe[1]
      /\ \A i \in DOMAIN toProbe : i = 1 \/ (i - 1 \in DOMAIN toProbe' /\ toProbe'[i - 1] = toProbe[i])
  BY <1>1, Tailed
<1>3. ASSUME NEW g \in Roots, g # Head(toProbe), Waits(toProbe, g)
      PROVE  Waits(toProbe', g)
  BY <1>2, <1>3 DEF Waits
<1>4. \A g \in Roots : g # Head(toProbe) /\ Work(g) =>
          Waits(toProbe', g) \/ Noticed(g) \/ Pending(events, g) \/ Unanswered(g)
  BY <1>3 DEF Work
<1>. QED
  BY <1>1, <1>2, <1>4, ProbeKeeps

LEMMA HandleProbeKeeps ==
    ASSUME LoadInv, HandleProbe
    PROVE  LoadInv'
<1>1. /\ Takes("probe") /\ Probe(Head(events).folder, Tail(events))
      /\ UNCHANGED <<diskVars, dialogs, jdk>> /\ toProbe' = toProbe /\ toProbe \in Seq(Roots)
  BY DEF HandleProbe, LoadInv, TypeOK
<1>2. /\ Tail(events) \in Seq(Event) /\ Sent(Tail(events)) /\ Head(events).folder \in Roots
      /\ \A g \in Roots : Pending(events, g) =>
            Pending(Tail(events), g) \/ Head(events).folder = g
  BY <1>1, TakenEvent
<1>3. \A g \in Roots : g # Head(events).folder /\ Work(g) =>
          Waits(toProbe', g) \/ Noticed(g) \/ Pending(Tail(events), g) \/ Unanswered(g)
  BY <1>1, <1>2 DEF Work
<1>. QED
  BY <1>1, <1>2, <1>3, ProbeKeeps

(* Steps after which the loads are as they were.                           *)
LEMMA IdleKeeps ==
    ASSUME LoadInv, UNCHANGED <<loads, current, overtaken, jdk>>, toProbe' = toProbe,
           buildFiles' \in [Roots -> SUBSET Systems], edits' \in [Roots -> Nat],
           foreign' \in [Roots -> Nat],
           notices' \subseteq Roots \X Systems, events' \in Seq(Event), Sent(events'),
           dialogs' \in Seq([folder : Roots, answer : {"none", "chosen", "dismissed"},
                             systems : SUBSET Systems]),
           \A g \in Roots : /\ Work(g) => Work(g)'
                            /\ edits'[g] = edits[g] \/ (edits'[g] > edits[g] /\ Work(g)')
    PROVE  LoadInv'
<1>1. NewestIsRead' /\ PlainInOrder' /\ VersionsExist'
  BY KeptVersions
<1>2. Event' = Event
  BY DEF Event
<1>3. TypeOK'
  BY <1>2 DEF LoadInv, TypeOK
<1>4. Sent(events)' /\ LaterIsOvertaken'
  BY DEF LoadInv, Sent, LaterIsOvertaken
<1>. QED
  BY <1>1, <1>3, <1>4 DEF LoadInv

LEMMA HandleAmbiguousKeeps ==
    ASSUME LoadInv, HandleAmbiguous
    PROVE  LoadInv'
<1>. DEFINE Dialog == [folder : Roots, answer : {"none", "chosen", "dismissed"},
                       systems : SUBSET Systems]
            d == [folder |-> Head(events).folder, answer |-> "none",
                  systems |-> Head(events).systems]
<1>1. /\ Takes("ambiguous") /\ events' = Tail(events) /\ dialogs' = Append(dialogs, d)
      /\ UNCHANGED <<toProbe, diskVars, loads, current, overtaken, jdk>>
      /\ dialogs \in Seq(Dialog)
  BY DEF HandleAmbiguous, LoadInv, TypeOK
<1>2. /\ Tail(events) \in Seq(Event) /\ Sent(Tail(events)) /\ Head(events).folder \in Roots
      /\ Head(events) \in Event /\ Head(events).event = "ambiguous"
      /\ \A g \in Roots : Pending(events, g) =>
            Pending(Tail(events), g) \/ Head(events).folder = g
  BY <1>1, TakenEvent
<1>3. d \in Dialog /\ d.folder = Head(events).folder /\ d.answer = "none"
  BY <1>2 DEF Event
<1>. HIDE DEF d, Dialog
<1>4. /\ dialogs' \in Seq(Dialog)
      /\ \A i \in DOMAIN dialogs : i \in DOMAIN dialogs' /\ dialogs'[i] = dialogs[i]
      /\ Len(dialogs) + 1 \in DOMAIN dialogs' /\ dialogs'[Len(dialogs) + 1] = d
  BY <1>1, <1>3, Appended
<1>5. \A g \in Roots : (Unanswered(g) => Unanswered(g)')
                         /\ (Head(events).folder = g => Unanswered(g)')
  BY <1>3, <1>4 DEF Unanswered
<1>6. \A g \in Roots : Work(g) => Work(g)'
  BY <1>1, <1>2, <1>5 DEF Work, Noticed, diskVars
<1>7. /\ buildFiles' \in [Roots -> SUBSET Systems] /\ edits' \in [Roots -> Nat]
      /\ notices' \subseteq Roots \X Systems /\ \A g \in Roots : edits'[g] = edits[g]
      /\ foreign' \in [Roots -> Nat]
  BY <1>1 DEF LoadInv, TypeOK, diskVars
<1>. QED
  BY <1>1, <1>2, <1>4, <1>6, <1>7, IdleKeeps DEF Dialog

LEMMA HandleLoadKeeps ==
    ASSUME LoadInv, HandleLoad
    PROVE  LoadInv'
<1>1. /\ Takes("load") /\ events' = Tail(events)
      /\ UNCHANGED <<toProbe, buildFiles, edits, foreign, notices, dialogs, current, overtaken,
                     jdk>>
  BY DEF HandleLoad, diskVars
<1>2. /\ Tail(events) \in Seq(Event) /\ Sent(Tail(events)) /\ Head(events).folder \in Roots
      /\ Head(events) \in Event /\ Head(events).event = "load"
      /\ \A g \in Roots : Pending(events, g) =>
            Pending(Tail(events), g) \/ Head(events).folder = g
  BY <1>1, TakenEvent
<1>. DEFINE f == Head(events).folder
            l == Sync(f, Head(events).system)
<1>3. Head(events).system \in Systems
  BY <1>2 DEF Event
<1>4. l \in Load /\ l.step = "queued" /\ l.folder = f /\ l.version = 0
  BY <1>2, <1>3, SyncTyped
<1>5. jdk => loads' = Append(loads, l)
  BY DEF HandleLoad
<1>6. ~jdk => loads' = loads
  BY DEF HandleLoad
<1>. HIDE DEF l
<1>7. \A g \in Roots : g # f /\ Work(g) => Work(g)'
  BY <1>1, <1>2 DEF Work, Noticed, Unanswered
<1>8. CASE jdk
  <2>1. /\ loads' \in Seq(Load) /\ Len(loads) \in Nat /\ Len(loads') = Len(loads) + 1
        /\ DOMAIN loads = 1..Len(loads) /\ DOMAIN loads' = 1..Len(loads) + 1
        /\ \A n \in DOMAIN loads : n \in DOMAIN loads' /\ loads'[n] = loads[n]
        /\ loads'[Len(loads) + 1] = l
        /\ \A n \in DOMAIN loads' : n \in DOMAIN loads \/ n = Len(loads) + 1
    BY <1>4, <1>5, <1>8, AddedShape DEF LoadInv
  <2>2. NewestIsRead' /\ PlainInOrder' /\ VersionsExist'
    BY <1>1, <1>4, <1>5, <1>7, <1>8, AddedVersions
  <2>3. current # 0 => current \in DOMAIN loads
    BY LoadsTyped DEF LoadInv
  <2>4. LaterIsOvertaken'
    BY <1>1, <1>4, <2>1, <2>3 DEF LoadInv, LaterIsOvertaken
  <2>5. Sent(events)'
    <3>1. \A i \in DOMAIN Tail(events) : Tail(events)[i] \in Event
      BY <1>2, ElementOfSeq, LenProperties
    <3>2. \A i \in DOMAIN Tail(events) :
              Tail(events)[i].event = "ended" => Tail(events)[i].load \in DOMAIN loads
      BY <3>1 DEF Event
    <3>. QED
      BY <1>1, <1>2, <2>1, <3>2 DEF Sent
  <2>6. events' \in Seq(Event')
    BY <1>1, <1>2, <2>1, EventsGrow
  <2>7. current \in 0..Len(loads')
    BY <2>1 DEF LoadInv, TypeOK
  <2>8. TypeOK'
    BY <1>1, <2>1, <2>3, <2>6, <2>7 DEF LoadInv, TypeOK
  <2>. QED
    BY <2>2, <2>4, <2>5, <2>8 DEF LoadInv
<1>9. CASE ~jdk
  <2>1. UNCHANGED <<loads, current, overtaken, jdk>>
    BY <1>1, <1>6, <1>9
  <2>2. NewestIsRead'
    BY <1>1, <1>9 DEF NewestIsRead
  <2>3. PlainInOrder' /\ VersionsExist' /\ LaterIsOvertaken'
    BY <1>1, <2>1 DEF LoadInv, PlainInOrder, VersionsExist, LaterIsOvertaken
  <2>4. Sent(events)' /\ Event' = Event
    BY <1>1, <1>2, <2>1 DEF Sent, Event
  <2>5. TypeOK'
    BY <1>1, <1>2, <2>1, <2>4 DEF LoadInv, TypeOK
  <2>. QED
    BY <2>2, <2>3, <2>4, <2>5 DEF LoadInv
<1>. QED
  BY <1>8, <1>9

LEMMA HandleEndedKeeps ==
    ASSUME LoadInv, HandleEnded
    PROVE  LoadInv'
<1>. DEFINE n == Head(events).load
            r == [loads[n] EXCEPT !.step = "ended"]
<1>1. /\ Takes("ended") /\ events' = Tail(events) /\ loads' = [loads EXCEPT ![n] = r]
      /\ UNCHANGED <<toProbe, buildFiles, edits, foreign, notices, dialogs, jdk>>
  BY DEF HandleEnded, EndApplying, diskVars
<1>2. /\ loads[n].ok => Apply(n, loads')
      /\ ~loads[n].ok => UNCHANGED <<current, overtaken>>
  BY DEF HandleEnded, EndApplying
<1>3. /\ Tail(events) \in Seq(Event) /\ Sent(Tail(events)) /\ n \in DOMAIN loads
      /\ loads[n].step \in {"sent", "ended"}
      /\ \A g \in Roots : Pending(events, g) => Pending(Tail(events), g)
  BY <1>1, TakenEvent
<1>4. loads[n] \in Load
  BY <1>3, LoadsTyped DEF LoadInv
<1>5. /\ r \in Load /\ r.step = "ended" /\ r.folder = loads[n].folder
      /\ r.version = loads[n].version /\ r.ok = loads[n].ok
  BY <1>4 DEF Load
<1>. HIDE DEF n, r
<1>6. /\ loads' \in Seq(Load) /\ Len(loads') = Len(loads) /\ DOMAIN loads' = DOMAIN loads
      /\ loads'[n] = r /\ \A m \in DOMAIN loads : m # n => loads'[m] = loads[m]
  BY <1>1, <1>3, <1>5, ChangedShape DEF LoadInv
<1>7. \A g \in Roots : Work(g) => Work(g)'
  BY <1>1, <1>3 DEF Work, Noticed, Unanswered
<1>8. NewestIsRead' /\ PlainInOrder' /\ VersionsExist'
  BY <1>1, <1>3, <1>5, <1>7, ChangedVersions
<1>9. Sent(events)'
  BY <1>1, <1>3, <1>5, <1>6, EventsTyped DEF Sent
<1>10. events' \in Seq(Event')
  BY <1>1, <1>3, <1>6, EventsGrow
<1>11. /\ Len(loads) \in Nat /\ DOMAIN loads = 1..Len(loads)
       /\ current # 0 => current \in DOMAIN loads
  BY LoadsTyped DEF LoadInv
<1>12. CASE loads[n].ok
  <2>1. Apply(n, loads') /\ n \in DOMAIN loads' /\ DOMAIN loads' = 1..Len(loads')
        /\ Len(loads') \in Nat
    BY <1>2, <1>3, <1>6, <1>11, <1>12
  <2>2. LaterIsOvertaken' /\ current' = n /\ overtaken' \in BOOLEAN
    BY <2>1, ApplyOvertakes
  <2>3. loads'[current'] = r /\ r.ok /\ r.step = "ended"
    BY <1>5, <1>6, <1>12, <2>2
  <2>4. n \in 1..Len(loads')
    BY <2>1
  <2>5. current' \in 0..Len(loads')
    BY <2>1, <2>2, <2>4
  <2>. QED
    BY <1>1, <1>6, <1>8, <1>9, <1>10, <2>2, <2>3, <2>5 DEF LoadInv, TypeOK
<1>13. CASE ~loads[n].ok
  <2>1. UNCHANGED <<current, overtaken>>
    BY <1>2, <1>13
  <2>2. LaterIsOvertaken'
    BY <1>3, <1>5, <1>6, <1>11, <1>13, <2>1 DEF LoadInv, LaterIsOvertaken
  <2>3. /\ current' \in 0..Len(loads')
        /\ current' # 0 => loads'[current'].ok /\ loads'[current'].step = "ended"
    BY <1>5, <1>6, <1>11, <1>13, <2>1 DEF LoadInv, TypeOK
  <2>. QED
    BY <1>1, <1>6, <1>8, <1>9, <1>10, <2>1, <2>2, <2>3 DEF LoadInv, TypeOK
<1>. QED
  BY <1>12, <1>13

(* The changes of known systems that leave the notices lead to a probe.    *)
LEMMA WatchedKeeps ==
    ASSUME LoadInv, NEW f \in Roots, WatchedBuildFile(f)
    PROVE  LoadInv'
<1>1. PICK systems \in SUBSET {s \in Systems : <<f, s>> \in notices} \ {{}} :
          /\ notices' = notices \ ({f} \X systems)
          /\ events' = IF systems \cap Known # {} THEN Append(events, ProbeWorkspace(f))
                                                 ELSE events
  BY DEF WatchedBuildFile, WatchedFiles
<1>2. /\ UNCHANGED <<toProbe, buildFiles, edits, foreign, dialogs, loads, current,
                     overtaken, jdk>>
      /\ events \in Seq(Event) /\ Sent(events)
  BY DEF WatchedBuildFile, WatchedFiles, LoadInv, TypeOK
<1>. DEFINE e == ProbeWorkspace(f)
<1>3. e \in Event /\ e.event = "probe" /\ e.folder = f
  BY EventKinds
<1>. HIDE DEF e
<1>4. /\ events' \in Seq(Event) /\ Sent(events')
      /\ \A g \in Roots : Pending(events, g) => Pending(events', g)
      /\ systems \cap Known # {} => Pending(events', f)
  <2>1. CASE systems \cap Known # {}
    <3>1. events' = Append(events, e)
      BY <1>1, <2>1 DEF e
    <3>. QED
      BY <1>2, <1>3, <3>1, SentAppended, AppendProperties, PendingAppended
  <2>2. CASE systems \cap Known = {}
    <3>1. events' = events
      BY <1>1, <2>2
    <3>. QED
      BY <1>2, <2>2, <3>1
  <2>. QED
    BY <2>1, <2>2
<1>5. \A g \in Roots : Noticed(g) => Noticed(g)' \/ (g = f /\ systems \cap Known # {})
  BY <1>1 DEF Noticed
<1>6. \A g \in Roots : Unanswered(g) => Unanswered(g)'
  BY <1>2 DEF Unanswered
<1>7. \A g \in Roots : Work(g) => Work(g)'
  BY <1>2, <1>4, <1>5, <1>6 DEF Work
<1>8. /\ buildFiles' \in [Roots -> SUBSET Systems] /\ edits' \in [Roots -> Nat]
      /\ foreign' \in [Roots -> Nat]
      /\ \A g \in Roots : edits'[g] = edits[g]
      /\ dialogs' \in Seq([folder : Roots, answer : {"none", "chosen", "dismissed"},
                           systems : SUBSET Systems])
  BY <1>2 DEF LoadInv, TypeOK
<1>9. notices' \subseteq Roots \X Systems
  BY <1>1 DEF LoadInv, TypeOK
<1>. QED
  BY <1>2, <1>4, <1>7, <1>8, <1>9, IdleKeeps

LEMMA AnswerKeeps ==
    ASSUME LoadInv, NEW d \in DOMAIN dialogs, AnswerDialog(d)
    PROVE  LoadInv'
<1>. DEFINE Dialog == [folder : Roots, answer : {"none", "chosen", "dismissed"},
                       systems : SUBSET Systems]
<1>1. /\ dialogs \in Seq(Dialog) /\ events \in Seq(Event) /\ Sent(events)
      /\ UNCHANGED <<toProbe, diskVars, loads, current, overtaken, jdk>>
  BY DEF AnswerDialog, LoadInv, TypeOK, diskVars
<1>2. dialogs[d] \in Dialog /\ d \in 1..Len(dialogs) /\ DOMAIN dialogs = 1..Len(dialogs)
  BY <1>1, ElementOfSeq, LenProperties
<1>3. /\ buildFiles' \in [Roots -> SUBSET Systems] /\ edits' \in [Roots -> Nat]
      /\ notices' \subseteq Roots \X Systems /\ \A g \in Roots : edits'[g] = edits[g]
      /\ foreign' \in [Roots -> Nat]
  BY <1>1 DEF LoadInv, TypeOK, diskVars
<1>4. ASSUME NEW a \in {"chosen", "dismissed"}, dialogs' = [dialogs EXCEPT ![d].answer = a]
      PROVE  /\ dialogs' \in Seq(Dialog)
             /\ \A g \in Roots : Unanswered(g) =>
                   Unanswered(g)' \/ (a = "chosen" /\ dialogs[d].folder = g)
  <2>. DEFINE r == [dialogs[d] EXCEPT !.answer = a]
  <2>1. r \in Dialog /\ r.folder = dialogs[d].folder /\ r.answer = a
    BY <1>2
  <2>2. dialogs' = [dialogs EXCEPT ![d] = r]
    BY <1>4
  <2>. HIDE DEF r, Dialog
  <2>3. /\ dialogs' \in Seq(Dialog) /\ Len(dialogs') = Len(dialogs)
        /\ \A i \in 1..Len(dialogs) : dialogs'[i] = IF i = d THEN r ELSE dialogs[i]
    BY <1>1, <1>2, <2>1, <2>2, ExceptSeq
  <2>4. DOMAIN dialogs' = DOMAIN dialogs
    BY <1>2, <2>3, LenProperties
  <2>. QED
    BY <1>2, <2>1, <2>3, <2>4 DEF Unanswered
<1>. HIDE DEF Dialog
<1>5. CASE dialogs' = [dialogs EXCEPT ![d].answer = "dismissed"] /\ events' = events
  <2>1. \A g \in Roots : Unanswered(g) => Unanswered(g)'
    BY <1>4, <1>5
  <2>2. \A g \in Roots : Work(g) => Work(g)'
    BY <1>1, <1>5, <2>1 DEF Work, Noticed, diskVars
  <2>. QED
    BY <1>1, <1>3, <1>4, <1>5, <2>2, IdleKeeps DEF Dialog
<1>6. ASSUME dialogs' = [dialogs EXCEPT ![d].answer = "chosen"], NEW s \in dialogs[d].systems,
             events' = Append(events, StartSync(dialogs[d].folder, s))
      PROVE  LoadInv'
  <2>1. dialogs[d].folder \in Roots /\ s \in Systems
    BY <1>2 DEF Dialog
  <2>. DEFINE e == StartSync(dialogs[d].folder, s)
  <2>2. e \in Event /\ e.event = "load" /\ e.folder = dialogs[d].folder
    BY <2>1, EventKinds
  <2>3. events' = Append(events, e)
    BY <1>6
  <2>. HIDE DEF e
  <2>4. events' \in Seq(Event) /\ Sent(events')
    BY <1>1, <2>2, <2>3, SentAppended, AppendProperties
  <2>5. \A g \in Roots : (Pending(events, g) => Pending(events', g))
                           /\ Pending(events', dialogs[d].folder)
    BY <1>1, <2>2, <2>3, PendingAppended
  <2>6. /\ dialogs' \in Seq(Dialog)
        /\ \A g \in Roots : Unanswered(g) => Unanswered(g)' \/ dialogs[d].folder = g
    BY <1>4, <1>6
  <2>7. \A g \in Roots : Work(g) => Work(g)'
    BY <1>1, <2>5, <2>6 DEF Work, Noticed, diskVars
  <2>. QED
    BY <1>1, <1>3, <2>4, <2>6, <2>7, IdleKeeps DEF Dialog
<1>. QED
  BY <1>5, <1>6 DEF AnswerDialog

(* A worker's step: the load is not an ended one.                          *)
LEMMA WorkerKeeps ==
    ASSUME LoadInv, NEW n \in DOMAIN loads, NEW r \in Load, loads' = [loads EXCEPT ![n] = r],
           r.folder = loads[n].folder, loads[n].step \notin {"sent", "ended"}, r.step # "ended",
           \/ r.version = edits[r.folder]
           \/ r.version = loads[n].version /\ loads[n].step # "queued",
           UNCHANGED <<toProbe, buildFiles, edits, foreign, notices, dialogs, current, overtaken, jdk>>,
           events' \in Seq(Event), Sent(events)',
           \A g \in Roots : Pending(events, g) => Pending(events', g)
    PROVE  LoadInv'
<1>1. /\ loads' \in Seq(Load) /\ Len(loads') = Len(loads) /\ DOMAIN loads' = DOMAIN loads
      /\ loads'[n] = r /\ \A m \in DOMAIN loads : m # n => loads'[m] = loads[m]
  BY ChangedShape DEF LoadInv
<1>2. \A g \in Roots : Work(g) => Work(g)'
  BY DEF Work, Noticed, Unanswered
<1>3. NewestIsRead' /\ PlainInOrder' /\ VersionsExist'
  BY <1>2, ChangedVersions
<1>4. /\ DOMAIN loads = 1..Len(loads) /\ current # 0 => current \in DOMAIN loads
      /\ current # 0 => current # n
  BY LoadsTyped DEF LoadInv, TypeOK
<1>5. LaterIsOvertaken'
  BY <1>1, <1>4 DEF LoadInv, LaterIsOvertaken
<1>6. Event' = Event
  BY <1>1 DEF Event
<1>7. TypeOK'
  BY <1>1, <1>4, <1>6 DEF LoadInv, TypeOK
<1>. QED
  BY <1>3, <1>5, <1>7 DEF LoadInv

LEMMA SyncReadsKeeps ==
    ASSUME LoadInv, NEW n \in DOMAIN loads, SyncReads(n)
    PROVE  LoadInv'
<1>1. PICK ok \in {FALSE, loads[n].system \in buildFiles[loads[n].folder]} :
          loads' = [loads EXCEPT ![n].step = "read", ![n].ok = ok,
                                 ![n].version = edits[loads[n].folder]]
  BY DEF SyncReads
<1>2. loads[n].step = "queued"
      /\ UNCHANGED <<toProbe, buildFiles, edits, foreign, notices, events, dialogs, current, overtaken,
                     jdk>>
  BY DEF SyncReads, diskVars
<1>. DEFINE r == [loads[n] EXCEPT !.step = "read", !.ok = ok, !.version = edits[loads[n].folder]]
<1>3. loads[n] \in Load /\ loads \in Seq(Load)
  BY LoadsTyped DEF LoadInv, TypeOK
<1>4a. loads[n].folder \in Roots /\ edits \in [Roots -> Nat]
  BY <1>3 DEF LoadInv, TypeOK, Load
<1>4b. ok \in BOOLEAN
  <2>1. CASE ok = FALSE
    BY <2>1
  <2>2. CASE ok = (loads[n].system \in buildFiles[loads[n].folder])
    BY <2>2
  <2>. QED
    BY <1>1, <2>1, <2>2
<1>4. edits[loads[n].folder] \in Nat /\ ok \in BOOLEAN
  BY <1>4a, <1>4b
<1>5. /\ r \in Load /\ r.step = "read" /\ r.folder = loads[n].folder
      /\ r.version = edits[r.folder]
  BY <1>3, <1>4 DEF Load
<1>6. loads' = [loads EXCEPT ![n] = r]
  BY <1>1, <1>3
<1>. HIDE DEF r
<1>7. /\ DOMAIN loads' = DOMAIN loads /\ loads'[n] = r
      /\ \A m \in DOMAIN loads : m # n => loads'[m] = loads[m]
  BY <1>5, <1>6, ChangedShape DEF LoadInv
<1>8. \A i \in DOMAIN events : events[i].event = "ended" => events[i].load \in DOMAIN loads
  BY EventsTyped DEF LoadInv
<1>9. Sent(events)' /\ events' \in Seq(Event)
  BY <1>2, <1>7, <1>8 DEF LoadInv, Sent, TypeOK
<1>. QED
  BY <1>2, <1>5, <1>6, <1>9, WorkerKeeps

LEMMA SyncSendsKeeps ==
    ASSUME LoadInv, NEW n \in DOMAIN loads, SyncSends(n)
    PROVE  LoadInv'
<1>. DEFINE r == [loads[n] EXCEPT !.step = "sent"]
<1>1. /\ loads[n].step = "read" /\ loads' = [loads EXCEPT ![n] = r]
      /\ events' = Append(events, SyncEnded(n))
      /\ UNCHANGED <<toProbe, buildFiles, edits, foreign, notices, dialogs, current, overtaken,
                     jdk>>
  BY DEF SyncSends, diskVars
<1>2. loads[n] \in Load /\ events \in Seq(Event) /\ Sent(events)
  BY LoadsTyped DEF LoadInv, TypeOK
<1>3. /\ r \in Load /\ r.step = "sent" /\ r.folder = loads[n].folder
      /\ r.version = loads[n].version
  BY <1>2 DEF Load
<1>. HIDE DEF r
<1>4. /\ DOMAIN loads' = DOMAIN loads /\ loads'[n] = r
      /\ \A m \in DOMAIN loads : m # n => loads'[m] = loads[m]
  BY <1>1, <1>3, ChangedShape DEF LoadInv
<1>5. SyncEnded(n) \in Event /\ SyncEnded(n).event = "ended" /\ SyncEnded(n).load = n
  BY DEF SyncEnded, Event
<1>. DEFINE e == SyncEnded(n)
<1>6. e \in Event /\ e.event = "ended" /\ e.load = n /\ events' = Append(events, e)
  BY <1>1, <1>5
<1>. HIDE DEF e
<1>7. events' \in Seq(Event) /\ \A g \in Roots : Pending(events, g) => Pending(events', g)
  BY <1>2, <1>6, PendingAppended, AppendProperties
<1>8. \A i \in DOMAIN events : events[i].event = "ended" => events[i].load \in DOMAIN loads
  BY EventsTyped DEF LoadInv
<1>9. \A i \in DOMAIN events' : \/ i \in DOMAIN events /\ events'[i] = events[i]
                                \/ events'[i] = e
  BY <1>2, <1>6, Appended
<1>10. Sent(events)'
  <2>. SUFFICES ASSUME NEW i \in DOMAIN events', events'[i].event = "ended"
                PROVE  loads'[events'[i].load].step \in {"sent", "ended"}
    BY DEF Sent
  <2>1. CASE i \in DOMAIN events /\ events'[i] = events[i]
    BY <1>2, <1>3, <1>4, <1>8, <2>1 DEF Sent
  <2>2. CASE events'[i] = e
    BY <1>3, <1>4, <1>6, <2>2
  <2>. QED
    BY <1>9, <2>1, <2>2
<1>. QED
  BY <1>1, <1>3, <1>7, <1>10, WorkerKeeps

LEMMA EditKeeps ==
    ASSUME LoadInv, NEW f \in Roots, EditBuildFiles(f)
    PROVE  LoadInv'
<1>1. PICK s \in Systems :
          /\ \E files \in {buildFiles[f] \cup {s}, buildFiles[f] \ {s}} :
                 buildFiles' = [buildFiles EXCEPT ![f] = files]
          /\ notices' = notices \cup {<<f, s>>}
          /\ IF s \in Known
             THEN edits' = [edits EXCEPT ![f] = @ + 1] /\ UNCHANGED foreign
             ELSE foreign' = [foreign EXCEPT ![f] = @ + 1] /\ UNCHANGED edits
  BY DEF EditBuildFiles
<1>2. UNCHANGED <<toProbe, events, dialogs, loads, current, overtaken, jdk>>
  BY DEF EditBuildFiles
<1>3. buildFiles' \in [Roots -> SUBSET Systems]
  <2>1. buildFiles[f] \cup {s} \in SUBSET Systems /\ buildFiles[f] \ {s} \in SUBSET Systems
    BY DEF LoadInv, TypeOK
  <2>2. PICK files \in SUBSET Systems : buildFiles' = [buildFiles EXCEPT ![f] = files]
    BY <1>1, <2>1
  <2>. QED
    BY <2>2 DEF LoadInv, TypeOK
<1>4. edits' \in [Roots -> Nat] /\ foreign' \in [Roots -> Nat]
  <2>1. edits \in [Roots -> Nat] /\ foreign \in [Roots -> Nat]
    BY DEF LoadInv, TypeOK
  <2>2. edits[f] + 1 \in Nat /\ foreign[f] + 1 \in Nat
    BY <2>1
  <2>3. \/ edits' = [edits EXCEPT ![f] = edits[f] + 1] /\ foreign' = foreign
        \/ foreign' = [foreign EXCEPT ![f] = foreign[f] + 1] /\ edits' = edits
    BY <1>1
  <2>. QED
    BY <2>1, <2>2, <2>3
<1>5. /\ notices' \subseteq Roots \X Systems
      /\ events' \in Seq(Event) /\ Sent(events')
      /\ dialogs' \in Seq([folder : Roots, answer : {"none", "chosen", "dismissed"},
                           systems : SUBSET Systems])
  BY <1>1, <1>2 DEF LoadInv, TypeOK
<1>6. \A g \in Roots : Noticed(g) => Noticed(g)'
  BY <1>1 DEF Noticed
<1>7. \A g \in Roots : Work(g) => Work(g)'
  BY <1>2, <1>6 DEF Work, Noticed, Unanswered
<1>8. \A g \in Roots : edits'[g] = edits[g] \/ (edits'[g] > edits[g] /\ Work(g)')
  <2>1. CASE s \in Known
    <3>1. Work(f)'
      BY <1>1, <2>1 DEF Work, Noticed
    <3>2. \A g \in Roots : edits'[g] = edits[g] \/ (edits'[g] > edits[g] /\ g = f)
      BY <1>1, <2>1 DEF LoadInv, TypeOK
    <3>. QED
      BY <3>1, <3>2
  <2>2. CASE s \notin Known
    BY <1>1, <2>2
  <2>. QED
    BY <2>1, <2>2
<1>. QED
  BY <1>2, <1>3, <1>4, <1>5, <1>7, <1>8, IdleKeeps

-----------------------------------------------------------------------------
(* The theorems.                                                           *)

LEMMA LoadInvInit == Init => LoadInv
<1>. SUFFICES ASSUME Init
              PROVE  LoadInv
  OBVIOUS
<1>1. /\ events = << >> /\ dialogs = << >> /\ loads = << >> /\ current = 0
      /\ toProbe = Folders /\ edits = [f \in Roots |-> 0] /\ notices = {}
      /\ foreign = [f \in Roots |-> 0] /\ overtaken = FALSE /\ jdk \in BOOLEAN
      /\ buildFiles \in FirstBuildFiles
  BY DEF Init
<1>2. /\ events \in Seq(Event) /\ loads \in Seq(Load) /\ Len(loads) = 0
      /\ DOMAIN events = {} /\ DOMAIN loads = {}
      /\ dialogs \in Seq([folder : Roots, answer : {"none", "chosen", "dismissed"},
                          systems : SUBSET Systems])
  BY <1>1, EmptySeq, LenProperties
<1>3. Folders \in Seq(STRING)
  BY WorkspaceAssumption
<1>4. Folders \in Seq(Roots)
  BY <1>3, SeqOfRange DEF Roots, Range
<1>5. buildFiles \in [Roots -> SUBSET Systems]
  BY <1>1, WorkspaceAssumption DEF Roots
<1>6. edits \in [Roots -> Nat] /\ foreign \in [Roots -> Nat] /\ current \in 0..Len(loads)
  BY <1>1, <1>2
<1>7. toProbe \in Seq(Roots) /\ notices \subseteq Roots \X Systems
      /\ overtaken \in BOOLEAN /\ jdk \in BOOLEAN
  BY <1>1, <1>4
<1>8. TypeOK
  BY <1>1, <1>2, <1>5, <1>6, <1>7 DEF TypeOK
<1>. QED
  BY <1>1, <1>2, <1>8
  DEF LoadInv, NewestIsRead, PlainInOrder, VersionsExist, Sent, LaterIsOvertaken

LEMMA StutterKeeps ==
    ASSUME LoadInv, UNCHANGED vars
    PROVE  LoadInv'
<1>1. UNCHANGED <<toProbe, buildFiles, edits, foreign, notices, events, dialogs,
                  loads, current, overtaken, jdk>>
  BY DEF vars
<1>2. TypeOK' /\ Sent(events)'
  BY <1>1 DEF LoadInv, TypeOK, Event, Sent
<1>3. NewestIsRead'
  BY <1>1 DEF LoadInv, NewestIsRead, LastOf, Work, Noticed, Unanswered
<1>4. PlainInOrder' /\ VersionsExist' /\ LaterIsOvertaken'
  BY <1>1 DEF LoadInv, PlainInOrder, VersionsExist, LaterIsOvertaken
<1>. QED
  BY <1>2, <1>3, <1>4 DEF LoadInv

LEMMA LoadInvStep == LoadInv /\ [Next]_vars => LoadInv'
<1>. SUFFICES ASSUME LoadInv, [Next]_vars
              PROVE  LoadInv'
  OBVIOUS
<1>1. CASE TriggerProbe
  BY <1>1, TriggerProbeKeeps
<1>2. CASE HandleProbe
  BY <1>2, HandleProbeKeeps
<1>3. CASE HandleAmbiguous
  BY <1>3, HandleAmbiguousKeeps
<1>4. CASE HandleLoad
  BY <1>4, HandleLoadKeeps
<1>5. CASE HandleEnded
  BY <1>5, HandleEndedKeeps
<1>6. ASSUME NEW f \in Roots, WatchedBuildFile(f)
      PROVE  LoadInv'
  BY <1>6, WatchedKeeps
<1>7. ASSUME NEW d \in DOMAIN dialogs, AnswerDialog(d)
      PROVE  LoadInv'
  BY <1>7, AnswerKeeps
<1>8. ASSUME NEW n \in DOMAIN loads, SyncReads(n) \/ SyncSends(n)
      PROVE  LoadInv'
  BY <1>8, SyncReadsKeeps, SyncSendsKeeps
<1>9. ASSUME NEW f \in Roots, EditBuildFiles(f)
      PROVE  LoadInv'
  BY <1>9, EditKeeps
<1>10. CASE UNCHANGED vars
  BY <1>10, StutterKeeps
<1>. QED
  BY <1>1, <1>2, <1>3, <1>4, <1>5, <1>6, <1>7, <1>8, <1>9, <1>10 DEF Next, MainLoop, Workers

LEMMA LoadInvariant == Spec => []LoadInv
BY LoadInvInit, LoadInvStep, PTL DEF Spec

(* Whatever the folders and however their build files change, every        *)
(* variable of the load has its type, every event that reports the end of  *)
(* a sync names one, and the graph in use is that of a load that ended     *)
(* well.                                                                   *)
THEOREM TypeCorrect == Spec => []TypeOK
<1>1. LoadInv => TypeOK
  BY DEF LoadInv
<1>. QED
  BY <1>1, LoadInvariant, PTL

LEMMA SettledShowsLatest == LoadInv => LatestUnlessOvertaken
<1>. SUFFICES ASSUME LoadInv, Settled, ~overtaken, current # 0,
                     AllLoaded(loads[current].folder),
                     NEW n \in Ended(loads[current].folder)
              PROVE  loads[n].version <= loads[current].version
  BY DEF LatestUnlessOvertaken
<1>1. /\ current \in DOMAIN loads /\ n \in DOMAIN loads /\ DOMAIN loads = 1..Len(loads)
      /\ loads[n].folder = loads[current].folder
      /\ \A m \in DOMAIN loads : loads[m] \in Load
  BY LoadsTyped DEF LoadInv, Ended
<1>. DEFINE f == loads[current].folder
<1>2. f \in Roots /\ loads[n].version \in Nat /\ loads[current].version \in Nat
  BY <1>1 DEF Load
<1>3. \A m \in DOMAIN loads : m > current => loads[m].folder # f
  BY <1>1 DEF LoadInv, LaterIsOvertaken, Settled, AllLoaded, Ended
<1>4. LastOf(current) /\ n <= current
  BY <1>1, <1>3 DEF LastOf
<1>5. CASE jdk
  <2>1. ~Unanswered(f)
    BY DEF AllLoaded, Unanswered
  <2>2. DOMAIN events = {} /\ DOMAIN toProbe = {}
    BY DEF Settled
  <2>3. ~Work(f)
    BY <2>1, <2>2 DEF Work, Noticed, Waits, Pending, Settled
  <2>4. loads[current].version = edits[f]
    BY <1>1, <1>4, <1>5, <2>3 DEF LoadInv, NewestIsRead, Settled
  <2>. QED
    BY <1>1, <2>4 DEF LoadInv, VersionsExist
<1>6. CASE ~jdk
  BY <1>1, <1>4, <1>6 DEF LoadInv, PlainInOrder
<1>. QED
  BY <1>5, <1>6

(* However many syncs of a folder run at once and in whatever order they   *)
(* end: once nothing is under way, a folder whose syncs all succeeded and  *)
(* whose questions are answered shows the newest build files any of its    *)
(* loads has read, unless a graph replaced that of a later load.           *)
THEOREM NewestGraphStays == Spec => []LatestUnlessOvertaken
BY LoadInvariant, SettledShowsLatest, PTL

-----------------------------------------------------------------------------
(* The module path (ModulePath).                                           *)

(* A set that has a number, and with each the next one, has all from there *)
(* on: induction over an interval.                                         *)
LEMMA Upwards ==
    ASSUME NEW a \in Nat, NEW b \in Nat, NEW S, a \in S,
           \A k \in a + 1..b : k - 1 \in S => k \in S
    PROVE  a..b \subseteq S
<1>. DEFINE Bad == {k \in a..b : k \notin S}
<1>1. SUFFICES ASSUME Bad # {} PROVE FALSE
  OBVIOUS
<1>2. Bad \in SUBSET Nat
  OBVIOUS
<1>3. PICK k \in Bad : \A y \in Bad : ~ (<<y, k>> \in OpToRel(<, Nat))
  <2>. HIDE DEF Bad
  <2>. QED
    BY <1>1, <1>2, NatLessThanWellFounded, WFMin
<1>4. k \in a..b /\ k \notin S /\ k # a
  OBVIOUS
<1>5. k - 1 \in Nat /\ k \in Nat /\ k - 1 < k /\ k - 1 \in a..b /\ k \in a + 1..b
  BY <1>4
<1>6. k - 1 \notin Bad
  <2>. HIDE DEF Bad
  <2>. QED
    BY <1>3, <1>5 DEF OpToRel
<1>7. k - 1 \in S
  BY <1>5, <1>6
<1>. QED
  BY <1>4, <1>5, <1>7

(* The modules read after n rounds of the queue.                           *)
Rounds(r, graph, last) ==
    [n \in 0..last |->
        IF n = 0 THEN {Own, Base}
        ELSE r[n - 1] \cup UNION {Propagated(graph, m) : m \in r[n - 1]}]
LEMMA RoundsExist ==
    ASSUME NEW graph, NEW last \in Nat
    PROVE  \E r : r = Rounds(r, graph, last)
<1>. DEFINE Good == {k \in 0..last : \E r : r = Rounds(r, graph, k)}
<1>1. 0 \in Good
  <2>. DEFINE r == [n \in 0..0 |-> {Own, Base}]
  <2>1. \A n \in 0..0 : n = 0
    OBVIOUS
  <2>2. r = Rounds(r, graph, 0)
    BY <2>1 DEF Rounds
  <2>. QED
    BY <2>2
<1>2. ASSUME NEW k \in 1..last, k - 1 \in Good PROVE k \in Good
  <2>1. PICK r : r = Rounds(r, graph, k - 1)
    BY <1>2
  <2>. DEFINE h == Rounds(r, graph, k)
  <2>2. ASSUME NEW n \in 1..k PROVE h[n - 1] = r[n - 1]
    <3>1. n - 1 \in 0..k /\ n - 1 \in 0..k - 1
      OBVIOUS
    <3>2. h[n - 1] = Rounds(r, graph, k - 1)[n - 1]
      BY <3>1 DEF Rounds
    <3>. QED
      BY <2>1, <3>2
  <2>3. h = Rounds(h, graph, k)
    <3>1. ASSUME NEW n \in 0..k
          PROVE  (IF n = 0 THEN {Own, Base}
                  ELSE r[n - 1] \cup UNION {Propagated(graph, m) : m \in r[n - 1]})
                 = IF n = 0 THEN {Own, Base}
                   ELSE h[n - 1] \cup UNION {Propagated(graph, m) : m \in h[n - 1]}
      <4>1. CASE n = 0
        BY <4>1
      <4>2. CASE n # 0
        <5>1. h[n - 1] = r[n - 1]
          BY <2>2, <4>2
        <5>. HIDE DEF h
        <5>. QED
          BY <5>1
      <4>. QED
        BY <4>1, <4>2
    <3>. QED
      BY <3>1, Zenon DEF Rounds
  <2>. QED
    BY <2>3
<1>3. 0..last \subseteq Good
  <2>. HIDE DEF Good
  <2>. QED
    BY <1>1, <1>2, Upwards
<1>. QED
  BY <1>3

(* readable_modules reads itself and java.base, and on from what it reads, *)
(* and nothing it need not: as many rounds as there are names are enough.  *)
LEMMA ReadableIsClosure ==
    ASSUME NEW graph, IsFiniteSet(Named(graph))
    PROVE  /\ {Own, Base} \subseteq ReadableModules(graph)
           /\ \A m \in ReadableModules(graph) :
                  Propagated(graph, m) \subseteq ReadableModules(graph)
           /\ \A S : {Own, Base} \subseteq S /\ (\A m \in S : Propagated(graph, m) \subseteq S)
                     => ReadableModules(graph) \subseteq S
<1>. DEFINE bound == Cardinality(Named(graph))
            r == CHOOSE f : f = Rounds(f, graph, bound)
            Round(R) == R \cup UNION {Propagated(graph, m) : m \in R}
<1>1. bound \in Nat
  BY FS_CardinalityType
<1>2. r = Rounds(r, graph, bound)
  <2>. HIDE DEF bound
  <2>. QED
    BY <1>1, RoundsExist
<1>3. ReadableModules(graph) = r[bound]
  BY Zenon DEF ReadableModules, Rounds
<1>. HIDE DEF r, bound
<1>4. /\ r[0] = {Own, Base}
      /\ \A n \in 1..bound : r[n] = Round(r[n - 1])
  <2>1. \A n \in 0..bound :
            r[n] = IF n = 0 THEN {Own, Base} ELSE Round(r[n - 1])
    BY <1>2 DEF Rounds
  <2>2. 0 \in 0..bound /\ \A n \in 1..bound : n \in 0..bound /\ n # 0
    BY <1>1
  <2>. HIDE DEF Next
  <2>. QED
    BY <2>1, <2>2
<1>5. \A m : Propagated(graph, m) \subseteq Named(graph)
  BY DEF Propagated, Named
<1>6. ASSUME NEW S, {Own, Base} \subseteq S, \A m \in S : Propagated(graph, m) \subseteq S
      PROVE  \A n \in 0..bound : r[n] \subseteq S
  <2>. DEFINE Good == {n \in 0..bound : r[n] \subseteq S}
  <2>1. 0 \in Good
    BY <1>1, <1>4, <1>6
  <2>2. ASSUME NEW n \in 1..bound, n - 1 \in Good PROVE n \in Good
    BY <1>4, <1>6, <2>2
  <2>3. 0..bound \subseteq Good
    <3>. HIDE DEF Good
    <3>. QED
      BY <1>1, <2>1, <2>2, Upwards
  <2>. QED
    BY <2>3
<1>7. \A n \in 0..bound : r[n] \subseteq Named(graph)
  <2>1. {Own, Base} \subseteq Named(graph)
    BY DEF Named
  <2>. QED
    BY <1>5, <1>6, <2>1
<1>8. \A n \in 0..bound : {Own, Base} \subseteq r[n]
  <2>. DEFINE Good == {n \in 0..bound : {Own, Base} \subseteq r[n]}
  <2>1. 0 \in Good
    BY <1>1, <1>4
  <2>2. ASSUME NEW n \in 1..bound, n - 1 \in Good PROVE n \in Good
    BY <1>4, <2>2
  <2>3. 0..bound \subseteq Good
    <3>. HIDE DEF Good
    <3>. QED
      BY <1>1, <2>1, <2>2, Upwards
  <2>. QED
    BY <2>3
<1>. DEFINE Closed(R) == \A m \in R : Propagated(graph, m) \subseteq R
<1>9. \A n \in 0..bound : Closed(r[n]) \/ Cardinality(r[n]) >= n + 1
  <2>. DEFINE Good == {n \in 0..bound : Closed(r[n]) \/ Cardinality(r[n]) >= n + 1}
  <2>1. \A n \in 0..bound : IsFiniteSet(r[n]) /\ Cardinality(r[n]) \in Nat
    BY <1>7, FS_Subset, FS_CardinalityType
  <2>2. 0 \in Good
    <3>1. 0 \in 0..bound /\ r[0] # {}
      BY <1>1, <1>4
    <3>2. Cardinality(r[0]) # 0 /\ Cardinality(r[0]) \in Nat
      BY <2>1, <3>1, FS_EmptySet
    <3>. QED
      BY <3>1, <3>2
  <2>3. ASSUME NEW n \in 1..bound, n - 1 \in Good PROVE n \in Good
    <3>1. n \in 0..bound /\ n - 1 \in 0..bound
      BY <1>1
    <3>2. r[n] = Round(r[n - 1])
      BY <1>4
    <3>3. CASE Closed(r[n - 1])
      <4>1. r[n] = r[n - 1]
        BY <3>2, <3>3
      <4>. QED
        BY <3>1, <3>3, <4>1
    <3>4. CASE ~Closed(r[n - 1])
      <4>1. Cardinality(r[n - 1]) >= (n - 1) + 1
        BY <2>3, <3>4
      <4>2. r[n - 1] \subseteq r[n] /\ r[n - 1] # r[n]
        BY <3>2, <3>4
      <4>3. /\ Cardinality(r[n - 1]) <= Cardinality(r[n])
            /\ Cardinality(r[n - 1]) # Cardinality(r[n])
        BY <2>1, <3>1, <4>2, FS_Subset
      <4>4. Cardinality(r[n]) \in Nat /\ Cardinality(r[n - 1]) \in Nat /\ n \in Nat
        BY <2>1, <3>1
      <4>5. Cardinality(r[n]) >= n + 1
        BY <4>1, <4>3, <4>4
      <4>. QED
        BY <3>1, <4>5
    <3>. QED
      BY <3>3, <3>4
  <2>4. 0..bound \subseteq Good
    <3>. HIDE DEF Good
    <3>. QED
      BY <1>1, <2>2, <2>3, Upwards
  <2>. QED
    BY <2>4
<1>10. Closed(r[bound])
  <2>1. bound \in 0..bound
    BY <1>1
  <2>2. r[bound] \in SUBSET Named(graph)
    BY <1>7, <2>1
  <2>3. Cardinality(r[bound]) <= bound
    BY <2>2, FS_Subset DEF bound
  <2>4. Cardinality(r[bound]) \in Nat
    BY <2>2, FS_Subset, FS_CardinalityType
  <2>. QED
    BY <1>1, <1>9, <2>1, <2>3, <2>4
<1>11. bound \in 0..bound
  BY <1>1
<1>. QED
  BY <1>3, <1>6, <1>8, <1>10, <1>11

(* The modules a source set reads are those the language says: the least   *)
(* set with itself, java.base and what it requires, that has with a module *)
(* what that requires transitively (readable_modules).                     *)
THEOREM ReadableAsLanguage ==
    ASSUME NEW graph, IsFiniteSet(Named(graph))
    PROVE  ReadableIsLeastClosed(graph)
<1>1. SUFFICES ASSUME Own \in DOMAIN graph.modules,
                      NEW m \in {Own, Base} \cup DOMAIN graph.modules
               PROVE  m \in ReadableModules(graph) <=> Reads(graph, m)
  BY DEF ReadableIsLeastClosed
<1>. DEFINE R == ReadableModules(graph)
            names == Named(graph) \cup DOMAIN graph.modules
            Direct == {Own, Base} \cup DOMAIN graph.modules[Own].requires
            Passed(n) == {t \in DOMAIN graph.modules[n].requires :
                              graph.modules[n].requires[t] = "transitive"}
            Closed(S) == \A n \in S \cap DOMAIN graph.modules : Passed(n) \subseteq S
<1>2. Reads(graph, m) <=> \A S \in SUBSET names : Direct \subseteq S /\ Closed(S) => m \in S
  BY DEF Reads
<1>3. /\ {Own, Base} \subseteq R
      /\ \A n \in R : Propagated(graph, n) \subseteq R
      /\ \A S : {Own, Base} \subseteq S /\ (\A n \in S : Propagated(graph, n) \subseteq S)
                => R \subseteq S
  BY ReadableIsClosure
<1>. HIDE DEF R
<1>4. \A n \in DOMAIN graph.modules :
          Propagated(graph, n) = IF n = Own THEN DOMAIN graph.modules[Own].requires
                                 ELSE Passed(n)
  BY DEF Propagated
<1>5. ASSUME m \in R, NEW S, Direct \subseteq S, Closed(S) PROVE m \in S
  <2>1. ASSUME NEW n \in S PROVE Propagated(graph, n) \subseteq S
    <3>1. CASE n \notin DOMAIN graph.modules
      BY <3>1 DEF Propagated
    <3>2. CASE n \in DOMAIN graph.modules
      BY <1>4, <1>5, <3>2
    <3>. QED
      BY <3>1, <3>2
  <2>. QED
    BY <1>3, <1>5, <2>1
<1>6. ASSUME Reads(graph, m) PROVE m \in R
  <2>1. R \subseteq names
    <3>1. {Own, Base} \subseteq Named(graph)
      BY DEF Named
    <3>2. \A n : Propagated(graph, n) \subseteq Named(graph)
      BY DEF Propagated, Named
    <3>. QED
      BY <1>3, <3>1, <3>2
  <2>2. Direct \subseteq R
    <3>1. Propagated(graph, Own) = DOMAIN graph.modules[Own].requires
      BY <1>1, <1>4
    <3>. QED
      BY <1>3, <3>1
  <2>3. Closed(R)
    <3>1. ASSUME NEW n \in R \cap DOMAIN graph.modules PROVE Passed(n) \subseteq R
      BY <1>3, <1>4
    <3>. QED
      BY <3>1
  <2>. QED
    BY <1>2, <1>6, <2>1, <2>2, <2>3
<1>. QED
  BY <1>2, <1>5, <1>6 DEF R

(* The graph of a classpath grows library by library.                      *)
Grown(g, libraries, last) ==
    [n \in 0..last |->
        IF n = 0 THEN EmptyGraph ELSE AddLibrary(g[n - 1], libraries[n])]
GraphOf(libraries) == CHOOSE g : g = Grown(g, libraries, Len(libraries))

LEMMA GraphExists ==
    ASSUME NEW libraries, NEW last \in Nat
    PROVE  \E g : g = Grown(g, libraries, last)
<1>. DEFINE Good == {k \in 0..last : \E g : g = Grown(g, libraries, k)}
<1>1. 0 \in Good
  <2>. DEFINE g == [n \in 0..0 |-> EmptyGraph]
  <2>1. \A n \in 0..0 : n = 0
    OBVIOUS
  <2>2. g = Grown(g, libraries, 0)
    BY <2>1 DEF Grown
  <2>. QED
    BY <2>2
<1>2. ASSUME NEW k \in 1..last, k - 1 \in Good PROVE k \in Good
  <2>1. PICK g : g = Grown(g, libraries, k - 1)
    BY <1>2
  <2>. DEFINE h == Grown(g, libraries, k)
  <2>2. ASSUME NEW n \in 1..k PROVE h[n - 1] = g[n - 1]
    <3>1. n - 1 \in 0..k /\ n - 1 \in 0..k - 1
      OBVIOUS
    <3>2. h[n - 1] = Grown(g, libraries, k - 1)[n - 1]
      BY <3>1 DEF Grown
    <3>. QED
      BY <2>1, <3>2
  <2>3. h = Grown(h, libraries, k)
    <3>1. ASSUME NEW n \in 0..k
          PROVE  (IF n = 0 THEN EmptyGraph ELSE AddLibrary(g[n - 1], libraries[n]))
                 = IF n = 0 THEN EmptyGraph ELSE AddLibrary(h[n - 1], libraries[n])
      <4>1. CASE n = 0
        BY <4>1
      <4>2. CASE n # 0
        <5>1. h[n - 1] = g[n - 1]
          BY <2>2, <4>2
        <5>. HIDE DEF h
        <5>. QED
          BY <5>1
      <4>. QED
        BY <4>1, <4>2
    <3>. QED
      BY <3>1, Zenon DEF Grown
  <2>. QED
    BY <2>3
<1>3. 0..last \subseteq Good
  <2>. HIDE DEF Good
  <2>. QED
    BY <1>1, <1>2, Upwards
<1>. QED
  BY <1>3

LEMMA GraphGrows ==
    ASSUME NEW Library, NEW libraries \in Seq(Library)
    PROVE  /\ WorkspaceModuleGraph(libraries) = GraphOf(libraries)[Len(libraries)]
           /\ GraphOf(libraries)[0] = EmptyGraph
           /\ \A n \in 1..Len(libraries) :
                  GraphOf(libraries)[n] = AddLibrary(GraphOf(libraries)[n - 1], libraries[n])
<1>. DEFINE last == Len(libraries)
            graph == GraphOf(libraries)
<1>1. last \in Nat
  OBVIOUS
<1>2. WorkspaceModuleGraph(libraries) = graph[last]
  BY Zenon DEF WorkspaceModuleGraph, GraphOf, Grown
<1>. HIDE DEF last
<1>3. graph = Grown(graph, libraries, last)
  <2>1. \E g : g = Grown(g, libraries, last)
    BY <1>1, GraphExists
  <2>. QED
    BY <2>1 DEF GraphOf, last
<1>. HIDE DEF graph
<1>4. \A n \in 0..last :
          graph[n] = IF n = 0 THEN EmptyGraph ELSE AddLibrary(graph[n - 1], libraries[n])
  BY <1>3 DEF Grown
<1>5. 0 \in 0..last /\ \A n \in 1..last : n \in 0..last /\ n # 0
  BY <1>1
<1>6. /\ graph[0] = EmptyGraph
      /\ \A n \in 1..last : graph[n] = AddLibrary(graph[n - 1], libraries[n])
  BY <1>4, <1>5
<1>. QED
  BY <1>2, <1>6 DEF graph, last

LEMMA LaterLibraryIsAdded ==
    ASSUME NEW Library, NEW libraries \in Seq(Library), NEW library \in Library
    PROVE  WorkspaceModuleGraph(Append(libraries, library))
           = AddLibrary(WorkspaceModuleGraph(libraries), library)
<1>. DEFINE longer == Append(libraries, library)
            last == Len(libraries)
            g == GraphOf(libraries)
            h == GraphOf(longer)
            Good == {n \in 0..last : h[n] = g[n]}
<1>1. /\ longer \in Seq(Library) /\ Len(longer) = last + 1 /\ last \in Nat
      /\ longer[last + 1] = library /\ \A n \in 1..last : longer[n] = libraries[n]
  OBVIOUS
<1>. HIDE DEF longer
<1>2. /\ WorkspaceModuleGraph(libraries) = g[last] /\ g[0] = EmptyGraph
      /\ \A n \in 1..last : g[n] = AddLibrary(g[n - 1], libraries[n])
  BY GraphGrows
<1>3. /\ WorkspaceModuleGraph(longer) = h[last + 1] /\ h[0] = EmptyGraph
      /\ \A n \in 1..last + 1 : h[n] = AddLibrary(h[n - 1], longer[n])
  BY <1>1, GraphGrows
<1>. HIDE DEF g, h, last
<1>4. 0 \in Good
  BY <1>1, <1>2, <1>3
<1>5. ASSUME NEW n \in 1..last, n - 1 \in Good PROVE n \in Good
  <2>1. n \in 0..last /\ n \in 1..last + 1
    BY <1>1
  <2>2. h[n] = AddLibrary(h[n - 1], libraries[n])
    BY <1>1, <1>3, <2>1
  <2>3. h[n] = g[n]
    BY <1>2, <1>5, <2>2
  <2>. QED
    BY <2>1, <2>3
<1>6. 0..last \subseteq Good
  <2>1. last \in Nat
    BY <1>1
  <2>. HIDE DEF Good
  <2>2. 0 \in Nat /\ \A k \in 0 + 1..last : k - 1 \in Good => k \in Good
    BY <1>5
  <2>. QED
    BY <1>4, <2>1, <2>2, Upwards
<1>7. h[last] = g[last]
  <2>1. last \in 0..last
    BY <1>1
  <2>. QED
    BY <1>6, <2>1
<1>8. h[last + 1] = AddLibrary(h[last], library)
  <2>1. last + 1 \in 1..last + 1 /\ (last + 1) - 1 = last
    BY <1>1
  <2>2. h[last + 1] = AddLibrary(h[(last + 1) - 1], longer[last + 1])
    BY <1>3, <2>1
  <2>. QED
    BY <1>1, <2>1, <2>2
<1>. QED
  BY <1>2, <1>3, <1>7, <1>8 DEF longer

(* A graph extends another: it has its modules and owners, as they are.    *)
Extends(graph, other) ==
    /\ \A m \in DOMAIN other.modules :
           m \in DOMAIN graph.modules /\ graph.modules[m] = other.modules[m]
    /\ \A package : Owners(other, package) \subseteq Owners(graph, package)

LEMMA OwnersAfterAdding ==
    ASSUME NEW modules, NEW graph, NEW owners, NEW package
    PROVE  /\ AddOwners(modules, graph, owners).modules = modules
           /\ Owners(AddOwners(modules, graph, owners), package)
              = Owners(graph, package) \cup NewOwners(modules, graph, owners, package)
<1>. DEFINE Added(p) == NewOwners(modules, graph, owners, p)
            all == [p \in DOMAIN graph.owners \cup DOMAIN owners |->
                        Owners(graph, p) \cup Added(p)]
<1>1. /\ AddOwners(modules, graph, owners).modules = modules
      /\ AddOwners(modules, graph, owners).owners = all
  BY DEF AddOwners
<1>2. Owners(AddOwners(modules, graph, owners), package)
      = IF package \in DOMAIN all THEN all[package] ELSE {}
  BY <1>1 DEF Owners
<1>3. CASE package \in DOMAIN graph.owners \cup DOMAIN owners
  <2>1. all[package] = Owners(graph, package) \cup Added(package)
    BY <1>3
  <2>. QED
    BY <1>1, <1>2, <1>3, <2>1
<1>4. CASE package \notin DOMAIN graph.owners \cup DOMAIN owners
  <2>1. Owners(graph, package) = {} /\ NamesOf(owners, package) = {}
    BY <1>4 DEF Owners, NamesOf
  <2>2. Owners(graph, package) \cup Added(package) = {}
    BY <2>1 DEF NewOwners
  <2>. QED
    BY <1>1, <1>2, <1>4, <2>2
<1>. QED
  BY <1>3, <1>4

LEMMA AddLibraryExtends ==
    ASSUME NEW graph, NEW library
    PROVE  Extends(AddLibrary(graph, library), graph)
<1>. DEFINE modules == Merged(graph.modules, library.modules)
            new == AddOwners(modules, graph, library.owners)
<1>1. AddLibrary(graph, library) = new
  BY DEF AddLibrary
<1>2. \A m \in DOMAIN graph.modules : m \in DOMAIN modules /\ modules[m] = graph.modules[m]
  BY DEF Merged
<1>. HIDE DEF modules
<1>3. new.modules = modules
  BY OwnersAfterAdding
<1>4. \A package : Owners(graph, package) \subseteq Owners(new, package)
  BY OwnersAfterAdding
<1>. HIDE DEF new
<1>. QED
  BY <1>1, <1>2, <1>3, <1>4 DEF Extends

LEMMA ReadableGrows ==
    ASSUME NEW graph, NEW other, IsFiniteSet(Named(graph)),
           \A m \in DOMAIN other.modules :
               m \in DOMAIN graph.modules /\ graph.modules[m] = other.modules[m]
    PROVE  ReadableModules(other) \subseteq ReadableModules(graph)
<1>1. Named(other) \subseteq Named(graph)
  BY DEF Named
<1>2. IsFiniteSet(Named(other))
  BY <1>1, FS_Subset
<1>3. \A m : Propagated(other, m) \subseteq Propagated(graph, m)
  BY DEF Propagated
<1>. QED
  BY <1>2, <1>3, ReadableIsClosure

(* The source's own module is added to a graph and to one that extends it: *)
(* what the first has of other modules the second has, and where the first *)
(* has the source's own as an owner, so has the second.                    *)
LEMMA SourceModuleInBoth ==
    ASSUME NEW graph, NEW other, Extends(graph, other), NEW stub, NEW packages
    PROVE  LET after == InsertSourceModule(graph, stub, packages)
               before == InsertSourceModule(other, stub, packages)
           IN  /\ \A m \in DOMAIN before.modules :
                      m \in DOMAIN after.modules /\ after.modules[m] = before.modules[m]
               /\ \A package : \A o \in Owners(before, package) :
                      \/ o.name # Own /\ o \in Owners(after, package)
                      \/ \E d \in Owners(after, package) : d.name = Own
<1>. DEFINE after == InsertSourceModule(graph, stub, packages)
            before == InsertSourceModule(other, stub, packages)
            own == [m \in {Own} |-> stub]
            new == Merged(own, graph.modules)
            old == Merged(own, other.modules)
            owners == [package \in packages |-> {Own}]
<1>1. after = AddOwners(new, graph, owners) /\ before = AddOwners(old, other, owners)
  BY DEF InsertSourceModule
<1>2. /\ DOMAIN own = {Own} /\ own[Own] = stub
  OBVIOUS
<1>. HIDE DEF own
<1>3. /\ DOMAIN new = {Own} \cup DOMAIN graph.modules
      /\ \A m \in DOMAIN old : m \in DOMAIN new /\ new[m] = old[m]
      /\ Own \in DOMAIN old
  <2>1. /\ DOMAIN new = DOMAIN own \cup DOMAIN graph.modules
        /\ DOMAIN old = DOMAIN own \cup DOMAIN other.modules
        /\ \A k \in DOMAIN own : new[k] = own[k] /\ old[k] = own[k]
        /\ \A k \in DOMAIN graph.modules : k \notin DOMAIN own => new[k] = graph.modules[k]
        /\ \A k \in DOMAIN other.modules : k \notin DOMAIN own => old[k] = other.modules[k]
    BY DEF Merged
  <2>2. \A m \in DOMAIN other.modules :
            m \in DOMAIN graph.modules /\ graph.modules[m] = other.modules[m]
    BY DEF Extends
  <2>. HIDE DEF new, old
  <2>. QED
    BY <1>2, <2>1, <2>2
<1>. HIDE DEF new, old
<1>4. \A package : NamesOf(owners, package) = IF package \in packages THEN {Own} ELSE {}
  BY DEF NamesOf
<1>. HIDE DEF owners
<1>5. /\ after.modules = new /\ before.modules = old
      /\ \A package :
            /\ Owners(after, package)
               = Owners(graph, package) \cup NewOwners(new, graph, owners, package)
            /\ Owners(before, package)
               = Owners(other, package) \cup NewOwners(old, other, owners, package)
  BY <1>1, OwnersAfterAdding
<1>. HIDE DEF after, before
<1>6. \A modules, name : Descriptor(modules, name).name = name
  BY DEF Descriptor
<1>7. ASSUME NEW package, NEW o \in Owners(before, package)
      PROVE  \/ o.name # Own /\ o \in Owners(after, package)
             \/ \E d \in Owners(after, package) : d.name = Own
  <2>1. Owners(other, package) \subseteq Owners(after, package)
    BY <1>5 DEF Extends
  <2>2. CASE o \in Owners(other, package)
    BY <2>1, <2>2
  <2>3. CASE o \in NewOwners(old, other, owners, package)
    <3>1. package \in packages
      BY <1>4, <2>3 DEF NewOwners
    <3>2. Own \in NamesOf(owners, package) \cap DOMAIN new
      BY <1>3, <1>4, <3>1
    <3>3. CASE \E d \in Owners(graph, package) : d.name = Own
      BY <1>5, <3>3
    <3>4. CASE \A d \in Owners(graph, package) : d.name # Own
      <4>1. Descriptor(new, Own) \in NewOwners(new, graph, owners, package)
        BY <3>2, <3>4 DEF NewOwners
      <4>. QED
        BY <1>5, <1>6, <4>1
    <3>. QED
      BY <3>3, <3>4
  <2>. QED
    BY <1>5, <2>2, <2>3
<1>. QED
  BY <1>3, <1>5, <1>7 DEF after, before

(* A package that a file sees stays visible when a library is added at the *)
(* end of its classpath, whatever modules that declares again; in the      *)
(* unnamed module, unless the package had no owner before                  *)
(* (source_set_module_ctx_query, package_visible).                         *)
THEOREM LaterLibraryKeepsPackages ==
    ASSUME Own # None,
           NEW Library, NEW libraries \in Seq(Library), NEW library \in Library,
           NEW declared, NEW isOpen, NEW own, NEW packages,
           IsFiniteSet(Named(ModuleCtx(Append(libraries, library), declared, isOpen, own).graph))
    PROVE  LaterLibraryHidesNothing(libraries, library, declared, isOpen, own, packages)
<1>. DEFINE before == ModuleCtx(libraries, declared, isOpen, own)
            after == ModuleCtx(Append(libraries, library), declared, isOpen, own)
            other == WorkspaceModuleGraph(libraries)
            graph == WorkspaceModuleGraph(Append(libraries, library))
            stub == SourceStub(CHOOSE d \in declared : TRUE, isOpen, own)
<1>1. SUFFICES ASSUME NEW package \in packages, PackageVisible(before, package)
               PROVE  \/ PackageVisible(after, package)
                      \/ before.module = None /\ Owners(before.graph, package) = {}
  BY DEF LaterLibraryHidesNothing
<1>2. Extends(graph, other)
  BY LaterLibraryIsAdded, AddLibraryExtends
<1>3. CASE declared = {}
  <2>1. /\ before.module = None /\ before.graph = other
        /\ after.module = None /\ after.graph = graph
    BY <1>3 DEF ModuleCtx
  <2>2. Owners(other, package) \subseteq Owners(graph, package)
    BY <1>2 DEF Extends
  <2>. HIDE DEF before, after, other, graph
  <2>. QED
    BY <1>1, <2>1, <2>2 DEF PackageVisible, IsPackageVisibleFromUnnamed
<1>4. CASE declared # {}
  <2>1. /\ before.module = Own /\ before.graph = InsertSourceModule(other, stub, own)
        /\ after.module = Own /\ after.graph = InsertSourceModule(graph, stub, own)
    BY <1>4 DEF ModuleCtx
  <2>2. IsFiniteSet(Named(after.graph))
    OBVIOUS
  <2>. HIDE DEF before, after, other, graph, stub
  <2>3. /\ \A m \in DOMAIN before.graph.modules :
               /\ m \in DOMAIN after.graph.modules
               /\ after.graph.modules[m] = before.graph.modules[m]
        /\ \A o \in Owners(before.graph, package) :
               \/ o.name # Own /\ o \in Owners(after.graph, package)
               \/ \E d \in Owners(after.graph, package) : d.name = Own
    BY <1>2, <2>1, SourceModuleInBoth
  <2>4. ReadableModules(before.graph) \subseteq ReadableModules(after.graph)
    BY <2>2, <2>3, ReadableGrows
  <2>5. IsPackageVisible(before.graph, package)
    BY <1>1, <2>1 DEF PackageVisible
  <2>6. IsPackageVisible(after.graph, package)
    BY <2>3, <2>4, <2>5 DEF IsPackageVisible
  <2>. QED
    BY <2>1, <2>6 DEF PackageVisible
<1>. QED
  BY <1>3, <1>4
=============================================================================
