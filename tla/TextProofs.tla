---------------------------- MODULE TextProofs ----------------------------
(***************************************************************************)
(* The text of a file, from the client's edits to the parser's tree: what  *)
(* holds of Documents for any files, texts, layouts of the source roots    *)
(* and disks, and however often files are edited and written; of           *)
(* EditApplication for any sequence of edits; and of ParserEvents for any  *)
(* input, and any grammar that uses the parser.                            *)
(***************************************************************************)
EXTENDS Documents, EditApplication, ParserEvents, TLAPS, SequenceTheorems,
        WellFoundedInduction, FiniteSetTheorems

-----------------------------------------------------------------------------
(* The owner of a file.                                                    *)

LEMMA MaxOfBounded ==
    ASSUME NEW n \in Nat, NEW S \in SUBSET (0..n), S # {}
    PROVE  Max(S) \in S /\ \A y \in S : Max(S) >= y
<1>. DEFINE T == {n - x : x \in S}
<1>1. T \subseteq Nat /\ T # {}
  <2>1. \A x \in S : n - x \in Nat
    OBVIOUS
  <2>2. PICK x \in S : TRUE
    OBVIOUS
  <2>3. n - x \in T
    OBVIOUS
  <2>. QED
    BY <2>1, <2>3
<1>2. PICK t \in T : \A y \in T : ~ (<<y, t>> \in OpToRel(<, Nat))
  <2>. HIDE DEF T
  <2>. QED
    BY <1>1, NatLessThanWellFounded, WFMin
<1>3. \A y \in T : y >= t
  <2>. HIDE DEF T
  <2>1. ASSUME NEW y \in T PROVE ~(y < t)
    BY <1>1, <1>2 DEF OpToRel
  <2>. QED
    BY <1>1, <2>1
<1>4. PICK m \in S : t = n - m
  OBVIOUS
<1>5. \A y \in S : m >= y
  <2>1. ASSUME NEW y \in S PROVE m >= y
    <3>1. n - y \in T
      OBVIOUS
    <3>2. n - y >= n - m
      BY <1>3, <1>4, <3>1
    <3>. QED
      BY <3>2
  <2>. QED
    BY <2>1
<1>. QED
  BY <1>5 DEF Max

LEMMA LayoutsTyped ==
    /\ Len(Layouts) \in Nat /\ DOMAIN Layouts = 1..Len(Layouts)
    /\ \A n \in DOMAIN Layouts :
           /\ Len(Layouts[n]) \in Nat /\ DOMAIN Layouts[n] = 1..Len(Layouts[n])
           /\ \A i \in DOMAIN Layouts[n] : Layouts[n][i] \in Root
<1>1. Layouts \in Seq(Seq(Root))
  BY DocumentsAssumption
<1>2. ASSUME NEW n \in DOMAIN Layouts PROVE Layouts[n] \in Seq(Root)
  BY <1>1
<1>. QED
  BY <1>1, <1>2

LEMMA OwnerInRange ==
    ASSUME NEW n \in DOMAIN Layouts, NEW f \in Files
    PROVE  /\ Owner[n][f] \in 1 .. Len(Layouts[n]) + 1
           /\ Owner[n][f] \in DOMAIN Layouts[n] =>
                  /\ Owner[n][f] \in Containing(n, f, RootKinds)
                  /\ \A i \in Containing(n, f, RootKinds) : Owner[n][f] >= i
<1>. DEFINE in == Containing(n, f, RootKinds)
<1>1. Len(Layouts[n]) \in Nat /\ DOMAIN Layouts[n] = 1..Len(Layouts[n])
  BY LayoutsTyped
<1>2. in \in SUBSET (1..Len(Layouts[n])) /\ in \in SUBSET (0..Len(Layouts[n]))
  <2>1. in \in SUBSET (1..Len(Layouts[n]))
    BY <1>1 DEF Containing
  <2>. HIDE DEF in
  <2>. QED
    BY <1>1, <2>1
<1>3. Owner[n][f] = IF in = {} THEN Len(Layouts[n]) + 1 ELSE Max(in)
  BY DEF Owner
<1>. HIDE DEF in
<1>4. CASE in = {}
  BY <1>1, <1>3, <1>4
<1>5. CASE in # {}
  <2>1. Max(in) \in in /\ \A y \in in : Max(in) >= y
    BY <1>1, <1>2, <1>5, MaxOfBounded
  <2>2. Owner[n][f] = Max(in)
    BY <1>3, <1>5
  <2>. QED
    BY <1>1, <1>2, <2>1, <2>2 DEF in
<1>. QED
  BY <1>4, <1>5

-----------------------------------------------------------------------------
(* The helpers the actions are built from.                                 *)

LEMMA PartitionTyped ==
    ASSUME NEW n \in DOMAIN Layouts, NEW contents
    PROVE  /\ PartitionSourceRoots(n, contents) \in Seq(SourceRoot)
           /\ Len(PartitionSourceRoots(n, contents)) = Len(Layouts[n]) + 1
<1>. DEFINE P == PartitionSourceRoots(n, contents)
            k == Len(Layouts[n]) + 1
<1>1. k \in Nat
  BY LayoutsTyped
<1>2. P \in [1..k -> SourceRoot]
  <2>1. \A i \in 1..k : P[i] \in SourceRoot
    BY DEF PartitionSourceRoots, SourceRoot
  <2>2. P = [i \in 1..k |-> P[i]]
    BY DEF PartitionSourceRoots
  <2>. HIDE DEF P, k
  <2>. QED
    BY <2>1, <2>2
<1>. HIDE DEF P, k
<1>3. P \in Seq(SourceRoot)
  BY <1>1, <1>2, SeqDef
<1>4. Len(P) = k
  BY <1>1, <1>2, <1>3, LenProperties
<1>. QED
  BY <1>3, <1>4 DEF P, k

LEMMA SetRootsShape ==
    ASSUME roots \in Seq(SourceRoot), fileRoot \in [Files -> 0..Len(roots)],
           NEW n \in DOMAIN Layouts, NEW contents, SetRoots(n, contents)
    PROVE  /\ roots' \in Seq(SourceRoot) /\ fileRoot' \in [Files -> 0..Len(roots')]
           /\ SubSeq(roots', 1, Len(Layouts[n]) + 1) = PartitionSourceRoots(n, contents)
           /\ \A i \in DOMAIN roots' :
                  \/ roots'[i].files \subseteq {f \in Files : contents[f] # Absent}
                  \/ i \in DOMAIN roots /\ roots'[i] = roots[i]
<1>. DEFINE P == PartitionSourceRoots(n, contents)
            k == Len(Layouts[n]) + 1
            old == SubSeq(roots, k + 1, Len(roots))
<1>1. k \in Nat /\ k >= 1 /\ Len(roots) \in Nat /\ DOMAIN roots = 1..Len(roots)
  BY LayoutsTyped, LenProperties
<1>2. P \in Seq(SourceRoot) /\ Len(P) = k
  BY PartitionTyped
<1>3. roots' = P \o old
  BY LayoutsTyped DEF SetRoots
<1>4. \A i \in k + 1 .. Len(roots) : roots[i] \in SourceRoot
  BY <1>1, ElementOfSeq
<1>. HIDE DEF P, k
<1>5. /\ old \in Seq(SourceRoot)
      /\ Len(old) = IF k + 1 <= Len(roots) THEN Len(roots) - (k + 1) + 1 ELSE 0
      /\ \A i \in 1 .. Len(roots) - (k + 1) + 1 : old[i] = roots[k + 1 + i - 1]
  BY <1>1, <1>4, SubSeqProperties
<1>. HIDE DEF old
<1>6. /\ roots' \in Seq(SourceRoot) /\ Len(roots') = Len(P) + Len(old)
      /\ \A i \in 1 .. Len(P) + Len(old) :
            roots'[i] = IF i <= Len(P) THEN P[i] ELSE old[i - Len(P)]
  BY <1>2, <1>3, <1>5, ConcatProperties
<1>7. /\ Len(old) \in Nat /\ Len(roots') = k + Len(old)
      /\ Len(roots') >= k /\ Len(roots') >= Len(roots)
      /\ Len(old) # 0 => Len(old) = Len(roots) - k
  <2>1. Len(old) \in Nat
    BY <1>5, LenProperties
  <2>2. Len(roots') = k + Len(old)
    BY <1>2, <1>6
  <2>3. CASE k + 1 <= Len(roots)
    <3>1. Len(old) = Len(roots) - (k + 1) + 1
      BY <1>5, <2>3
    <3>. QED
      BY <1>1, <2>1, <2>2, <3>1
  <2>4. CASE ~(k + 1 <= Len(roots))
    <3>1. Len(old) = 0
      BY <1>5, <2>4
    <3>. QED
      BY <1>1, <2>2, <2>4, <3>1
  <2>. QED
    BY <2>3, <2>4
<1>8. fileRoot' \in [Files -> 0..Len(roots')]
  <2>1. Len(roots') \in Nat
    BY <1>6, LenProperties
  <2>2. ASSUME NEW f \in Files
        PROVE  /\ Owner[n][f] \in 0..Len(roots')
               /\ fileRoot[f] \in 0..Len(roots')
    <3>1. Owner[n][f] \in 1..k
      BY OwnerInRange DEF k
    <3>2. fileRoot[f] \in 0..Len(roots)
      OBVIOUS
    <3>3. k <= Len(roots') /\ Len(roots) <= Len(roots')
      BY <1>1, <1>7, <2>1
    <3>4. Owner[n][f] \in 0..Len(roots')
      BY <1>1, <2>1, <3>1, <3>3
    <3>5. fileRoot[f] \in 0..Len(roots')
      BY <1>1, <2>1, <3>2, <3>3
    <3>. QED
      BY <3>4, <3>5
  <2>. QED
    BY <2>2 DEF SetRoots
<1>9. ASSUME NEW i \in 1..k PROVE roots'[i] = P[i] /\ roots'[i] \in SourceRoot
  <2>1. i \in 1..Len(P) + Len(old) /\ i <= Len(P)
    <3>1. k \in Nat /\ Len(old) \in Nat /\ Len(P) = k
      BY <1>1, <1>2, <1>7
    <3>2. i \in 1..k + Len(old) /\ i <= k
      BY <3>1
    <3>. QED
      BY <3>1, <3>2
  <2>2. roots'[i] = P[i]
    BY <1>6, <2>1
  <2>3. P[i] \in SourceRoot
    BY <1>2, ElementOfSeq
  <2>. QED
    BY <2>2, <2>3
<1>10. SubSeq(roots', 1, k) = P
  <2>2. /\ SubSeq(roots', 1, k) \in Seq(SourceRoot) /\ Len(SubSeq(roots', 1, k)) = k
        /\ \A i \in 1..k : SubSeq(roots', 1, k)[i] = roots'[i]
    <3>1. 1 \in Int /\ k \in Int /\ k - 1 + 1 = k /\ 1 <= k /\ \A i \in 1..k : 1 + i - 1 = i
      BY <1>1
    <3>. QED
      BY <1>9, <3>1, SubSeqProperties
  <2>. QED
    BY <1>1, <1>2, <1>9, <2>2, SeqEqual
<1>11. ASSUME NEW i \in DOMAIN roots'
       PROVE  \/ roots'[i].files \subseteq {f \in Files : contents[f] # Absent}
              \/ i \in DOMAIN roots /\ roots'[i] = roots[i]
  <2>1. i \in 1..Len(roots')
    BY <1>6, LenProperties
  <2>2. CASE i <= k
    <3>1. i \in 1..k
      <4>1. k \in Nat /\ i \in Nat /\ i >= 1
        BY <1>1, <2>1
      <4>. QED
        BY <2>2, <4>1
    <3>3. roots'[i] = P[i]
      BY <1>9, <3>1
    <3>2. P[i].files = {f \in Files : contents[f] # Absent /\ Owner[n][f] = i}
      BY <3>1 DEF P, k, PartitionSourceRoots
    <3>. QED
      BY <3>3, <3>2
  <2>3. CASE ~(i <= k)
    <3>1. Len(old) = Len(roots) - k /\ i \in Int
      <4>1. k \in Nat /\ Len(old) \in Nat /\ Len(roots') = k + Len(old)
        BY <1>1, <1>7
      <4>2. i \in 1..k + Len(old)
        BY <2>1, <4>1
      <4>3. Len(old) # 0
        BY <2>3, <4>1, <4>2
      <4>. QED
        BY <1>7, <4>1, <4>2, <4>3
    <3>2. i - k \in 1..Len(roots) - (k + 1) + 1 /\ i \in 1..Len(roots)
      BY <1>1, <1>7, <2>1, <2>3, <3>1
    <3>3. roots'[i] = old[i - k] /\ old[i - k] = roots[k + 1 + (i - k) - 1]
      BY <1>1, <1>2, <1>5, <1>6, <2>1, <2>3, <3>2
    <3>4. k + 1 + (i - k) - 1 = i
      BY <1>1, <2>1
    <3>. QED
      BY <1>1, <3>2, <3>3, <3>4
  <2>. QED
    BY <2>2, <2>3
<1>. QED
  BY <1>6, <1>8, <1>10, <1>11 DEF P, k

-----------------------------------------------------------------------------
(* The invariants.                                                         *)

Answers == UNION {[files -> Contents] : files \in SUBSET Sources}

(* Every file's text is what the vfs has of it; a deleted file's is empty. *)
TextIsRead == \A f \in Files : text[f] = vfs[f] \/ (vfs[f] = Absent /\ text[f] = Empty)

(* The vfs has the open document of a source file, and of a library file   *)
(* what the server materialized, if anything.                              *)
DocumentsWritten ==
    /\ \A f \in Sources : doc[f] # Absent => vfs[f] = doc[f]
    /\ \A f \in Views : vfs[f] \in {Absent, ServerText} /\ text[f] = vfs[f]

(* The loader answers with contents that the files have had.               *)
AnswersOfPast ==
    /\ \A f \in Sources : disk[f] \in past[f]
    /\ \A n \in DOMAIN answers : \A f \in DOMAIN answers[n] : answers[n][f] \in past[f]

TextInv ==
    /\ TypeOK /\ answers \in Seq(Answers)
    /\ TextIsRead /\ DocumentsWritten /\ AnswersOfPast /\ RootsMatchLayout

(* The loader, or the client, still has to tell of the file.               *)
Told(f) == f \in notices \/ \E n \in DOMAIN tasks : tasks[n].byName /\ f \in tasks[n].files

(* The content the vfs has of the file when the answers under way are taken. *)
Ends(f, c) ==
    \/ \E n \in DOMAIN answers :
           /\ f \in DOMAIN answers[n] /\ answers[n][f] = c
           /\ \A m \in DOMAIN answers : m > n => f \notin DOMAIN answers[m]
    \/ /\ \A n \in DOMAIN answers : f \notin DOMAIN answers[n]
       /\ vfs[f] = c

InRoots(f) == layout # 0 /\ Containing(layout, f, {"source", "generated"}) # {}

Listed(f) == \E n \in DOMAIN tasks : f \in tasks[n].files

Unsaid(f) == \A n \in DOMAIN answers : f \notin DOMAIN answers[n]

(* The last answer about a file says what is on disk, or it is told of.    *)
Fresh(f) == Told(f) \/ Unsaid(f) \/ Ends(f, disk[f])

AnswersFresh == \A f \in Sources : Fresh(f)

(* A closed file of which no answer was dropped ends as it is on disk, or  *)
(* is still told of; a file that was never read is on the list of a        *)
(* directory to read, or in no root.                                       *)
FollowsDisk(f) ==
    doc[f] = Absent /\ f \notin dropped =>
        \/ Told(f) \/ Ends(f, disk[f])
        \/ Ends(f, Absent) /\ (InRoots(f) => Listed(f))

DiskIsFollowed == \A f \in Sources : FollowsDisk(f)

-----------------------------------------------------------------------------
(* How process_changes keeps the text and the roots in step with the vfs.  *)

LEMMA Distinct ==
    /\ Absent \notin Texts /\ ServerText \in Texts /\ Sources \cap Views = {}
    /\ Empty # Absent /\ Empty \notin Texts /\ Contents = Texts \cup {Absent}
    /\ Files = Sources \cup Views
BY DocumentsAssumption DEF Contents, Files

LEMMA RootsListFiles ==
    ASSUME TypeOK
    PROVE  \A i \in DOMAIN roots : roots[i].files \subseteq Files
<1>1. roots \in Seq(SourceRoot)
  BY DEF TypeOK
<1>2. ASSUME NEW i \in DOMAIN roots PROVE roots[i].files \subseteq Files
  <2>1. roots[i] \in SourceRoot
    BY <1>1, ElementOfSeq, LenProperties
  <2>. QED
    BY <2>1 DEF SourceRoot
<1>. QED
  BY <1>2

LEMMA ProcessShape ==
    ASSUME TypeOK, TextIsRead, RootsMatchLayout,
           NEW contents \in [Files -> Contents], ProcessChanges(contents), UNCHANGED layout
    PROVE  /\ vfs' = contents /\ text' \in [Files -> Contents \cup {Empty}]
           /\ \A f \in Files : text'[f] = IF contents[f] # vfs[f] THEN Decode(contents[f])
                                                                  ELSE text[f]
           /\ roots' \in Seq(SourceRoot) /\ fileRoot' \in [Files -> 0..Len(roots')]
           /\ TextIsRead' /\ RootsMatchLayout'
<1>1. vfs' = contents
  BY DEF ProcessChanges, Process
<1>2. text' = [f \in Files |-> IF contents[f] # vfs[f] THEN Decode(contents[f]) ELSE text[f]]
  <2>1. text' = [f \in Files |-> IF f \in Changed(contents) THEN Decode(contents[f])
                                                            ELSE text[f]]
    BY DEF ProcessChanges, Process
  <2>. QED
    BY <2>1 DEF Changed
<1>3. text' \in [Files -> Contents \cup {Empty}]
  <2>1. \A f \in Files : Decode(contents[f]) \in Contents \cup {Empty}
    BY DEF Decode
  <2>2. text \in [Files -> Contents \cup {Empty}]
    BY DEF TypeOK
  <2>. QED
    BY <1>2, <2>1, <2>2
<1>4. TextIsRead'
  BY <1>1, <1>2, Distinct DEF TextIsRead, Decode
<1>5. \A f \in Files : text[f] # Absent => text'[f] # Absent
  BY <1>2, Distinct DEF Decode
<1>6. \A f \in Files : contents[f] # Absent => text'[f] # Absent
  BY <1>1, <1>4, Distinct DEF TextIsRead
<1>7. CASE layout # 0 /\ Created(contents) \cup Deleted(contents) # {}
  <2>1. SetRoots(layout, contents)
    BY <1>7 DEF ProcessChanges, Process
  <2>2. layout \in DOMAIN Layouts
    BY <1>7, LayoutsTyped DEF TypeOK
  <2>3. /\ roots' \in Seq(SourceRoot) /\ fileRoot' \in [Files -> 0..Len(roots')]
        /\ SubSeq(roots', 1, Len(Layouts[layout]) + 1) = PartitionSourceRoots(layout, contents)
        /\ \A i \in DOMAIN roots' :
              \/ roots'[i].files \subseteq {f \in Files : contents[f] # Absent}
              \/ i \in DOMAIN roots /\ roots'[i] = roots[i]
    BY <2>1, <2>2, SetRootsShape DEF TypeOK
  <2>4. \A f \in Files : contents[f] # Absent => fileRoot'[f] = Owner[layout][f]
    BY <2>1 DEF SetRoots
  <2>5. \A i \in DOMAIN roots : roots[i].files \subseteq Files
    BY RootsListFiles
  <2>6. \A i \in DOMAIN roots' : \A f \in roots'[i].files : text'[f] # Absent
    BY <1>5, <1>6, <2>3, <2>5 DEF RootsMatchLayout
  <2>. QED
    BY <1>1, <1>2, <1>3, <1>4, <2>3, <2>4, <2>6 DEF RootsMatchLayout
<1>8. CASE ~(layout # 0 /\ Created(contents) \cup Deleted(contents) # {})
  <2>1. UNCHANGED <<roots, fileRoot>>
    BY <1>8 DEF ProcessChanges, Process
  <2>2. \A i \in DOMAIN roots : roots[i].files \subseteq Files
    BY RootsListFiles
  <2>3. \A i \in DOMAIN roots' : \A f \in roots'[i].files : text'[f] # Absent
    BY <1>5, <2>1, <2>2 DEF RootsMatchLayout
  <2>4. CASE layout # 0
    <3>1. \A f \in Files : contents[f] = Absent <=> vfs[f] = Absent
      BY <1>8, <2>4 DEF Created, Deleted, Changed
    <3>2. PartitionSourceRoots(layout, contents) = PartitionSourceRoots(layout, vfs)
      <4>1. \A i : {f \in Files : contents[f] # Absent /\ Owner[layout][f] = i}
                     = {f \in Files : vfs[f] # Absent /\ Owner[layout][f] = i}
        BY <3>1
      <4>. QED
        BY <4>1 DEF PartitionSourceRoots
    <3>. QED
      BY <1>1, <1>2, <1>3, <1>4, <2>1, <2>3, <2>4, <3>1, <3>2 DEF RootsMatchLayout, TypeOK
  <2>5. CASE layout = 0
    BY <1>1, <1>2, <1>3, <1>4, <2>1, <2>3, <2>5 DEF RootsMatchLayout, TypeOK
  <2>. QED
    BY <2>4, <2>5
<1>. QED
  BY <1>7, <1>8

(* The parts of the invariant that only speak of what does not change.     *)
LEMMA AnswersKept ==
    ASSUME TextInv, UNCHANGED <<disk, past, answers>>
    PROVE  AnswersOfPast' /\ answers' \in Seq(Answers)
BY DEF TextInv, AnswersOfPast

LEMMA AnswersTyped ==
    ASSUME answers' \in Seq(Answers)
    PROVE  /\ \A n \in DOMAIN answers' : DOMAIN answers'[n] \subseteq Sources
           /\ \A n \in DOMAIN answers' : answers'[n] \in [DOMAIN answers'[n] -> Contents]
<1>1. ASSUME NEW n \in DOMAIN answers'
      PROVE  /\ DOMAIN answers'[n] \subseteq Sources
             /\ answers'[n] \in [DOMAIN answers'[n] -> Contents]
  <2>1. answers'[n] \in Answers
    BY <1>1, ElementOfSeq, LenProperties
  <2>2. PICK files \in SUBSET Sources : answers'[n] \in [files -> Contents]
    BY <2>1 DEF Answers
  <2>. QED
    BY <2>2
<1>. QED
  BY <1>1

LEMMA TextInvInit == Init => TextInv
<1>. SUFFICES ASSUME Init PROVE TextInv
  OBVIOUS
<1>1. disk \in [Sources -> Contents]
  BY DocumentsAssumption DEF Init
<1>2. roots = << >> /\ Len(roots) = 0 /\ DOMAIN roots = {} /\ roots \in Seq(SourceRoot)
  BY EmptySeq DEF Init
<1>3. answers = << >> /\ answers \in Seq(Answers) /\ DOMAIN answers = {}
  BY EmptySeq DEF Init
<1>4. tasks \in Seq(Task)
  BY EmptySeq DEF Init
<1>5. fileRoot \in [Files -> 0..Len(roots)]
  BY <1>2 DEF Init
<1>6. layout \in 0..Len(Layouts) /\ acts \in 0..MaxActs
  BY LayoutsTyped, DocumentsAssumption DEF Init
<1>7. past \in [Sources -> SUBSET Contents]
  BY <1>1 DEF Init
<1>8. TypeOK
  BY <1>1, <1>2, <1>3, <1>4, <1>5, <1>6, <1>7 DEF Init, TypeOK, Contents
<1>9. TextIsRead /\ DocumentsWritten
  BY DEF Init, TextIsRead, DocumentsWritten, Files
<1>10. AnswersOfPast
  BY <1>3 DEF Init, AnswersOfPast
<1>11. RootsMatchLayout
  BY <1>2 DEF Init, RootsMatchLayout
<1>. QED
  BY <1>3, <1>8, <1>9, <1>10, <1>11 DEF TextInv

-----------------------------------------------------------------------------
(* Each action keeps the text invariant.                                   *)

LEMMA TasksAppend ==
    ASSUME TextInv, NEW t \in Task, tasks' = Append(tasks, t)
    PROVE  tasks' \in Seq(Task)
BY AppendProperties DEF TextInv, TypeOK

LEMMA ActsTyped ==
    ASSUME TextInv, Act
    PROVE  acts' \in 0..MaxActs
BY DocumentsAssumption DEF TextInv, TypeOK, Act

(* The parts an action keeps that changes neither the vfs nor the inputs.  *)
LEMMA InputsKept ==
    ASSUME TextInv, UNCHANGED <<vfs, dbVars, layout>>
    PROVE  /\ vfs' \in [Files -> Contents] /\ text' \in [Files -> Contents \cup {Empty}]
           /\ roots' \in Seq(SourceRoot) /\ fileRoot' \in [Files -> 0..Len(roots')]
           /\ layout' \in 0..Len(Layouts)
           /\ TextIsRead' /\ RootsMatchLayout'
BY DEF TextInv, TypeOK, dbVars, TextIsRead, RootsMatchLayout

LEMMA EditKeeps ==
    ASSUME TextInv, NEW f \in Sources, NEW t \in Texts, Act,
           doc' = [doc EXCEPT ![f] = t], ProcessChanges([vfs EXCEPT ![f] = t]),
           UNCHANGED <<diskVars, layout, loaderVars>>
    PROVE  TextInv' /\ vfs' = [vfs EXCEPT ![f] = t]
<1>. DEFINE contents == [vfs EXCEPT ![f] = t]
<1>1. contents \in [Files -> Contents] /\ f \in Files /\ f \notin Views
  BY Distinct DEF TextInv, TypeOK
<1>2. /\ vfs' = contents /\ text' \in [Files -> Contents \cup {Empty}]
      /\ \A g \in Files : text'[g] = IF contents[g] # vfs[g] THEN Decode(contents[g])
                                                             ELSE text[g]
      /\ roots' \in Seq(SourceRoot) /\ fileRoot' \in [Files -> 0..Len(roots')]
      /\ TextIsRead' /\ RootsMatchLayout'
  <2>. HIDE DEF contents
  <2>1. ProcessChanges(contents) /\ UNCHANGED layout
    BY DEF contents
  <2>. QED
    BY <1>1, <2>1, ProcessShape DEF TextInv
<1>3. doc' \in [Files -> Contents]
  BY <1>1, Distinct DEF TextInv, TypeOK
<1>4. AnswersOfPast' /\ answers' \in Seq(Answers)
  BY AnswersKept DEF diskVars, loaderVars
<1>5. TypeOK'
  BY <1>1, <1>2, <1>3, <1>4, AnswersTyped, ActsTyped
     DEF TypeOK, TextInv, diskVars, loaderVars
<1>6. DocumentsWritten'
  <2>1. ASSUME NEW g \in Sources, doc'[g] # Absent PROVE vfs'[g] = doc'[g]
    BY <1>1, <1>2, <2>1, Distinct DEF TextInv, TypeOK, DocumentsWritten
  <2>2. ASSUME NEW g \in Views PROVE vfs'[g] = vfs[g] /\ text'[g] = text[g]
    BY <1>1, <1>2, Distinct DEF TextInv, TypeOK
  <2>. QED
    BY <2>1, <2>2 DEF DocumentsWritten, TextInv
<1>. QED
  BY <1>2, <1>4, <1>5, <1>6 DEF TextInv

(* A document of the client's that changes no text.                        *)
LEMMA TrackKeeps ==
    ASSUME TextInv, Act, NEW f \in Files, NEW c \in Contents, doc' = [doc EXCEPT ![f] = c],
           f \in Sources => c = Absent,
           tasks' \in Seq(Task), UNCHANGED <<diskVars, vfs, dbVars, layout, answers, dropped>>
    PROVE  TextInv'
<1>1. AnswersOfPast' /\ answers' \in Seq(Answers)
  BY AnswersKept DEF diskVars
<1>2. doc' \in [Files -> Contents]
  BY DEF TextInv, TypeOK
<1>3. TypeOK'
  BY <1>1, <1>2, AnswersTyped, ActsTyped, InputsKept DEF TypeOK, TextInv, diskVars
<1>4. DocumentsWritten'
  <2>1. ASSUME NEW g \in Sources, doc'[g] # Absent PROVE vfs'[g] = doc'[g]
    BY <2>1, Distinct DEF TextInv, TypeOK, DocumentsWritten
  <2>. QED
    BY <2>1 DEF DocumentsWritten, TextInv, dbVars
<1>. QED
  BY <1>1, <1>3, <1>4, InputsKept DEF TextInv

LEMMA WatchedKeeps ==
    ASSUME TextInv, NEW f \in Sources, WatchedFileChanged(f)
    PROVE  TextInv'
<1>1. AnswersOfPast' /\ answers' \in Seq(Answers)
  BY AnswersKept DEF WatchedFileChanged
<1>2. Invalidate({f}) \in Task
  BY DEF Invalidate, Task
<1>3. tasks' \in Seq(Task)
  BY <1>2, TasksAppend DEF WatchedFileChanged
<1>4. TypeOK'
  BY <1>1, <1>3, AnswersTyped, InputsKept DEF TypeOK, TextInv, WatchedFileChanged
<1>5. DocumentsWritten'
  BY DEF DocumentsWritten, TextInv, WatchedFileChanged, dbVars
<1>. QED
  BY <1>1, <1>4, <1>5, InputsKept DEF TextInv, WatchedFileChanged

Found == {f \in Head(tasks).files : Head(tasks).byName \/ disk[f] # Absent}

LEMMA ReadAnswer ==
    ASSUME TextInv, LoaderReads
    PROVE  /\ Head(tasks) \in Task /\ Found \in SUBSET Sources
           /\ [f \in Found |-> disk[f]] \in Answers
           /\ answers' = Append(answers, [f \in Found |-> disk[f]])
<1>1. Head(tasks) \in Task
  BY HeadTailProperties DEF TextInv, TypeOK, LoaderReads
<1>2. Found \in SUBSET Sources
  BY <1>1 DEF Found, Task
<1>3. [f \in Found |-> disk[f]] \in [Found -> Contents]
  BY <1>2 DEF TextInv, TypeOK
<1>4. answers' = Append(answers, [f \in Found |-> disk[f]])
  BY DEF LoaderReads, Found
<1>. QED
  BY <1>1, <1>2, <1>3, <1>4 DEF Answers

LEMMA LoaderKeeps ==
    ASSUME TextInv, LoaderReads
    PROVE  TextInv'
<1>. DEFINE a == [f \in Found |-> disk[f]]
<1>1. a \in Answers /\ answers' = Append(answers, a) /\ Found \in SUBSET Sources
  BY ReadAnswer
<1>2. tasks' \in Seq(Task)
  BY HeadTailProperties DEF TextInv, TypeOK, LoaderReads
<1>3. DOMAIN a = Found /\ \A f \in Found : a[f] = disk[f]
  OBVIOUS
<1>. HIDE DEF a
<1>4. answers \in Seq(Answers)
  BY DEF TextInv
<1>5. /\ answers' \in Seq(Answers) /\ Len(answers') = Len(answers) + 1
      /\ \A n \in 1..Len(answers) : answers'[n] = answers[n]
      /\ answers'[Len(answers) + 1] = a
  BY <1>1, <1>4, AppendProperties
<1>6. AnswersOfPast'
  <2>1. Len(answers) \in Nat /\ DOMAIN answers = 1..Len(answers)
        /\ DOMAIN answers' = 1..Len(answers')
    BY <1>4, <1>5, LenProperties
  <2>2. ASSUME NEW n \in DOMAIN answers', NEW f \in DOMAIN answers'[n]
        PROVE  answers'[n][f] \in past'[f]
    <3>1. n \in 1..Len(answers) \/ n = Len(answers) + 1
      BY <1>5, <2>1
    <3>. QED
      BY <1>1, <1>3, <1>5, <2>1, <3>1 DEF TextInv, AnswersOfPast, LoaderReads, diskVars
  <2>. QED
    BY <2>2 DEF TextInv, AnswersOfPast, LoaderReads, diskVars
<1>7. TypeOK'
  BY <1>2, <1>5, AnswersTyped, InputsKept DEF TypeOK, TextInv, LoaderReads, diskVars
<1>8. DocumentsWritten'
  BY DEF DocumentsWritten, TextInv, LoaderReads, dbVars
<1>. QED
  BY <1>5, <1>6, <1>7, <1>8, InputsKept DEF TextInv, LoaderReads

Taken(f) == f \in DOMAIN Head(answers) /\ doc[f] = Absent /\ ~Ignored(f)

LEMMA TakenContents ==
    ASSUME TextInv, HandleAnswer
    PROVE  /\ answers \in Seq(Answers) /\ answers # << >> /\ answers' = Tail(answers)
           /\ DOMAIN Head(answers) \subseteq Sources
           /\ [f \in Files |-> IF Taken(f) THEN Head(answers)[f] ELSE vfs[f]] \in [Files -> Contents]
           /\ ProcessChanges([f \in Files |-> IF Taken(f) THEN Head(answers)[f] ELSE vfs[f]])
           /\ UNCHANGED <<doc, diskVars, layout, tasks, acts>>
           /\ dropped' = (dropped \cup {f \in DOMAIN Head(answers) : Ignored(f)})
                             \ {f \in DOMAIN Head(answers) : Taken(f)}
           /\ \A f \in DOMAIN Head(answers) : Head(answers)[f] \in past[f]
<1>1. answers \in Seq(Answers) /\ answers # << >>
  BY DEF TextInv, HandleAnswer
<1>2. Len(answers) \in Nat /\ 1 \in 1..Len(answers) /\ DOMAIN answers = 1..Len(answers)
      /\ Head(answers) = answers[1]
  BY <1>1, EmptySeq, LenProperties
<1>3. DOMAIN Head(answers) \subseteq Sources
      /\ Head(answers) \in [DOMAIN Head(answers) -> Contents]
  BY <1>2 DEF TextInv, TypeOK
<1>4. [f \in Files |-> IF Taken(f) THEN Head(answers)[f] ELSE vfs[f]] \in [Files -> Contents]
  BY <1>3 DEF TextInv, TypeOK, Taken
<1>5. \A f \in DOMAIN Head(answers) : Head(answers)[f] \in past[f]
  BY <1>2 DEF TextInv, AnswersOfPast
<1>. DEFINE files == {f \in DOMAIN Head(answers) : doc[f] = Absent /\ ~Ignored(f)}
<1>6. Take(files)
  BY DEF HandleAnswer
<1>7. [f \in Files |-> IF f \in files THEN Head(answers)[f] ELSE vfs[f]]
        = [f \in Files |-> IF Taken(f) THEN Head(answers)[f] ELSE vfs[f]]
  BY DEF Taken
<1>8. ProcessChanges([f \in Files |-> IF f \in files THEN Head(answers)[f] ELSE vfs[f]])
      /\ answers' = Tail(answers) /\ UNCHANGED <<doc, diskVars, layout, tasks, acts>>
      /\ dropped' = (dropped \cup {f \in DOMAIN Head(answers) : Ignored(f)}) \ files
  BY <1>6 DEF Take
<1>9. files = {f \in DOMAIN Head(answers) : Taken(f)}
  BY DEF Taken
<1>. HIDE DEF files
<1>. QED
  BY <1>1, <1>3, <1>4, <1>5, <1>7, <1>8, <1>9

LEMMA TakeKeeps ==
    ASSUME TextInv, HandleAnswer
    PROVE  /\ TextInv' /\ answers' = Tail(answers)
           /\ \A f \in Files : vfs'[f] = IF Taken(f) THEN Head(answers)[f] ELSE vfs[f]
<1>. DEFINE contents == [f \in Files |-> IF Taken(f) THEN Head(answers)[f] ELSE vfs[f]]
<1>1. /\ contents \in [Files -> Contents] /\ ProcessChanges(contents)
      /\ answers \in Seq(Answers) /\ answers # << >> /\ answers' = Tail(answers)
      /\ DOMAIN Head(answers) \subseteq Sources /\ dropped' \subseteq dropped \cup DOMAIN Head(answers)
      /\ UNCHANGED <<doc, diskVars, layout, tasks, acts>>
  BY TakenContents
<1>2. \A f \in Files : contents[f] = IF Taken(f) THEN Head(answers)[f] ELSE vfs[f]
  OBVIOUS
<1>. HIDE DEF contents
<1>3. /\ vfs' = contents /\ text' \in [Files -> Contents \cup {Empty}]
      /\ \A g \in Files : text'[g] = IF contents[g] # vfs[g] THEN Decode(contents[g])
                                                             ELSE text[g]
      /\ roots' \in Seq(SourceRoot) /\ fileRoot' \in [Files -> 0..Len(roots')]
      /\ TextIsRead' /\ RootsMatchLayout'
  BY <1>1, ProcessShape DEF TextInv
<1>4. /\ answers' \in Seq(Answers) /\ Len(answers') = Len(answers) - 1
      /\ \A n \in 1..Len(answers') : answers'[n] = answers[n + 1]
  BY <1>1, HeadTailProperties
<1>5. AnswersOfPast'
  <2>1. Len(answers) \in Nat /\ DOMAIN answers = 1..Len(answers)
        /\ DOMAIN answers' = 1..Len(answers')
    BY <1>1, <1>4, LenProperties
  <2>2. ASSUME NEW n \in DOMAIN answers', NEW f \in DOMAIN answers'[n]
        PROVE  answers'[n][f] \in past'[f]
    <3>1. n + 1 \in DOMAIN answers /\ answers'[n] = answers[n + 1]
      BY <1>4, <2>1
    <3>. QED
      BY <1>1, <3>1 DEF TextInv, AnswersOfPast, diskVars
  <2>. QED
    BY <1>1, <2>2 DEF TextInv, AnswersOfPast, diskVars
<1>6. TypeOK'
  BY <1>1, <1>3, <1>4, AnswersTyped DEF TypeOK, TextInv, diskVars
<1>7. DocumentsWritten'
  <2>1. ASSUME NEW g \in Sources, doc'[g] # Absent PROVE vfs'[g] = doc'[g]
    <3>1. g \in Files /\ ~Taken(g)
      BY <1>1, <2>1, Distinct DEF Taken
    <3>. QED
      BY <1>1, <1>2, <1>3, <2>1, <3>1 DEF TextInv, DocumentsWritten
  <2>2. ASSUME NEW g \in Views PROVE vfs'[g] = vfs[g] /\ text'[g] = text[g]
    <3>1. g \in Files /\ ~Taken(g)
      BY <1>1, <2>2, Distinct DEF Taken
    <3>. QED
      BY <1>2, <1>3, <3>1
  <2>. QED
    BY <2>1, <2>2 DEF DocumentsWritten, TextInv
<1>. QED
  BY <1>1, <1>2, <1>3, <1>4, <1>5, <1>6, <1>7 DEF TextInv

LEMMA ApplyKeeps ==
    ASSUME TextInv, ApplyLayout
    PROVE  TextInv' /\ layout' \in DOMAIN Layouts
<1>1. layout' = layout + 1 /\ layout' \in DOMAIN Layouts /\ layout' # 0
      /\ layout' \in 0..Len(Layouts)
  BY LayoutsTyped DEF TextInv, TypeOK, ApplyLayout
<1>2. /\ SetRoots(layout', vfs)
      /\ UNCHANGED <<doc, diskVars, vfs, text, answers, dropped, acts>>
  BY DEF ApplyLayout
<1>3. /\ roots' \in Seq(SourceRoot) /\ fileRoot' \in [Files -> 0..Len(roots')]
      /\ SubSeq(roots', 1, Len(Layouts[layout']) + 1) = PartitionSourceRoots(layout', vfs)
      /\ \A i \in DOMAIN roots' :
            \/ roots'[i].files \subseteq {f \in Files : vfs[f] # Absent}
            \/ i \in DOMAIN roots /\ roots'[i] = roots[i]
  <2>. DEFINE n == layout'
  <2>1. n \in DOMAIN Layouts /\ SetRoots(n, vfs)
    BY <1>1, <1>2
  <2>. HIDE DEF n
  <2>2. /\ roots' \in Seq(SourceRoot) /\ fileRoot' \in [Files -> 0..Len(roots')]
        /\ SubSeq(roots', 1, Len(Layouts[n]) + 1) = PartitionSourceRoots(n, vfs)
        /\ \A i \in DOMAIN roots' :
              \/ roots'[i].files \subseteq {f \in Files : vfs[f] # Absent}
              \/ i \in DOMAIN roots /\ roots'[i] = roots[i]
    BY <2>1, SetRootsShape DEF TextInv, TypeOK
  <2>. QED
    BY <2>2 DEF n
<1>4. \A f \in Files : vfs[f] # Absent => text[f] # Absent
  BY Distinct DEF TextInv, TextIsRead
<1>5. RootsMatchLayout'
  <2>1. \A f \in Files : vfs[f] # Absent => fileRoot'[f] = Owner[layout'][f]
    BY <1>2 DEF SetRoots
  <2>2. ASSUME NEW i \in DOMAIN roots', NEW f \in roots'[i].files
        PROVE  text[f] # Absent
    <3>1. CASE roots'[i].files \subseteq {g \in Files : vfs[g] # Absent}
      BY <1>4, <3>1
    <3>2. CASE i \in DOMAIN roots /\ roots'[i] = roots[i]
      BY <3>2 DEF TextInv, RootsMatchLayout
    <3>. QED
      BY <1>3, <3>1, <3>2
  <2>. QED
    BY <1>2, <1>3, <2>1, <2>2 DEF RootsMatchLayout
<1>6. AnswersOfPast' /\ answers' \in Seq(Answers)
  BY <1>2, AnswersKept DEF diskVars
<1>7. LoadOf({f \in Sources : Containing(layout', f, {"source", "generated"}) # {}}) \in Task
  BY DEF LoadOf, Task
<1>8. tasks' \in Seq(Task)
  BY <1>7, TasksAppend DEF ApplyLayout
<1>9. TypeOK'
  BY <1>1, <1>2, <1>3, <1>6, <1>8, AnswersTyped DEF TypeOK, TextInv, diskVars
<1>10. TextIsRead' /\ DocumentsWritten'
  BY <1>2 DEF TextIsRead, DocumentsWritten, TextInv
<1>. QED
  BY <1>1, <1>5, <1>6, <1>9, <1>10 DEF TextInv

LEMMA MaterializeKeeps ==
    ASSUME TextInv, NEW f \in Views, MaterializeView(f)
    PROVE  TextInv' /\ vfs' = [vfs EXCEPT ![f] = ServerText]
<1>. DEFINE contents == [vfs EXCEPT ![f] = ServerText]
<1>1. contents \in [Files -> Contents] /\ f \in Files /\ f \notin Sources
  BY Distinct DEF TextInv, TypeOK
<1>2. ProcessChanges(contents) /\ UNCHANGED <<doc, diskVars, layout, loaderVars, acts>>
  BY DEF MaterializeView
<1>3. /\ vfs' = contents /\ text' \in [Files -> Contents \cup {Empty}]
      /\ \A g \in Files : text'[g] = IF contents[g] # vfs[g] THEN Decode(contents[g])
                                                             ELSE text[g]
      /\ roots' \in Seq(SourceRoot) /\ fileRoot' \in [Files -> 0..Len(roots')]
      /\ TextIsRead' /\ RootsMatchLayout'
  <2>. HIDE DEF contents
  <2>. QED
    BY <1>1, <1>2, ProcessShape DEF TextInv
<1>4. AnswersOfPast' /\ answers' \in Seq(Answers)
  BY <1>2, AnswersKept DEF diskVars, loaderVars
<1>5. TypeOK'
  BY <1>1, <1>2, <1>3, <1>4, AnswersTyped DEF TypeOK, TextInv, diskVars, loaderVars
<1>6. DocumentsWritten'
  <2>1. ASSUME NEW g \in Sources PROVE vfs'[g] = vfs[g] /\ doc'[g] = doc[g]
    BY <1>1, <1>2, <1>3, Distinct DEF TextInv, TypeOK
  <2>2. ASSUME NEW g \in Views
        PROVE  vfs'[g] \in {Absent, ServerText} /\ text'[g] = vfs'[g]
    <3>1. g \in Files /\ vfs[g] \in {Absent, ServerText} /\ text[g] = vfs[g]
      BY Distinct DEF TextInv, DocumentsWritten
    <3>2. CASE g = f
      BY <1>1, <1>3, <3>1, <3>2, Distinct DEF TextInv, TypeOK, Decode
    <3>3. CASE g # f
      BY <1>1, <1>3, <3>1, <3>3 DEF TextInv, TypeOK
    <3>. QED
      BY <3>2, <3>3
  <2>. QED
    BY <2>1, <2>2 DEF TextInv, DocumentsWritten
<1>. QED
  BY <1>3, <1>4, <1>5, <1>6 DEF TextInv

LEMMA WriteKeeps ==
    ASSUME TextInv, NEW f \in Sources, WriteDisk(f)
    PROVE  TextInv'
<1>1. PICK c \in Contents \ {disk[f]} : /\ disk' = [disk EXCEPT ![f] = c]
                                        /\ past' = [past EXCEPT ![f] = @ \cup {c}]
  BY DEF WriteDisk
<1>2. disk' \in [Sources -> Contents] /\ past' \in [Sources -> SUBSET Contents]
  BY <1>1 DEF TextInv, TypeOK
<1>3. Act /\ notices' \subseteq Sources
      /\ UNCHANGED <<doc, vfs, dbVars, layout, loaderVars>>
  BY DEF WriteDisk, TextInv, TypeOK
<1>4. \A g \in Sources : past[g] \subseteq past'[g] /\ disk'[g] \in past'[g]
  BY <1>1 DEF TextInv, TypeOK, AnswersOfPast
<1>5. answers' \in Seq(Answers) /\ answers' = answers
  BY <1>3 DEF TextInv, loaderVars
<1>6. AnswersOfPast'
  BY <1>4, <1>5 DEF TextInv, AnswersOfPast, TypeOK
<1>7. TypeOK'
  BY <1>2, <1>3, <1>5, AnswersTyped, ActsTyped, InputsKept DEF TypeOK, TextInv, loaderVars
<1>8. DocumentsWritten'
  BY <1>3 DEF DocumentsWritten, TextInv, dbVars
<1>. QED
  BY <1>3, <1>5, <1>6, <1>7, <1>8, InputsKept DEF TextInv

LEMMA OpenViewTracks ==
    ASSUME TextInv, NEW f \in Views, OpenView(f)
    PROVE  TextInv' /\ UNCHANGED <<vfs, past>> /\ \A g \in Sources : doc'[g] = doc[g]
<1>1. PICK t \in Texts : doc' = [doc EXCEPT ![f] = t]
  BY DEF OpenView
<1>2. Act /\ UNCHANGED <<diskVars, vfs, dbVars, layout, answers, dropped>> /\ tasks' \in Seq(Task)
  BY DEF OpenView, loaderVars, TextInv, TypeOK
<1>3. t \in Contents /\ f \in Files /\ f \notin Sources
  BY Distinct
<1>4. TextInv'
  BY <1>1, <1>2, <1>3, TrackKeeps
<1>. QED
  BY <1>1, <1>2, <1>3, <1>4 DEF TextInv, TypeOK, diskVars

LEMMA CloseViewTracks ==
    ASSUME TextInv, NEW f \in Views, CloseView(f)
    PROVE  TextInv' /\ UNCHANGED <<vfs, past>> /\ \A g \in Sources : doc'[g] = doc[g]
<1>1. doc' = [doc EXCEPT ![f] = Absent]
  BY DEF CloseView
<1>2. Act /\ UNCHANGED <<diskVars, vfs, dbVars, layout, answers, dropped>> /\ tasks' \in Seq(Task)
  BY DEF CloseView, loaderVars, TextInv, TypeOK
<1>3. Absent \in Contents /\ f \in Files /\ f \notin Sources
  BY Distinct
<1>4. TextInv'
  BY <1>1, <1>2, <1>3, TrackKeeps
<1>. QED
  BY <1>1, <1>2, <1>3, <1>4 DEF TextInv, TypeOK, diskVars

LEMMA CloseDocumentTracks ==
    ASSUME TextInv, NEW f \in Sources, CloseDocument(f)
    PROVE  TextInv'
<1>1. doc' = [doc EXCEPT ![f] = Absent]
  BY DEF CloseDocument
<1>2. Act /\ UNCHANGED <<diskVars, vfs, dbVars, layout, answers, dropped>>
  BY DEF CloseDocument
<1>3. Invalidate({f}) \in Task
  BY DEF Invalidate, Task
<1>4. tasks' \in Seq(Task)
  BY <1>3, TasksAppend DEF CloseDocument
<1>5. Absent \in Contents /\ f \in Files
  BY Distinct
<1>. QED
  BY <1>1, <1>2, <1>4, <1>5, TrackKeeps

(* OpenDocument and ChangeDocument write a text over the file.             *)
EditsTo(f, t) ==
    /\ Act /\ doc' = [doc EXCEPT ![f] = t] /\ ProcessChanges([vfs EXCEPT ![f] = t])
    /\ UNCHANGED <<diskVars, layout, loaderVars>>

LEMMA EditShape ==
    ASSUME NEW f \in Sources, OpenDocument(f) \/ ChangeDocument(f)
    PROVE  \E t \in Texts : EditsTo(f, t)
<1>1. CASE OpenDocument(f)
  BY <1>1 DEF OpenDocument, EditsTo
<1>2. CASE ChangeDocument(f)
  BY <1>2 DEF ChangeDocument, EditsTo
<1>. QED
  BY <1>1, <1>2

(* The steps, named for the proofs below to split on.                      *)
LEMMA StepCases ==
    ASSUME [Next]_vars
    PROVE  \/ \E f \in Sources : \/ \E t \in Texts : EditsTo(f, t)
                                 \/ CloseDocument(f) \/ WatchedFileChanged(f) \/ WriteDisk(f)
           \/ \E f \in Views : OpenView(f) \/ CloseView(f) \/ MaterializeView(f)
           \/ HandleAnswer \/ ApplyLayout \/ LoaderReads \/ UNCHANGED vars
BY EditShape DEF Next, MainLoop

LEMMA TextInvStep == TextInv /\ [Next]_vars => TextInv'
<1>. SUFFICES ASSUME TextInv, [Next]_vars PROVE TextInv'
  OBVIOUS
<1>1. ASSUME NEW f \in Sources, NEW t \in Texts, EditsTo(f, t) PROVE TextInv'
  BY <1>1, EditKeeps DEF EditsTo
<1>2. ASSUME NEW f \in Sources, CloseDocument(f) PROVE TextInv'
  BY <1>2, CloseDocumentTracks
<1>3. ASSUME NEW f \in Sources, WatchedFileChanged(f) PROVE TextInv'
  BY <1>3, WatchedKeeps
<1>4. ASSUME NEW f \in Sources, WriteDisk(f) PROVE TextInv'
  BY <1>4, WriteKeeps
<1>5. ASSUME NEW f \in Views, OpenView(f) PROVE TextInv'
  BY <1>5, OpenViewTracks
<1>6. ASSUME NEW f \in Views, CloseView(f) PROVE TextInv'
  BY <1>6, CloseViewTracks
<1>7. ASSUME NEW f \in Views, MaterializeView(f) PROVE TextInv'
  BY <1>7, MaterializeKeeps
<1>8. CASE HandleAnswer
  BY <1>8, TakeKeeps
<1>9. CASE ApplyLayout
  BY <1>9, ApplyKeeps
<1>10. CASE LoaderReads
  BY <1>10, LoaderKeeps
<1>11. CASE UNCHANGED vars
  <2>1. UNCHANGED <<vfs, dbVars, layout>> /\ UNCHANGED <<disk, past, answers>>
        /\ UNCHANGED <<doc, notices, tasks, dropped, acts, text>>
    BY <1>11 DEF vars, dbVars, diskVars, loaderVars
  <2>2. TypeOK' /\ answers' \in Seq(Answers)
    BY <2>1, InputsKept, AnswersKept, AnswersTyped DEF TextInv, TypeOK
  <2>3. DocumentsWritten'
    BY <2>1 DEF TextInv, DocumentsWritten
  <2>. QED
    BY <2>1, <2>2, <2>3, InputsKept, AnswersKept DEF TextInv
<1>. QED
  BY <1>1, <1>2, <1>3, <1>4, <1>5, <1>6, <1>7, <1>8, <1>9, <1>10, <1>11, StepCases

LEMMA TextInvariant == Spec => []TextInv
BY TextInvInit, TextInvStep, PTL DEF Spec

(* Every reachable state is well typed: in particular no input of a file   *)
(* names a root that was never set (FileChange::apply).                    *)
THEOREM TypeCorrect == Spec => []TypeOK
<1>1. TextInv => TypeOK
  BY DEF TextInv
<1>. QED
  BY <1>1, TextInvariant, PTL

(* The text analysed of a source file is that of its open document, and    *)
(* that of a library file is the server's: no answer of the loader, late   *)
(* or not, and no edit of a view changes it (handle_vfs_task, on_did_open, *)
(* on_did_change).                                                         *)
THEOREM TextBelongsToOwner == Spec => []TextIsOwners
<1>1. TextInv => TextIsOwners
  <2>1. ASSUME TextInv, NEW f \in Sources, doc[f] # Absent PROVE text[f] = doc[f]
    BY <2>1, Distinct DEF TextInv, DocumentsWritten, TextIsRead
  <2>. QED
    BY <2>1 DEF TextIsOwners, TextInv, DocumentsWritten
<1>. QED
  BY <1>1, TextInvariant, PTL

(* The inputs of the roots, and of the files in them, are those of the     *)
(* layout applied last, whatever files came and went since, and every file *)
(* a root lists has a text (partition_source_roots, FileChange::apply,     *)
(* process_changes).                                                       *)
THEOREM RootsStayPartition == Spec => []RootsMatchLayout
<1>1. TextInv => RootsMatchLayout
  BY DEF TextInv
<1>. QED
  BY <1>1, TextInvariant, PTL

-----------------------------------------------------------------------------
(* The refinement of AnalysedText.                                         *)

LEMMA AnalysedIsVfs == TextInv => \A f \in Files : Analysed(f) = vfs[f]
<1>. SUFFICES ASSUME TextInv, NEW f \in Files PROVE Analysed(f) = vfs[f]
  OBVIOUS
<1>1. vfs[f] # Empty
  BY Distinct DEF TextInv, TypeOK
<1>. QED
  BY <1>1 DEF TextInv, TextIsRead, Analysed

LEMMA AnalysedIsVfsNext == TextInv' => \A f \in Files : Analysed(f)' = vfs'[f]
<1>. SUFFICES ASSUME TextInv', NEW f \in Files PROVE Analysed(f)' = vfs'[f]
  OBVIOUS
<1>1. vfs'[f] # Empty
  BY Distinct DEF TextInv, TypeOK
<1>. QED
  BY <1>1 DEF TextInv, TextIsRead, Analysed

LEMMA InitRefines == Init => AnalysedText!Init
<1>. SUFFICES ASSUME Init PROVE AnalysedText!Init
  OBVIOUS
<1>1. disk \in [Sources -> Contents]
  BY DocumentsAssumption DEF Init
<1>2. past \in [Sources -> {{c} : c \in Contents}]
  BY <1>1 DEF Init
<1>3. \A f \in Sources : doc[f] = Absent /\ Analysed(f) = Absent
  BY Distinct DEF Init, Analysed
<1>. QED
  BY <1>2, <1>3 DEF AnalysedText!Init, AnalysedText!Contents, Contents

LEMMA StepRefines ==
    TextInv /\ TextInv' /\ [Next]_vars => [AnalysedText!Next]_(AnalysedText!vars)
<1>. SUFFICES ASSUME TextInv, TextInv', [Next]_vars
              PROVE  [AnalysedText!Next]_(AnalysedText!vars)
  OBVIOUS
<1>. DEFINE docs == [f \in Sources |-> doc[f]]
            shown == [f \in Sources |-> Analysed(f)]
<1>1. /\ \A f \in Sources : docs[f] = doc[f] /\ docs'[f] = doc'[f]
      /\ \A f \in Sources : shown[f] = vfs[f] /\ shown'[f] = vfs'[f]
      /\ docs = [f \in Sources |-> doc[f]] /\ docs' = [f \in Sources |-> doc'[f]]
      /\ shown = [f \in Sources |-> vfs[f]] /\ shown' = [f \in Sources |-> vfs'[f]]
  BY Distinct, AnalysedIsVfs, AnalysedIsVfsNext
<1>2. (UNCHANGED <<docs, past, shown>>) => UNCHANGED AnalysedText!vars
  BY DEF AnalysedText!vars
<1>3. ASSUME NEW f \in Sources, NEW t \in Texts, docs' = [docs EXCEPT ![f] = t],
             shown' = [shown EXCEPT ![f] = t], UNCHANGED past
      PROVE  AnalysedText!Next
  BY <1>3 DEF AnalysedText!Next, AnalysedText!Edit
<1>4. ASSUME NEW f \in Sources, docs' = [docs EXCEPT ![f] = Absent],
             UNCHANGED <<past, shown>>
      PROVE  AnalysedText!Next
  BY <1>4 DEF AnalysedText!Next, AnalysedText!Close
<1>5. ASSUME NEW f \in Sources, NEW c \in Contents, past' = [past EXCEPT ![f] = @ \cup {c}],
             UNCHANGED <<docs, shown>>
      PROVE  AnalysedText!Next
  BY <1>5 DEF AnalysedText!Next, AnalysedText!Write, AnalysedText!Contents, Contents
<1>6. ASSUME \A f \in Sources : shown'[f] # shown[f] => docs[f] = Absent /\ shown'[f] \in past[f],
             UNCHANGED <<docs, past>>
      PROVE  AnalysedText!Next
  BY <1>6 DEF AnalysedText!Next, AnalysedText!Reread
<1>. HIDE DEF docs, shown
<1>10. ASSUME NEW f \in Sources, NEW t \in Texts, EditsTo(f, t)
       PROVE  AnalysedText!Next
  <2>1. doc' = [doc EXCEPT ![f] = t] /\ vfs' = [vfs EXCEPT ![f] = t] /\ UNCHANGED past
    BY <1>10, EditKeeps DEF EditsTo, diskVars
  <2>2. docs' = [docs EXCEPT ![f] = t] /\ shown' = [shown EXCEPT ![f] = t]
    BY <1>1, <2>1, Distinct DEF TextInv, TypeOK
  <2>. QED
    BY <1>3, <2>1, <2>2
<1>11. ASSUME NEW f \in Sources, CloseDocument(f)
       PROVE  AnalysedText!Next
  <2>1. doc' = [doc EXCEPT ![f] = Absent] /\ UNCHANGED <<vfs, past>>
    BY <1>11 DEF CloseDocument, diskVars
  <2>2. docs' = [docs EXCEPT ![f] = Absent] /\ UNCHANGED <<past, shown>>
    BY <1>1, <2>1, Distinct DEF TextInv, TypeOK
  <2>. QED
    BY <1>4, <2>2
<1>12. ASSUME NEW f \in Sources, WriteDisk(f)
       PROVE  AnalysedText!Next
  <2>1. PICK c \in Contents : past' = [past EXCEPT ![f] = @ \cup {c}]
    BY <1>12 DEF WriteDisk
  <2>2. UNCHANGED <<doc, vfs>>
    BY <1>12 DEF WriteDisk
  <2>3. UNCHANGED <<docs, shown>>
    BY <1>1, <2>2
  <2>. QED
    BY <1>5, <2>1, <2>3
<1>13. CASE HandleAnswer
  <2>1. /\ \A f \in Files : vfs'[f] = IF Taken(f) THEN Head(answers)[f] ELSE vfs[f]
        /\ \A f \in DOMAIN Head(answers) : Head(answers)[f] \in past[f]
        /\ UNCHANGED <<doc, past>>
    BY <1>13, TakeKeeps, TakenContents DEF diskVars
  <2>2. ASSUME NEW f \in Sources, shown'[f] # shown[f]
        PROVE  docs[f] = Absent /\ shown'[f] \in past[f]
    BY <1>1, <2>1, <2>2, Distinct DEF Taken
  <2>3. UNCHANGED <<docs, past>>
    BY <1>1, <2>1
  <2>. QED
    BY <1>6, <2>2, <2>3
<1>14. ASSUME UNCHANGED past, \A f \in Sources : doc'[f] = doc[f] /\ vfs'[f] = vfs[f]
       PROVE  UNCHANGED AnalysedText!vars
  <2>1. docs' = docs /\ shown' = shown
    BY <1>1, <1>14
  <2>. QED
    BY <1>2, <1>14, <2>1
<1>15. ASSUME NEW f \in Sources, WatchedFileChanged(f) PROVE UNCHANGED AnalysedText!vars
  BY <1>14, <1>15 DEF WatchedFileChanged
<1>16. ASSUME NEW f \in Views, OpenView(f) \/ CloseView(f)
       PROVE  UNCHANGED AnalysedText!vars
  BY <1>14, <1>16, OpenViewTracks, CloseViewTracks
<1>17. ASSUME NEW f \in Views, MaterializeView(f) PROVE UNCHANGED AnalysedText!vars
  <2>1. vfs' = [vfs EXCEPT ![f] = ServerText] /\ UNCHANGED <<doc, past>>
    BY <1>17, MaterializeKeeps DEF MaterializeView, diskVars
  <2>2. \A g \in Sources : vfs'[g] = vfs[g]
    BY <2>1, Distinct DEF TextInv, TypeOK
  <2>. QED
    BY <1>14, <2>1, <2>2
<1>18. CASE ApplyLayout \/ LoaderReads \/ UNCHANGED vars
  <2>1. UNCHANGED <<doc, past, vfs>>
    BY <1>18 DEF ApplyLayout, LoaderReads, vars, diskVars
  <2>. QED
    BY <1>14, <2>1
<1>. QED
  BY <1>10, <1>11, <1>12, <1>13, <1>15, <1>16, <1>17, <1>18, StepCases

(* The session implements AnalysedText step by step: an edit is analysed   *)
(* in the step that takes it, a close changes no text, and whatever the    *)
(* loader's answers bring is a content the file has had, of a file without *)
(* an open document (process_changes, handle_vfs_task).                    *)
THEOREM Refinement == Spec => ImplementsAnalysedText
<1>1. Spec => AnalysedText!Init /\ [][AnalysedText!Next]_(AnalysedText!vars)
  BY InitRefines, StepRefines, TextInvariant, PTL DEF Spec
<1>. QED
  BY <1>1, PTL DEF ImplementsAnalysedText, AnalysedText!Spec

-----------------------------------------------------------------------------
(* What the answers under way end in.                                      *)

LEMMA EndsAppended ==
    ASSUME answers \in Seq(Answers), NEW a \in Answers, answers' = Append(answers, a),
           UNCHANGED vfs, NEW f \in Sources, NEW c
    PROVE  /\ f \in DOMAIN a /\ a[f] = c => Ends(f, c)'
           /\ f \notin DOMAIN a /\ Ends(f, c) => Ends(f, c)'
<1>1. /\ Len(answers) \in Nat /\ DOMAIN answers = 1..Len(answers)
      /\ DOMAIN answers' = 1..Len(answers) + 1
      /\ \A n \in 1..Len(answers) : answers'[n] = answers[n]
      /\ answers'[Len(answers) + 1] = a
  <2>1. /\ answers' \in Seq(Answers) /\ Len(answers') = Len(answers) + 1
        /\ \A n \in 1..Len(answers) : answers'[n] = answers[n]
        /\ answers'[Len(answers) + 1] = a
    BY AppendProperties
  <2>. QED
    BY <2>1, LenProperties
<1>. DEFINE stop == Len(answers) + 1
<1>2. ASSUME f \in DOMAIN a, a[f] = c PROVE Ends(f, c)'
  <2>1. stop \in DOMAIN answers' /\ f \in DOMAIN answers'[stop] /\ answers'[stop][f] = c
        /\ \A m \in DOMAIN answers' : m > stop => f \notin DOMAIN answers'[m]
    BY <1>1, <1>2
  <2>. QED
    BY <2>1 DEF Ends
<1>3. ASSUME f \notin DOMAIN a, Ends(f, c) PROVE Ends(f, c)'
  <2>1. CASE /\ \A n \in DOMAIN answers : f \notin DOMAIN answers[n]
             /\ vfs[f] = c
    <3>1. ASSUME NEW n \in DOMAIN answers' PROVE f \notin DOMAIN answers'[n]
      <4>1. n \in DOMAIN answers \/ n = stop
        BY <1>1
      <4>. QED
        BY <1>1, <1>3, <2>1, <4>1
    <3>. QED
      BY <2>1, <3>1 DEF Ends
  <2>2. ASSUME NEW n \in DOMAIN answers, f \in DOMAIN answers[n], answers[n][f] = c,
               \A m \in DOMAIN answers : m > n => f \notin DOMAIN answers[m]
        PROVE  Ends(f, c)'
    <3>1. n \in DOMAIN answers' /\ answers'[n] = answers[n]
      BY <1>1
    <3>2. ASSUME NEW m \in DOMAIN answers', m > n PROVE f \notin DOMAIN answers'[m]
      <4>1. m \in DOMAIN answers \/ m = stop
        BY <1>1
      <4>. QED
        BY <1>1, <1>3, <2>2, <3>2, <4>1
    <3>. QED
      BY <2>2, <3>1, <3>2 DEF Ends
  <2>. QED
    BY <1>3, <2>1, <2>2 DEF Ends
<1>. QED
  BY <1>2, <1>3

(* What the loader has just read is what the file ends as.                 *)
LEMMA EndsRead ==
    ASSUME answers \in Seq(Answers), NEW a \in Answers, answers' = Append(answers, a),
           UNCHANGED <<vfs, disk>>, NEW f \in Sources, f \in DOMAIN a, a[f] = disk[f]
    PROVE  Ends(f, disk[f])'
<1>1. Ends(f, disk[f])' <=>
        \/ \E n \in DOMAIN answers' :
               /\ f \in DOMAIN answers'[n] /\ answers'[n][f] = disk[f]
               /\ \A m \in DOMAIN answers' : m > n => f \notin DOMAIN answers'[m]
        \/ /\ \A n \in DOMAIN answers' : f \notin DOMAIN answers'[n]
           /\ vfs'[f] = disk[f]
  BY DEF Ends
<1>2. ASSUME NEW c, c = disk[f] PROVE Ends(f, c)'
  BY <1>2, EndsAppended
<1>. QED
  BY <1>1, <1>2 DEF Ends

(* An answer that is taken leaves the last one about a file, or none.      *)
LEMMA EndsPassed ==
    ASSUME answers \in Seq(Answers), answers # << >>, answers' = Tail(answers),
           NEW f \in Sources, NEW c, Ends(f, c), ~Unsaid(f)'
    PROVE  \E n \in DOMAIN answers' :
               /\ f \in DOMAIN answers'[n] /\ answers'[n][f] = c
               /\ \A m \in DOMAIN answers' : m > n => f \notin DOMAIN answers'[m]
<1>1. /\ Len(answers) \in Nat \ {0} /\ DOMAIN answers = 1..Len(answers)
      /\ DOMAIN answers' = 1..Len(answers) - 1
      /\ \A n \in 1..Len(answers) - 1 : answers'[n] = answers[n + 1]
  <2>1. /\ answers' \in Seq(Answers) /\ Len(answers') = Len(answers) - 1
        /\ \A n \in 1..Len(answers') : answers'[n] = answers[n + 1]
    BY HeadTailProperties
  <2>. QED
    BY <2>1, LenProperties, EmptySeq
<1>2. PICK k \in DOMAIN answers' : f \in DOMAIN answers'[k]
  BY DEF Unsaid
<1>3. k \in 1..Len(answers) - 1 /\ k + 1 \in DOMAIN answers /\ f \in DOMAIN answers[k + 1]
  BY <1>1, <1>2
<1>4. PICK n \in DOMAIN answers :
          /\ f \in DOMAIN answers[n] /\ answers[n][f] = c
          /\ \A m \in DOMAIN answers : m > n => f \notin DOMAIN answers[m]
  BY <1>3 DEF Ends
<1>5. n \in Nat /\ n >= k + 1 /\ n - 1 \in 1..Len(answers) - 1 /\ (n - 1) + 1 = n
  <2>1. n \in 1..Len(answers) /\ k \in Nat /\ k >= 1 /\ ~(k + 1 > n)
    BY <1>1, <1>3, <1>4
  <2>. QED
    BY <1>1, <2>1
<1>6. n - 1 \in DOMAIN answers' /\ answers'[n - 1] = answers[n]
  BY <1>1, <1>5
<1>7. ASSUME NEW m \in DOMAIN answers', m > n - 1 PROVE f \notin DOMAIN answers'[m]
  <2>1. m \in 1..Len(answers) - 1
    BY <1>1
  <2>2. m + 1 \in DOMAIN answers /\ m + 1 > n /\ answers'[m] = answers[m + 1]
    BY <1>1, <1>5, <1>7, <2>1
  <2>. QED
    BY <1>4, <2>2
<1>. QED
  BY <1>4, <1>6, <1>7

LEMMA EndsTaken ==
    ASSUME answers \in Seq(Answers), answers # << >>, answers' = Tail(answers),
           NEW f \in Sources, NEW c, Ends(f, c),
           vfs'[f] = IF f \in DOMAIN Head(answers) THEN Head(answers)[f] ELSE vfs[f]
    PROVE  Ends(f, c)'
<1>1. /\ Len(answers) \in Nat \ {0} /\ DOMAIN answers = 1..Len(answers)
      /\ DOMAIN answers' = 1..Len(answers) - 1
      /\ \A n \in 1..Len(answers) - 1 : answers'[n] = answers[n + 1]
      /\ Head(answers) = answers[1]
  <2>1. /\ answers' \in Seq(Answers) /\ Len(answers') = Len(answers) - 1
        /\ \A n \in 1..Len(answers') : answers'[n] = answers[n + 1]
    BY HeadTailProperties
  <2>. QED
    BY <2>1, LenProperties, EmptySeq
<1>2. \A n \in DOMAIN answers' : n + 1 \in DOMAIN answers /\ answers'[n] = answers[n + 1]
  BY <1>1
<1>3. CASE /\ \A n \in DOMAIN answers : f \notin DOMAIN answers[n]
           /\ vfs[f] = c
  <2>1. f \notin DOMAIN Head(answers)
    BY <1>1, <1>3
  <2>. QED
    BY <1>2, <1>3, <2>1 DEF Ends
<1>4. ASSUME NEW n \in DOMAIN answers, f \in DOMAIN answers[n], answers[n][f] = c,
             \A m \in DOMAIN answers : m > n => f \notin DOMAIN answers[m]
      PROVE  Ends(f, c)'
  <2>1. CASE n = 1
    <3>1. vfs'[f] = c
      BY <1>1, <1>4, <2>1
    <3>2. ASSUME NEW m \in DOMAIN answers' PROVE f \notin DOMAIN answers'[m]
      <4>1. m + 1 \in DOMAIN answers /\ m + 1 > n /\ answers'[m] = answers[m + 1]
        BY <1>1, <2>1
      <4>. QED
        BY <1>4, <4>1
    <3>. QED
      BY <3>1, <3>2 DEF Ends
  <2>2. CASE n # 1
    <3>1. n - 1 \in DOMAIN answers' /\ answers'[n - 1] = answers[n]
      <4>1. n - 1 \in 1..Len(answers) - 1 /\ (n - 1) + 1 = n
        BY <1>1, <2>2
      <4>. QED
        BY <1>1, <4>1
    <3>2. ASSUME NEW m \in DOMAIN answers', m > n - 1 PROVE f \notin DOMAIN answers'[m]
      <4>1. m + 1 \in DOMAIN answers /\ m + 1 > n /\ answers'[m] = answers[m + 1]
        BY <1>1, <3>2
      <4>. QED
        BY <1>4, <4>1
    <3>. QED
      BY <1>4, <3>1, <3>2 DEF Ends
  <2>. QED
    BY <2>1, <2>2
<1>. QED
  BY <1>3, <1>4 DEF Ends

LEMMA EndsKept ==
    ASSUME UNCHANGED answers, NEW f \in Sources, vfs'[f] = vfs[f], NEW c, Ends(f, c)
    PROVE  Ends(f, c)'
BY DEF Ends

LEMMA TasksAdded ==
    ASSUME tasks \in Seq(Task), NEW t \in Task, tasks' = Append(tasks, t), NEW f \in Sources
    PROVE  /\ Listed(f) => Listed(f)'
           /\ (\E n \in DOMAIN tasks : tasks[n].byName /\ f \in tasks[n].files)
                 => \E n \in DOMAIN tasks' : tasks'[n].byName /\ f \in tasks'[n].files
           /\ f \in t.files => Listed(f)'
           /\ f \in t.files /\ t.byName => Told(f)'
<1>1. /\ Len(tasks) \in Nat /\ DOMAIN tasks = 1..Len(tasks)
      /\ DOMAIN tasks' = 1..Len(tasks) + 1
      /\ \A n \in 1..Len(tasks) : tasks'[n] = tasks[n]
      /\ tasks'[Len(tasks) + 1] = t
  <2>1. /\ tasks' \in Seq(Task) /\ Len(tasks') = Len(tasks) + 1
        /\ \A n \in 1..Len(tasks) : tasks'[n] = tasks[n]
        /\ tasks'[Len(tasks) + 1] = t
    BY AppendProperties
  <2>. QED
    BY <2>1, LenProperties
<1>2. \A n \in DOMAIN tasks : n \in DOMAIN tasks' /\ tasks'[n] = tasks[n]
  BY <1>1
<1>3. Len(tasks) + 1 \in DOMAIN tasks'
  BY <1>1
<1>. QED
  BY <1>1, <1>2, <1>3 DEF Listed, Told

LEMMA FollowsKept ==
    ASSUME NEW f \in Sources, FollowsDisk(f), UNCHANGED <<answers, layout, dropped>>,
           doc'[f] = doc[f], vfs'[f] = vfs[f], disk'[f] = disk[f],
           Told(f) => Told(f)', Listed(f) => Listed(f)'
    PROVE  FollowsDisk(f)'
<1>. SUFFICES ASSUME doc'[f] = Absent, f \notin dropped', ~Told(f)'
              PROVE  \/ Ends(f, disk[f])'
                     \/ Ends(f, Absent)' /\ (InRoots(f)' => Listed(f)')
  BY DEF FollowsDisk
<1>1. f \notin dropped /\ (InRoots(f)' => InRoots(f))
  BY DEF InRoots
<1>2. Ends(f, disk[f]) \/ (Ends(f, Absent) /\ (InRoots(f) => Listed(f)))
  BY <1>1 DEF FollowsDisk
<1>3. Ends(f, disk[f]) => Ends(f, disk[f])'
  BY DEF Ends
<1>4. Ends(f, Absent) => Ends(f, Absent)'
  BY DEF Ends
<1>. QED
  BY <1>1, <1>2, <1>3, <1>4

LEMMA FollowsThroughEdit ==
    ASSUME TextInv, DiskIsFollowed, NEW g \in Sources, NEW t \in Texts, EditsTo(g, t)
    PROVE  DiskIsFollowed'
<1>1. /\ doc' = [doc EXCEPT ![g] = t] /\ vfs' = [vfs EXCEPT ![g] = t]
      /\ UNCHANGED <<disk, past, notices, layout, tasks, answers, dropped>>
  BY EditKeeps DEF EditsTo, diskVars, loaderVars
<1>2. ASSUME NEW f \in Sources, f # g PROVE FollowsDisk(f)'
  <2>1. doc'[f] = doc[f] /\ vfs'[f] = vfs[f] /\ disk'[f] = disk[f]
    BY <1>1, <1>2, Distinct DEF TextInv, TypeOK
  <2>2. (Told(f) => Told(f)') /\ (Listed(f) => Listed(f)')
    BY <1>1 DEF Told, Listed
  <2>. QED
    BY <1>1, <2>1, <2>2, FollowsKept DEF DiskIsFollowed
<1>3. FollowsDisk(g)'
  <2>1. doc'[g] # Absent
    BY <1>1, Distinct DEF TextInv, TypeOK
  <2>. QED
    BY <2>1 DEF FollowsDisk
<1>. QED
  BY <1>2, <1>3 DEF DiskIsFollowed

(* A file named to the loader is told of; the others are as they were.     *)
LEMMA FollowsThroughNaming ==
    ASSUME TextInv, DiskIsFollowed, NEW g \in Sources,
           tasks' = Append(tasks, Invalidate({g})), notices \subseteq notices' \cup {g},
           UNCHANGED <<disk, vfs, layout, answers, dropped>>,
           \A f \in Sources : f # g => doc'[f] = doc[f]
    PROVE  DiskIsFollowed'
<1>1. Invalidate({g}) \in Task /\ Invalidate({g}).files = {g} /\ Invalidate({g}).byName
  BY DEF Invalidate, Task
<1>2. tasks \in Seq(Task)
  BY DEF TextInv, TypeOK
<1>3. Told(g)'
  BY <1>1, <1>2, TasksAdded
<1>4. ASSUME NEW f \in Sources, f # g PROVE FollowsDisk(f)'
  <2>1. /\ Listed(f) => Listed(f)'
        /\ (\E n \in DOMAIN tasks : tasks[n].byName /\ f \in tasks[n].files)
              => \E n \in DOMAIN tasks' : tasks'[n].byName /\ f \in tasks'[n].files
    BY <1>1, <1>2, TasksAdded
  <2>2. Told(f) => Told(f)'
    BY <1>4, <2>1 DEF Told
  <2>3. FollowsDisk(f) /\ doc'[f] = doc[f] /\ vfs'[f] = vfs[f] /\ disk'[f] = disk[f]
    BY <1>4 DEF DiskIsFollowed
  <2>. QED
    BY <2>1, <2>2, <2>3, FollowsKept
<1>. QED
  BY <1>3, <1>4 DEF DiskIsFollowed, FollowsDisk

LEMMA FollowsThroughWrite ==
    ASSUME TextInv, DiskIsFollowed, NEW g \in Sources, WriteDisk(g)
    PROVE  DiskIsFollowed'
<1>1. PICK c \in Contents : disk' = [disk EXCEPT ![g] = c]
  BY DEF WriteDisk
<1>2. notices' = notices \cup {g} /\ UNCHANGED <<doc, vfs, layout, tasks, answers, dropped>>
  BY DEF WriteDisk, loaderVars
<1>3. Told(g)'
  BY <1>2 DEF Told
<1>4. ASSUME NEW f \in Sources, f # g PROVE FollowsDisk(f)'
  <2>1. FollowsDisk(f) /\ doc'[f] = doc[f] /\ vfs'[f] = vfs[f] /\ disk'[f] = disk[f]
    BY <1>1, <1>2, <1>4 DEF DiskIsFollowed, TextInv, TypeOK
  <2>2. (Told(f) => Told(f)') /\ (Listed(f) => Listed(f)')
    BY <1>2 DEF Told, Listed
  <2>. QED
    BY <1>2, <2>1, <2>2, FollowsKept
<1>. QED
  BY <1>3, <1>4 DEF DiskIsFollowed, FollowsDisk

LEMMA FollowsThroughView ==
    ASSUME TextInv, DiskIsFollowed, NEW g \in Views,
           OpenView(g) \/ CloseView(g) \/ MaterializeView(g)
    PROVE  DiskIsFollowed'
<1>1. \A f \in Sources : doc'[f] = doc[f] /\ vfs'[f] = vfs[f]
  <2>1. CASE OpenView(g) \/ CloseView(g)
    BY <2>1, OpenViewTracks, CloseViewTracks
  <2>2. CASE MaterializeView(g)
    <3>1. vfs' = [vfs EXCEPT ![g] = ServerText] /\ UNCHANGED doc
      BY <2>2, MaterializeKeeps DEF MaterializeView
    <3>. QED
      BY <3>1, Distinct DEF TextInv, TypeOK
  <2>. QED
    BY <2>1, <2>2
<1>2. UNCHANGED <<disk, notices, layout, tasks, answers, dropped>>
  BY DEF OpenView, CloseView, MaterializeView, diskVars, loaderVars
<1>3. ASSUME NEW f \in Sources PROVE FollowsDisk(f)'
  <2>1. FollowsDisk(f) /\ disk'[f] = disk[f]
    BY <1>2 DEF DiskIsFollowed
  <2>2. (Told(f) => Told(f)') /\ (Listed(f) => Listed(f)')
    BY <1>2 DEF Told, Listed
  <2>. QED
    BY <1>1, <1>2, <2>1, <2>2, FollowsKept
<1>. QED
  BY <1>3 DEF DiskIsFollowed

LEMMA FollowsThroughTake ==
    ASSUME TextInv, AnswersFresh, DiskIsFollowed, HandleAnswer
    PROVE  DiskIsFollowed'
<1>1. /\ answers \in Seq(Answers) /\ answers # << >> /\ answers' = Tail(answers)
      /\ UNCHANGED <<doc, diskVars, layout, tasks, acts>>
      /\ dropped' = (dropped \cup {f \in DOMAIN Head(answers) : Ignored(f)})
                        \ {f \in DOMAIN Head(answers) : Taken(f)}
      /\ \A f \in Files : vfs'[f] = IF Taken(f) THEN Head(answers)[f] ELSE vfs[f]
  BY TakeKeeps, TakenContents
<1>2. ASSUME NEW f \in Sources, doc[f] = Absent, f \notin dropped', ~Told(f)
      PROVE  \/ Ends(f, disk[f])'
             \/ Ends(f, Absent)' /\ (InRoots(f)' => Listed(f)')
  <2>1. f \in DOMAIN Head(answers) => Taken(f)
    BY <1>1, <1>2 DEF Taken
  <2>2. vfs'[f] = IF f \in DOMAIN Head(answers) THEN Head(answers)[f] ELSE vfs[f]
    BY <1>1, <2>1, Distinct DEF Taken
  <2>3. (Ends(f, disk[f]) => Ends(f, disk[f])') /\ (Ends(f, Absent) => Ends(f, Absent)')
    <3>1. ASSUME NEW c, Ends(f, c)
          PROVE  \/ \E n \in DOMAIN answers' :
                        /\ f \in DOMAIN answers'[n] /\ answers'[n][f] = c
                        /\ \A m \in DOMAIN answers' : m > n => f \notin DOMAIN answers'[m]
                 \/ /\ \A n \in DOMAIN answers' : f \notin DOMAIN answers'[n]
                    /\ vfs'[f] = c
      <4>1. Ends(f, c)'
        BY <1>1, <2>2, <3>1, EndsTaken
      <4>. QED
        BY <4>1 DEF Ends
    <3>2. disk' = disk
      BY <1>1 DEF diskVars
    <3>. QED
      BY <3>1, <3>2 DEF Ends
  <2>4. (InRoots(f)' => InRoots(f)) /\ (Listed(f) => Listed(f)')
    BY <1>1 DEF InRoots, Listed
  <2>5. CASE f \notin dropped
    <3>1. Ends(f, disk[f]) \/ (Ends(f, Absent) /\ (InRoots(f) => Listed(f)))
      BY <1>2, <2>5 DEF DiskIsFollowed, FollowsDisk
    <3>. QED
      BY <2>3, <2>4, <3>1
  <2>6. CASE f \in dropped
    <3>1. f \in DOMAIN Head(answers)
      BY <1>1, <1>2, <2>6
    <3>2. ~Unsaid(f)
      <4>1. 1 \in DOMAIN answers /\ Head(answers) = answers[1]
        BY <1>1, EmptySeq, LenProperties
      <4>. QED
        BY <3>1, <4>1 DEF Unsaid
    <3>3. Ends(f, disk[f])
      BY <1>2, <3>2 DEF AnswersFresh, Fresh
    <3>. QED
      BY <2>3, <3>3
  <2>. QED
    BY <2>5, <2>6
<1>3. \A f : Told(f) => Told(f)'
  BY <1>1 DEF Told, diskVars
<1>. QED
  BY <1>1, <1>2, <1>3 DEF DiskIsFollowed, FollowsDisk

(* The loader forgets a file only when it has answered for it, or found    *)
(* that a directory does not have it.                                      *)
LEMMA TasksRead ==
    ASSUME TextInv, LoaderReads, NEW f \in Sources, f \notin Found
    PROVE  /\ Told(f) => Told(f)'
           /\ Listed(f) => Listed(f)' \/ disk[f] = Absent
<1>1. notices' = notices /\ tasks # << >> /\ tasks' = Tail(tasks) /\ tasks \in Seq(Task)
  BY DEF LoaderReads, diskVars, TextInv, TypeOK
<1>2. /\ DOMAIN tasks = 1..Len(tasks) /\ Len(tasks) \in Nat \ {0}
      /\ DOMAIN tasks' = 1..Len(tasks) - 1
      /\ \A n \in 1..Len(tasks) - 1 : tasks'[n] = tasks[n + 1]
      /\ Head(tasks) = tasks[1]
  <2>1. /\ tasks' \in Seq(Task) /\ Len(tasks') = Len(tasks) - 1
        /\ \A n \in 1..Len(tasks') : tasks'[n] = tasks[n + 1]
    BY <1>1, HeadTailProperties
  <2>. QED
    BY <1>1, <2>1, LenProperties, EmptySeq
<1>3. ASSUME NEW n \in DOMAIN tasks
      PROVE  tasks[n] = Head(tasks) \/ \E m \in DOMAIN tasks' : tasks'[m] = tasks[n]
  <2>1. CASE n = 1
    BY <1>2, <2>1
  <2>2. CASE n # 1
    <3>1. n - 1 \in 1..Len(tasks) - 1 /\ (n - 1) + 1 = n
      BY <1>2, <2>2
    <3>2. n - 1 \in DOMAIN tasks' /\ tasks'[n - 1] = tasks[n]
      BY <1>2, <3>1
    <3>. QED
      BY <3>2
  <2>. QED
    BY <2>1, <2>2
<1>4. ASSUME Told(f) PROVE Told(f)'
  <2>1. CASE f \in notices
    BY <1>1, <2>1 DEF Told
  <2>2. ASSUME NEW n \in DOMAIN tasks, tasks[n].byName, f \in tasks[n].files
        PROVE  Told(f)'
    <3>1. tasks[n] # Head(tasks)
      BY <2>2 DEF Found
    <3>. QED
      BY <1>3, <2>2, <3>1 DEF Told
  <2>. QED
    BY <1>4, <2>1, <2>2 DEF Told
<1>5. ASSUME NEW n \in DOMAIN tasks, f \in tasks[n].files
      PROVE  Listed(f)' \/ disk[f] = Absent
  BY <1>3, <1>5 DEF Listed, Found
<1>. QED
  BY <1>4, <1>5 DEF Listed

LEMMA FollowsThroughRead ==
    ASSUME TextInv, DiskIsFollowed, LoaderReads
    PROVE  DiskIsFollowed'
<1>. DEFINE a == [f \in Found |-> disk[f]]
<1>1. /\ a \in Answers /\ answers' = Append(answers, a) /\ answers \in Seq(Answers)
  BY ReadAnswer DEF TextInv
<1>2. DOMAIN a = Found /\ \A f \in Found : a[f] = disk[f]
  OBVIOUS
<1>. HIDE DEF a
<1>3. UNCHANGED <<doc, disk, vfs, layout, dropped>>
  BY DEF LoaderReads, diskVars
<1>4. ASSUME NEW f \in Sources PROVE FollowsDisk(f)'
  <2>1. FollowsDisk(f) /\ (InRoots(f)' => InRoots(f))
    BY <1>3 DEF DiskIsFollowed, InRoots
  <2>2. CASE f \in Found
    <3>1. Ends(f, disk[f])'
      BY <1>1, <1>2, <1>3, <2>2, EndsRead
    <3>. QED
      BY <3>1 DEF FollowsDisk
  <2>3. CASE f \notin Found
    <3>1. /\ Told(f) => Told(f)'
          /\ Listed(f) => Listed(f)' \/ disk[f] = Absent
      BY <2>3, TasksRead
    <3>2. (Ends(f, disk[f]) => Ends(f, disk[f])') /\ (Ends(f, Absent) => Ends(f, Absent)')
      <4>1. ASSUME NEW c, Ends(f, c)
            PROVE  \/ \E n \in DOMAIN answers' :
                          /\ f \in DOMAIN answers'[n] /\ answers'[n][f] = c
                          /\ \A m \in DOMAIN answers' : m > n => f \notin DOMAIN answers'[m]
                   \/ /\ \A n \in DOMAIN answers' : f \notin DOMAIN answers'[n]
                      /\ vfs'[f] = c
        <5>1. Ends(f, c)'
          BY <1>1, <1>2, <1>3, <2>3, <4>1, EndsAppended
        <5>. QED
          BY <5>1 DEF Ends
      <4>. QED
        BY <1>3, <4>1 DEF Ends
    <3>3. disk[f] = Absent /\ Ends(f, Absent)' => Ends(f, disk[f])'
      BY <1>3 DEF Ends
    <3>. QED
      BY <1>3, <2>1, <3>1, <3>2, <3>3 DEF FollowsDisk
  <2>. QED
    BY <2>2, <2>3
<1>. QED
  BY <1>4 DEF DiskIsFollowed

LEMMA FollowsThroughApply ==
    ASSUME TextInv, DiskIsFollowed, ApplyLayout
    PROVE  DiskIsFollowed'
<1>1. layout' = layout + 1 /\ layout \in Nat /\ layout' \in DOMAIN Layouts
  BY ApplyKeeps, LayoutsTyped DEF ApplyLayout, TextInv, TypeOK
<1>2. UNCHANGED <<doc, disk, notices, vfs, answers, dropped>>
  BY DEF ApplyLayout, diskVars
<1>. DEFINE load == LoadOf({f \in Sources : Containing(layout', f, {"source", "generated"}) # {}})
<1>3. load \in Task /\ tasks' = Append(tasks, load) /\ tasks \in Seq(Task)
  BY DEF LoadOf, Task, ApplyLayout, TextInv, TypeOK
<1>4. \A f \in Sources : InRoots(f)' => f \in load.files
  BY DEF InRoots, LoadOf, Containing
<1>. HIDE DEF load
<1>5. ASSUME NEW f \in Sources PROVE FollowsDisk(f)'
  <2>1. FollowsDisk(f)
    BY DEF DiskIsFollowed
  <2>2. /\ InRoots(f)' => Listed(f)'
        /\ (\E n \in DOMAIN tasks : tasks[n].byName /\ f \in tasks[n].files)
              => \E n \in DOMAIN tasks' : tasks'[n].byName /\ f \in tasks'[n].files
    BY <1>3, <1>4, TasksAdded
  <2>3. Told(f) => Told(f)'
    BY <1>2, <2>2 DEF Told
  <2>4. (Ends(f, disk[f]) => Ends(f, disk[f])') /\ (Ends(f, Absent) => Ends(f, Absent)')
    BY <1>2 DEF Ends
  <2>. QED
    BY <1>2, <2>1, <2>2, <2>3, <2>4 DEF FollowsDisk
<1>. QED
  BY <1>5 DEF DiskIsFollowed

(* The last answer about a file: only a write on disk makes it old, and    *)
(* that is told of.                                                        *)
LEMMA FreshInit == Init => AnswersFresh
<1>. SUFFICES ASSUME Init PROVE AnswersFresh
  OBVIOUS
<1>1. DOMAIN answers = {}
  BY EmptySeq DEF Init
<1>. QED
  BY <1>1 DEF AnswersFresh, Fresh, Unsaid

LEMMA FreshKept ==
    ASSUME NEW f \in Sources, Fresh(f), UNCHANGED answers, disk'[f] = disk[f],
           Told(f) => Told(f)'
    PROVE  Fresh(f)'
<1>1. CASE Told(f)
  BY <1>1 DEF Fresh
<1>2. CASE Unsaid(f)
  <2>1. Unsaid(f)'
    BY <1>2 DEF Unsaid
  <2>. QED
    BY <2>1 DEF Fresh
<1>3. CASE ~Unsaid(f) /\ Ends(f, disk[f])
  <2>1. Ends(f, disk[f])'
    BY <1>3 DEF Ends, Unsaid
  <2>. QED
    BY <2>1 DEF Fresh
<1>. QED
  BY <1>1, <1>2, <1>3 DEF Fresh

LEMMA FreshThroughTake ==
    ASSUME TextInv, AnswersFresh, HandleAnswer, NEW f \in Sources
    PROVE  Fresh(f)'
<1>1. /\ answers \in Seq(Answers) /\ answers # << >> /\ answers' = Tail(answers)
      /\ UNCHANGED <<disk, notices, tasks>>
  BY TakenContents DEF diskVars
<1>2. Fresh(f) /\ (Told(f) => Told(f)')
  BY <1>1 DEF AnswersFresh, Told
<1>3. ASSUME Unsaid(f) PROVE Unsaid(f)'
  <2>1. answers' \in Seq(Answers) /\ Len(answers') = Len(answers) - 1
        /\ \A n \in 1..Len(answers') : answers'[n] = answers[n + 1]
    BY <1>1, HeadTailProperties
  <2>2. \A n \in DOMAIN answers' : n + 1 \in DOMAIN answers /\ answers'[n] = answers[n + 1]
    BY <1>1, <2>1, LenProperties, EmptySeq
  <2>. QED
    BY <1>3, <2>2 DEF Unsaid
<1>4. ASSUME Ends(f, disk[f]), ~Unsaid(f)' PROVE Ends(f, disk[f])'
  <2>1. \E n \in DOMAIN answers' :
           /\ f \in DOMAIN answers'[n] /\ answers'[n][f] = disk[f]
           /\ \A m \in DOMAIN answers' : m > n => f \notin DOMAIN answers'[m]
    BY <1>1, <1>4, EndsPassed
  <2>. QED
    BY <1>1, <2>1 DEF Ends
<1>. QED
  BY <1>2, <1>3, <1>4 DEF Fresh

LEMMA FreshThroughRead ==
    ASSUME TextInv, AnswersFresh, LoaderReads, NEW f \in Sources
    PROVE  Fresh(f)'
<1>. DEFINE a == [g \in Found |-> disk[g]]
<1>1. a \in Answers /\ answers' = Append(answers, a) /\ answers \in Seq(Answers)
  BY ReadAnswer DEF TextInv
<1>2. DOMAIN a = Found /\ \A g \in Found : a[g] = disk[g]
  OBVIOUS
<1>. HIDE DEF a
<1>3. UNCHANGED <<disk, vfs>>
  BY DEF LoaderReads, diskVars
<1>4. CASE f \in Found
  <2>1. Ends(f, disk[f])'
    BY <1>1, <1>2, <1>3, <1>4, EndsRead
  <2>. QED
    BY <2>1 DEF Fresh
<1>5. CASE f \notin Found
  <2>1. Told(f) => Told(f)'
    BY <1>5, TasksRead
  <2>2. Fresh(f)
    BY DEF AnswersFresh
  <2>3. ASSUME Unsaid(f) PROVE Unsaid(f)'
    <3>1. Ends(f, vfs[f])
      BY <2>3 DEF Ends, Unsaid
    <3>2. ASSUME NEW n \in DOMAIN answers' PROVE f \notin DOMAIN answers'[n]
      <4>1. /\ answers' \in Seq(Answers) /\ Len(answers') = Len(answers) + 1
            /\ \A m \in 1..Len(answers) : answers'[m] = answers[m]
            /\ answers'[Len(answers) + 1] = a
        BY <1>1, AppendProperties
      <4>2. /\ Len(answers) \in Nat /\ DOMAIN answers = 1..Len(answers)
            /\ n \in 1..Len(answers) \/ n = Len(answers) + 1
        BY <1>1, <3>2, <4>1, LenProperties
      <4>. QED
        BY <1>2, <1>5, <2>3, <4>1, <4>2 DEF Unsaid
    <3>. QED
      BY <3>2 DEF Unsaid
  <2>4. ASSUME Ends(f, disk[f]) PROVE Ends(f, disk[f])'
    <3>1. ASSUME NEW c, Ends(f, c)
          PROVE  \/ \E n \in DOMAIN answers' :
                        /\ f \in DOMAIN answers'[n] /\ answers'[n][f] = c
                        /\ \A m \in DOMAIN answers' : m > n => f \notin DOMAIN answers'[m]
                 \/ /\ \A n \in DOMAIN answers' : f \notin DOMAIN answers'[n]
                    /\ vfs'[f] = c
      <4>1. Ends(f, c)'
        BY <1>1, <1>2, <1>3, <1>5, <3>1, EndsAppended
      <4>. QED
        BY <4>1 DEF Ends
    <3>. QED
      BY <1>3, <2>4, <3>1 DEF Ends
  <2>. QED
    BY <2>1, <2>2, <2>3, <2>4 DEF Fresh
<1>. QED
  BY <1>4, <1>5

LEMMA FreshStep == TextInv /\ AnswersFresh /\ [Next]_vars => AnswersFresh'
<1>. SUFFICES ASSUME TextInv, AnswersFresh, [Next]_vars, NEW f \in Sources
              PROVE  Fresh(f)'
  BY DEF AnswersFresh
<1>0. Fresh(f) /\ tasks \in Seq(Task)
  BY DEF AnswersFresh, TextInv, TypeOK
<1>1. ASSUME NEW g \in Sources, NEW t \in Texts, EditsTo(g, t) PROVE Fresh(f)'
  <2>1. UNCHANGED <<disk, notices, tasks, answers>>
    BY <1>1 DEF EditsTo, diskVars, loaderVars
  <2>2. Told(f) => Told(f)'
    BY <2>1 DEF Told
  <2>. QED
    BY <1>0, <2>1, <2>2, FreshKept
<1>2. ASSUME NEW g \in Sources, CloseDocument(g) \/ WatchedFileChanged(g) PROVE Fresh(f)'
  <2>1. /\ tasks' = Append(tasks, Invalidate({g})) /\ UNCHANGED <<disk, answers>>
        /\ notices \subseteq notices' \cup {g}
    BY <1>2 DEF CloseDocument, WatchedFileChanged, diskVars
  <2>2. Invalidate({g}) \in Task /\ Invalidate({g}).files = {g} /\ Invalidate({g}).byName
    BY DEF Invalidate, Task
  <2>3. /\ (\E n \in DOMAIN tasks : tasks[n].byName /\ f \in tasks[n].files)
              => \E n \in DOMAIN tasks' : tasks'[n].byName /\ f \in tasks'[n].files
        /\ f = g => Told(f)'
    BY <1>0, <2>1, <2>2, TasksAdded
  <2>4. Told(f) => Told(f)'
    BY <2>1, <2>3 DEF Told
  <2>. QED
    BY <1>0, <2>1, <2>4, FreshKept
<1>3. ASSUME NEW g \in Sources, WriteDisk(g) PROVE Fresh(f)'
  <2>1. PICK c \in Contents : disk' = [disk EXCEPT ![g] = c]
    BY <1>3 DEF WriteDisk
  <2>2. notices' = notices \cup {g} /\ UNCHANGED <<tasks, answers>>
    BY <1>3 DEF WriteDisk, loaderVars
  <2>3. CASE f = g
    BY <2>2, <2>3 DEF Fresh, Told
  <2>4. CASE f # g
    <3>1. disk'[f] = disk[f]
      BY <2>1, <2>4 DEF TextInv, TypeOK
    <3>2. Told(f) => Told(f)'
      BY <2>2 DEF Told
    <3>. QED
      BY <1>0, <2>2, <3>1, <3>2, FreshKept
  <2>. QED
    BY <2>3, <2>4
<1>4. ASSUME NEW g \in Views, OpenView(g) \/ CloseView(g) \/ MaterializeView(g)
      PROVE  Fresh(f)'
  <2>1. UNCHANGED <<disk, notices, tasks, answers>>
    BY <1>4 DEF OpenView, CloseView, MaterializeView, diskVars, loaderVars
  <2>2. Told(f) => Told(f)'
    BY <2>1 DEF Told
  <2>. QED
    BY <1>0, <2>1, <2>2, FreshKept
<1>5. CASE HandleAnswer
  BY <1>5, FreshThroughTake
<1>6. CASE ApplyLayout
  <2>. DEFINE load == LoadOf({g \in Sources : Containing(layout', g, {"source", "generated"}) # {}})
  <2>1. load \in Task /\ tasks' = Append(tasks, load) /\ UNCHANGED <<disk, notices, answers>>
    BY <1>6 DEF LoadOf, Task, ApplyLayout, diskVars
  <2>. HIDE DEF load
  <2>2. (\E n \in DOMAIN tasks : tasks[n].byName /\ f \in tasks[n].files)
           => \E n \in DOMAIN tasks' : tasks'[n].byName /\ f \in tasks'[n].files
    BY <1>0, <2>1, TasksAdded
  <2>3. Told(f) => Told(f)'
    BY <2>1, <2>2 DEF Told
  <2>. QED
    BY <1>0, <2>1, <2>3, FreshKept
<1>7. CASE LoaderReads
  BY <1>7, FreshThroughRead
<1>8. CASE UNCHANGED vars
  <2>1. UNCHANGED <<disk, notices, tasks, answers>>
    BY <1>8 DEF vars, diskVars, loaderVars
  <2>2. Told(f) => Told(f)'
    BY <2>1 DEF Told
  <2>. QED
    BY <1>0, <2>1, <2>2, FreshKept
<1>. QED
  BY <1>1, <1>2, <1>3, <1>4, <1>5, <1>6, <1>7, <1>8, StepCases

LEMMA DiskIsFollowedInit == Init => DiskIsFollowed
<1>. SUFFICES ASSUME Init, NEW f \in Sources PROVE FollowsDisk(f)
  BY DEF DiskIsFollowed
<1>1. DOMAIN answers = {}
  BY EmptySeq DEF Init
<1>2. Ends(f, Absent)
  BY <1>1, Distinct DEF Init, Ends
<1>. QED
  BY <1>2 DEF Init, FollowsDisk, InRoots

LEMMA DiskIsFollowedStep == TextInv /\ AnswersFresh /\ DiskIsFollowed /\ [Next]_vars => DiskIsFollowed'
<1>. SUFFICES ASSUME TextInv, AnswersFresh, DiskIsFollowed, [Next]_vars PROVE DiskIsFollowed'
  OBVIOUS
<1>1. ASSUME NEW f \in Sources, NEW t \in Texts, EditsTo(f, t) PROVE DiskIsFollowed'
  BY <1>1, FollowsThroughEdit
<1>2. ASSUME NEW f \in Sources, CloseDocument(f) PROVE DiskIsFollowed'
  <2>1. /\ tasks' = Append(tasks, Invalidate({f})) /\ UNCHANGED <<disk, notices, vfs, layout, answers, dropped>>
        /\ doc' = [doc EXCEPT ![f] = Absent]
    BY <1>2 DEF CloseDocument, diskVars
  <2>2. \A g \in Sources : g # f => doc'[g] = doc[g]
    BY <2>1, Distinct DEF TextInv, TypeOK
  <2>. QED
    BY <2>1, <2>2, FollowsThroughNaming
<1>3. ASSUME NEW f \in Sources, WatchedFileChanged(f) PROVE DiskIsFollowed'
  BY <1>3, FollowsThroughNaming DEF WatchedFileChanged
<1>4. ASSUME NEW f \in Sources, WriteDisk(f) PROVE DiskIsFollowed'
  BY <1>4, FollowsThroughWrite
<1>5. ASSUME NEW f \in Views, OpenView(f) \/ CloseView(f) \/ MaterializeView(f)
      PROVE  DiskIsFollowed'
  BY <1>5, FollowsThroughView
<1>6. CASE HandleAnswer
  BY <1>6, FollowsThroughTake
<1>7. CASE ApplyLayout
  BY <1>7, FollowsThroughApply
<1>8. CASE LoaderReads
  BY <1>8, FollowsThroughRead
<1>9. CASE UNCHANGED vars
  <2>1. UNCHANGED <<doc, disk, notices, vfs, layout, tasks, answers, dropped>>
    BY <1>9 DEF vars, diskVars, loaderVars
  <2>2. ASSUME NEW f \in Sources PROVE FollowsDisk(f)'
    <3>1. FollowsDisk(f) /\ (Told(f) => Told(f)') /\ (Listed(f) => Listed(f)')
      BY <2>1 DEF DiskIsFollowed, Told, Listed
    <3>. QED
      BY <2>1, <3>1, FollowsKept
  <2>. QED
    BY <2>2 DEF DiskIsFollowed
<1>. QED
  BY <1>1, <1>2, <1>3, <1>4, <1>5, <1>6, <1>7, <1>8, <1>9, StepCases

(* A closed source file is, at any time, told of (a notice of the client,  *)
(* a read by name), or ends as it is on disk once the answers under way    *)
(* are taken, or is still to be found by the directories to read, unless   *)
(* ignore rules dropped what the loader said of it last: no order of       *)
(* edits, closes, writes, graphs and late answers loses a change on disk   *)
(* (on_did_close, on_did_change_watched_files, handle_vfs_task,            *)
(* apply_loaded_graph).                                                    *)
THEOREM NoChangeIsLost == Spec => []DiskIsFollowed
BY TextInvariant, FreshInit, FreshStep, DiskIsFollowedInit, DiskIsFollowedStep, PTL DEF Spec

(* Whatever graphs come, a closed file of the workspace is analysed as it  *)
(* is on disk whenever the loader has nothing left to do, unless ignore    *)
(* rules dropped what the loader said of it last (handle_vfs_task).        *)
THEOREM DiskIsShown == Spec => []ClosedFollowsDisk
<1>1. TextInv /\ DiskIsFollowed => ClosedFollowsDisk
  <2>. SUFFICES ASSUME TextInv, DiskIsFollowed, Quiet, NEW f \in Sources,
                       InWorkspace(f), doc[f] = Absent, f \notin dropped
                PROVE  vfs[f] = disk[f] /\ Analysed(f) = disk[f]
    BY DEF ClosedFollowsDisk
  <2>1. f \in Files /\ InRoots(f)
    BY Distinct DEF InWorkspace, InRoots
  <2>2. DOMAIN tasks = {} /\ DOMAIN answers = {} /\ f \notin notices
    BY EmptySeq DEF Quiet
  <2>3. Ends(f, disk[f])
    BY <2>1, <2>2 DEF DiskIsFollowed, FollowsDisk, Told, Listed
  <2>. QED
    BY <2>1, <2>2, <2>3, AnalysedIsVfs DEF Ends
<1>. QED
  BY <1>1, TextInvariant, NoChangeIsLost, PTL

-----------------------------------------------------------------------------
(* The edits of one notification (EditApplication).                        *)

(* What the protocol sends: texts, and ranges that do not run backwards.   *)
IsPosition(p) == p.line \in Nat /\ p.col \in Nat
IsChange(c, Char) ==
    /\ c.whole \in BOOLEAN /\ c.text \in Seq(Char)
    /\ ~c.whole => IsPosition(c.start) /\ IsPosition(c.end) /\ c.start.line <= c.end.line

LEMMA LeastOfNaturals ==
    ASSUME NEW S \in SUBSET Nat, S # {}
    PROVE  Min(S) \in S /\ \A y \in S : Min(S) <= y
<1>1. PICK m \in S : \A y \in S : ~ (<<y, m>> \in OpToRel(<, Nat))
  BY NatLessThanWellFounded, WFMin
<1>2. \A y \in S : m <= y
  <2>1. ASSUME NEW y \in S PROVE ~(y < m)
    BY <1>1 DEF OpToRel
  <2>. QED
    BY <2>1
<1>. QED
  BY <1>2 DEF Min

LEMMA NextBelow ==
    ASSUME NEW n \in Nat, NEW z \in Nat, n - 1 < z, z # n
    PROVE  n < z
  OBVIOUS

LEMMA OneInsideOther ==
    ASSUME NEW a \in Nat, NEW b \in Nat, NEW c \in Nat, NEW d \in Nat,
           a < b \/ (a = b /\ c < d), b < a \/ (b = a /\ d < c)
    PROVE  FALSE
  OBVIOUS

LEMMA OneLessOfBoth ==
    ASSUME NEW a \in Nat, NEW b \in Nat, a >= 1, a <= b
    PROVE  a - 1 \in Nat /\ b - 1 \in Nat /\ a - 1 <= b - 1
  OBVIOUS

(* A set that has a number, and with each the next one, has all from there *)
(* on: induction over an interval.                                         *)
LEMMA Upwards ==
    ASSUME NEW a \in Nat, NEW b \in Nat, NEW S, a \in S,
           \A k \in a + 1..b : k - 1 \in S => k \in S
    PROVE  a..b \subseteq S
<1>. DEFINE Bad == {k \in a..b : k \notin S}
<1>1. SUFFICES ASSUME Bad # {} PROVE FALSE
  OBVIOUS
<1>2. Bad \in SUBSET Nat
  OBVIOUS
<1>3. PICK k \in Bad : \A y \in Bad : ~ (<<y, k>> \in OpToRel(<, Nat))
  <2>. HIDE DEF Bad
  <2>. QED
    BY <1>1, <1>2, NatLessThanWellFounded, WFMin
<1>4. k \in a..b /\ k \notin S /\ k # a
  OBVIOUS
<1>5. k - 1 \in Nat /\ k \in Nat /\ k - 1 < k /\ k - 1 \in a..b /\ k \in a + 1..b
  BY <1>4
<1>6. k - 1 \notin Bad
  <2>. HIDE DEF Bad
  <2>. QED
    BY <1>3, <1>5 DEF OpToRel
<1>7. k - 1 \in S
  BY <1>5, <1>6
<1>. QED
  BY <1>4, <1>5, <1>7

(* The least of two sets that agree up to a number both have.              *)
LEMMA SameLeast ==
    ASSUME NEW S \in SUBSET Nat, NEW T \in SUBSET Nat, NEW k \in S, k \in T,
           \A x \in Nat : x <= k => (x \in S <=> x \in T)
    PROVE  Min(S) = Min(T)
<1>1. Min(S) \in S /\ \A y \in S : Min(S) <= y
  BY LeastOfNaturals
<1>2. Min(T) \in T /\ \A y \in T : Min(T) <= y
  BY LeastOfNaturals
<1>3. Min(S) <= k /\ Min(T) <= k
  BY <1>1, <1>2
<1>4. Min(S) \in Nat /\ Min(T) \in Nat
  BY <1>1, <1>2
<1>5. Min(S) \in T /\ Min(T) \in S
  BY <1>1, <1>2, <1>3, <1>4
<1>6. Min(S) <= Min(T) /\ Min(T) <= Min(S)
  BY <1>1, <1>2, <1>5
<1>. QED
  BY <1>4, <1>6

(* The lines of an index: its starts are bounded by the length, and the    *)
(* starts before one are finite.                                           *)
LEMMA IndexTyped ==
    ASSUME NEW Char, NEW file \in Seq(Char)
    PROVE  /\ LineIndex(file).len = Len(file) /\ Len(file) \in Nat
           /\ LineIndex(file).starts \subseteq 0..Len(file)
           /\ \A i \in 1..Len(file) : i \in LineIndex(file).starts <=> file[i] = NL
           /\ 0 \in LineIndex(file).starts
BY DEF LineIndex

LEMMA RanksGrow ==
    ASSUME NEW S \in SUBSET Nat, NEW s \in Nat, NEW t \in Nat, s <= t
    PROVE  Cardinality({x \in S : x < s}) <= Cardinality({x \in S : x < t})
<1>. DEFINE A == {x \in S : x < s}
            B == {x \in S : x < t}
<1>1. B \in SUBSET Nat /\ \A x \in B : x <= t
  <2>1. \A x \in B : x \in S /\ x \in Nat /\ x < t
    OBVIOUS
  <2>. HIDE DEF B
  <2>2. ASSUME NEW x \in B PROVE x <= t
    BY <2>1
  <2>. QED
    BY <2>1, <2>2
<1>2. A \in SUBSET B
  <2>1. ASSUME NEW x \in A PROVE x \in B
    <3>1. x \in S /\ x \in Nat /\ x < s
      OBVIOUS
    <3>2. x < t
      BY <3>1
    <3>. QED
      BY <3>1, <3>2
  <2>. HIDE DEF A, B
  <2>. QED
    BY <2>1
<1>3. IsFiniteSet(B)
  <2>. HIDE DEF A, B
  <2>. QED
    BY <1>1, FS_BoundedSetOfNaturals
<1>. HIDE DEF A, B
<1>4. Cardinality(A) <= Cardinality(B)
  BY <1>2, <1>3, FS_Subset
<1>. QED
  BY <1>4 DEF A, B

(* A line's start comes before that of a later line.                       *)
LEMMA LinesInOrder ==
    ASSUME NEW index, index.starts \in SUBSET Nat, NEW l \in Nat, NEW m \in Nat, l < m,
           NEW s \in LineStarts(index, l), NEW t \in LineStarts(index, m)
    PROVE  s < t
<1>1. s \in Nat /\ t \in Nat
  BY DEF LineStarts
<1>2. SUFFICES ASSUME t <= s PROVE FALSE
  BY <1>1
<1>3. Cardinality({x \in index.starts : x < t}) <= Cardinality({x \in index.starts : x < s})
  BY <1>1, <1>2, RanksGrow
<1>4. /\ Cardinality({x \in index.starts : x < t}) = m
      /\ Cardinality({x \in index.starts : x < s}) = l
  BY DEF LineStarts
<1>. QED
  BY <1>3, <1>4

(* Where the start of a line is, a position on it is at or behind the      *)
(* line's start, and in the text.                                          *)
LEMMA OffsetInText ==
    ASSUME NEW Char, NEW file \in Seq(Char), NEW p, IsPosition(p),
           OffsetOf(LineIndex(file), p) # Invalid
    PROVE  /\ OffsetOf(LineIndex(file), p) \in 0..Len(file)
           /\ \E s \in LineStarts(LineIndex(file), p.line) :
                  s <= OffsetOf(LineIndex(file), p)
<1>. DEFINE index == LineIndex(file)
            starts == LineStarts(index, p.line)
            start == CHOOSE s \in starts : TRUE
            X == {start + p.col, index.len} \cup {t \in index.starts : t > start}
<1>1. OffsetOf(index, p) = IF starts = {} THEN Invalid ELSE Min(X)
  BY DEF OffsetOf
<1>2. starts # {} /\ OffsetOf(index, p) = Min(X)
  BY <1>1
<1>3. index.len = Len(file) /\ Len(file) \in Nat /\ index.starts \subseteq 0..Len(file)
  BY IndexTyped
<1>4. start \in starts
  BY <1>2
<1>5. start \in 0..Len(file) /\ p.col \in Nat
  BY <1>3, <1>4 DEF LineStarts, IsPosition
<1>. HIDE DEF index, starts, start
<1>6. /\ X \in SUBSET Nat /\ Len(file) \in X /\ \A x \in X : start <= x
  BY <1>3, <1>5
<1>. HIDE DEF X
<1>7. Min(X) \in X /\ Min(X) <= Len(file)
  BY <1>3, <1>6, LeastOfNaturals
<1>8. Min(X) \in 0..Len(file) /\ start <= Min(X)
  <2>1. Len(file) \in Nat
    BY <1>3
  <2>2. Min(X) \in Nat /\ start <= Min(X)
    BY <1>6, <1>7
  <2>. QED
    BY <1>7, <2>1, <2>2
<1>. QED
  BY <1>2, <1>4, <1>8 DEF index, starts

(* Texts that agree up to p have the same lines above any that starts      *)
(* before p, and a position on those is at the same offset of both.        *)
LEMMA SameAbove ==
    ASSUME NEW Char, NEW file \in Seq(Char), NEW other \in Seq(Char),
           NEW p \in Nat, p <= Len(file), p <= Len(other),
           \A i \in 1..p : file[i] = other[i],
           NEW line \in Nat, NEW below \in LineStarts(LineIndex(file), line), below <= p,
           NEW q, IsPosition(q), q.line < line
    PROVE  OffsetOf(LineIndex(file), q) = OffsetOf(LineIndex(other), q)
<1>. DEFINE I == LineIndex(file)
            J == LineIndex(other)
<1>1. /\ I.len = Len(file) /\ Len(file) \in Nat /\ I.starts \subseteq 0..Len(file)
      /\ J.len = Len(other) /\ Len(other) \in Nat /\ J.starts \subseteq 0..Len(other)
      /\ 0 \in I.starts /\ 0 \in J.starts
  BY IndexTyped
<1>2. \A i \in 1..p : i \in I.starts <=> i \in J.starts
  <2>1. ASSUME NEW i \in 1..p PROVE i \in I.starts <=> i \in J.starts
    <3>1. i \in 1..Len(file) /\ i \in 1..Len(other)
      BY <1>1
    <3>2. (i \in I.starts <=> file[i] = NL) /\ (i \in J.starts <=> other[i] = NL)
      BY <3>1, IndexTyped
    <3>. QED
      BY <3>2
  <2>. QED
    BY <2>1
<1>3. \A i \in Nat : i <= p => (i \in I.starts <=> i \in J.starts)
  <2>. HIDE DEF I, J
  <2>. QED
    BY <1>1, <1>2
<1>4. I.starts \in SUBSET Nat /\ J.starts \in SUBSET Nat /\ below \in I.starts /\ below \in Nat
  <2>1. below \in I.starts
    BY DEF LineStarts
  <2>. HIDE DEF I, J
  <2>. QED
    BY <1>1, <2>1
<1>5. \A s \in Nat, l \in Nat :
          s <= p => (s \in LineStarts(I, l) <=> s \in LineStarts(J, l))
  <2>1. ASSUME NEW s \in Nat, NEW l \in Nat, s <= p
        PROVE  s \in LineStarts(I, l) <=> s \in LineStarts(J, l)
    <3>. HIDE DEF I, J
    <3>1. {x \in I.starts : x < s} = {x \in J.starts : x < s}
      BY <1>3, <1>4, <2>1
    <3>2. s \in I.starts <=> s \in J.starts
      BY <1>3, <2>1
    <3>. QED
      BY <3>1, <3>2 DEF LineStarts
  <2>. QED
    BY <2>1
<1>6. below \in LineStarts(I, line) /\ below \in LineStarts(J, line) /\ below \in J.starts
  <2>1. below \in LineStarts(I, line)
    OBVIOUS
  <2>. HIDE DEF I, J
  <2>2. below \in LineStarts(J, line)
    BY <1>4, <1>5, <2>1
  <2>. QED
    BY <2>1, <2>2 DEF LineStarts
<1>. HIDE DEF I, J
<1>7. q.line \in Nat /\ q.col \in Nat
  BY DEF IsPosition
<1>8. LineStarts(I, q.line) = LineStarts(J, q.line)
  <2>1. ASSUME NEW s \in LineStarts(I, q.line) PROVE s \in LineStarts(J, q.line)
    <3>1. s \in Nat
      BY <1>4 DEF LineStarts
    <3>2. s < below
      BY <1>4, <1>6, <1>7, LinesInOrder
    <3>. QED
      BY <1>4, <1>5, <1>7, <3>1, <3>2, SMTT(20)
  <2>2. ASSUME NEW s \in LineStarts(J, q.line) PROVE s \in LineStarts(I, q.line)
    <3>1. s \in Nat
      BY <1>4 DEF LineStarts
    <3>2. s < below
      BY <1>4, <1>6, <1>7, LinesInOrder
    <3>. QED
      BY <1>4, <1>5, <1>7, <3>1, <3>2, SMTT(20)
  <2>. QED
    BY <2>1, <2>2
<1>. DEFINE starts == LineStarts(I, q.line)
            start == CHOOSE s \in starts : TRUE
            X == {start + q.col, I.len} \cup {t \in I.starts : t > start}
            Y == {start + q.col, J.len} \cup {t \in J.starts : t > start}
<1>9. /\ OffsetOf(I, q) = IF starts = {} THEN Invalid ELSE Min(X)
      /\ OffsetOf(J, q) = IF starts = {} THEN Invalid ELSE Min(Y)
  BY <1>8 DEF OffsetOf
<1>10. ASSUME starts # {} PROVE Min(X) = Min(Y)
  <2>1. start \in starts
    BY <1>10
  <2>2. start \in Nat /\ start < below
    <3>1. start \in Nat
      BY <1>4, <2>1 DEF LineStarts
    <3>2. start < below
      <4>. HIDE DEF start
      <4>. QED
        BY <1>4, <1>6, <1>7, <2>1, LinesInOrder
    <3>. QED
      BY <3>1, <3>2
  <2>. HIDE DEF start, starts
  <2>3. X \in SUBSET Nat /\ Y \in SUBSET Nat
    BY <1>1, <1>4, <1>7, <2>2
  <2>4. below \in X /\ below \in Y
    BY <1>4, <1>6, <2>2
  <2>5. ASSUME NEW x \in Nat, x <= below PROVE x \in X <=> x \in Y
    <3>1. x \in I.starts <=> x \in J.starts
      BY <1>3, <1>4, <2>5
    <3>2. x = I.len => x = below
      BY <1>1, <1>4, <2>5
    <3>3. x = J.len => x = below
      BY <1>1, <1>4, <2>5
    <3>. QED
      BY <2>4, <3>1, <3>2, <3>3
  <2>. HIDE DEF X, Y
  <2>. QED
    BY <1>4, <2>3, <2>4, <2>5, SameLeast
<1>11. OffsetOf(I, q) = OffsetOf(J, q)
  BY <1>9, <1>10
<1>. QED
  BY <1>11 DEF I, J

(* Where an index and the text's own agree.                                *)
AgreeAbove(index, file, line) ==
    \A q : IsPosition(q) /\ q.line < line
           => OffsetOf(index, q) = OffsetOf(LineIndex(file), q)

(* What a range change leaves: a text, the same up to the range.           *)
LEMMA ReplacedTyped ==
    ASSUME NEW Char, NEW file \in Seq(Char), NEW c, IsChange(c, Char), ~c.whole
    PROVE  /\ ReplaceRange(file, LineIndex(file), c) \in Seq(Char)
           /\ AgreeAbove(LineIndex(file), ReplaceRange(file, LineIndex(file), c), c.start.line)
<1>. DEFINE new == ReplaceRange(file, LineIndex(file), c)
            p == OffsetOf(LineIndex(file), c.start)
            q == OffsetOf(LineIndex(file), c.end)
<1>1. CASE ~ValidRange(LineIndex(file), c)
  BY <1>1 DEF ReplaceRange, AgreeAbove
<1>2. CASE ValidRange(LineIndex(file), c)
  <2>1. p # Invalid /\ q # Invalid /\ p <= q /\ IsPosition(c.start) /\ IsPosition(c.end)
    BY <1>2 DEF ValidRange, IsChange
  <2>2. /\ p \in 0..Len(file)
        /\ \E s \in LineStarts(LineIndex(file), c.start.line) : s <= p
    BY <2>1, OffsetInText
  <2>3. q \in 0..Len(file)
    BY <2>1, OffsetInText
  <2>4. new = SubSeq(file, 1, p) \o c.text \o SubSeq(file, q + 1, Len(file))
    BY <1>2 DEF ReplaceRange
  <2>5. Len(file) \in Nat /\ c.text \in Seq(Char) /\ Len(c.text) \in Nat
    BY DEF IsChange
  <2>. DEFINE head == SubSeq(file, 1, p)
              rest == SubSeq(file, q + 1, Len(file))
  <2>6. /\ head \in Seq(Char) /\ Len(head) = p
        /\ \A i \in 1..p : head[i] = file[i]
    <3>. HIDE DEF p
    <3>. QED
      BY <2>2, <2>5
  <2>7. rest \in Seq(Char)
    <3>. HIDE DEF q
    <3>. QED
      BY <2>3, <2>5
  <2>. HIDE DEF head, rest
  <2>8. head \o c.text \in Seq(Char) /\ Len(head \o c.text) = p + Len(c.text)
        /\ \A i \in 1..p : (head \o c.text)[i] = head[i]
    <3>. HIDE DEF p
    <3>. QED
      BY <2>2, <2>5, <2>6
  <2>9. /\ new \in Seq(Char) /\ p <= Len(new)
        /\ \A i \in 1..p : new[i] = file[i]
    <3>. DEFINE front == head \o c.text
    <3>1. new = front \o rest
      BY <2>4 DEF head, rest
    <3>2. front \in Seq(Char) /\ Len(front) \in Nat /\ p <= Len(front) /\ p \in Nat
      <4>. HIDE DEF p
      <4>. QED
        BY <2>2, <2>5, <2>8
    <3>3. \A i \in 1..p : front[i] = file[i]
      BY <2>6, <2>8
    <3>. HIDE DEF front, new, p
    <3>4. new \in Seq(Char) /\ Len(new) = Len(front) + Len(rest) /\ Len(rest) \in Nat
      BY <2>7, <3>1, <3>2
    <3>5. \A i \in 1..Len(front) : new[i] = front[i]
      BY <2>7, <3>1, <3>2
    <3>6. p <= Len(new) /\ \A i \in 1..p : i \in 1..Len(front)
      BY <3>2, <3>4
    <3>. QED
      BY <3>3, <3>4, <3>5, <3>6
  <2>10. PICK s \in LineStarts(LineIndex(file), c.start.line) : s <= p
    BY <2>2
  <2>11. ASSUME NEW r, IsPosition(r), r.line < c.start.line
         PROVE  OffsetOf(LineIndex(file), r) = OffsetOf(LineIndex(new), r)
    <3>1. p \in Nat /\ p <= Len(file) /\ c.start.line \in Nat
      <4>. HIDE DEF p
      <4>. QED
        BY <2>1, <2>2, <2>5 DEF IsPosition
    <3>2. \A i \in 1..p : file[i] = new[i]
      BY <2>9
    <3>. HIDE DEF p, new
    <3>. QED
      BY <2>9, <2>10, <2>11, <3>1, <3>2, SameAbove
  <2>. QED
    BY <2>9, <2>11 DEF AgreeAbove
<1>. QED
  BY <1>1, <1>2

(* One turn of the loop: the text becomes what the protocol says, and the  *)
(* index is right above the line the turn leaves in valid.                 *)
LEMMA TurnAsProtocol ==
    ASSUME NEW Char, NEW s, s.text \in Seq(Char), s.valid \in Nat,
           AgreeAbove(s.index, s.text, s.valid),
           NEW c, IsChange(c, Char), ~c.whole
    PROVE  LET t == ApplyChange(s, c)
           IN  /\ t.text = TextAfter(s.text, c) /\ t.text \in Seq(Char) /\ t.valid \in Nat
               /\ AgreeAbove(t.index, t.text, t.valid)
<1>. DEFINE t == ApplyChange(s, c)
            index == IF s.valid <= c.end.line THEN LineIndex(s.text) ELSE s.index
<1>1. /\ t.text = ReplaceRange(s.text, index, c) /\ t.index = index
      /\ t.valid = c.start.line
  BY DEF ApplyChange
<1>2. /\ IsPosition(c.start) /\ IsPosition(c.end) /\ c.start.line <= c.end.line
      /\ c.start.line \in Nat /\ c.end.line \in Nat
  BY DEF IsChange, IsPosition
<1>3. \A q : IsPosition(q) /\ q.line <= c.end.line
             => OffsetOf(index, q) = OffsetOf(LineIndex(s.text), q)
  <2>1. CASE s.valid <= c.end.line
    BY <2>1
  <2>2. CASE ~(s.valid <= c.end.line)
    <3>1. index = s.index
      BY <2>2
    <3>2. ASSUME NEW q, IsPosition(q), q.line <= c.end.line
          PROVE  OffsetOf(index, q) = OffsetOf(LineIndex(s.text), q)
      <4>1. q.line < s.valid
        BY <1>2, <2>2, <3>2 DEF IsPosition
      <4>. QED
        BY <3>1, <3>2, <4>1 DEF AgreeAbove
    <3>. QED
      BY <3>2
  <2>. QED
    BY <2>1, <2>2
<1>. HIDE DEF index
<1>4. /\ OffsetOf(index, c.start) = OffsetOf(LineIndex(s.text), c.start)
      /\ OffsetOf(index, c.end) = OffsetOf(LineIndex(s.text), c.end)
  BY <1>2, <1>3
<1>5. ReplaceRange(s.text, index, c) = ReplaceRange(s.text, LineIndex(s.text), c)
  BY <1>4 DEF ReplaceRange, ValidRange
<1>6. t.text = ReplaceRange(s.text, LineIndex(s.text), c) /\ t.text = TextAfter(s.text, c)
  BY <1>1, <1>5 DEF TextAfter
<1>. HIDE DEF t
<1>7. t.text \in Seq(Char) /\ AgreeAbove(LineIndex(s.text), t.text, c.start.line)
  BY <1>6, ReplacedTyped
<1>8. AgreeAbove(t.index, t.text, t.valid)
  <2>1. ASSUME NEW q, IsPosition(q), q.line < c.start.line
        PROVE  OffsetOf(index, q) = OffsetOf(LineIndex(t.text), q)
    <3>1. q.line <= c.end.line
      BY <1>2, <2>1 DEF IsPosition
    <3>. QED
      BY <1>3, <1>7, <2>1, <3>1 DEF AgreeAbove
  <2>. QED
    BY <1>1, <2>1 DEF AgreeAbove
<1>. QED
  BY <1>1, <1>2, <1>6, <1>7, <1>8 DEF t

(* The turns of the loop, and the texts of the protocol, as recursions.      *)
TurnsFrom(f, first, stop, start, changes) ==
    [n \in first..stop |-> IF n = first THEN start ELSE ApplyChange(f[n - 1], changes[n])]
HasTurns(first, stop, start, changes) == \E f : f = TurnsFrom(f, first, stop, start, changes)
LEMMA ServerTurns ==
    ASSUME NEW first \in Nat, NEW stop \in Nat, first <= stop, NEW start, NEW changes
    PROVE  HasTurns(first, stop, start, changes)
<1>. DEFINE F(g, k) == TurnsFrom(g, first, k, start, changes)
            Good == {k \in first..stop : \E g : g = F(g, k)}
<1>1. first \in Good
  <2>. DEFINE h == [n \in first..first |-> start]
  <2>1. \A n \in first..first : n = first
    OBVIOUS
  <2>2. h = F(h, first)
    BY <2>1 DEF TurnsFrom
  <2>. QED
    BY <2>2
<1>2. ASSUME NEW k \in first + 1..stop, k - 1 \in Good PROVE k \in Good
  <2>1. PICK g : g = F(g, k - 1)
    BY <1>2
  <2>. DEFINE h == F(g, k)
  <2>2. ASSUME NEW n \in first + 1..k PROVE h[n - 1] = g[n - 1]
    <3>1. n - 1 \in first..k /\ n - 1 \in first..k - 1
      OBVIOUS
    <3>2. h[n - 1] = F(g, k - 1)[n - 1]
      BY <3>1 DEF TurnsFrom
    <3>. QED
      BY <2>1, <3>2
  <2>3. h = F(h, k)
    <3>1. ASSUME NEW n \in first..k
          PROVE  (IF n = first THEN start ELSE ApplyChange(g[n - 1], changes[n]))
                 = IF n = first THEN start ELSE ApplyChange(h[n - 1], changes[n])
      <4>1. CASE n = first
        BY <4>1
      <4>2. CASE n # first
        <5>1. n \in first + 1..k
          BY <4>2
        <5>2. h[n - 1] = g[n - 1]
          BY <2>2, <5>1
        <5>. HIDE DEF h
        <5>. QED
          BY <5>2
      <4>. QED
        BY <4>1, <4>2
    <3>. QED
      BY <3>1, Zenon DEF TurnsFrom
  <2>. QED
    BY <2>3
<1>3. first..stop \subseteq Good
  <2>. HIDE DEF Good
  <2>. QED
    BY <1>1, <1>2, Upwards
<1>4. stop \in first..stop
  OBVIOUS
<1>. QED
  BY <1>3, <1>4 DEF HasTurns

(* The same of the texts the protocol describes.                           *)
TextsFrom(f, first, stop, start, changes) ==
    [n \in first..stop |-> IF n = first THEN start ELSE TextAfter(f[n - 1], changes[n])]
HasTexts(first, stop, start, changes) == \E f : f = TextsFrom(f, first, stop, start, changes)
LEMMA ClientTurns ==
    ASSUME NEW first \in Nat, NEW stop \in Nat, first <= stop, NEW start, NEW changes
    PROVE  HasTexts(first, stop, start, changes)
<1>. DEFINE F(g, k) == TextsFrom(g, first, k, start, changes)
            Good == {k \in first..stop : \E g : g = F(g, k)}
<1>1. first \in Good
  <2>. DEFINE h == [n \in first..first |-> start]
  <2>1. \A n \in first..first : n = first
    OBVIOUS
  <2>2. h = F(h, first)
    BY <2>1 DEF TextsFrom
  <2>. QED
    BY <2>2
<1>2. ASSUME NEW k \in first + 1..stop, k - 1 \in Good PROVE k \in Good
  <2>1. PICK g : g = F(g, k - 1)
    BY <1>2
  <2>. DEFINE h == F(g, k)
  <2>2. ASSUME NEW n \in first + 1..k PROVE h[n - 1] = g[n - 1]
    <3>1. n - 1 \in first..k /\ n - 1 \in first..k - 1
      OBVIOUS
    <3>2. h[n - 1] = F(g, k - 1)[n - 1]
      BY <3>1 DEF TextsFrom
    <3>. QED
      BY <2>1, <3>2
  <2>3. h = F(h, k)
    <3>1. ASSUME NEW n \in first..k
          PROVE  (IF n = first THEN start ELSE TextAfter(g[n - 1], changes[n]))
                 = IF n = first THEN start ELSE TextAfter(h[n - 1], changes[n])
      <4>1. CASE n = first
        BY <4>1
      <4>2. CASE n # first
        <5>1. n \in first + 1..k
          BY <4>2
        <5>2. h[n - 1] = g[n - 1]
          BY <2>2, <5>1
        <5>. HIDE DEF h
        <5>. QED
          BY <5>2
      <4>. QED
        BY <4>1, <4>2
    <3>. QED
      BY <3>1, Zenon DEF TextsFrom
  <2>. QED
    BY <2>3
<1>3. first..stop \subseteq Good
  <2>. HIDE DEF Good
  <2>. QED
    BY <1>1, <1>2, Upwards
<1>4. stop \in first..stop
  OBVIOUS
<1>. QED
  BY <1>3, <1>4 DEF HasTexts

(* The changes behind the last whole document are ranges.                  *)
LEMMA LastWholeIsLast ==
    ASSUME NEW Change, NEW changes \in Seq(Change), NEW Char,
           \A n \in DOMAIN changes : IsChange(changes[n], Char)
    PROVE  /\ LastWhole(changes) \in 0..Len(changes)
           /\ LastWhole(changes) = 0 \/ changes[LastWhole(changes)].whole
           /\ \A n \in LastWhole(changes) + 1..Len(changes) : ~changes[n].whole
<1>. DEFINE S == {0} \cup {k \in DOMAIN changes : changes[k].whole}
<1>1. Len(changes) \in Nat /\ DOMAIN changes = 1..Len(changes)
  OBVIOUS
<1>2. S \in SUBSET (0..Len(changes)) /\ S # {}
  BY <1>1
<1>3. Max(S) \in S /\ \A y \in S : Max(S) >= y
  <2>. HIDE DEF S
  <2>. QED
    BY <1>1, <1>2, MaxOfBounded
<1>4. LastWhole(changes) = Max(S)
  BY DEF LastWhole
<1>. DEFINE stop == Max(S)
<1>5. stop \in 0..Len(changes) /\ (stop = 0 \/ changes[stop].whole)
  <2>. HIDE DEF stop
  <2>1. stop \in S
    BY <1>3 DEF stop
  <2>. QED
    BY <1>1, <2>1
<1>6. ASSUME NEW n \in stop + 1..Len(changes) PROVE ~changes[n].whole
  <2>1. n \in DOMAIN changes /\ ~(stop >= n)
    <3>. HIDE DEF stop
    <3>. QED
      BY <1>1, <1>5
  <2>2. n \notin S
    <3>. HIDE DEF S
    <3>. QED
      BY <1>3, <2>1 DEF stop
  <2>. QED
    BY <2>1, <2>2
<1>. QED
  BY <1>4, <1>5, <1>6

(* After a didChange the server's text is the client's, for any texts and  *)
(* any number of edits: the index that is rebuilt only when a change may   *)
(* lie below an earlier one never gives a position the wrong offset        *)
(* (utils::apply_document_changes).                                        *)
THEOREM EditsLeaveClientText ==
    ASSUME NEW Char, NEW contents \in Seq(Char),
           NEW Change, NEW changes \in Seq(Change),
           \A n \in DOMAIN changes : IsChange(changes[n], Char)
    PROVE  ApplyDocumentChanges(contents, changes) = ClientText(contents, changes)
<1>. DEFINE first == LastWhole(changes)
            stop == Len(changes)
            start == StartText(contents, changes)
            s0 == [text |-> start, index |-> LineIndex(start), valid |-> LastLine]
            state[n \in first..stop] ==
                IF n = first THEN s0 ELSE ApplyChange(state[n - 1], changes[n])
            shown[n \in 0..stop] ==
                IF n = 0 THEN contents ELSE TextAfter(shown[n - 1], changes[n])
<1>1. /\ ApplyDocumentChanges(contents, changes) = state[stop].text
      /\ ClientText(contents, changes) = shown[stop]
  BY Zenon DEF ApplyDocumentChanges, ClientText
<1>2. stop \in Nat /\ DOMAIN changes = 1..stop
  OBVIOUS
<1>3. /\ first \in 0..stop /\ (first = 0 \/ changes[first].whole)
      /\ \A n \in first + 1..stop : ~changes[n].whole
  BY LastWholeIsLast
<1>4. first \in Nat /\ first <= stop
  <2>. HIDE DEF first
  <2>. QED
    BY <1>2, <1>3
<1>5. /\ state[first] = s0
      /\ \A n \in first + 1..stop : state[n] = ApplyChange(state[n - 1], changes[n])
  <2>. HIDE DEF s0, first, stop
  <2>1. \E f : f = TurnsFrom(f, first, stop, s0, changes)
    <3>1. HasTurns(first, stop, s0, changes)
      BY <1>2, <1>4, ServerTurns
    <3>. QED
      BY <3>1 DEF HasTurns
  <2>2. state = [n \in first..stop |->
                 IF n = first THEN s0 ELSE ApplyChange(state[n - 1], changes[n])]
    BY <2>1 DEF TurnsFrom
  <2>3. \A n \in first..stop :
            state[n] = IF n = first THEN s0 ELSE ApplyChange(state[n - 1], changes[n])
    <3>. HIDE DEF state
    <3>. QED
      BY <2>2
  <2>. HIDE DEF state
  <2>. QED
    BY <1>2, <1>4, <2>3
<1>6. /\ shown[0] = contents
      /\ \A n \in 1..stop : shown[n] = TextAfter(shown[n - 1], changes[n])
  <2>. HIDE DEF stop
  <2>1. 0 \in Nat /\ 0 <= stop
    BY <1>2
  <2>2. \E f : f = TextsFrom(f, 0, stop, contents, changes)
    <3>1. HasTexts(0, stop, contents, changes)
      BY <1>2, <2>1, ClientTurns
    <3>. QED
      BY <3>1 DEF HasTexts
  <2>3. shown = [n \in 0..stop |->
                IF n = 0 THEN contents ELSE TextAfter(shown[n - 1], changes[n])]
    BY <2>2 DEF TextsFrom
  <2>4. \A n \in 0..stop :
            shown[n] = IF n = 0 THEN contents ELSE TextAfter(shown[n - 1], changes[n])
    <3>. HIDE DEF shown
    <3>. QED
      BY <2>3
  <2>. HIDE DEF shown
  <2>. QED
    BY <1>2, <2>4
<1>7. s0.text = start /\ s0.index = LineIndex(start) /\ s0.valid = LastLine
  OBVIOUS
<1>. HIDE DEF s0, state, shown
<1>8. start = shown[first] /\ start \in Seq(Char)
  <2>1. CASE first = 0
    BY <1>6, <2>1 DEF StartText
  <2>2. CASE first # 0
    <3>1. first \in 1..stop /\ changes[first].whole
      <4>. HIDE DEF first
      <4>. QED
        BY <1>2, <1>3, <2>2
    <3>2. start = changes[first].text
      BY <2>2 DEF StartText
    <3>3. shown[first] = TextAfter(shown[first - 1], changes[first])
      BY <1>6, <3>1
    <3>4. changes[first].text \in Seq(Char)
      BY <1>2, <3>1 DEF IsChange
    <3>. QED
      BY <3>1, <3>2, <3>3, <3>4 DEF TextAfter
  <2>. QED
    BY <2>1, <2>2
<1>. DEFINE Same(n) ==
                /\ state[n].text = shown[n] /\ state[n].text \in Seq(Char)
                /\ state[n].valid \in Nat
                /\ AgreeAbove(state[n].index, state[n].text, state[n].valid)
            Good == {n \in first..stop : Same(n)}
<1>9. Same(first)
  BY <1>5, <1>7, <1>8, EditAssumption DEF AgreeAbove
<1>. HIDE DEF first, start
<1>10. ASSUME NEW n \in first + 1..stop, Same(n - 1) PROVE Same(n)
  <2>1. n \in 1..stop
    BY <1>2, <1>4
  <2>2. IsChange(changes[n], Char) /\ ~changes[n].whole
    BY <1>2, <1>3, <2>1
  <2>3. /\ state[n] = ApplyChange(state[n - 1], changes[n])
        /\ shown[n] = TextAfter(shown[n - 1], changes[n])
    BY <1>5, <1>6, <2>1
  <2>. DEFINE s == state[n - 1]
              t == ApplyChange(s, changes[n])
  <2>4. s.text = shown[n - 1] /\ s.text \in Seq(Char) /\ s.valid \in Nat
        /\ AgreeAbove(s.index, s.text, s.valid)
    BY <1>10
  <2>. HIDE DEF s
  <2>5. /\ t.text = TextAfter(s.text, changes[n]) /\ t.text \in Seq(Char) /\ t.valid \in Nat
        /\ AgreeAbove(t.index, t.text, t.valid)
    BY <2>2, <2>4, TurnAsProtocol
  <2>6. state[n] = t
    BY <2>3 DEF s
  <2>. HIDE DEF t
  <2>. QED
    BY <2>3, <2>4, <2>5, <2>6
<1>. HIDE DEF Same, stop
<1>11. first..stop \subseteq Good
  <2>1. first \in Good
    BY <1>4, <1>9
  <2>2. ASSUME NEW n \in first + 1..stop, n - 1 \in Good PROVE n \in Good
    BY <1>2, <1>4, <1>10, <2>2
  <2>. HIDE DEF Good
  <2>. QED
    BY <1>2, <1>4, <2>1, <2>2, Upwards
<1>12. Same(stop)
  BY <1>2, <1>4, <1>11
<1>. QED
  BY <1>1, <1>12 DEF Same

-----------------------------------------------------------------------------
(* The parser: the inductive invariant of a parse. The events, read with   *)
(* the nodes the grammar closed, have the shape of a tree, and those that  *)
(* take tokens take them in the order of the source.                       *)

(* How many of the first n events are of the given types; what they take   *)
(* from the source, what they give the tree, which nodes they close.       *)
Count(evs, types, n) == CountTo({e \in DOMAIN evs : evs[e].type \in types}, n)
Moved(evs, n) == Count(evs, {"token", "advance"}, n)
TakenBy(evs, n) == Count(evs, {"token", "virtual"}, n)
Finishes(evs, n) == Count(evs, {"finish"}, n)
Virtuals(evs, n) == Count(evs, {"virtual"}, n)
Advances(evs, n) == Count(evs, {"advance"}, n)

(* What the parser's variables hold.                                       *)
Pieces == [from : Nat, to : Nat]
Event == {Tombstone, AddToken, AdvanceSource, FinishNode}
         \cup [type : {"virtual"}, piece : Pieces] \cup [type : {"start"}, forward : Nat]
Marker == [pos : Nat, first : Nat, from : Nat, precedes : BOOLEAN]
Node == [node : Nat, first : Nat, last : Nat, from : Nat, to : Nat]
Typed ==
    /\ tokens \in Seq(Kinds) /\ cursor \in Nat /\ events \in Seq(Event)
    /\ override \in {None} \cup [kind : {"gt", "shr"}, piece : Pieces]
    /\ open \in Seq(Marker) /\ last \in {None} \cup Marker
    /\ saved \in {None} \cup [cursor : Nat, events : Nat, depth : Nat, taken : Nat, nodes : Nat]
    /\ meant \in [taken : Nat, nodes : Seq(Node), clean : BOOLEAN]

(* Every marker holds a tombstone, and begins after the marker around it.  *)
Markers(evs, opn) ==
    \A d \in 1..Len(opn) :
        /\ opn[d].first \in 1..opn[d].pos /\ opn[d].pos <= Len(evs)
        /\ evs[opn[d].pos].type = "tombstone"
        /\ opn[d].from = TakenBy(evs, opn[d].first)
        /\ ~opn[d].precedes => opn[d].first = opn[d].pos
        /\ \A c \in 1..d - 1 : opn[c].pos < opn[d].first
(* Every node the grammar closed has its start and its finish, in the      *)
(* order of the finishes, and holds the tokens taken between them; every   *)
(* start is the start of one node.                                         *)
Nodes(evs, nodes) ==
    /\ \A i \in 1..Len(nodes) :
        LET n == nodes[i] IN
        /\ n.first \in 1..n.node /\ n.node < n.last /\ n.last <= Len(evs)
        /\ evs[n.node].type = "start" /\ evs[n.last].type = "finish"
        /\ Finishes(evs, n.last) = i
        /\ n.from = TakenBy(evs, n.first) /\ n.to = TakenBy(evs, n.last)
    /\ \A i, j \in 1..Len(nodes) : nodes[i].node = nodes[j].node => i = j
    /\ \A e \in 1..Len(evs) : evs[e].type = "start" =>
            \E i \in 1..Len(nodes) : nodes[i].node = e
    /\ Finishes(evs, Len(evs)) = Len(nodes)

(* A node and one closed before it are nested or follow each other.        *)
Apart(first, pos, n) ==
    first <= n.last => first < n.first \/ (first = n.first /\ n.node < pos)
Nested(nodes, opn) ==
    /\ \A j \in 1..Len(nodes) : \A i \in 1..j - 1 :
            Apart(nodes[j].first, nodes[j].node, nodes[i])
    /\ \A i \in 1..Len(nodes) : \A d \in 1..Len(opn) :
            Apart(opn[d].first, opn[d].pos, nodes[i])

(* A forward parent is the place of a node, or of a marker, that begins    *)
(* with the node it precedes; and every such place is the forward parent   *)
(* of one.                                                                 *)
Target(evs, n) == n.node + evs[n.node].forward
Placed(first, pos, nodes, opn) ==
    \/ \E i \in 1..Len(nodes) : nodes[i].node = pos /\ nodes[i].first = first
    \/ \E d \in 1..Len(opn) : opn[d].pos = pos /\ opn[d].first = first
Led(first, pos, evs, nodes) ==
    first # pos => \E i \in 1..Len(nodes) :
        nodes[i].first = first /\ nodes[i].node < pos /\ Target(evs, nodes[i]) = pos
Chained(evs, nodes, opn) ==
    /\ \A i \in 1..Len(nodes) :
        /\ evs[nodes[i].node].forward # 0 =>
                Placed(nodes[i].first, Target(evs, nodes[i]), nodes, opn)
        /\ Led(nodes[i].first, nodes[i].node, evs, nodes)
    /\ \A d \in 1..Len(opn) : Led(opn[d].first, opn[d].pos, evs, nodes)

Shape(evs, nodes, opn, taken) ==
    /\ Markers(evs, opn) /\ Nodes(evs, nodes) /\ Nested(nodes, opn)
    /\ Chained(evs, nodes, opn) /\ taken = TakenBy(evs, Len(evs))

(* The node that may be preceded is the one closed last.                   *)
LastFits ==
    last # None =>
        /\ meant.nodes # <<>>
        /\ last.pos = meant.nodes[Len(meant.nodes)].node
        /\ last.first = meant.nodes[Len(meant.nodes)].first
        /\ last.from = meant.nodes[Len(meant.nodes)].from
        /\ events[last.pos].forward = 0
        /\ \A d \in 1..Len(open) : open[d].pos < last.first

(* The first marker is the root's, and it is closed last.                  *)
Rooted ==
    /\ events = <<>> => open = <<>>
    /\ open # <<>> => open[1].pos = 1 /\ open[1].first = 1
    /\ Done => /\ meant.nodes # <<>> /\ saved = None /\ AtEnd
               /\ meant.nodes[Len(meant.nodes)].node = 1
               /\ meant.nodes[Len(meant.nodes)].last = Len(events)

(* The offsets of the tokens, and the one the source is at after n events. *)
At == [i \in 1..Len(tokens) + 1 |-> Offset(i)]
(* The nth token of the source is i; so many pieces of it are built; what  *)
(* the two pieces of a split token are.                                    *)
NextToken(solid, evs, n, i) == i \in solid /\ CountTo(solid, i) = Moved(evs, n) + 1
Halves(evs, n, h) == Virtuals(evs, n) = 2 * Advances(evs, n) + h
HeadOf(at, i) == [from |-> at[i], to |-> at[i] + 1]
RestOf(at, i) == [from |-> at[i] + 1, to |-> at[i + 1]]
IsHead(solid, at, evs, e, i) ==
    Halves(evs, e - 1, 0) /\ evs[e].piece = HeadOf(at, i) /\ (i = 1 \/ i - 1 \in solid)
IsRest(solid, at, evs, e, i) ==
    Halves(evs, e - 1, 1) /\ evs[e].piece = RestOf(at, i) /\ e < Len(evs) /\ evs[e + 1].type = "advance"
(* The events take the tokens of the source one by one, whole or in two    *)
(* pieces that no other event comes between.                               *)
Follows(solid, at, evs, cur, ovr) ==
    /\ cur = Moved(evs, Len(evs))
    /\ \A e \in 1..Len(evs) :
        /\ evs[e].type = "token" =>
              Halves(evs, e - 1, 0) /\ \E i \in solid : NextToken(solid, evs, e - 1, i)
        /\ evs[e].type = "virtual" =>
              \E i \in solid : NextToken(solid, evs, e - 1, i)
                                /\ (IsHead(solid, at, evs, e, i) \/ IsRest(solid, at, evs, e, i))
        /\ evs[e].type = "advance" =>
              e > 1 /\ evs[e - 1].type = "virtual" /\ Halves(evs, e - 1, 2)
    /\ ovr = None => Halves(evs, Len(evs), 0)
    /\ ovr # None => /\ Halves(evs, Len(evs), 1)
                     /\ \E i \in solid : NextToken(solid, evs, Len(evs), i) /\ ovr.piece = RestOf(at, i)

(* The events, markers and nodes of a checkpoint had the shape of a parse  *)
(* and are still there.                                                    *)
SavedFits ==
    saved # None =>
        /\ saved.events \in 1..Len(events) /\ saved.depth \in 1..Len(open)
        /\ saved.nodes <= Len(meant.nodes)
        /\ Shape(SubSeq(events, 1, saved.events), SubSeq(meant.nodes, 1, saved.nodes),
                 SubSeq(open, 1, saved.depth), saved.taken)
        /\ meant.clean => Follows(Indices, At, SubSeq(events, 1, saved.events), saved.cursor, None)
        /\ \A d \in saved.depth + 1..Len(open) : open[d].pos > saved.events
        /\ last # None => last.pos > saved.events

(* The invariant of a parse.                                               *)
ParseInv ==
    /\ Typed /\ Shape(events, meant.nodes, open, meant.taken)
    /\ LastFits /\ Rooted /\ SavedFits
    /\ meant.clean => Follows(Indices, At, events, cursor, override)

-----------------------------------------------------------------------------
(* Counting the events of a type, up to one of them.                       *)

(* Counting up to a number.                                                *)

LEMMA CountIsNat ==
    ASSUME NEW S, NEW n \in Nat
    PROVE  CountTo(S, n) \in Nat /\ CountTo(S, 0) = 0 /\ IsFiniteSet(S \cap (1..n))
<1>1. IsFiniteSet(1..n)
  BY FS_Interval
<1>2. IsFiniteSet(S \cap (1..n))
  BY <1>1, FS_Subset
<1>3. S \cap (1..0) = {}
  OBVIOUS
<1>. QED
  BY <1>2, <1>3, FS_CardinalityType, FS_EmptySet DEF CountTo

LEMMA CountNext ==
    ASSUME NEW S, NEW n \in Nat
    PROVE  CountTo(S, n + 1) = IF n + 1 \in S THEN CountTo(S, n) + 1 ELSE CountTo(S, n)
<1>1. CASE n + 1 \in S
  <2>1. S \cap (1..n + 1) = (S \cap (1..n)) \cup {n + 1}
    BY <1>1
  <2>2. n + 1 \notin S \cap (1..n)
    OBVIOUS
  <2>3. IsFiniteSet(S \cap (1..n))
    BY CountIsNat
  <2>. QED
    BY <1>1, <2>1, <2>2, <2>3, FS_AddElement DEF CountTo
<1>2. CASE n + 1 \notin S
  <2>1. S \cap (1..n + 1) = S \cap (1..n)
    BY <1>2
  <2>. QED
    BY <1>2, <2>1 DEF CountTo
<1>. QED
  BY <1>1, <1>2

LEMMA CountGrows ==
    ASSUME NEW S, NEW m \in Nat, NEW n \in Nat, m <= n
    PROVE  /\ CountTo(S, m) <= CountTo(S, n)
           /\ m < n /\ n \in S => CountTo(S, m) < CountTo(S, n)
<1>1. S \cap (1..m) \subseteq S \cap (1..n)
  OBVIOUS
<1>2. IsFiniteSet(S \cap (1..n)) /\ CountTo(S, m) \in Nat /\ CountTo(S, n) \in Nat
  BY CountIsNat
<1>3. CountTo(S, m) <= CountTo(S, n)
  BY <1>1, <1>2, FS_Subset DEF CountTo
<1>4. ASSUME m < n, n \in S, CountTo(S, m) = CountTo(S, n) PROVE FALSE
  <2>1. S \cap (1..m) = S \cap (1..n)
    BY <1>1, <1>2, <1>4, FS_Subset DEF CountTo
  <2>2. n \in S \cap (1..n) /\ n \notin S \cap (1..m)
    BY <1>4
  <2>. QED
    BY <2>1, <2>2
<1>. QED
  BY <1>2, <1>3, <1>4

LEMMA CountSame ==
    ASSUME NEW S, NEW R, NEW n \in Nat, \A e \in 1..n : e \in S <=> e \in R
    PROVE  CountTo(S, n) = CountTo(R, n)
<1>1. S \cap (1..n) = R \cap (1..n)
  OBVIOUS
<1>. QED
  BY <1>1 DEF CountTo

(* The same for events: those of some types.                               *)
LEMMA EventsCounted ==
    ASSUME NEW evs \in Seq(Event), NEW types, NEW n \in 0..Len(evs)
    PROVE  /\ Count(evs, types, n) \in Nat /\ Count(evs, types, 0) = 0
           /\ n < Len(evs) => Count(evs, types, n + 1)
                  = IF evs[n + 1].type \in types THEN Count(evs, types, n) + 1
                    ELSE Count(evs, types, n)
           /\ \A m \in 0..n : /\ Count(evs, types, m) <= Count(evs, types, n)
                              /\ m < n /\ evs[n].type \in types =>
                                    Count(evs, types, m) < Count(evs, types, n)
<1>. DEFINE S == {e \in DOMAIN evs : evs[e].type \in types}
<1>1. DOMAIN evs = 1..Len(evs) /\ Len(evs) \in Nat /\ n \in Nat
  OBVIOUS
<1>2. CountTo(S, n) \in Nat /\ CountTo(S, 0) = 0
  BY CountIsNat, <1>1
<1>3. n < Len(evs) => CountTo(S, n + 1)
                  = IF evs[n + 1].type \in types THEN CountTo(S, n) + 1 ELSE CountTo(S, n)
  <2>1. n < Len(evs) => (n + 1 \in S <=> evs[n + 1].type \in types)
    BY <1>1
  <2>2. CountTo(S, n + 1) = IF n + 1 \in S THEN CountTo(S, n) + 1 ELSE CountTo(S, n)
    BY <1>1, CountNext
  <2>. QED
    BY <2>1, <2>2
<1>4. ASSUME NEW m \in 0..n
      PROVE  /\ CountTo(S, m) <= CountTo(S, n)
             /\ m < n /\ evs[n].type \in types => CountTo(S, m) < CountTo(S, n)
  <2>1. m < n /\ evs[n].type \in types => n \in S
    BY <1>1
  <2>2. m \in Nat /\ m <= n
    OBVIOUS
  <2>. QED
    BY <1>1, <2>1, <2>2, CountGrows
<1>. QED
  BY <1>2, <1>3, <1>4 DEF Count

(* Events that are the same, but for the marks that begin nodes.           *)
Alike(evs, evt, n) ==
    \A e \in 1..n : evt[e].type = evs[e].type \/ {evt[e].type, evs[e].type} \subseteq {"start", "tombstone"}
LEMMA CountAlike ==
    ASSUME NEW evs \in Seq(Event), NEW evt \in Seq(Event),
           NEW n \in 0..Len(evs), n <= Len(evt), Alike(evs, evt, n),
           NEW types, "start" \notin types, "tombstone" \notin types
    PROVE  Count(evt, types, n) = Count(evs, types, n)
<1>. DEFINE S == {e \in DOMAIN evs : evs[e].type \in types}
            R == {e \in DOMAIN evt : evt[e].type \in types}
<1>1. DOMAIN evs = 1..Len(evs) /\ Len(evs) \in Nat /\ DOMAIN evt = 1..Len(evt) /\ Len(evt) \in Nat
  OBVIOUS
<1>2. \A e \in 1..n : e \in R <=> e \in S
  BY <1>1 DEF Alike
<1>. HIDE DEF S, R
<1>3. CountTo(R, n) = CountTo(S, n)
  BY <1>2, CountSame
<1>. QED
  BY <1>3 DEF Count, R, S

-----------------------------------------------------------------------------
(* A step of the grammar and the shape of the events: an event appended, a *)
(* marker opened, dropped, completed or preceded.                          *)

LEMMA CountIdle ==
    ASSUME NEW evs \in Seq(Event), NEW types, NEW m \in 0..Len(evs), NEW n \in m..Len(evs),
           \A e \in m + 1..n : evs[e].type \notin types
    PROVE  Count(evs, types, n) = Count(evs, types, m)
<1>. DEFINE S == {e \in DOMAIN evs : evs[e].type \in types}
<1>1. S \cap (1..n) = S \cap (1..m)
  OBVIOUS
<1>. QED
  BY <1>1 DEF Count, CountTo

LEMMA SameCounts ==
    ASSUME NEW evs \in Seq(Event), NEW evt \in Seq(Event), Len(evs) <= Len(evt),
           Alike(evs, evt, Len(evs))
    PROVE  \A n \in 0..Len(evs) :
              /\ TakenBy(evt, n) = TakenBy(evs, n) /\ Finishes(evt, n) = Finishes(evs, n)
              /\ Moved(evt, n) = Moved(evs, n) /\ Virtuals(evt, n) = Virtuals(evs, n)
              /\ Advances(evt, n) = Advances(evs, n)
<1>1. ASSUME NEW n \in 0..Len(evs) PROVE Alike(evs, evt, n) /\ n <= Len(evt)
  BY DEF Alike
<1>. QED
  BY <1>1, CountAlike DEF TakenBy, Finishes, Moved, Virtuals, Advances

LEMMA CountsNext ==
    ASSUME NEW evs \in Seq(Event), NEW n \in 1..Len(evs)
    PROVE  /\ TakenBy(evs, n) = IF evs[n].type \in {"token", "virtual"}
                                THEN TakenBy(evs, n - 1) + 1 ELSE TakenBy(evs, n - 1)
           /\ Moved(evs, n) = IF evs[n].type \in {"token", "advance"}
                              THEN Moved(evs, n - 1) + 1 ELSE Moved(evs, n - 1)
           /\ Finishes(evs, n) = IF evs[n].type = "finish"
                                 THEN Finishes(evs, n - 1) + 1 ELSE Finishes(evs, n - 1)
           /\ Virtuals(evs, n) = IF evs[n].type = "virtual"
                                 THEN Virtuals(evs, n - 1) + 1 ELSE Virtuals(evs, n - 1)
           /\ Advances(evs, n) = IF evs[n].type = "advance"
                                 THEN Advances(evs, n - 1) + 1 ELSE Advances(evs, n - 1)
<1>1. n - 1 \in 0..Len(evs) /\ n - 1 < Len(evs) /\ n - 1 + 1 = n
  OBVIOUS
<1>2. \A types : Count(evs, types, n - 1 + 1)
                  = IF evs[n - 1 + 1].type \in types THEN Count(evs, types, n - 1) + 1
                    ELSE Count(evs, types, n - 1)
  BY <1>1, EventsCounted
<1>3. \A types : Count(evs, types, n) = IF evs[n].type \in types THEN Count(evs, types, n - 1) + 1
                                       ELSE Count(evs, types, n - 1)
  BY <1>1, <1>2
<1>. QED
  BY <1>3 DEF TakenBy, Moved, Finishes, Virtuals, Advances

LEMMA CountsAreNat ==
    ASSUME NEW evs \in Seq(Event), NEW n \in 0..Len(evs)
    PROVE  /\ TakenBy(evs, n) \in Nat /\ Moved(evs, n) \in Nat /\ Finishes(evs, n) \in Nat
           /\ Virtuals(evs, n) \in Nat /\ Advances(evs, n) \in Nat
           /\ TakenBy(evs, 0) = 0 /\ Moved(evs, 0) = 0 /\ Finishes(evs, 0) = 0
           /\ Virtuals(evs, 0) = 0 /\ Advances(evs, 0) = 0
  BY EventsCounted DEF TakenBy, Moved, Finishes, Virtuals, Advances

LEMMA NodeBounds ==
    ASSUME NEW evs \in Seq(Event), NEW nodes \in Seq(Node), Nodes(evs, nodes),
           NEW i \in 1..Len(nodes)
    PROVE  /\ nodes[i] \in Node
           /\ nodes[i].first \in 1..nodes[i].node /\ nodes[i].node < nodes[i].last
           /\ nodes[i].first \in 1..Len(evs) /\ nodes[i].node \in 1..Len(evs)
           /\ nodes[i].last \in 1..Len(evs)
           /\ evs[nodes[i].node].forward \in Nat
<1>1. nodes[i] \in Node
  OBVIOUS
<1>2. nodes[i].first \in Nat /\ nodes[i].node \in Nat /\ nodes[i].last \in Nat
  BY <1>1 DEF Node
<1>3. /\ nodes[i].first \in 1..nodes[i].node /\ nodes[i].node < nodes[i].last
      /\ nodes[i].last <= Len(evs) /\ evs[nodes[i].node].type = "start"
  BY DEF Nodes
<1>4. nodes[i].node \in 1..Len(evs) /\ Len(evs) \in Nat
  BY <1>2, <1>3
<1>5. evs[nodes[i].node] \in Event
  BY <1>4
<1>6. evs[nodes[i].node].forward \in Nat
  BY <1>3, <1>5 DEF Event, Tombstone, AddToken, AdvanceSource, FinishNode
<1>. QED
  BY <1>1, <1>2, <1>3, <1>4, <1>6

LEMMA MarkerBounds ==
    ASSUME NEW evs \in Seq(Event), NEW opn \in Seq(Marker), Markers(evs, opn),
           NEW d \in 1..Len(opn)
    PROVE  /\ opn[d] \in Marker /\ opn[d].first \in 1..opn[d].pos
           /\ opn[d].first \in 1..Len(evs) /\ opn[d].pos \in 1..Len(evs)
<1>1. opn[d] \in Marker /\ Len(evs) \in Nat
  OBVIOUS
<1>2. opn[d].first \in Nat /\ opn[d].pos \in Nat
  BY <1>1 DEF Marker
<1>3. opn[d].first \in 1..opn[d].pos /\ opn[d].pos <= Len(evs)
  BY DEF Markers
<1>. QED
  BY <1>1, <1>2, <1>3

LEMMA PrefixIs ==
    ASSUME NEW T, NEW s \in Seq(T), NEW n \in 0..Len(s)
    PROVE  /\ SubSeq(s, 1, n) \in Seq(T) /\ Len(SubSeq(s, 1, n)) = n
           /\ \A d \in 1..n : SubSeq(s, 1, n)[d] = s[d]
<1>1. n \in Int /\ 1 \in Int /\ n - 1 + 1 = n /\ (1 <= n <=> n # 0) /\ \A i \in 1..n : 1 + i - 1 = i
  OBVIOUS
<1>2. \A i \in 1..n : s[i] \in T
  OBVIOUS
<1>3. /\ SubSeq(s, 1, n) \in Seq(T) /\ Len(SubSeq(s, 1, n)) = IF 1 <= n THEN n - 1 + 1 ELSE 0
      /\ \A i \in 1..n - 1 + 1 : SubSeq(s, 1, n)[i] = s[1 + i - 1]
  BY <1>1, <1>2, SubSeqProperties
<1>4. \A i \in 1..n : SubSeq(s, 1, n)[i] = s[1 + i - 1]
  BY <1>1, <1>3
<1>5. Len(SubSeq(s, 1, n)) = n
  BY <1>1, <1>3
<1>. QED
  BY <1>1, <1>3, <1>4, <1>5

LEMMA FrontIs ==
    ASSUME NEW T, NEW s \in Seq(T), s # <<>>
    PROVE  /\ Front(s) \in Seq(T) /\ Len(Front(s)) = Len(s) - 1 /\ Len(s) \in Nat \ {0}
           /\ \A d \in 1..Len(Front(s)) : Front(s)[d] = s[d]
           /\ Last(s) = s[Len(s)] /\ s[Len(s)] \in T
<1>1. Len(s) \in Nat \ {0}
  BY LenProperties, EmptySeq
<1>2. Len(s) - 1 \in 0..Len(s) /\ Len(s) \in 1..Len(s)
  BY <1>1
<1>3. s[Len(s)] \in T
  BY <1>2
<1>. QED
  BY <1>1, <1>2, <1>3, PrefixIs, Zenon DEF Front, Last

(* Events that begin and end no node change nothing of the tree.           *)
LEMMA AppendKeeps ==
    ASSUME NEW evs \in Seq(Event), NEW evt \in Seq(Event), Len(evs) <= Len(evt),
           NEW nodes \in Seq(Node), NEW opn \in Seq(Marker),
           Markers(evs, opn), Nodes(evs, nodes), Chained(evs, nodes, opn),
           \A e \in 1..Len(evs) : evt[e] = evs[e],
           \A e \in Len(evs) + 1..Len(evt) : evt[e].type \notin {"start", "finish"}
    PROVE  Markers(evt, opn) /\ Nodes(evt, nodes) /\ Chained(evt, nodes, opn)
<1>0. Len(evs) \in Nat /\ Len(evt) \in Nat /\ Len(nodes) \in Nat /\ Len(opn) \in Nat
  OBVIOUS
<1>1. \A n \in 0..Len(evs) : TakenBy(evt, n) = TakenBy(evs, n) /\ Finishes(evt, n) = Finishes(evs, n)
  BY SameCounts DEF Alike
<1>2. Finishes(evt, Len(evt)) = Finishes(evs, Len(evs))
  <2>2. /\ Len(evs) \in 0..Len(evt) /\ Len(evt) \in Len(evs)..Len(evt)
        /\ \A e \in Len(evs) + 1..Len(evt) : evt[e].type \notin {"finish"}
    BY <1>0
  <2>1. Count(evt, {"finish"}, Len(evt)) = Count(evt, {"finish"}, Len(evs))
    BY <2>2, CountIdle, Zenon
  <2>. QED
    BY <1>0, <1>1, <2>1 DEF Finishes
<1>3. Markers(evt, opn)
  <2>1. ASSUME NEW d \in 1..Len(opn)
        PROVE  opn[d].first \in 0..Len(evs) /\ opn[d].pos \in 1..Len(evs)
    BY MarkerBounds
  <2>. QED
    BY <1>0, <1>1, <2>1 DEF Markers
<1>4. ASSUME NEW i \in 1..Len(nodes)
      PROVE  /\ nodes[i].first \in 0..Len(evs) /\ nodes[i].node \in 1..Len(evs)
             /\ nodes[i].last \in 1..Len(evs)
  BY NodeBounds
<1>5. Nodes(evt, nodes)
  <2>1. \A i \in 1..Len(nodes) :
            /\ evt[nodes[i].node] = evs[nodes[i].node] /\ evt[nodes[i].last] = evs[nodes[i].last]
            /\ Finishes(evt, nodes[i].last) = i
            /\ nodes[i].from = TakenBy(evt, nodes[i].first) /\ nodes[i].to = TakenBy(evt, nodes[i].last)
            /\ nodes[i].last <= Len(evt)
    BY <1>0, <1>1, <1>4 DEF Nodes
  <2>2. \A e \in 1..Len(evt) : evt[e].type = "start" => e \in 1..Len(evs) /\ evs[e].type = "start"
    BY <1>0
  <2>3. ASSUME NEW i \in 1..Len(nodes)
        PROVE  /\ nodes[i].first \in 1..nodes[i].node /\ nodes[i].node < nodes[i].last
               /\ evt[nodes[i].node].type = "start" /\ evt[nodes[i].last].type = "finish"
    BY <2>1 DEF Nodes
  <2>4. \A e \in 1..Len(evt) : evt[e].type = "start" =>
            \E i \in 1..Len(nodes) : nodes[i].node = e
    BY <2>2 DEF Nodes
  <2>5. /\ \A i, k \in 1..Len(nodes) : nodes[i].node = nodes[k].node => i = k
        /\ Finishes(evt, Len(evt)) = Len(nodes)
    BY <1>2 DEF Nodes
  <2>. QED
    BY <2>1, <2>3, <2>4, <2>5 DEF Nodes
<1>6. Chained(evt, nodes, opn)
  <2>1. \A i \in 1..Len(nodes) : /\ evt[nodes[i].node] = evs[nodes[i].node]
                                 /\ Target(evt, nodes[i]) = Target(evs, nodes[i])
    BY <1>4 DEF Target
  <2>. QED
    BY <2>1 DEF Chained, Led
<1>. QED
  BY <1>3, <1>5, <1>6

(* A marker on top of the others.                                          *)
LEMMA PushKeeps ==
    ASSUME NEW evs \in Seq(Event), NEW nodes \in Seq(Node), NEW opn \in Seq(Marker),
           NEW m \in Marker,
           Markers(evs, opn), Nodes(evs, nodes), Nested(nodes, opn), Chained(evs, nodes, opn),
           m.first \in 1..m.pos, m.pos <= Len(evs), evs[m.pos].type = "tombstone",
           m.from = TakenBy(evs, m.first), ~m.precedes => m.first = m.pos,
           \A d \in 1..Len(opn) : opn[d].pos < m.first,
           \A i \in 1..Len(nodes) : Apart(m.first, m.pos, nodes[i]),
           Led(m.first, m.pos, evs, nodes)
    PROVE  /\ Markers(evs, Append(opn, m)) /\ Nested(nodes, Append(opn, m))
           /\ Chained(evs, nodes, Append(opn, m))
<1>. DEFINE opm == Append(opn, m)
<1>1. /\ opm \in Seq(Marker) /\ Len(opm) = Len(opn) + 1 /\ Len(opn) \in Nat
      /\ \A d \in 1..Len(opn) : opm[d] = opn[d]
      /\ opm[Len(opn) + 1] = m
  OBVIOUS
<1>. HIDE DEF opm
<1>2. \A d \in 1..Len(opm) : (d \in 1..Len(opn) /\ opm[d] = opn[d]) \/ (d = Len(opn) + 1 /\ opm[d] = m)
  BY <1>1
<1>3. Markers(evs, opm)
  <2>1. ASSUME NEW d \in 1..Len(opm), NEW c \in 1..d - 1 PROVE opm[c].pos < opm[d].first
    <3>1. c \in 1..Len(opn) /\ opm[c] = opn[c]
      BY <1>1
    <3>. QED
      BY <1>2, <3>1 DEF Markers
  <2>. QED
    BY <1>2, <2>1 DEF Markers
<1>4. Nested(nodes, opm)
  BY <1>2 DEF Nested
<1>5. ASSUME NEW first, NEW pos, Placed(first, pos, nodes, opn) PROVE Placed(first, pos, nodes, opm)
  <2>1. \A d \in 1..Len(opn) : d \in 1..Len(opm) /\ opm[d] = opn[d]
    BY <1>1
  <2>. QED
    BY <1>5, <2>1 DEF Placed
<1>6. Chained(evs, nodes, opm)
  BY <1>2, <1>5 DEF Chained
<1>. QED
  BY <1>3, <1>4, <1>6 DEF opm

(* A marker that is given up: no node leads to it.                         *)
LEMMA PopKeeps ==
    ASSUME NEW evs \in Seq(Event), NEW nodes \in Seq(Node), NEW opn \in Seq(Marker), opn # <<>>,
           Markers(evs, opn), Nodes(evs, nodes), Nested(nodes, opn), Chained(evs, nodes, opn),
           ~opn[Len(opn)].precedes
    PROVE  /\ Markers(evs, Front(opn)) /\ Nested(nodes, Front(opn))
           /\ Chained(evs, nodes, Front(opn))
<1>. DEFINE opm == Front(opn)
            m == opn[Len(opn)]
<1>1. /\ opm \in Seq(Marker) /\ Len(opm) = Len(opn) - 1 /\ Len(opn) \in Nat \ {0}
      /\ \A d \in 1..Len(opm) : opm[d] = opn[d] /\ d \in 1..Len(opn)
  BY FrontIs
<1>. HIDE DEF opm
<1>3. Markers(evs, opm)
  <2>1. ASSUME NEW d \in 1..Len(opm), NEW c \in 1..d - 1 PROVE opm[c].pos < opm[d].first
    <3>1. c \in 1..Len(opm)
      BY <1>1
    <3>. QED
      BY <1>1, <3>1 DEF Markers
  <2>. QED
    BY <1>1, <2>1 DEF Markers
<1>4. Nested(nodes, opm)
  BY <1>1 DEF Nested
<1>5. ASSUME NEW i \in 1..Len(nodes), evs[nodes[i].node].forward # 0
      PROVE  Placed(nodes[i].first, Target(evs, nodes[i]), nodes, opm)
  <2>1. Placed(nodes[i].first, Target(evs, nodes[i]), nodes, opn)
    BY <1>5 DEF Chained
  <2>2. ASSUME NEW d \in 1..Len(opn), opn[d].pos = Target(evs, nodes[i]),
               opn[d].first = nodes[i].first
        PROVE  d \in 1..Len(opm)
    <3>1. SUFFICES ASSUME d = Len(opn) PROVE FALSE
      BY <1>1
    <3>2. m.first = m.pos /\ m.pos = Target(evs, nodes[i]) /\ m.first = nodes[i].first
      BY <2>2, <3>1 DEF Markers
    <3>3. /\ nodes[i].first \in 1..nodes[i].node /\ nodes[i].node \in 1..Len(evs)
          /\ evs[nodes[i].node].forward \in Nat
      BY NodeBounds
    <3>. QED
      BY <1>5, <3>2, <3>3 DEF Target
  <2>. QED
    BY <1>1, <2>1, <2>2 DEF Placed
<1>6. Chained(evs, nodes, opm)
  BY <1>1, <1>5 DEF Chained
<1>. QED
  BY <1>3, <1>4, <1>6 DEF opm

(* The innermost marker becomes a node that ends here.                     *)
LEMMA CompleteKeeps ==
    ASSUME NEW evs \in Seq(Event), NEW evt \in Seq(Event), Len(evt) = Len(evs) + 1,
           NEW nodes \in Seq(Node), NEW opn \in Seq(Marker), opn # <<>>,
           Markers(evs, opn), Nodes(evs, nodes), Nested(nodes, opn), Chained(evs, nodes, opn),
           NEW m, m = opn[Len(opn)],
           \A e \in 1..Len(evs) : e # m.pos => evt[e] = evs[e],
           evt[m.pos].type = "start", evt[m.pos].forward = 0,
           evt[Len(evs) + 1].type = "finish",
           NEW x \in Node, x.node = m.pos, x.first = m.first, x.from = m.from,
           x.last = Len(evs) + 1, x.to = TakenBy(evs, Len(evs))
    PROVE  /\ Markers(evt, Front(opn)) /\ Nodes(evt, Append(nodes, x))
           /\ Nested(Append(nodes, x), Front(opn)) /\ Chained(evt, Append(nodes, x), Front(opn))
           /\ \A d \in 1..Len(Front(opn)) : Front(opn)[d].pos < m.first
<1>. DEFINE opm == Front(opn)
            nodet == Append(nodes, x)
            p == m.pos
<1>1. /\ opm \in Seq(Marker) /\ Len(opm) = Len(opn) - 1 /\ Len(opn) \in Nat \ {0}
      /\ \A d \in 1..Len(opm) : opm[d] = opn[d] /\ d \in 1..Len(opn)
  BY FrontIs
<1>2. /\ nodet \in Seq(Node) /\ Len(nodet) = Len(nodes) + 1 /\ Len(nodes) \in Nat
      /\ \A i \in 1..Len(nodes) : nodet[i] = nodes[i] /\ i \in 1..Len(nodet)
      /\ nodet[Len(nodes) + 1] = x /\ Len(nodes) + 1 \in 1..Len(nodet)
  OBVIOUS
<1>. HIDE DEF opm, nodet
<1>3. Len(evs) \in Nat
  OBVIOUS
<1>4. Len(opn) \in 1..Len(opn) /\ \A i \in 1..Len(nodet) :
          (i \in 1..Len(nodes) /\ nodet[i] = nodes[i]) \/ (i = Len(nodes) + 1 /\ nodet[i] = x)
  <2>1. \A i \in 1..Len(nodet) : i \in 1..Len(nodes) \/ i = Len(nodes) + 1
    BY <1>2
  <2>2. Len(opn) \in 1..Len(opn)
    BY <1>1
  <2>. QED
    BY <1>2, <2>1, <2>2
<1>5. /\ m \in Marker /\ m.first \in 1..p /\ m.first \in 1..Len(evs) /\ p \in 1..Len(evs)
      /\ evs[p].type = "tombstone" /\ m.from = TakenBy(evs, m.first)
  BY <1>4, MarkerBounds DEF Markers
<1>6. Alike(evs, evt, Len(evs))
  BY <1>5, SMTT(20) DEF Alike
<1>7. \A n \in 0..Len(evs) : TakenBy(evt, n) = TakenBy(evs, n) /\ Finishes(evt, n) = Finishes(evs, n)
  <2>1. Len(evs) <= Len(evt)
    BY <1>3
  <2>. QED
    BY <2>1, <1>6, SameCounts
<1>8. /\ TakenBy(evt, Len(evs) + 1) = TakenBy(evs, Len(evs))
      /\ Finishes(evt, Len(evs) + 1) = Finishes(evs, Len(evs)) + 1
  <2>1. Len(evs) + 1 \in 1..Len(evt) /\ Len(evs) + 1 - 1 = Len(evs) /\ Len(evs) \in 0..Len(evs)
    BY <1>3
  <2>2. /\ TakenBy(evt, Len(evs) + 1) = TakenBy(evt, Len(evs))
        /\ Finishes(evt, Len(evs) + 1) = Finishes(evt, Len(evs)) + 1
    BY <2>1, CountsNext
  <2>. QED
    BY <1>7, <2>1, <2>2
<1>9. ASSUME NEW d \in 1..Len(opm)
      PROVE  /\ opm[d].pos < m.first /\ opm[d].pos \in 1..Len(evs) /\ opm[d].first \in 1..opm[d].pos
             /\ opm[d].first \in 1..Len(evs) /\ opm[d].pos # p
  <2>1. d \in 1..Len(opn) - 1 /\ d \in 1..Len(opn) /\ opm[d] = opn[d]
    BY <1>1
  <2>2. opn[d].pos < m.first
    BY <1>4, <2>1 DEF Markers
  <2>3. opn[d].pos \in 1..Len(evs) /\ opn[d].first \in 1..opn[d].pos /\ opn[d].first \in 1..Len(evs)
    BY <2>1, MarkerBounds
  <2>. QED
    BY <1>5, <2>1, <2>2, <2>3
<1>10. Markers(evt, opm)
  <2>1. ASSUME NEW d \in 1..Len(opm), NEW c \in 1..d - 1 PROVE opm[c].pos < opm[d].first
    <3>1. c \in 1..Len(opm)
      BY <1>1
    <3>. QED
      BY <1>1, <3>1 DEF Markers
  <2>2. ASSUME NEW d \in 1..Len(opm)
        PROVE  /\ opm[d].first \in 1..opm[d].pos /\ opm[d].pos <= Len(evt)
               /\ evt[opm[d].pos].type = "tombstone" /\ opm[d].from = TakenBy(evt, opm[d].first)
               /\ ~opm[d].precedes => opm[d].first = opm[d].pos
    <3>1. opm[d] = opn[d] /\ d \in 1..Len(opn)
      BY <1>1
    <3>2. evt[opm[d].pos] = evs[opm[d].pos] /\ TakenBy(evt, opm[d].first) = TakenBy(evs, opm[d].first)
      BY <1>3, <1>7, <1>9
    <3>. QED
      BY <1>3, <1>9, <3>1, <3>2 DEF Markers
  <2>. QED
    BY <2>1, <2>2 DEF Markers
<1>11. ASSUME NEW i \in 1..Len(nodes)
       PROVE  /\ nodes[i].first \in 1..nodes[i].node /\ nodes[i].node < nodes[i].last
              /\ nodes[i].first \in 1..Len(evs) /\ nodes[i].node \in 1..Len(evs)
              /\ nodes[i].last \in 1..Len(evs)
              /\ evs[nodes[i].node].type = "start" /\ evs[nodes[i].last].type = "finish"
              /\ nodes[i].node # p /\ nodes[i].last # p
              /\ evt[nodes[i].node] = evs[nodes[i].node] /\ evt[nodes[i].last] = evs[nodes[i].last]
  <2>1. /\ nodes[i].first \in 1..nodes[i].node /\ nodes[i].node < nodes[i].last
        /\ nodes[i].first \in 1..Len(evs) /\ nodes[i].node \in 1..Len(evs)
        /\ nodes[i].last \in 1..Len(evs)
    BY NodeBounds
  <2>2. evs[nodes[i].node].type = "start" /\ evs[nodes[i].last].type = "finish"
    BY DEF Nodes
  <2>. QED
    BY <1>5, <2>1, <2>2
<1>12. Nodes(evt, nodet)
  <2>1. ASSUME NEW i \in 1..Len(nodet)
        PROVE  /\ nodet[i].first \in 1..nodet[i].node /\ nodet[i].node < nodet[i].last
               /\ nodet[i].last <= Len(evt)
               /\ evt[nodet[i].node].type = "start" /\ evt[nodet[i].last].type = "finish"
               /\ Finishes(evt, nodet[i].last) = i
               /\ nodet[i].from = TakenBy(evt, nodet[i].first)
               /\ nodet[i].to = TakenBy(evt, nodet[i].last)
    <3>1. CASE i \in 1..Len(nodes) /\ nodet[i] = nodes[i]
      <4>1. /\ Finishes(evs, nodes[i].last) = i
            /\ nodes[i].from = TakenBy(evs, nodes[i].first)
            /\ nodes[i].to = TakenBy(evs, nodes[i].last)
        BY <3>1 DEF Nodes
      <4>2. nodes[i].last \in 0..Len(evs) /\ nodes[i].first \in 0..Len(evs) /\ nodes[i].last <= Len(evt)
        BY <1>3, <1>11, <3>1
      <4>. QED
        BY <1>7, <1>11, <3>1, <4>1, <4>2
    <3>2. CASE i = Len(nodes) + 1 /\ nodet[i] = x
      <4>1. Finishes(evs, Len(evs)) = Len(nodes)
        BY DEF Nodes
      <4>2. m.first \in 0..Len(evs)
        BY <1>5
      <4>. QED
        BY <1>3, <1>5, <1>7, <1>8, <3>2, <4>1, <4>2
    <3>. QED
      BY <1>4, <3>1, <3>2
  <2>2. ASSUME NEW i \in 1..Len(nodet), NEW j \in 1..Len(nodet), nodet[i].node = nodet[j].node
        PROVE  i = j
    <3>. DEFINE Old(k) == k \in 1..Len(nodes) /\ nodet[k] = nodes[k]
                New(k) == k = Len(nodes) + 1 /\ nodet[k] = x
    <3>1. (Old(i) \/ New(i)) /\ (Old(j) \/ New(j))
      BY <1>4
    <3>2. CASE Old(i) /\ Old(j)
      BY <2>2, <3>2 DEF Nodes
    <3>3. CASE Old(i) /\ New(j)
      BY <1>11, <2>2, <3>3
    <3>4. CASE New(i) /\ Old(j)
      BY <1>11, <2>2, <3>4
    <3>5. CASE New(i) /\ New(j)
      BY <3>5
    <3>. QED
      BY <3>1, <3>2, <3>3, <3>4, <3>5
  <2>3. ASSUME NEW e \in 1..Len(evt), evt[e].type = "start"
        PROVE  \E i \in 1..Len(nodet) : nodet[i].node = e
    <3>1. e \in 1..Len(evs)
      BY <1>3, <2>3
    <3>2. CASE e = p
      BY <1>2, <3>2
    <3>3. CASE e # p
      <4>0. evs[e].type = "start"
        BY <2>3, <3>1, <3>3
      <4>1. PICK i \in 1..Len(nodes) : nodes[i].node = e
        BY <3>1, <4>0 DEF Nodes
      <4>. QED
        BY <1>2, <4>1
    <3>. QED
      BY <3>2, <3>3
  <2>4. Finishes(evt, Len(evt)) = Len(nodet)
    BY <1>2, <1>8 DEF Nodes
  <2>. QED
    BY <2>1, <2>2, <2>3, <2>4 DEF Nodes
<1>13. Nested(nodet, opm)
  <2>1. ASSUME NEW j \in 1..Len(nodet), NEW i \in 1..j - 1
        PROVE  Apart(nodet[j].first, nodet[j].node, nodet[i])
    <3>1. i \in 1..Len(nodes) /\ nodet[i] = nodes[i]
      BY <1>2
    <3>. QED
      BY <1>4, <3>1 DEF Nested
  <2>2. ASSUME NEW i \in 1..Len(nodet), NEW d \in 1..Len(opm)
        PROVE  Apart(opm[d].first, opm[d].pos, nodet[i])
    <3>1. opm[d] = opn[d] /\ d \in 1..Len(opn)
      BY <1>1
    <3>2. CASE i \in 1..Len(nodes) /\ nodet[i] = nodes[i]
      BY <3>1, <3>2 DEF Nested
    <3>3. CASE nodet[i] = x
      <4>1. opm[d].first < nodet[i].first
        <5>1. opm[d].first <= opm[d].pos /\ opm[d].pos < m.first /\ nodet[i].first = m.first
          BY <1>9, <3>3
        <5>2. opm[d].first \in Nat /\ opm[d].pos \in Nat /\ m.first \in Nat
          BY <1>5, <1>9
        <5>. QED
          BY <5>1, <5>2
      <4>. QED
        BY <4>1 DEF Apart
    <3>. QED
      BY <1>4, <3>2, <3>3
  <2>. QED
    BY <2>1, <2>2 DEF Nested
<1>14. ASSUME NEW first, NEW pos, Placed(first, pos, nodes, opn)
       PROVE  Placed(first, pos, nodet, opm)
  <2>1. CASE \E i \in 1..Len(nodes) : nodes[i].node = pos /\ nodes[i].first = first
    BY <1>2, <2>1 DEF Placed
  <2>2. CASE \E d \in 1..Len(opn) : opn[d].pos = pos /\ opn[d].first = first
    <3>1. PICK d \in 1..Len(opn) : opn[d].pos = pos /\ opn[d].first = first
      BY <2>2
    <3>2. CASE d = Len(opn)
      BY <1>2, <3>1, <3>2 DEF Placed
    <3>3. CASE d # Len(opn)
      <4>1. d \in 1..Len(opm) /\ opm[d] = opn[d]
        BY <1>1, <3>3
      <4>. QED
        BY <3>1, <4>1 DEF Placed
    <3>. QED
      BY <3>2, <3>3
  <2>. QED
    BY <1>14, <2>1, <2>2 DEF Placed
<1>15. ASSUME NEW first, NEW pos, Led(first, pos, evs, nodes)
       PROVE  Led(first, pos, evt, nodet)
  <2>1. SUFFICES ASSUME first # pos
                 PROVE  \E i \in 1..Len(nodet) : nodet[i].first = first /\ nodet[i].node < pos
                                                 /\ Target(evt, nodet[i]) = pos
    BY DEF Led
  <2>2. PICK i \in 1..Len(nodes) : nodes[i].first = first /\ nodes[i].node < pos
                                   /\ Target(evs, nodes[i]) = pos
    BY <1>15, <2>1 DEF Led
  <2>. QED
    BY <1>2, <1>11, <2>2 DEF Target
<1>16. Chained(evt, nodet, opm)
  <2>1. ASSUME NEW i \in 1..Len(nodet), evt[nodet[i].node].forward # 0
        PROVE  Placed(nodet[i].first, Target(evt, nodet[i]), nodet, opm)
    <3>1. i \in 1..Len(nodes) /\ nodet[i] = nodes[i]
      BY <1>4, <2>1
    <3>2. /\ Target(evt, nodes[i]) = Target(evs, nodes[i])
          /\ evs[nodes[i].node].forward # 0
      BY <1>11, <2>1, <3>1 DEF Target
    <3>3. Placed(nodes[i].first, Target(evs, nodes[i]), nodes, opn)
      BY <3>1, <3>2 DEF Chained
    <3>. QED
      BY <1>14, <3>1, <3>2, <3>3
  <2>2. ASSUME NEW i \in 1..Len(nodet) PROVE Led(nodet[i].first, nodet[i].node, evt, nodet)
    <3>1. CASE i \in 1..Len(nodes) /\ nodet[i] = nodes[i]
      BY <1>15, <3>1 DEF Chained
    <3>2. CASE nodet[i] = x
      BY <1>4, <1>15, <3>2 DEF Chained
    <3>. QED
      BY <1>4, <3>1, <3>2
  <2>3. ASSUME NEW d \in 1..Len(opm) PROVE Led(opm[d].first, opm[d].pos, evt, nodet)
    BY <1>1, <1>15 DEF Chained
  <2>. QED
    BY <2>1, <2>2, <2>3 DEF Chained
<1>. QED
  BY <1>9, <1>10, <1>12, <1>13, <1>16 DEF opm, nodet

(* The node closed last gets a parent that starts with it.                 *)
LEMMA PrecedeKeeps ==
    ASSUME NEW evs \in Seq(Event), NEW evt \in Seq(Event), Len(evt) = Len(evs) + 1,
           NEW nodes \in Seq(Node), NEW opn \in Seq(Marker), nodes # <<>>,
           Markers(evs, opn), Nodes(evs, nodes), Nested(nodes, opn), Chained(evs, nodes, opn),
           NEW l, l = nodes[Len(nodes)], evs[l.node].forward = 0,
           \A e \in 1..Len(evs) : e # l.node => evt[e] = evs[e],
           evt[l.node].type = "start", l.node + evt[l.node].forward = Len(evs) + 1,
           evt[Len(evs) + 1].type = "tombstone",
           NEW m \in Marker, m.pos = Len(evs) + 1, m.first = l.first, m.from = l.from, m.precedes,
           \A d \in 1..Len(opn) : opn[d].pos < m.first
    PROVE  /\ Markers(evt, Append(opn, m)) /\ Nodes(evt, nodes)
           /\ Nested(nodes, Append(opn, m)) /\ Chained(evt, nodes, Append(opn, m))
<1>. DEFINE opm == Append(opn, m)
            p == l.node
<1>1. /\ opm \in Seq(Marker) /\ Len(opm) = Len(opn) + 1 /\ Len(opn) \in Nat
      /\ \A d \in 1..Len(opn) : opm[d] = opn[d] /\ d \in 1..Len(opm)
      /\ opm[Len(opn) + 1] = m /\ Len(opn) + 1 \in 1..Len(opm)
  OBVIOUS
<1>. HIDE DEF opm
<1>2. \A d \in 1..Len(opm) : (d \in 1..Len(opn) /\ opm[d] = opn[d]) \/ (d = Len(opn) + 1 /\ opm[d] = m)
  <2>1. \A d \in 1..Len(opm) : d \in 1..Len(opn) \/ d = Len(opn) + 1
    BY <1>1
  <2>. QED
    BY <1>1, <2>1
<1>3. Len(evs) \in Nat /\ Len(nodes) \in 1..Len(nodes) /\ Len(nodes) \in Nat
  BY LenProperties, EmptySeq
<1>4. ASSUME NEW i \in 1..Len(nodes)
      PROVE  /\ nodes[i].first \in 1..nodes[i].node /\ nodes[i].node < nodes[i].last
             /\ nodes[i].first \in 1..Len(evs) /\ nodes[i].node \in 1..Len(evs)
             /\ nodes[i].last \in 1..Len(evs)
             /\ evs[nodes[i].node].type = "start" /\ evs[nodes[i].last].type = "finish"
  <2>1. /\ nodes[i].first \in 1..nodes[i].node /\ nodes[i].node < nodes[i].last
        /\ nodes[i].first \in 1..Len(evs) /\ nodes[i].node \in 1..Len(evs)
        /\ nodes[i].last \in 1..Len(evs)
    BY NodeBounds
  <2>2. evs[nodes[i].node].type = "start" /\ evs[nodes[i].last].type = "finish"
    BY DEF Nodes
  <2>. QED
    BY <2>1, <2>2
<1>5. /\ l.first \in 1..p /\ l.first \in 1..Len(evs) /\ p \in 1..Len(evs) /\ p < l.last
      /\ l.last \in 1..Len(evs) /\ evs[p].type = "start" /\ l.from = TakenBy(evs, l.first)
  BY <1>3, <1>4 DEF Nodes
<1>6. ASSUME NEW i \in 1..Len(nodes)
      PROVE  /\ nodes[i].node = p => i = Len(nodes)
             /\ nodes[i].node # p => evt[nodes[i].node] = evs[nodes[i].node]
             /\ evt[nodes[i].last] = evs[nodes[i].last]
  <2>1. nodes[i].node = p => i = Len(nodes)
    BY <1>3 DEF Nodes
  <2>2. nodes[i].last # p
    BY <1>4, <1>5
  <2>. QED
    BY <1>4, <2>1, <2>2
<1>7. Alike(evs, evt, Len(evs))
  BY <1>5 DEF Alike
<1>8. \A n \in 0..Len(evs) : TakenBy(evt, n) = TakenBy(evs, n) /\ Finishes(evt, n) = Finishes(evs, n)
  <2>1. Len(evs) <= Len(evt)
    BY <1>3
  <2>. QED
    BY <2>1, <1>7, SameCounts
<1>9. Finishes(evt, Len(evt)) = Finishes(evs, Len(evs))
  <2>1. Len(evs) + 1 \in 1..Len(evt) /\ Len(evs) + 1 - 1 = Len(evs) /\ Len(evs) \in 0..Len(evs)
    BY <1>3
  <2>2. Finishes(evt, Len(evs) + 1) = Finishes(evt, Len(evs))
    BY <2>1, CountsNext
  <2>. QED
    BY <1>8, <2>1, <2>2
<1>10. ASSUME NEW d \in 1..Len(opn)
       PROVE  /\ opn[d].first \in 1..opn[d].pos /\ opn[d].first \in 1..Len(evs)
              /\ opn[d].pos \in 1..Len(evs) /\ opn[d].pos < m.first /\ opn[d].pos # p
  <2>1. /\ opn[d].first \in 1..opn[d].pos /\ opn[d].first \in 1..Len(evs)
        /\ opn[d].pos \in 1..Len(evs)
    BY MarkerBounds
  <2>. QED
    BY <1>5, <2>1
<1>11. Markers(evt, opm)
  <2>1. ASSUME NEW d \in 1..Len(opm), NEW c \in 1..d - 1 PROVE opm[c].pos < opm[d].first
    <3>1. c \in 1..Len(opn) /\ opm[c] = opn[c]
      BY <1>1
    <3>. QED
      BY <1>2, <3>1 DEF Markers
  <2>2. ASSUME NEW d \in 1..Len(opm)
        PROVE  /\ opm[d].first \in 1..opm[d].pos /\ opm[d].pos <= Len(evt)
               /\ evt[opm[d].pos].type = "tombstone" /\ opm[d].from = TakenBy(evt, opm[d].first)
               /\ ~opm[d].precedes => opm[d].first = opm[d].pos
    <3>1. CASE d \in 1..Len(opn) /\ opm[d] = opn[d]
      <4>1. evt[opn[d].pos] = evs[opn[d].pos] /\ TakenBy(evt, opn[d].first) = TakenBy(evs, opn[d].first)
            /\ opn[d].pos <= Len(evt)
        BY <1>3, <1>8, <1>10, <3>1
      <4>. QED
        BY <1>10, <3>1, <4>1 DEF Markers
    <3>2. CASE opm[d] = m
      <4>1. TakenBy(evt, l.first) = TakenBy(evs, l.first) /\ l.first \in 1..Len(evs) + 1
        BY <1>3, <1>5, <1>8
      <4>. QED
        BY <1>3, <1>5, <3>2, <4>1
    <3>. QED
      BY <1>2, <3>1, <3>2
  <2>. QED
    BY <2>1, <2>2 DEF Markers
<1>12. Nodes(evt, nodes)
  <2>1. ASSUME NEW i \in 1..Len(nodes)
        PROVE  /\ nodes[i].last <= Len(evt)
               /\ evt[nodes[i].node].type = "start" /\ evt[nodes[i].last].type = "finish"
               /\ Finishes(evt, nodes[i].last) = i
               /\ nodes[i].from = TakenBy(evt, nodes[i].first)
               /\ nodes[i].to = TakenBy(evt, nodes[i].last)
    <3>1. /\ Finishes(evs, nodes[i].last) = i
          /\ nodes[i].from = TakenBy(evs, nodes[i].first)
          /\ nodes[i].to = TakenBy(evs, nodes[i].last)
      BY DEF Nodes
    <3>2. nodes[i].last \in 0..Len(evs) /\ nodes[i].first \in 0..Len(evs) /\ nodes[i].last <= Len(evt)
      BY <1>3, <1>4
    <3>6. evt[nodes[i].last].type = "finish"
      <4>1. evt[nodes[i].last] = evs[nodes[i].last]
        BY <1>6
      <4>2. evs[nodes[i].last].type = "finish"
        BY <1>4
      <4>. QED
        BY <4>1, <4>2
    <3>7. evt[nodes[i].node].type = "start"
      <4>1. CASE nodes[i].node # p
        BY <1>4, <1>6, <4>1
      <4>. QED
        BY <4>1
    <3>3. evt[nodes[i].node].type = "start" /\ evt[nodes[i].last].type = "finish"
      BY <3>6, <3>7
    <3>4. /\ Finishes(evt, nodes[i].last) = Finishes(evs, nodes[i].last)
          /\ TakenBy(evt, nodes[i].first) = TakenBy(evs, nodes[i].first)
          /\ TakenBy(evt, nodes[i].last) = TakenBy(evs, nodes[i].last)
      BY <1>8, <3>2
    <3>. QED
      BY <3>1, <3>2, <3>3, <3>4
  <2>2. ASSUME NEW e \in 1..Len(evt), evt[e].type = "start"
        PROVE  \E i \in 1..Len(nodes) : nodes[i].node = e
    <3>1. e \in 1..Len(evs)
      BY <1>3, <2>2
    <3>2. evs[e].type = "start"
      BY <1>5, <2>2, <3>1
    <3>. QED
      BY <3>1, <3>2 DEF Nodes
  <2>. QED
    BY <1>9, <2>1, <2>2 DEF Nodes
<1>13. Nested(nodes, opm)
  <2>1. ASSUME NEW i \in 1..Len(nodes) PROVE Apart(m.first, m.pos, nodes[i])
    <3>1. CASE i = Len(nodes)
      BY <1>3, <1>4, <3>1 DEF Apart
    <3>2. CASE i # Len(nodes)
      <4>1. i \in 1..Len(nodes) - 1
        BY <1>3, <3>2
      <4>2. Apart(l.first, l.node, nodes[i])
        BY <1>3, <4>1 DEF Nested
      <4>. QED
        BY <1>3, <1>4, <4>2 DEF Apart
    <3>. QED
      BY <3>1, <3>2
  <2>. QED
    BY <1>2, <2>1 DEF Nested
<1>14. ASSUME NEW first, NEW pos, Placed(first, pos, nodes, opn)
       PROVE  Placed(first, pos, nodes, opm)
  BY <1>1, <1>14 DEF Placed
<1>15. ASSUME NEW first, NEW pos, Led(first, pos, evs, nodes)
       PROVE  Led(first, pos, evt, nodes)
  <2>1. SUFFICES ASSUME first # pos
                 PROVE  \E i \in 1..Len(nodes) : nodes[i].first = first /\ nodes[i].node < pos
                                                 /\ Target(evt, nodes[i]) = pos
    BY DEF Led
  <2>2. PICK i \in 1..Len(nodes) : nodes[i].first = first /\ nodes[i].node < pos
                                   /\ Target(evs, nodes[i]) = pos
    BY <1>15, <2>1 DEF Led
  <2>3. nodes[i].node # p
    <3>1. nodes[i].node \in Nat
      BY <1>4
    <3>. QED
      BY <2>2, <3>1 DEF Target
  <2>. QED
    BY <1>6, <2>2, <2>3 DEF Target
<1>16. Chained(evt, nodes, opm)
  <2>1. ASSUME NEW i \in 1..Len(nodes), evt[nodes[i].node].forward # 0
        PROVE  Placed(nodes[i].first, Target(evt, nodes[i]), nodes, opm)
    <3>1. CASE nodes[i].node = p
      <4>1. i = Len(nodes) /\ Target(evt, nodes[i]) = m.pos
        BY <1>6, <3>1 DEF Target
      <4>. QED
        BY <1>1, <4>1 DEF Placed
    <3>2. CASE nodes[i].node # p
      <4>1. /\ Target(evt, nodes[i]) = Target(evs, nodes[i])
            /\ evs[nodes[i].node].forward # 0
        BY <1>6, <2>1, <3>2 DEF Target
      <4>2. Placed(nodes[i].first, Target(evs, nodes[i]), nodes, opn)
        BY <4>1 DEF Chained
      <4>. QED
        BY <1>14, <4>1, <4>2
    <3>. QED
      BY <3>1, <3>2
  <2>2. ASSUME NEW i \in 1..Len(nodes) PROVE Led(nodes[i].first, nodes[i].node, evt, nodes)
    BY <1>15 DEF Chained
  <2>3. ASSUME NEW d \in 1..Len(opm) PROVE Led(opm[d].first, opm[d].pos, evt, nodes)
    <3>1. CASE d \in 1..Len(opn) /\ opm[d] = opn[d]
      BY <1>15, <3>1 DEF Chained
    <3>2. CASE opm[d] = m
      <4>1. Target(evt, l) = m.pos /\ l.node < m.pos
        BY <1>3, <1>5 DEF Target
      <4>. QED
        BY <1>3, <3>2, <4>1 DEF Led
    <3>. QED
      BY <1>2, <3>1, <3>2
  <2>. QED
    BY <2>1, <2>2, <2>3 DEF Chained
<1>. QED
  BY <1>11, <1>12, <1>13, <1>16 DEF opm

-----------------------------------------------------------------------------
(* A function given by recursion on a number satisfies its definition, and *)
(* so do the offsets of the tokens and the length of a text.               *)

(* A function whose values follow from the one before exists.              *)
Following(f, a, b, x, h) == [n \in a..b |-> IF n = a THEN x ELSE h[<<n, f[n - 1]>>]]
LEMMA FollowingExists ==
    ASSUME NEW a \in Nat, NEW b \in Nat, a <= b, NEW x, NEW h
    PROVE  \E f : f = Following(f, a, b, x, h)
<1>. DEFINE Good == {k \in a..b : \E f : f = Following(f, a, k, x, h)}
<1>1. a \in Good
  <2>. DEFINE r == [n \in a..a |-> x]
  <2>1. \A n \in a..a : n = a
    OBVIOUS
  <2>2. r = Following(r, a, a, x, h)
    BY <2>1 DEF Following
  <2>. QED
    BY <2>2
<1>2. ASSUME NEW k \in a + 1..b, k - 1 \in Good PROVE k \in Good
  <2>1. PICK r : r = Following(r, a, k - 1, x, h)
    BY <1>2
  <2>. DEFINE g == Following(r, a, k, x, h)
  <2>2. ASSUME NEW n \in a + 1..k PROVE g[n - 1] = r[n - 1]
    <3>1. n - 1 \in a..k /\ n - 1 \in a..k - 1
      OBVIOUS
    <3>2. g[n - 1] = Following(r, a, k - 1, x, h)[n - 1]
      BY <3>1 DEF Following
    <3>. QED
      BY <2>1, <3>2
  <2>3. g = Following(g, a, k, x, h)
    <3>1. ASSUME NEW n \in a..k
          PROVE  (IF n = a THEN x ELSE h[<<n, r[n - 1]>>])
                 = IF n = a THEN x ELSE h[<<n, g[n - 1]>>]
      <4>1. CASE n = a
        BY <4>1
      <4>2. CASE n # a
        <5>1. n \in a + 1..k
          BY <4>2
        <5>2. g[n - 1] = r[n - 1]
          BY <2>2, <5>1
        <5>. HIDE DEF g
        <5>. QED
          BY <5>2
      <4>. QED
        BY <4>1, <4>2
    <3>. QED
      BY <3>1, Zenon DEF Following
  <2>4. k \in a..b
    OBVIOUS
  <2>. QED
    BY <2>3, <2>4
<1>3. a..b \subseteq Good
  <2>. HIDE DEF Good
  <2>. QED
    BY <1>1, <1>2, Upwards
<1>. QED
  BY <1>3

LEMMA SizeIsNat == \A kind : Size(kind) \in Nat
  BY DEF Size

Offsets(at) == [k \in 1..Len(tokens) + 1 |-> IF k = 1 THEN 0 ELSE at[k - 1] + Size(tokens[k - 1])]
LEMMA OffsetsAre ==
    ASSUME tokens \in Seq(Kinds)
    PROVE  /\ \A i \in 1..Len(tokens) + 1 : Offset(i) \in Nat
           /\ Offset(1) = 0
           /\ \A i \in 1..Len(tokens) : Offset(i + 1) = Offset(i) + Size(tokens[i])
<1>. DEFINE last1 == Len(tokens) + 1
            h == [z \in (1..last1) \X Nat |-> z[2] + Size(tokens[z[1] - 1])]
            f == CHOOSE at : at = Offsets(at)
<1>1. last1 \in Nat /\ 1 <= last1 /\ Len(tokens) \in Nat
  OBVIOUS
<1>2. PICK g : g = Following(g, 1, last1, 0, h)
  <2>. HIDE DEF last1, h
  <2>. QED
    BY <1>1, FollowingExists
<1>3. \A k \in 1..last1 : g[k] \in Nat
  <2>. DEFINE S == {k \in 1..last1 : g[k] \in Nat}
  <2>1. 1 \in S
    <3>1. 1 \in 1..last1
      BY <1>1
    <3>2. g[1] = Following(g, 1, last1, 0, h)[1]
      BY <1>2
    <3>. QED
      BY <3>1, <3>2 DEF Following
  <2>2. ASSUME NEW k \in 1 + 1..last1, k - 1 \in S PROVE k \in S
    <3>1. k \in 1..last1 /\ k # 1 /\ g[k - 1] \in Nat
      BY <2>2
    <3>2. g[k] = Following(g, 1, last1, 0, h)[k]
      BY <1>2
    <3>3. g[k] = h[<<k, g[k - 1]>>]
      <4>. HIDE DEF h
      <4>. QED
        BY <3>1, <3>2 DEF Following
    <3>4. h[<<k, g[k - 1]>>] = g[k - 1] + Size(tokens[k - 1])
      BY <3>1
    <3>. QED
      BY <3>1, <3>3, <3>4, SizeIsNat
  <2>3. 1..last1 \subseteq S
    <3>. HIDE DEF S, h, last1
    <3>. QED
      BY <1>1, <2>1, <2>2, Upwards
  <2>. QED
    BY <2>3
<1>4. g = Offsets(g)
  <2>1. ASSUME NEW k \in 1..last1
        PROVE  (IF k = 1 THEN 0 ELSE h[<<k, g[k - 1]>>])
               = IF k = 1 THEN 0 ELSE g[k - 1] + Size(tokens[k - 1])
    <3>1. CASE k = 1
      BY <3>1
    <3>2. CASE k # 1
      <4>1. k - 1 \in 1..last1
        BY <3>2
      <4>2. g[k - 1] \in Nat
        BY <1>3, <4>1
      <4>. QED
        BY <3>2, <4>2
    <3>. QED
      BY <3>1, <3>2
  <2>. HIDE DEF h
  <2>2. Following(g, 1, last1, 0, h) = Offsets(g)
    BY <2>1, Zenon DEF Following, Offsets
  <2>. QED
    BY <1>2, <2>2
<1>5. f = Offsets(f)
  BY <1>4
<1>6. \A i : Offset(i) = f[i]
  BY Zenon DEF Offset, Offsets
<1>. HIDE DEF f
<1>7. f[1] = 0 /\ \A i \in 1..Len(tokens) : f[i + 1] = f[i] + Size(tokens[i])
  <2>1. f[1] = Offsets(f)[1] /\ 1 \in 1..last1
    BY <1>1, <1>5
  <2>2. ASSUME NEW i \in 1..Len(tokens) PROVE f[i + 1] = f[i] + Size(tokens[i])
    <3>1. f[i + 1] = Offsets(f)[i + 1] /\ i + 1 \in 1..last1 /\ i + 1 # 1 /\ i + 1 - 1 = i
      BY <1>1, <1>5
    <3>. QED
      BY <3>1 DEF Offsets
  <2>. QED
    BY <2>1, <2>2 DEF Offsets
<1>8. \A k \in 1..last1 : f[k] \in Nat
  <2>. DEFINE S == {k \in 1..last1 : f[k] \in Nat}
  <2>1. 1 \in S
    BY <1>1, <1>7
  <2>2. ASSUME NEW k \in 1 + 1..last1, k - 1 \in S PROVE k \in S
    <3>1. k - 1 \in 1..Len(tokens) /\ k - 1 + 1 = k /\ f[k - 1] \in Nat
      BY <2>2
    <3>2. f[k] = f[k - 1] + Size(tokens[k - 1])
      BY <1>7, <3>1
    <3>. QED
      BY <3>1, <3>2, SizeIsNat
  <2>3. 1..last1 \subseteq S
    <3>. HIDE DEF S, last1
    <3>. QED
      BY <1>1, <2>1, <2>2, Upwards
  <2>. QED
    BY <2>3
<1>. QED
  BY <1>6, <1>7, <1>8

(* Pieces that follow each other are as long as where the last one ends.   *)
Joined(body) ==
    \A i \in 1..Len(body) : body[i].from = IF i = 1 THEN 0 ELSE body[i - 1].to
End(body, n) == IF n = 0 THEN 0 ELSE body[n].to
Sums(sum, body, n) ==
    [i \in 0..n |-> IF i = 0 THEN 0 ELSE sum[i - 1] + (body[i].to - body[i].from)]
LEMMA JoinedLength ==
    ASSUME NEW body, NEW n \in Nat, n <= Len(body), Len(body) \in Nat, Joined(body),
           \A i \in 1..n : body[i].to \in Nat
    PROVE  Length(body, n) = End(body, n)
<1>. DEFINE g == [i \in 0..n |-> End(body, i)]
            f == CHOOSE sum : sum = Sums(sum, body, n)
<1>1. ASSUME NEW i \in 0..n
      PROVE  End(body, i) = IF i = 0 THEN 0 ELSE g[i - 1] + (body[i].to - body[i].from)
  <2>1. CASE i = 0
    BY <2>1 DEF End
  <2>2. CASE i # 0
    <3>1. i \in 1..n /\ i \in 1..Len(body) /\ i - 1 \in 0..n /\ (i = 1 <=> i - 1 = 0)
          /\ (i # 1 => i - 1 \in 1..n)
      BY <2>2
    <3>2. body[i].from = End(body, i - 1) /\ End(body, i - 1) \in Nat /\ body[i].to \in Nat
      BY <3>1 DEF Joined, End
    <3>3. g[i - 1] = End(body, i - 1)
      BY <3>1
    <3>4. End(body, i) = body[i].to
      BY <3>1 DEF End
    <3>. HIDE DEF g
    <3>. QED
      BY <2>2, <3>2, <3>3, <3>4
  <2>. QED
    BY <2>1, <2>2
<1>2. g = Sums(g, body, n)
  BY <1>1, Zenon DEF Sums
<1>3. f = Sums(f, body, n)
  <2>. HIDE DEF g
  <2>. QED
    BY <1>2
<1>4. Length(body, n) = f[n]
  BY Zenon DEF Length, Sums
<1>. HIDE DEF f, g
<1>5. 0..n \subseteq {i \in 0..n : f[i] = End(body, i)}
  <2>. DEFINE S == {i \in 0..n : f[i] = End(body, i)}
  <2>0. 0 \in 0..n /\ 0 \in Nat
    OBVIOUS
  <2>1. 0 \in S
    <3>1. f[0] = Sums(f, body, n)[0]
      BY <1>3
    <3>. QED
      BY <2>0, <3>1 DEF Sums, End
  <2>2. ASSUME NEW k \in 0 + 1..n, k - 1 \in S PROVE k \in S
    <3>1. k \in 0..n /\ k # 0 /\ k - 1 \in 0..n /\ f[k - 1] = End(body, k - 1)
      BY <2>2
    <3>2. f[k] = Sums(f, body, n)[k]
      BY <1>3
    <3>3. f[k] = f[k - 1] + (body[k].to - body[k].from)
      BY <3>1, <3>2 DEF Sums
    <3>4. End(body, k) = g[k - 1] + (body[k].to - body[k].from)
      BY <1>1, <3>1
    <3>5. g[k - 1] = End(body, k - 1)
      BY <3>1 DEF g
    <3>. QED
      BY <3>1, <3>3, <3>4, <3>5
  <2>3. 0..n \subseteq S
    <3>. HIDE DEF S
    <3>. QED
      BY <2>0, <2>1, <2>2, Upwards
  <2>. QED
    BY <2>3
<1>. QED
  BY <1>4, <1>5

-----------------------------------------------------------------------------
(* The events and the tokens they take.                                    *)

LEMMA NthIs ==
    ASSUME tokens \in Seq(Kinds), cursor \in Nat
    PROVE  /\ Indices \subseteq 1..Len(tokens)
           /\ AtEnd <=> ~\E i \in Indices : CountTo(Indices, i) = cursor + 1
           /\ ~AtEnd => Nth(1) \in Indices /\ CountTo(Indices, Nth(1)) = cursor + 1
           /\ \A i, j \in Indices : CountTo(Indices, i) = CountTo(Indices, j) => i = j
<1>. DEFINE at == {i \in Indices : CountTo(Indices, i) = cursor + 1}
<1>1. Indices \subseteq 1..Len(tokens) /\ Len(tokens) \in Nat
  BY DEF Indices
<1>2. Nth(1) = IF at = {} THEN 0 ELSE CHOOSE i \in at : TRUE
  BY DEF Nth
<1>3. at # {} => Nth(1) \in at /\ Nth(1) # 0
  <2>1. ASSUME at # {} PROVE Nth(1) \in at
    <3>. HIDE DEF at
    <3>. QED
      BY <1>2, <2>1
  <2>2. 0 \notin at
    BY <1>1
  <2>. QED
    BY <2>1, <2>2
<1>4. ASSUME NEW i \in Indices, NEW j \in Indices, CountTo(Indices, i) = CountTo(Indices, j)
      PROVE  i = j
  <2>1. i \in Nat /\ j \in Nat
    BY <1>1
  <2>2. CountTo(Indices, i) \in Nat
    BY <2>1, CountIsNat
  <2>3. CASE i < j
    BY <1>4, <2>1, <2>2, <2>3, CountGrows
  <2>4. CASE j < i
    BY <1>4, <2>1, <2>2, <2>4, CountGrows
  <2>. QED
    BY <2>1, <2>3, <2>4
<1>. QED
  BY <1>1, <1>2, <1>3, <1>4 DEF AtEnd

(* The kinds of events.                                                    *)
LEMMA EventsAre ==
    /\ Tombstone \in Event /\ AddToken \in Event /\ AdvanceSource \in Event /\ FinishNode \in Event
    /\ Tombstone.type = "tombstone" /\ AddToken.type = "token" /\ AdvanceSource.type = "advance"
    /\ FinishNode.type = "finish"
    /\ \A f \in Nat : /\ StartNode(f) \in Event /\ StartNode(f).type = "start"
                      /\ StartNode(f).forward = f
    /\ \A p \in Pieces : /\ AddVirtualToken(p) \in Event /\ AddVirtualToken(p).type = "virtual"
                         /\ AddVirtualToken(p).piece = p
  BY DEF Event, Tombstone, AddToken, AdvanceSource, FinishNode, StartNode, AddVirtualToken

(* What stays true of the tokens when events are appended.                 *)
Extends(evs, evt) ==
    /\ Len(evs) <= Len(evt)
    /\ \A e \in 1..Len(evs) : /\ evs[e].type \in {"token", "virtual", "advance"} => evt[e] = evs[e]
                              /\ evs[e].type \notin {"token", "virtual", "advance"} =>
                                    evt[e].type \notin {"token", "virtual", "advance"}
    /\ Alike(evs, evt, Len(evs))
Placing(solid, at, evs, e) ==
    /\ evs[e].type = "token" =>
          Halves(evs, e - 1, 0) /\ \E i \in solid : NextToken(solid, evs, e - 1, i)
    /\ evs[e].type = "virtual" =>
          \E i \in solid : NextToken(solid, evs, e - 1, i)
                            /\ (IsHead(solid, at, evs, e, i) \/ IsRest(solid, at, evs, e, i))
    /\ evs[e].type = "advance" =>
          e > 1 /\ evs[e - 1].type = "virtual" /\ Halves(evs, e - 1, 2)
LEMMA PlacingKept ==
    ASSUME NEW evs \in Seq(Event), NEW evt \in Seq(Event), NEW solid, NEW at,
           Extends(evs, evt), NEW e \in 1..Len(evs), Placing(solid, at, evs, e)
    PROVE  Placing(solid, at, evt, e)
<1>1. /\ Len(evs) \in Nat /\ Len(evt) \in Nat /\ Len(evs) <= Len(evt) /\ e - 1 \in 0..Len(evs)
      /\ e \in Nat
  BY DEF Extends
<1>2. /\ Moved(evt, e - 1) = Moved(evs, e - 1) /\ Virtuals(evt, e - 1) = Virtuals(evs, e - 1)
      /\ Advances(evt, e - 1) = Advances(evs, e - 1)
  BY <1>1, SameCounts DEF Extends
<1>3. \A h : Halves(evt, e - 1, h) <=> Halves(evs, e - 1, h)
  BY <1>2 DEF Halves
<1>4. \A i : NextToken(solid, evt, e - 1, i) <=> NextToken(solid, evs, e - 1, i)
  BY <1>2 DEF NextToken
<1>5. /\ evs[e].type \in {"token", "virtual", "advance"} => evt[e] = evs[e]
      /\ evt[e].type \in {"token", "virtual", "advance"} => evt[e] = evs[e]
  BY DEF Extends
<1>6. ASSUME evt[e].type = "virtual", NEW i \in solid,
             IsHead(solid, at, evs, e, i) \/ IsRest(solid, at, evs, e, i)
      PROVE  IsHead(solid, at, evt, e, i) \/ IsRest(solid, at, evt, e, i)
  <2>1. evt[e] = evs[e]
    BY <1>5, <1>6
  <2>2. CASE IsHead(solid, at, evs, e, i)
    BY <1>3, <2>1, <2>2 DEF IsHead
  <2>3. CASE IsRest(solid, at, evs, e, i)
    <3>1. e + 1 \in 1..Len(evs) /\ evs[e + 1].type = "advance" /\ e < Len(evt)
      BY <1>1, <2>3 DEF IsRest
    <3>2. evt[e + 1].type = "advance"
      BY <3>1 DEF Extends
    <3>. QED
      BY <1>3, <2>1, <2>3, <3>1, <3>2 DEF IsRest
  <2>. QED
    BY <1>6, <2>2, <2>3
<1>7. ASSUME evt[e].type = "advance"
      PROVE  e > 1 /\ evt[e - 1].type = "virtual" /\ Halves(evt, e - 1, 2)
  <2>1. evs[e].type = "advance"
    BY <1>5, <1>7
  <2>2. e > 1 /\ evs[e - 1].type = "virtual" /\ Halves(evs, e - 1, 2)
    BY <2>1 DEF Placing
  <2>3. e - 1 \in 1..Len(evs)
    BY <1>1, <2>2
  <2>4. evt[e - 1] = evs[e - 1]
    BY <2>2, <2>3 DEF Extends
  <2>. QED
    BY <1>3, <2>2, <2>4
<1>8. ASSUME evt[e].type = "virtual"
      PROVE  \E i \in solid : NextToken(solid, evt, e - 1, i)
                            /\ (IsHead(solid, at, evt, e, i) \/ IsRest(solid, at, evt, e, i))
  BY <1>4, <1>5, <1>6, <1>8 DEF Placing
<1>9. ASSUME evt[e].type = "token"
      PROVE  Halves(evt, e - 1, 0) /\ \E i \in solid : NextToken(solid, evt, e - 1, i)
  BY <1>3, <1>4, <1>5, <1>9 DEF Placing
<1>. QED
  BY <1>7, <1>8, <1>9 DEF Placing

LEMMA FollowsIs ==
    ASSUME NEW solid, NEW at, NEW evs, NEW cur, NEW ovr
    PROVE  Follows(solid, at, evs, cur, ovr)
           <=> /\ cur = Moved(evs, Len(evs))
               /\ \A e \in 1..Len(evs) : Placing(solid, at, evs, e)
               /\ ovr = None => Halves(evs, Len(evs), 0)
               /\ ovr # None => /\ Halves(evs, Len(evs), 1)
                                /\ \E i \in solid : NextToken(solid, evs, Len(evs), i)
                                                   /\ ovr.piece = RestOf(at, i)
  BY Zenon DEF Follows, Placing

(* The end of a node, or a place for one.                                  *)
LEMMA FollowsMark ==
    ASSUME NEW solid, NEW at, NEW evs \in Seq(Event), NEW cur, NEW ovr,
           Follows(solid, at, evs, cur, ovr),
           NEW evt \in Seq(Event), Extends(evs, evt), Len(evt) = Len(evs) + 1,
           evt[Len(evs) + 1].type \in {"tombstone", "finish"}
    PROVE  Follows(solid, at, evt, cur, ovr)
<1>1. Len(evs) \in Nat /\ Len(evs) + 1 \in 1..Len(evt) /\ Len(evs) + 1 - 1 = Len(evs)
      /\ Len(evs) \in 0..Len(evs)
  OBVIOUS
<1>2. /\ Moved(evt, Len(evt)) = Moved(evs, Len(evs)) /\ Virtuals(evt, Len(evt)) = Virtuals(evs, Len(evs))
      /\ Advances(evt, Len(evt)) = Advances(evs, Len(evs))
  <2>1. /\ Moved(evt, Len(evt)) = Moved(evt, Len(evs)) /\ Virtuals(evt, Len(evt)) = Virtuals(evt, Len(evs))
        /\ Advances(evt, Len(evt)) = Advances(evt, Len(evs))
    BY <1>1, CountsNext
  <2>. QED
    BY <1>1, <2>1, SameCounts DEF Extends
<1>3. ASSUME NEW e \in 1..Len(evt) PROVE Placing(solid, at, evt, e)
  <2>1. CASE e \in 1..Len(evs)
    BY <2>1, PlacingKept, FollowsIs
  <2>2. CASE e = Len(evs) + 1
    BY <2>2 DEF Placing
  <2>. QED
    BY <1>1, <2>1, <2>2
<1>4. /\ \A h : Halves(evt, Len(evt), h) <=> Halves(evs, Len(evs), h)
      /\ \A i : NextToken(solid, evt, Len(evt), i) <=> NextToken(solid, evs, Len(evs), i)
  BY <1>2 DEF Halves, NextToken
<1>. QED
  BY <1>2, <1>3, <1>4, FollowsIs

(* A whole token, the first character of one, and what is left of one.     *)
LEMMA FollowsToken ==
    ASSUME NEW solid, NEW at, NEW evs \in Seq(Event), NEW cur, NEW ovr, ovr = None,
           Follows(solid, at, evs, cur, ovr),
           NEW evt \in Seq(Event), Extends(evs, evt), Len(evt) = Len(evs) + 1,
           evt[Len(evs) + 1].type = "token",
           NEW i \in solid, CountTo(solid, i) = cur + 1
    PROVE  Follows(solid, at, evt, cur + 1, ovr)
<1>1. Len(evs) \in Nat /\ Len(evs) + 1 \in 1..Len(evt) /\ Len(evs) + 1 - 1 = Len(evs)
      /\ Len(evs) \in 0..Len(evs)
  OBVIOUS
<1>2. /\ Moved(evt, Len(evs)) = Moved(evs, Len(evs)) /\ Virtuals(evt, Len(evs)) = Virtuals(evs, Len(evs))
      /\ Advances(evt, Len(evs)) = Advances(evs, Len(evs))
  BY <1>1, SameCounts DEF Extends
<1>3. /\ Moved(evt, Len(evt)) = cur + 1 /\ Virtuals(evt, Len(evt)) = Virtuals(evs, Len(evs))
      /\ Advances(evt, Len(evt)) = Advances(evs, Len(evs)) /\ cur = Moved(evs, Len(evs))
  BY <1>1, <1>2, CountsNext, FollowsIs
<1>4. Halves(evt, Len(evs), 0) /\ Halves(evt, Len(evt), 0) /\ NextToken(solid, evt, Len(evs), i)
  BY <1>2, <1>3, FollowsIs DEF Halves, NextToken
<1>5. ASSUME NEW e \in 1..Len(evt) PROVE Placing(solid, at, evt, e)
  <2>1. CASE e \in 1..Len(evs)
    BY <2>1, PlacingKept, FollowsIs
  <2>2. CASE e = Len(evs) + 1
    BY <1>1, <1>4, <2>2 DEF Placing
  <2>. QED
    BY <1>1, <2>1, <2>2
<1>. QED
  BY <1>3, <1>4, <1>5, FollowsIs

LEMMA FollowsHead ==
    ASSUME NEW solid, NEW at, NEW evs \in Seq(Event), NEW cur, NEW ovr, ovr = None,
           Follows(solid, at, evs, cur, ovr),
           NEW evt \in Seq(Event), Extends(evs, evt), Len(evt) = Len(evs) + 1,
           NEW i \in solid, CountTo(solid, i) = cur + 1, i = 1 \/ i - 1 \in solid,
           evt[Len(evs) + 1].type = "virtual", evt[Len(evs) + 1].piece = HeadOf(at, i),
           NEW rest, rest # None, rest.piece = RestOf(at, i)
    PROVE  Follows(solid, at, evt, cur, rest)
<1>1. Len(evs) \in Nat /\ Len(evs) + 1 \in 1..Len(evt) /\ Len(evs) + 1 - 1 = Len(evs)
      /\ Len(evs) \in 0..Len(evs)
  OBVIOUS
<1>2. /\ Moved(evt, Len(evs)) = Moved(evs, Len(evs)) /\ Virtuals(evt, Len(evs)) = Virtuals(evs, Len(evs))
      /\ Advances(evt, Len(evs)) = Advances(evs, Len(evs))
  BY <1>1, SameCounts DEF Extends
<1>3. /\ Moved(evt, Len(evt)) = cur /\ Virtuals(evt, Len(evt)) = Virtuals(evs, Len(evs)) + 1
      /\ Advances(evt, Len(evt)) = Advances(evs, Len(evs)) /\ cur = Moved(evs, Len(evs))
  BY <1>1, <1>2, CountsNext, FollowsIs
<1>4. /\ Halves(evt, Len(evs), 0) /\ Halves(evt, Len(evt), 1) /\ NextToken(solid, evt, Len(evs), i)
      /\ NextToken(solid, evt, Len(evt), i)
  <2>1. Virtuals(evs, Len(evs)) \in Nat /\ Advances(evs, Len(evs)) \in Nat
    BY <1>1, CountsAreNat
  <2>. QED
    BY <1>2, <1>3, <2>1, FollowsIs DEF Halves, NextToken
<1>5. ASSUME NEW e \in 1..Len(evt) PROVE Placing(solid, at, evt, e)
  <2>1. CASE e \in 1..Len(evs)
    BY <2>1, PlacingKept, FollowsIs
  <2>2. CASE e = Len(evs) + 1
    BY <1>1, <1>4, <2>2 DEF Placing, IsHead
  <2>. QED
    BY <1>1, <2>1, <2>2
<1>. QED
  BY <1>3, <1>4, <1>5, FollowsIs

LEMMA FollowsRest ==
    ASSUME NEW solid, NEW at, NEW evs \in Seq(Event), NEW cur, NEW ovr, ovr # None,
           Follows(solid, at, evs, cur, ovr),
           NEW evt \in Seq(Event), Extends(evs, evt), Len(evt) = Len(evs) + 2,
           evt[Len(evs) + 1].type = "virtual", evt[Len(evs) + 1].piece = ovr.piece,
           evt[Len(evs) + 2].type = "advance"
    PROVE  Follows(solid, at, evt, cur + 1, None)
<1>1. Len(evs) \in Nat /\ Len(evs) + 1 \in 1..Len(evt) /\ Len(evs) + 1 - 1 = Len(evs)
      /\ Len(evs) \in 0..Len(evs) /\ Len(evs) + 2 \in 1..Len(evt) /\ Len(evs) + 2 - 1 = Len(evs) + 1
  OBVIOUS
<1>2. /\ Moved(evt, Len(evs)) = Moved(evs, Len(evs)) /\ Virtuals(evt, Len(evs)) = Virtuals(evs, Len(evs))
      /\ Advances(evt, Len(evs)) = Advances(evs, Len(evs))
  BY <1>1, SameCounts DEF Extends
<1>3. /\ Moved(evt, Len(evs) + 1) = cur /\ Virtuals(evt, Len(evs) + 1) = Virtuals(evs, Len(evs)) + 1
      /\ Advances(evt, Len(evs) + 1) = Advances(evs, Len(evs)) /\ cur = Moved(evs, Len(evs))
  BY <1>1, <1>2, CountsNext, FollowsIs
<1>4. /\ Moved(evt, Len(evt)) = cur + 1 /\ Virtuals(evt, Len(evt)) = Virtuals(evs, Len(evs)) + 1
      /\ Advances(evt, Len(evt)) = Advances(evs, Len(evs)) + 1
  BY <1>1, <1>3, CountsNext
<1>5. PICK i \in solid : NextToken(solid, evs, Len(evs), i) /\ ovr.piece = RestOf(at, i)
  BY FollowsIs
<1>6. /\ Halves(evt, Len(evs), 1) /\ Halves(evt, Len(evs) + 1, 2) /\ Halves(evt, Len(evt), 0)
      /\ NextToken(solid, evt, Len(evs), i)
  <2>1. Virtuals(evs, Len(evs)) \in Nat /\ Advances(evs, Len(evs)) \in Nat
    BY <1>1, CountsAreNat
  <2>2. Halves(evs, Len(evs), 1)
    BY FollowsIs
  <2>. QED
    BY <1>2, <1>3, <1>4, <1>5, <2>1, <2>2 DEF Halves, NextToken
<1>7. ASSUME NEW e \in 1..Len(evt) PROVE Placing(solid, at, evt, e)
  <2>1. CASE e \in 1..Len(evs)
    BY <2>1, PlacingKept, FollowsIs
  <2>2. CASE e = Len(evs) + 1
    <3>1. IsRest(solid, at, evt, e, i)
      BY <1>1, <1>5, <1>6, <2>2 DEF IsRest
    <3>. QED
      BY <1>1, <1>6, <2>2, <3>1 DEF Placing
  <2>3. CASE e = Len(evs) + 2
    BY <1>1, <1>6, <2>3 DEF Placing
  <2>. QED
    BY <1>1, <2>1, <2>2, <2>3
<1>. QED
  BY <1>4, <1>6, <1>7, FollowsIs

-----------------------------------------------------------------------------
(* What the steps of the parser write.                                     *)

LEMMA AppendIs ==
    ASSUME NEW T, NEW s \in Seq(T), NEW x \in T
    PROVE  /\ Append(s, x) \in Seq(T) /\ Len(Append(s, x)) = Len(s) + 1 /\ Len(s) \in Nat
           /\ \A d \in 1..Len(s) : Append(s, x)[d] = s[d]
           /\ Append(s, x)[Len(s) + 1] = x
  OBVIOUS

LEMMA PutIs ==
    ASSUME NEW T, NEW s \in Seq(T), NEW x \in T, NEW p \in 1..Len(s)
    PROVE  LET t == [s EXCEPT ![p] = x] IN
           /\ t \in Seq(T) /\ Len(t) = Len(s)
           /\ \A d \in 1..Len(s) : t[d] = IF d = p THEN x ELSE s[d]
  OBVIOUS

LEMMA SamePrefix ==
    ASSUME NEW T, NEW s \in Seq(T), NEW t \in Seq(T), NEW n \in Nat, n <= Len(s), n <= Len(t),
           \A d \in 1..n : t[d] = s[d]
    PROVE  SubSeq(t, 1, n) = SubSeq(s, 1, n)
<1>1. n \in 0..Len(s) /\ n \in 0..Len(t)
  OBVIOUS
<1>2. /\ SubSeq(s, 1, n) \in Seq(T) /\ Len(SubSeq(s, 1, n)) = n
      /\ SubSeq(t, 1, n) \in Seq(T) /\ Len(SubSeq(t, 1, n)) = n
      /\ \A d \in 1..n : SubSeq(t, 1, n)[d] = SubSeq(s, 1, n)[d]
  BY <1>1, PrefixIs
<1>. QED
  BY <1>2, SeqEqual

LEMMA PieceIs ==
    ASSUME tokens \in Seq(Kinds), NEW i \in Indices
    PROVE  /\ i \in 1..Len(tokens) /\ Piece(i) \in Pieces /\ Offset(i) \in Nat /\ Offset(i + 1) \in Nat
           /\ Piece(i) = [from |-> At[i], to |-> At[i + 1]]
           /\ [Piece(i) EXCEPT !.to = Piece(i).from + 1] = HeadOf(At, i)
           /\ [Piece(i) EXCEPT !.from = @ + 1] = RestOf(At, i)
           /\ HeadOf(At, i) \in Pieces /\ RestOf(At, i) \in Pieces
<1>1. i \in 1..Len(tokens) /\ Len(tokens) \in Nat
  BY DEF Indices
<1>2. i \in 1..Len(tokens) + 1 /\ i + 1 \in 1..Len(tokens) + 1
  BY <1>1
<1>3. Offset(i) \in Nat /\ Offset(i + 1) \in Nat
  BY <1>2, OffsetsAre
<1>4. At[i] = Offset(i) /\ At[i + 1] = Offset(i + 1)
  BY <1>2 DEF At
<1>5. Piece(i) = [from |-> At[i], to |-> At[i + 1]]
  BY <1>4 DEF Piece
<1>. QED
  BY <1>1, <1>3, <1>4, <1>5 DEF HeadOf, RestOf, Pieces

LEMMA SplitIs ==
    ASSUME Typed, ~AtEnd, NEW rest, Split(rest)
    PROVE  LET i == Nth(1) IN
           /\ i \in Indices /\ CountTo(Indices, i) = cursor + 1
           /\ events' = Append(events, AddVirtualToken(HeadOf(At, i)))
           /\ override' = [kind |-> rest, piece |-> RestOf(At, i)]
           /\ HeadOf(At, i) \in Pieces /\ RestOf(At, i) \in Pieces
           /\ meant'.taken = meant.taken + 1 /\ meant'.nodes = meant.nodes
           /\ meant' \in [taken : Nat, nodes : Seq(Node), clean : BOOLEAN]
           /\ meant'.clean => meant.clean /\ override = None /\ (i = 1 \/ i - 1 \in Indices)
<1>. DEFINE i == Nth(1)
<1>1. i \in Indices /\ CountTo(Indices, i) = cursor + 1 /\ i \in 1..Len(tokens)
  BY NthIs, PieceIs DEF Typed
<1>2. i = 1 \/ ~Trivia(i - 1) => i = 1 \/ i - 1 \in Indices
  <2>1. i # 1 => i - 1 \in DOMAIN tokens
    BY <1>1 DEF Typed
  <2>. QED
    BY <2>1 DEF Indices
<1>3. /\ events' = Append(events, AddVirtualToken(HeadOf(At, i)))
      /\ override' = [kind |-> rest, piece |-> RestOf(At, i)]
  BY <1>1, PieceIs DEF Split, Typed
<1>4. /\ meant'.taken = meant.taken + 1 /\ meant'.nodes = meant.nodes
      /\ meant' \in [taken : Nat, nodes : Seq(Node), clean : BOOLEAN]
      /\ meant'.clean => meant.clean /\ override = None /\ (i = 1 \/ ~Trivia(i - 1))
  <2>. DEFINE c == meant.clean /\ override = None /\ (i = 1 \/ ~Trivia(i - 1))
  <2>1. meant' = [taken |-> meant.taken + 1, nodes |-> meant.nodes, clean |-> c]
    BY DEF Split
  <2>2. c \in BOOLEAN
    OBVIOUS
  <2>3. meant.taken + 1 \in Nat /\ meant.nodes \in Seq(Node)
    BY DEF Typed
  <2>. QED
    BY <2>1, <2>2, <2>3
<1>. QED
  BY <1>1, <1>2, <1>3, <1>4, PieceIs DEF Typed

LEMMA WholeIs ==
    ASSUME NEW T, NEW s \in Seq(T)
    PROVE  SubSeq(s, 1, Len(s)) = s
<1>1. Len(s) \in 0..Len(s) /\ Len(s) \in Nat
  OBVIOUS
<1>2. /\ SubSeq(s, 1, Len(s)) \in Seq(T) /\ Len(SubSeq(s, 1, Len(s))) = Len(s)
      /\ \A d \in 1..Len(s) : SubSeq(s, 1, Len(s))[d] = s[d]
  BY <1>1, PrefixIs
<1>. QED
  BY <1>2, SeqEqual

(* What one more event takes from the source.                              *)
LEMMA TakenNext ==
    ASSUME NEW evs \in Seq(Event), NEW evt \in Seq(Event), Len(evt) = Len(evs) + 1,
           Alike(evs, evt, Len(evs))
    PROVE  TakenBy(evt, Len(evt)) = IF evt[Len(evt)].type \in {"token", "virtual"}
                                    THEN TakenBy(evs, Len(evs)) + 1 ELSE TakenBy(evs, Len(evs))
<1>1. Len(evs) \in Nat /\ Len(evs) \in 0..Len(evs) /\ Len(evt) \in 1..Len(evt)
      /\ Len(evt) - 1 = Len(evs) /\ Len(evs) <= Len(evt)
  OBVIOUS
<1>2. TakenBy(evt, Len(evs)) = TakenBy(evs, Len(evs))
  BY <1>1, SameCounts
<1>. QED
  BY <1>1, <1>2, CountsNext

LEMMA SameTokens ==
    ASSUME tokens' = tokens
    PROVE  /\ Indices' = Indices /\ At' = At
           /\ cursor' = cursor => (AtEnd' <=> AtEnd)
<1>1. Indices' = Indices
  BY DEF Indices, Trivia
<1>2. \A i : Offset(i)' = Offset(i)
  BY DEF Offset
<1>3. At' = At
  BY <1>2 DEF At
<1>4. cursor' = cursor => Nth(1)' = Nth(1)
  BY <1>1 DEF Nth
<1>. QED
  BY <1>1, <1>3, <1>4 DEF AtEnd

(* The checkpoint is out of reach of what the lookahead does.              *)
LEMMA SavedKept ==
    ASSUME Typed, SavedFits, Typed', tokens' = tokens, saved' = saved,
           meant'.clean => meant.clean,
           saved # None =>
              /\ saved.events <= Len(events') /\ \A e \in 1..saved.events : events'[e] = events[e]
              /\ Len(meant.nodes) <= Len(meant'.nodes)
              /\ \A i \in 1..Len(meant.nodes) : meant'.nodes[i] = meant.nodes[i]
              /\ saved.depth <= Len(open') /\ \A d \in 1..saved.depth : open'[d] = open[d]
              /\ \A d \in saved.depth + 1..Len(open') : open'[d].pos > saved.events
              /\ last' # None => last'.pos > saved.events
    PROVE  SavedFits'
<1>. SUFFICES ASSUME saved # None PROVE SavedFits'
  BY DEF SavedFits
<1>1. /\ saved.events \in 1..Len(events) /\ saved.depth \in 1..Len(open)
      /\ saved.nodes <= Len(meant.nodes) /\ saved.nodes \in Nat
      /\ saved.events \in Nat /\ saved.depth \in Nat /\ Len(meant.nodes) \in Nat
      /\ Len(events') \in Nat /\ Len(open') \in Nat /\ Len(meant'.nodes) \in Nat
      /\ events \in Seq(Event) /\ events' \in Seq(Event)
      /\ open \in Seq(Marker) /\ open' \in Seq(Marker)
      /\ meant.nodes \in Seq(Node) /\ meant'.nodes \in Seq(Node)
  BY DEF SavedFits, Typed
<1>2. SubSeq(events', 1, saved.events) = SubSeq(events, 1, saved.events)
  BY <1>1, SamePrefix
<1>3. SubSeq(open', 1, saved.depth) = SubSeq(open, 1, saved.depth)
  BY <1>1, SamePrefix
<1>4. SubSeq(meant'.nodes, 1, saved.nodes) = SubSeq(meant.nodes, 1, saved.nodes)
  <2>1. \A d \in 1..saved.nodes : meant'.nodes[d] = meant.nodes[d]
    BY <1>1
  <2>2. saved.nodes <= Len(meant'.nodes)
    BY <1>1
  <2>. QED
    BY <1>1, <2>1, <2>2, SamePrefix
<1>5. /\ saved.events \in 1..Len(events') /\ saved.depth \in 1..Len(open')
      /\ saved.nodes <= Len(meant'.nodes)
  BY <1>1
<1>6. Shape(SubSeq(events', 1, saved.events), SubSeq(meant'.nodes, 1, saved.nodes),
            SubSeq(open', 1, saved.depth), saved.taken)
  BY <1>2, <1>3, <1>4 DEF SavedFits
<1>7. meant'.clean => Follows(Indices', At', SubSeq(events', 1, saved.events), saved.cursor, None)
  BY <1>2, SameTokens DEF SavedFits
<1>8. /\ \A d \in saved.depth + 1..Len(open') : open'[d].pos > saved.events
      /\ last' # None => last'.pos > saved.events
  OBVIOUS
<1>. HIDE DEF Indices, At, Shape, Follows
<1>. QED
  BY <1>5, <1>6, <1>7, <1>8 DEF SavedFits

-----------------------------------------------------------------------------
(* Every step of the parser keeps the invariant.                           *)

(* The parts of the invariant.                                             *)
LEMMA Facts ==
    ASSUME ParseInv
    PROVE  /\ tokens \in Seq(Kinds) /\ cursor \in Nat /\ events \in Seq(Event)
           /\ override \in {None} \cup [kind : {"gt", "shr"}, piece : Pieces]
           /\ open \in Seq(Marker) /\ last \in {None} \cup Marker
           /\ saved \in {None} \cup [cursor : Nat, events : Nat, depth : Nat, taken : Nat, nodes : Nat]
           /\ meant \in [taken : Nat, nodes : Seq(Node), clean : BOOLEAN]
           /\ meant.taken \in Nat /\ meant.nodes \in Seq(Node) /\ meant.clean \in BOOLEAN
           /\ Len(events) \in Nat /\ Len(open) \in Nat /\ Len(meant.nodes) \in Nat
           /\ Markers(events, open) /\ Nodes(events, meant.nodes) /\ Nested(meant.nodes, open)
           /\ Chained(events, meant.nodes, open) /\ meant.taken = TakenBy(events, Len(events))
           /\ LastFits /\ Rooted /\ SavedFits /\ Typed
           /\ meant.clean => Follows(Indices, At, events, cursor, override)
<1>1. Typed /\ Shape(events, meant.nodes, open, meant.taken) /\ LastFits /\ Rooted /\ SavedFits
      /\ (meant.clean => Follows(Indices, At, events, cursor, override))
  BY DEF ParseInv
<1>2. Markers(events, open) /\ Nodes(events, meant.nodes) /\ Nested(meant.nodes, open)
      /\ Chained(events, meant.nodes, open) /\ meant.taken = TakenBy(events, Len(events))
  BY <1>1 DEF Shape
<1>3. /\ tokens \in Seq(Kinds) /\ cursor \in Nat /\ events \in Seq(Event)
      /\ override \in {None} \cup [kind : {"gt", "shr"}, piece : Pieces]
      /\ open \in Seq(Marker) /\ last \in {None} \cup Marker
      /\ saved \in {None} \cup [cursor : Nat, events : Nat, depth : Nat, taken : Nat, nodes : Nat]
      /\ meant \in [taken : Nat, nodes : Seq(Node), clean : BOOLEAN]
      /\ meant.nodes \in Seq(Node)
  BY <1>1 DEF Typed
<1>4. meant.taken \in Nat /\ meant.clean \in BOOLEAN
      /\ Len(events) \in Nat /\ Len(open) \in Nat /\ Len(meant.nodes) \in Nat
  BY <1>3
<1>. QED
  BY <1>1, <1>2, <1>3, <1>4

(* What a checkpoint says while the parse goes on.                         *)
LEMMA SavedBounds ==
    ASSUME ParseInv, saved # None
    PROVE  /\ saved.events \in 1..Len(events) /\ saved.depth \in 1..Len(open)
           /\ saved.nodes \in 0..Len(meant.nodes) /\ saved.cursor \in Nat /\ saved.taken \in Nat
           /\ \A d \in saved.depth + 1..Len(open) : open[d].pos > saved.events
           /\ last # None => last.pos > saved.events
<1>1. saved \in [cursor : Nat, events : Nat, depth : Nat, taken : Nat, nodes : Nat]
  BY DEF ParseInv, Typed
<1>2. /\ saved.events \in 1..Len(events) /\ saved.depth \in 1..Len(open)
      /\ saved.nodes <= Len(meant.nodes)
      /\ \A d \in saved.depth + 1..Len(open) : open[d].pos > saved.events
      /\ last # None => last.pos > saved.events
  BY DEF ParseInv, SavedFits
<1>3. saved.nodes \in Nat /\ saved.cursor \in Nat /\ saved.taken \in Nat
  BY <1>1
<1>4. Len(meant.nodes) \in Nat
  BY Facts
<1>. QED
  BY <1>2, <1>3, <1>4

LEMMA StartStep ==
    ASSUME ParseInv, Start
    PROVE  ParseInv'
<1>. DEFINE m == [pos |-> Len(events) + 1, first |-> Len(events) + 1,
                  from |-> meant.taken, precedes |-> FALSE]
<1>1. /\ events' = Append(events, Tombstone) /\ open' = Append(open, m) /\ last' = None
      /\ UNCHANGED <<tokens, cursor, override, saved, meant>> /\ (open = <<>> => events = <<>>)
  BY DEF Start
<1>2. /\ m \in Marker /\ m.pos = Len(events) + 1 /\ m.first = Len(events) + 1
      /\ m.from = meant.taken
  BY Facts DEF Marker
<1>. HIDE DEF m
<1>3. /\ events' \in Seq(Event) /\ Len(events') = Len(events) + 1 /\ Len(events) \in Nat
      /\ \A e \in 1..Len(events) : events'[e] = events[e]
      /\ events'[Len(events) + 1] = Tombstone
  BY <1>1, Facts, EventsAre, AppendIs
<1>4. /\ open' \in Seq(Marker) /\ Len(open') = Len(open) + 1 /\ Len(open) \in Nat
      /\ \A d \in 1..Len(open) : open'[d] = open[d]
      /\ open'[Len(open) + 1] = m
  BY <1>1, <1>2, Facts, AppendIs
<1>5. Alike(events, events', Len(events)) /\ Extends(events, events')
  BY <1>3 DEF Alike, Extends
<1>6. Typed'
  BY <1>1, <1>3, <1>4, Facts DEF Typed
<1>7. TakenBy(events', Len(events')) = meant.taken
  <2>1. events'[Len(events')].type = "tombstone"
    BY <1>3, EventsAre
  <2>. QED
    BY <1>3, <1>5, <2>1, TakenNext, Facts
<1>8. Markers(events', open) /\ Nodes(events', meant.nodes) /\ Chained(events', meant.nodes, open)
  <2>1. \A e \in Len(events) + 1..Len(events') : events'[e].type \notin {"start", "finish"}
    <3>1. \A e \in Len(events) + 1..Len(events') : e = Len(events) + 1
      BY <1>3
    <3>. QED
      BY <1>3, <3>1, EventsAre
  <2>2. Len(events) <= Len(events')
    BY <1>3
  <2>. QED
    BY <1>3, <2>1, <2>2, Facts, AppendKeeps
<1>9. Shape(events', meant.nodes, open', meant.taken)
  <2>1. \A d \in 1..Len(open) : open[d].pos < m.first
    <3>1. \A d \in 1..Len(open) : open[d].pos \in 1..Len(events)
      BY Facts, MarkerBounds
    <3>. QED
      BY <1>2, <1>3, <3>1
  <2>2. \A i \in 1..Len(meant.nodes) : Apart(m.first, m.pos, meant.nodes[i])
    <3>1. \A i \in 1..Len(meant.nodes) : meant.nodes[i].last \in 1..Len(events)
      BY Facts, NodeBounds
    <3>. QED
      BY <1>2, <1>3, <3>1 DEF Apart
  <2>3. Led(m.first, m.pos, events', meant.nodes)
    BY <1>2 DEF Led
  <2>4. /\ m.first \in 1..m.pos /\ m.pos <= Len(events') /\ events'[m.pos].type = "tombstone"
        /\ m.from = TakenBy(events', m.first) /\ m.first = m.pos
    BY <1>2, <1>3, <1>7, EventsAre
  <2>5. /\ Markers(events', open') /\ Nested(meant.nodes, open')
        /\ Chained(events', meant.nodes, open')
    BY <1>1, <1>2, <1>3, <1>8, <2>1, <2>2, <2>3, <2>4, Facts, PushKeeps
  <2>. QED
    BY <1>7, <1>8, <2>5 DEF Shape
<1>10. LastFits'
  BY <1>1 DEF LastFits
<1>11. Rooted'
  <2>1. events' # <<>> /\ open' # <<>>
    <3>1. Len(<<>>) = 0 /\ Len(events') # 0 /\ Len(open') # 0
      BY <1>3, <1>4
    <3>. QED
      BY <3>1
  <2>2. open'[1].pos = 1 /\ open'[1].first = 1
    <3>1. CASE open = <<>>
      BY <1>1, <1>2, <1>3, <1>4, <3>1
    <3>2. CASE open # <<>>
      <4>1. 1 \in 1..Len(open)
        BY <3>2, Facts, EmptySeq
      <4>. QED
        BY <1>4, <3>2, <4>1, Facts DEF Rooted
    <3>. QED
      BY <3>1, <3>2
  <2>. QED
    BY <2>1, <2>2 DEF Rooted, Done
<1>12. SavedFits'
  <2>1. ASSUME saved # None
        PROVE  /\ saved.events <= Len(events') /\ \A e \in 1..saved.events : events'[e] = events[e]
               /\ saved.depth <= Len(open') /\ \A d \in 1..saved.depth : open'[d] = open[d]
               /\ \A d \in saved.depth + 1..Len(open') : open'[d].pos > saved.events
    <3>1. /\ saved.events \in 1..Len(events) /\ saved.depth \in 1..Len(open)
          /\ \A d \in saved.depth + 1..Len(open) : open[d].pos > saved.events
      BY <2>1, SavedBounds
    <3>2. \A d \in saved.depth + 1..Len(open') :
             d = Len(open) + 1 \/ (d \in saved.depth + 1..Len(open) /\ d \in 1..Len(open))
      BY <1>4, <3>1
    <3>3. ASSUME NEW d \in saved.depth + 1..Len(open') PROVE open'[d].pos > saved.events
      <4>1. CASE d = Len(open) + 1
        BY <1>2, <1>3, <1>4, <3>1, <4>1
      <4>2. CASE d \in saved.depth + 1..Len(open) /\ d \in 1..Len(open)
        BY <1>4, <3>1, <4>2
      <4>. QED
        BY <3>2, <4>1, <4>2
    <3>4. /\ saved.events <= Len(events') /\ saved.depth <= Len(open')
          /\ \A e \in 1..saved.events : e \in 1..Len(events)
          /\ \A d \in 1..saved.depth : d \in 1..Len(open)
      BY <1>3, <1>4, <3>1
    <3>. QED
      BY <1>3, <1>4, <3>3, <3>4
  <2>2. meant' = meant /\ saved' = saved /\ last' = None /\ tokens' = tokens /\ Len(meant.nodes) \in Nat
    BY <1>1, Facts
  <2>. QED
    BY <1>6, <2>1, <2>2, Facts, SavedKept
<1>13. meant'.clean => Follows(Indices', At', events', cursor', override')
  <2>1. ASSUME meant.clean PROVE Follows(Indices, At, events', cursor, override)
    BY <1>3, <1>5, <2>1, Facts, FollowsMark, EventsAre
  <2>. QED
    BY <1>1, <2>1, SameTokens
<1>. QED
  BY <1>1, <1>6, <1>9, <1>10, <1>11, <1>12, <1>13 DEF ParseInv

LEMMA CompleteStep ==
    ASSUME ParseInv, Complete
    PROVE  ParseInv'
<1>. DEFINE m == Last(open)
            x == [node |-> m.pos, first |-> m.first, last |-> Len(events) + 1,
                  from |-> m.from, to |-> meant.taken]
            start == StartNode(0)
            put == [events EXCEPT ![m.pos] = start]
<1>1. /\ open # <<>> /\ open' = Front(open) /\ last' = m
      /\ UNCHANGED <<tokens, cursor, override, saved>>
      /\ events' = Append(put, FinishNode)
      /\ meant' = [meant EXCEPT !.nodes = Append(@, x)]
      /\ Len(open) = 1 => AtEnd /\ saved = None
      /\ saved # None => Len(open) > saved.depth
  BY DEF Complete
<1>2. /\ open' \in Seq(Marker) /\ Len(open') = Len(open) - 1 /\ Len(open) \in Nat \ {0}
      /\ \A d \in 1..Len(open') : open'[d] = open[d]
      /\ m = open[Len(open)] /\ m \in Marker
  BY <1>1, Facts, FrontIs
<1>3. /\ m.pos \in 1..Len(events) /\ m.first \in 1..m.pos /\ m.from \in Nat /\ m.first \in Nat
      /\ m.pos \in Nat /\ Len(events) \in Nat
  <2>1. Len(open) \in 1..Len(open)
    BY <1>2
  <2>. QED
    <3>1. /\ open[Len(open)] \in Marker /\ open[Len(open)].first \in 1..open[Len(open)].pos
          /\ open[Len(open)].pos \in 1..Len(events)
      BY <2>1, Facts, MarkerBounds
    <3>2. open[Len(open)].from \in Nat /\ open[Len(open)].first \in Nat /\ open[Len(open)].pos \in Nat
      BY <3>1 DEF Marker
    <3>. HIDE DEF m
    <3>. QED
      BY <1>2, <3>1, <3>2, Facts
<1>4. x \in Node /\ x.node = m.pos /\ x.first = m.first /\ x.from = m.from
      /\ x.last = Len(events) + 1 /\ x.to = meant.taken
  BY <1>3, Facts DEF Node
<1>5. meant'.nodes = Append(meant.nodes, x) /\ meant'.taken = meant.taken /\ meant'.clean = meant.clean
      /\ meant' \in [taken : Nat, nodes : Seq(Node), clean : BOOLEAN]
  <2>. HIDE DEF x
  <2>1. Append(meant.nodes, x) \in Seq(Node)
    BY <1>4, Facts, AppendIs
  <2>. QED
    BY <1>1, <2>1, Facts
<1>. HIDE DEF m, x
<1>6. start \in Event /\ start.type = "start" /\ start.forward = 0
  BY EventsAre
<1>. HIDE DEF start
<1>7. /\ events' \in Seq(Event) /\ Len(events') = Len(events) + 1
      /\ \A e \in 1..Len(events) : e # m.pos => events'[e] = events[e]
      /\ events'[m.pos] = start /\ events'[Len(events) + 1] = FinishNode
  <2>1. /\ put \in Seq(Event) /\ Len(put) = Len(events)
        /\ \A d \in 1..Len(events) : put[d] = IF d = m.pos THEN start ELSE events[d]
    BY <1>3, <1>6, Facts, PutIs
  <2>. HIDE DEF put
  <2>2. /\ events' \in Seq(Event) /\ Len(events') = Len(put) + 1
        /\ \A e \in 1..Len(put) : events'[e] = put[e]
        /\ events'[Len(put) + 1] = FinishNode
    BY <1>1, <2>1, EventsAre, AppendIs
  <2>. QED
    BY <1>3, <2>1, <2>2
<1>8. events[m.pos].type = "tombstone"
  <2>1. Len(open) \in 1..Len(open)
    BY <1>2
  <2>. QED
    BY <1>2, <2>1, Facts DEF Markers
<1>9. Alike(events, events', Len(events)) /\ Extends(events, events')
  <2>1. \A e \in 1..Len(events) : events'[e] = events[e]
             \/ (events'[e].type = "start" /\ events[e].type = "tombstone")
    BY <1>6, <1>7, <1>8
  <2>2. Alike(events, events', Len(events))
    BY <2>1 DEF Alike
  <2>3. Len(events) <= Len(events')
    BY <1>3, <1>7
  <2>. QED
    BY <2>1, <2>2, <2>3 DEF Extends
<1>10. Typed'
  BY <1>1, <1>2, <1>5, <1>7, Facts DEF Typed
<1>11. events'[Len(events) + 1].type = "finish"
  BY <1>7, EventsAre
<1>12. TakenBy(events', Len(events')) = meant'.taken
  BY <1>5, <1>7, <1>9, <1>11, TakenNext, Facts
<1>13. /\ Markers(events', open') /\ Nodes(events', meant'.nodes)
       /\ Nested(meant'.nodes, open') /\ Chained(events', meant'.nodes, open')
       /\ \A d \in 1..Len(open') : open'[d].pos < m.first
  <2>1. /\ events \in Seq(Event) /\ events' \in Seq(Event) /\ Len(events') = Len(events) + 1
        /\ meant.nodes \in Seq(Node) /\ open \in Seq(Marker) /\ open # <<>>
        /\ Markers(events, open) /\ Nodes(events, meant.nodes) /\ Nested(meant.nodes, open)
        /\ Chained(events, meant.nodes, open)
    BY <1>1, <1>7, Facts
  <2>2. /\ events'[m.pos].type = "start" /\ events'[m.pos].forward = 0
        /\ x.to = TakenBy(events, Len(events))
    BY <1>4, <1>6, <1>7, Facts
  <2>3. /\ Markers(events', Front(open)) /\ Nodes(events', Append(meant.nodes, x))
        /\ Nested(Append(meant.nodes, x), Front(open))
        /\ Chained(events', Append(meant.nodes, x), Front(open))
        /\ \A d \in 1..Len(Front(open)) : Front(open)[d].pos < m.first
    BY <1>2, <1>4, <1>7, <1>11, <2>1, <2>2, CompleteKeeps, SMTT(30)
  <2>. QED
    BY <1>1, <1>5, <2>3
<1>14. Shape(events', meant'.nodes, open', meant'.taken)
  BY <1>12, <1>13 DEF Shape
<1>15. /\ meant'.nodes \in Seq(Node) /\ Len(meant'.nodes) = Len(meant.nodes) + 1
       /\ Len(meant.nodes) \in Nat
       /\ \A i \in 1..Len(meant.nodes) : meant'.nodes[i] = meant.nodes[i]
       /\ meant'.nodes[Len(meant.nodes) + 1] = x
  BY <1>4, <1>5, Facts, AppendIs
<1>16. meant'.nodes # <<>> /\ meant'.nodes[Len(meant'.nodes)] = x
  <2>1. Len(<<>>) = 0 /\ Len(meant'.nodes) # 0
    BY <1>15
  <2>. QED
    BY <1>15, <2>1
<1>17. LastFits'
  BY <1>1, <1>4, <1>6, <1>7, <1>13, <1>16 DEF LastFits
<1>18. Rooted'
  <2>1. events' # <<>>
    <3>1. Len(<<>>) = 0 /\ Len(events') # 0
      BY <1>3, <1>7
    <3>. QED
      BY <3>1
  <2>2. 1 \in 1..Len(open) /\ open[1].pos = 1 /\ open[1].first = 1
    BY <1>1, <1>2, Facts DEF Rooted
  <2>3. open' # <<>> => open'[1].pos = 1 /\ open'[1].first = 1
    <3>1. open' # <<>> => 1 \in 1..Len(open')
      BY <1>2, EmptySeq
    <3>. QED
      BY <1>2, <2>2, <3>1
  <2>4. ASSUME open' = <<>>
        PROVE  saved' = None /\ AtEnd' /\ x.node = 1 /\ x.last = Len(events')
    <3>1. Len(open) = 1
      <4>1. Len(<<>>) = 0
        OBVIOUS
      <4>. QED
        BY <1>2, <2>4, <4>1
    <3>. QED
      BY <1>1, <1>2, <1>4, <1>7, <2>2, <3>1, SameTokens
  <2>. QED
    BY <1>16, <2>1, <2>3, <2>4 DEF Rooted, Done
<1>19. SavedFits'
  <2>1. ASSUME saved # None
        PROVE  /\ saved.events <= Len(events') /\ \A e \in 1..saved.events : events'[e] = events[e]
               /\ saved.depth <= Len(open') /\ \A d \in 1..saved.depth : open'[d] = open[d]
               /\ \A d \in saved.depth + 1..Len(open') : open'[d].pos > saved.events
               /\ last'.pos > saved.events
    <3>1. /\ saved.events \in 1..Len(events) /\ saved.depth \in 1..Len(open)
          /\ \A d \in saved.depth + 1..Len(open) : open[d].pos > saved.events
      BY <2>1, SavedBounds
    <3>2. Len(open) > saved.depth
      BY <1>1, <2>1
    <3>3. Len(open) \in saved.depth + 1..Len(open)
      BY <1>2, <3>1, <3>2
    <3>4. m.pos > saved.events
      BY <1>2, <3>1, <3>3
    <3>5. /\ saved.events \in Nat /\ saved.depth \in Nat
          /\ Len(open') \in Nat /\ saved.depth <= Len(open')
      BY <1>2, <3>1, <3>2
    <3>6. \A d \in 1..saved.depth : d \in 1..Len(open') /\ open'[d] = open[d]
      BY <1>2, <3>5
    <3>7. \A d \in saved.depth + 1..Len(open') : open'[d].pos > saved.events
      <4>1. \A d \in saved.depth + 1..Len(open') : d \in saved.depth + 1..Len(open) /\ d \in 1..Len(open')
        BY <1>2, <3>5
      <4>. QED
        BY <1>2, <3>1, <4>1
    <3>8. \A e \in 1..saved.events : e \in 1..Len(events) /\ e # m.pos
      BY <1>3, <3>1, <3>4, <3>5
    <3>9. saved.events <= Len(events') /\ \A e \in 1..saved.events : events'[e] = events[e]
      <4>1. saved.events <= Len(events')
        BY <1>3, <1>7, <3>1
      <4>. QED
        BY <1>7, <3>8, <4>1
    <3>10. last'.pos > saved.events
      BY <1>1, <3>4
    <3>. QED
      BY <3>5, <3>6, <3>7, <3>9, <3>10
  <2>2. saved' = saved /\ tokens' = tokens
    BY <1>1
  <2>3. Len(meant.nodes) <= Len(meant'.nodes)
    BY <1>15
  <2>. QED
    BY <1>5, <1>10, <1>15, <2>1, <2>2, <2>3, Facts, SavedKept
<1>20. meant'.clean => Follows(Indices', At', events', cursor', override')
  <2>1. ASSUME meant.clean PROVE Follows(Indices, At, events', cursor, override)
    BY <1>7, <1>9, <1>11, <2>1, Facts, FollowsMark
  <2>. QED
    BY <1>1, <1>5, <2>1, SameTokens
<1>. QED
  BY <1>10, <1>14, <1>17, <1>18, <1>19, <1>20 DEF ParseInv

LEMMA AbandonStep ==
    ASSUME ParseInv, Abandon
    PROVE  ParseInv'
<1>1. /\ Len(open) > 1 /\ ~Last(open).precedes /\ open' = Front(open) /\ last' = None
      /\ UNCHANGED <<tokens, cursor, events, override, saved, meant>>
      /\ saved # None => Len(open) > saved.depth
  BY DEF Abandon
<1>2. open # <<>>
  <2>1. Len(<<>>) = 0
    OBVIOUS
  <2>. QED
    BY <1>1, <2>1
<1>3. /\ open' \in Seq(Marker) /\ Len(open') = Len(open) - 1 /\ Len(open) \in Nat \ {0}
      /\ \A d \in 1..Len(open') : open'[d] = open[d]
      /\ Last(open) = open[Len(open)]
  BY <1>1, <1>2, Facts, FrontIs
<1>4. Typed'
  BY <1>1, <1>3, Facts DEF Typed
<1>5. Shape(events', meant'.nodes, open', meant'.taken)
  <2>1. /\ Markers(events, open') /\ Nested(meant.nodes, open')
        /\ Chained(events, meant.nodes, open')
    BY <1>1, <1>2, <1>3, Facts, PopKeeps
  <2>. QED
    BY <1>1, <2>1, Facts DEF Shape
<1>6. LastFits'
  BY <1>1 DEF LastFits
<1>7. Rooted'
  <2>1. open' # <<>>
    <3>1. Len(<<>>) = 0 /\ Len(open') # 0
      BY <1>1, <1>3
    <3>. QED
      BY <3>1
  <2>2. 1 \in 1..Len(open') /\ events # <<>> /\ open[1].pos = 1 /\ open[1].first = 1
    BY <1>1, <1>2, <1>3, Facts DEF Rooted
  <2>. QED
    BY <1>1, <1>3, <2>1, <2>2 DEF Rooted, Done
<1>8. SavedFits'
  <2>1. ASSUME saved # None
        PROVE  /\ saved.events <= Len(events)
               /\ saved.depth <= Len(open') /\ \A d \in 1..saved.depth : open'[d] = open[d]
               /\ \A d \in saved.depth + 1..Len(open') : open'[d].pos > saved.events
    <3>1. /\ saved.events \in 1..Len(events) /\ saved.depth \in 1..Len(open)
          /\ \A d \in saved.depth + 1..Len(open) : open[d].pos > saved.events
      BY <2>1, SavedBounds
    <3>2. Len(open) > saved.depth
      BY <1>1, <2>1
    <3>3. /\ \A d \in 1..saved.depth : d \in 1..Len(open')
          /\ \A d \in saved.depth + 1..Len(open') : d \in saved.depth + 1..Len(open) /\ d \in 1..Len(open')
          /\ saved.depth <= Len(open')
      BY <1>3, <3>1, <3>2
    <3>. QED
      BY <1>3, <3>1, <3>3
  <2>2. meant' = meant /\ saved' = saved /\ last' = None /\ tokens' = tokens /\ events' = events
        /\ Len(meant.nodes) \in Nat
    BY <1>1, Facts
  <2>. QED
    BY <1>4, <2>1, <2>2, Facts, SavedKept
<1>9. meant'.clean => Follows(Indices', At', events', cursor', override')
  <2>. HIDE DEF Indices, At, Follows
  <2>. QED
    BY <1>1, SameTokens, Facts
<1>. QED
  BY <1>4, <1>5, <1>6, <1>7, <1>8, <1>9 DEF ParseInv

LEMMA PrecedeStep ==
    ASSUME ParseInv, Precede
    PROVE  ParseInv'
<1>. DEFINE pos == Len(events) + 1
            m == [pos |-> pos, first |-> last.first, from |-> last.from, precedes |-> TRUE]
            l == meant.nodes[Len(meant.nodes)]
            start == StartNode(pos - last.pos)
            put == [events EXCEPT ![last.pos] = start]
<1>1. /\ last # None /\ open # <<>> /\ last' = None
      /\ UNCHANGED <<tokens, cursor, override, saved, meant>>
      /\ events' = Append(put, Tombstone) /\ open' = Append(open, m)
  BY DEF Precede
<1>2. /\ meant.nodes # <<>> /\ last.pos = l.node /\ last.first = l.first /\ last.from = l.from
      /\ events[l.node].forward = 0 /\ \A d \in 1..Len(open) : open[d].pos < l.first
  BY <1>1, Facts DEF LastFits
<1>3. Len(meant.nodes) \in 1..Len(meant.nodes)
  BY <1>2, Facts, EmptySeq
<1>4. /\ l \in Node /\ l.first \in 1..l.node /\ l.node \in 1..Len(events)
      /\ events[l.node].type = "start" /\ l.from \in Nat /\ l.first \in Nat /\ l.node \in Nat
  <2>1. /\ l \in Node /\ l.first \in 1..l.node /\ l.node \in 1..Len(events)
        /\ events[l.node].type = "start"
    BY <1>3, Facts, NodeBounds DEF Nodes
  <2>. HIDE DEF l
  <2>. QED
    BY <2>1 DEF Node
<1>. HIDE DEF l
<1>5. /\ m \in Marker /\ m.pos = Len(events) + 1 /\ m.first = l.first /\ m.from = l.from
      /\ m.precedes
  BY <1>2, <1>4, Facts DEF Marker
<1>. HIDE DEF m
<1>6. start \in Event /\ start.type = "start" /\ l.node + start.forward = Len(events) + 1
  <2>1. pos - last.pos \in Nat /\ l.node + (pos - last.pos) = Len(events) + 1
    BY <1>2, <1>4, Facts
  <2>. HIDE DEF pos
  <2>. QED
    BY <2>1, EventsAre
<1>. HIDE DEF start
<1>7. /\ events' \in Seq(Event) /\ Len(events') = Len(events) + 1
      /\ \A e \in 1..Len(events) : e # l.node => events'[e] = events[e]
      /\ events'[l.node] = start /\ events'[Len(events) + 1] = Tombstone
  <2>1. /\ put \in Seq(Event) /\ Len(put) = Len(events)
        /\ \A d \in 1..Len(events) : put[d] = IF d = l.node THEN start ELSE events[d]
    BY <1>2, <1>4, <1>6, Facts, PutIs
  <2>. HIDE DEF put
  <2>2. /\ events' \in Seq(Event) /\ Len(events') = Len(put) + 1
        /\ \A e \in 1..Len(put) : events'[e] = put[e]
        /\ events'[Len(put) + 1] = Tombstone
    BY <1>1, <2>1, EventsAre, AppendIs
  <2>. QED
    BY <1>4, <2>1, <2>2
<1>8. /\ open' \in Seq(Marker) /\ Len(open') = Len(open) + 1 /\ Len(open) \in Nat
      /\ \A d \in 1..Len(open) : open'[d] = open[d]
      /\ open'[Len(open) + 1] = m
  BY <1>1, <1>5, Facts, AppendIs
<1>9. Alike(events, events', Len(events)) /\ Extends(events, events')
  <2>1. \A e \in 1..Len(events) : events'[e] = events[e]
             \/ (events'[e].type = "start" /\ events[e].type = "start")
    BY <1>4, <1>6, <1>7
  <2>2. Alike(events, events', Len(events))
    BY <2>1 DEF Alike
  <2>3. Len(events) <= Len(events')
    BY <1>7, Facts
  <2>. QED
    BY <2>1, <2>2, <2>3 DEF Extends
<1>10. Typed'
  BY <1>1, <1>7, <1>8, Facts DEF Typed
<1>11. events'[Len(events) + 1].type = "tombstone"
  BY <1>7, EventsAre
<1>12. TakenBy(events', Len(events')) = meant'.taken
  BY <1>1, <1>7, <1>9, <1>11, TakenNext, Facts
<1>13. /\ Markers(events', open') /\ Nodes(events', meant.nodes)
       /\ Nested(meant.nodes, open') /\ Chained(events', meant.nodes, open')
  <2>1. /\ events \in Seq(Event) /\ events' \in Seq(Event) /\ Len(events') = Len(events) + 1
        /\ meant.nodes \in Seq(Node) /\ open \in Seq(Marker)
        /\ Markers(events, open) /\ Nodes(events, meant.nodes) /\ Nested(meant.nodes, open)
        /\ Chained(events, meant.nodes, open) /\ l = meant.nodes[Len(meant.nodes)]
    BY <1>1, <1>7, Facts DEF l
  <2>2. /\ events'[l.node].type = "start" /\ l.node + events'[l.node].forward = Len(events) + 1
        /\ \A d \in 1..Len(open) : open[d].pos < m.first
    BY <1>2, <1>5, <1>6, <1>7
  <2>3. /\ Markers(events', Append(open, m)) /\ Nodes(events', meant.nodes)
        /\ Nested(meant.nodes, Append(open, m)) /\ Chained(events', meant.nodes, Append(open, m))
    BY <1>2, <1>5, <1>7, <1>11, <2>1, <2>2, PrecedeKeeps
  <2>. QED
    BY <1>1, <2>3
<1>14. Shape(events', meant'.nodes, open', meant'.taken)
  BY <1>1, <1>12, <1>13 DEF Shape
<1>15. LastFits'
  BY <1>1 DEF LastFits
<1>16. Rooted'
  <2>1. events' # <<>> /\ open' # <<>>
    <3>1. Len(<<>>) = 0 /\ Len(events') # 0 /\ Len(open') # 0
      BY <1>7, <1>8, Facts
    <3>. QED
      BY <3>1
  <2>2. 1 \in 1..Len(open) /\ open[1].pos = 1 /\ open[1].first = 1
    BY <1>1, <1>8, Facts, EmptySeq DEF Rooted
  <2>. QED
    BY <1>8, <2>1, <2>2 DEF Rooted, Done
<1>17. SavedFits'
  <2>1. ASSUME saved # None
        PROVE  /\ saved.events <= Len(events') /\ \A e \in 1..saved.events : events'[e] = events[e]
               /\ saved.depth <= Len(open') /\ \A d \in 1..saved.depth : open'[d] = open[d]
               /\ \A d \in saved.depth + 1..Len(open') : open'[d].pos > saved.events
    <3>1. /\ saved.events \in 1..Len(events) /\ saved.depth \in 1..Len(open)
          /\ \A d \in saved.depth + 1..Len(open) : open[d].pos > saved.events
          /\ l.node > saved.events
      BY <1>1, <1>2, <2>1, SavedBounds
    <3>2. /\ \A e \in 1..saved.events : e \in 1..Len(events) /\ e # l.node
          /\ \A d \in 1..saved.depth : d \in 1..Len(open)
          /\ saved.events <= Len(events') /\ saved.depth <= Len(open')
          /\ \A d \in saved.depth + 1..Len(open') :
             d = Len(open) + 1 \/ (d \in saved.depth + 1..Len(open) /\ d \in 1..Len(open))
          /\ Len(events) + 1 > saved.events
      <4>1. /\ Len(events) \in Nat /\ Len(open) \in Nat /\ Len(events') = Len(events) + 1
            /\ Len(open') = Len(open) + 1 /\ l.node \in Nat
        BY <1>4, <1>7, <1>8, Facts
      <4>2. saved.events \in Nat /\ saved.events <= Len(events) /\ saved.depth \in Nat
            /\ saved.depth <= Len(open) /\ saved.depth >= 1
        BY <3>1, <4>1
      <4>. QED
        BY <3>1, <4>1, <4>2
    <3>3. ASSUME NEW d \in saved.depth + 1..Len(open') PROVE open'[d].pos > saved.events
      <4>1. CASE d = Len(open) + 1
        BY <1>5, <1>8, <3>2, <4>1
      <4>2. CASE d \in saved.depth + 1..Len(open) /\ d \in 1..Len(open)
        BY <1>8, <3>1, <4>2
      <4>. QED
        BY <3>2, <4>1, <4>2
    <3>. QED
      BY <1>7, <1>8, <3>2, <3>3
  <2>2. meant' = meant /\ saved' = saved /\ last' = None /\ tokens' = tokens /\ Len(meant.nodes) \in Nat
    BY <1>1, Facts
  <2>. QED
    BY <1>10, <2>1, <2>2, Facts, SavedKept
<1>18. meant'.clean => Follows(Indices', At', events', cursor', override')
  <2>1. ASSUME meant.clean PROVE Follows(Indices, At, events', cursor, override)
    BY <1>7, <1>9, <1>11, <2>1, Facts, FollowsMark
  <2>. QED
    BY <1>1, <2>1, SameTokens
<1>. QED
  BY <1>10, <1>14, <1>15, <1>16, <1>17, <1>18 DEF ParseInv

(* Tokens disturb no node and no marker.                                   *)
LEMMA TokensKept ==
    ASSUME ParseInv, Typed', open # <<>>, Len(events) <= Len(events'),
           UNCHANGED <<tokens, open, last, saved>>,
           \A e \in 1..Len(events) : events'[e] = events[e],
           \A e \in Len(events) + 1..Len(events') : events'[e].type \notin {"start", "finish"},
           meant'.nodes = meant.nodes, meant'.clean => meant.clean,
           meant'.taken = TakenBy(events', Len(events')),
           meant'.clean => Follows(Indices', At', events', cursor', override')
    PROVE  ParseInv'
<1>1. events' \in Seq(Event) /\ Len(events') \in Nat
  BY DEF Typed
<1>2. Shape(events', meant'.nodes, open', meant'.taken)
  <2>1. Markers(events', open) /\ Nodes(events', meant.nodes) /\ Chained(events', meant.nodes, open)
    BY <1>1, Facts, AppendKeeps
  <2>. QED
    BY <2>1, Facts DEF Shape
<1>3. LastFits'
  <2>1. SUFFICES ASSUME last # None PROVE LastFits'
    BY DEF LastFits
  <2>2. meant.nodes # <<>> /\ last.pos = meant.nodes[Len(meant.nodes)].node
    BY <2>1, Facts DEF LastFits
  <2>3. Len(meant.nodes) \in 1..Len(meant.nodes)
    BY <2>2, Facts, EmptySeq
  <2>4. last.pos \in 1..Len(events)
    BY <2>2, <2>3, Facts, NodeBounds
  <2>5. events'[last.pos] = events[last.pos]
    BY <2>4
  <2>. QED
    BY <2>1, <2>5, Facts DEF LastFits
<1>4. Rooted'
  <2>1. events # <<>> /\ open[1].pos = 1 /\ open[1].first = 1
    BY Facts DEF Rooted
  <2>2. events' # <<>>
    <3>1. Len(<<>>) = 0 /\ Len(events) # 0
      BY <2>1, Facts, EmptySeq
    <3>2. Len(events') # 0
      BY <1>1, <3>1, Facts
    <3>. QED
      BY <3>1, <3>2
  <2>. QED
    BY <2>1, <2>2 DEF Rooted, Done
<1>5. SavedFits'
  <2>1. ASSUME saved # None
        PROVE  /\ saved.events <= Len(events') /\ \A e \in 1..saved.events : events'[e] = events[e]
               /\ saved.depth <= Len(open)
               /\ \A d \in saved.depth + 1..Len(open) : open[d].pos > saved.events
               /\ last # None => last.pos > saved.events
    <3>1. /\ saved.events \in 1..Len(events) /\ saved.depth \in 1..Len(open)
          /\ \A d \in saved.depth + 1..Len(open) : open[d].pos > saved.events
          /\ last # None => last.pos > saved.events
      BY <2>1, SavedBounds
    <3>2. /\ \A e \in 1..saved.events : e \in 1..Len(events)
          /\ saved.events <= Len(events') /\ saved.depth <= Len(open)
      BY <1>1, <3>1, Facts
    <3>. QED
      BY <3>1, <3>2
  <2>2. saved' = saved /\ last' = last /\ tokens' = tokens /\ open' = open
        /\ Len(meant.nodes) <= Len(meant'.nodes)
    BY Facts
  <2>. QED
    BY <2>1, <2>2, Facts, SavedKept
<1>. QED
  BY <1>2, <1>3, <1>4, <1>5 DEF ParseInv

LEMMA TwoIs ==
    ASSUME NEW T, NEW s \in Seq(T), NEW x \in T, NEW y \in T
    PROVE  s \o <<x, y>> = Append(Append(s, x), y)
<1>1. <<x, y>> \in Seq(T) /\ Len(<<x, y>>) = 2 /\ <<x, y>>[1] = x /\ <<x, y>>[2] = y
  OBVIOUS
<1>. DEFINE p == <<x, y>>
            c == s \o p
            d == Append(Append(s, x), y)
<1>2. c \in Seq(T) /\ Len(c) = Len(s) + 2 /\ Len(s) \in Nat
      /\ \A i \in 1..Len(s) : c[i] = s[i]
  <2>1. p \in Seq(T) /\ Len(p) = 2
    BY <1>1
  <2>. HIDE DEF p
  <2>2. s \o p \in Seq(T)
    BY <2>1, ConcatProperties
  <2>3. Len(s \o p) = Len(s) + Len(p) /\ Len(s) \in Nat
    BY <2>1, ConcatProperties, LenProperties
  <2>4. \A i \in 1..Len(s) : (s \o p)[i] = s[i]
    BY <2>1
  <2>. QED
    BY <2>1, <2>2, <2>3, <2>4
<1>3. c[Len(s) + 1] = x /\ c[Len(s) + 2] = y
  OBVIOUS
<1>4. /\ Append(s, x) \in Seq(T) /\ Len(Append(s, x)) = Len(s) + 1
      /\ \A i \in 1..Len(s) : Append(s, x)[i] = s[i]
      /\ Append(s, x)[Len(s) + 1] = x
  OBVIOUS
<1>5. d \in Seq(T) /\ Len(d) = Len(s) + 2 /\ d[Len(s) + 2] = y /\ d[Len(s) + 1] = x
      /\ \A i \in 1..Len(s) : d[i] = s[i]
  <2>. DEFINE b == Append(s, x)
  <2>1. b \in Seq(T) /\ Len(b) = Len(s) + 1 /\ b[Len(s) + 1] = x /\ \A i \in 1..Len(s) : b[i] = s[i]
    BY <1>4
  <2>. HIDE DEF b
  <2>2. Append(b, y) \in Seq(T) /\ Len(Append(b, y)) = Len(b) + 1 /\ Append(b, y)[Len(b) + 1] = y
        /\ \A i \in 1..Len(b) : Append(b, y)[i] = b[i]
    BY <2>1
  <2>3. /\ \A i \in 1..Len(s) : i \in 1..Len(b)
        /\ Len(s) + 1 \in 1..Len(b) /\ Len(b) + 1 = Len(s) + 2
    BY <1>2, <2>1
  <2>. QED
    BY <2>1, <2>2, <2>3 DEF b
<1>. HIDE DEF c, d
<1>6. \A i \in 1..Len(c) : c[i] = d[i]
  <2>1. \A i \in 1..Len(c) : i \in 1..Len(s) \/ i = Len(s) + 1 \/ i = Len(s) + 2
    BY <1>2
  <2>. QED
    BY <1>2, <1>3, <1>5, <2>1
<1>7. c = d
  BY <1>2, <1>5, <1>6, SeqEqual
<1>. QED
  BY <1>7 DEF c, d

(* Parser::bump and expect_gt.                                             *)
LEMMA BumpStep ==
    ASSUME ParseInv, Bump
    PROVE  ParseInv'
<1>1. /\ open # <<>> /\ ~AtEnd /\ UNCHANGED <<tokens, open, last, saved>>
      /\ cursor' = cursor + 1 /\ override' = None /\ meant' = [meant EXCEPT !.taken = @ + 1]
  BY DEF Bump
<1>2. /\ meant'.taken = meant.taken + 1 /\ meant'.nodes = meant.nodes /\ meant'.clean = meant.clean
      /\ meant' \in [taken : Nat, nodes : Seq(Node), clean : BOOLEAN]
  <2>1. meant.taken + 1 \in Nat
    BY Facts
  <2>. QED
    BY <1>1, <2>1, Facts
<1>3. CASE override = None /\ events' = Append(events, AddToken)
  <2>1. /\ events' \in Seq(Event) /\ Len(events') = Len(events) + 1 /\ Len(events) \in Nat
        /\ \A e \in 1..Len(events) : events'[e] = events[e]
        /\ events'[Len(events) + 1].type = "token"
    BY <1>3, Facts, EventsAre, AppendIs
  <2>2. Alike(events, events', Len(events)) /\ Extends(events, events')
    BY <2>1 DEF Alike, Extends
  <2>3. Typed'
    BY <1>1, <1>2, <2>1, Facts DEF Typed
  <2>4. meant'.taken = TakenBy(events', Len(events'))
    BY <1>2, <2>1, <2>2, Facts, TakenNext
  <2>5. \A e \in Len(events) + 1..Len(events') : events'[e].type \notin {"start", "finish"}
    <3>1. \A e \in Len(events) + 1..Len(events') : e = Len(events) + 1
      BY <2>1
    <3>. QED
      BY <2>1, <3>1
  <2>6. ASSUME meant'.clean PROVE Follows(Indices', At', events', cursor', override')
    <3>1. Nth(1) \in Indices /\ CountTo(Indices, Nth(1)) = cursor + 1
      BY <1>1, Facts, NthIs
    <3>2. meant.clean
      BY <1>2, <2>6
    <3>3. Follows(Indices, At, events', cursor + 1, override)
      BY <1>3, <2>1, <2>2, <3>1, <3>2, Facts, FollowsToken
    <3>. QED
      BY <1>1, <1>3, <3>3, SameTokens
  <2>7. Len(events) <= Len(events')
    BY <2>1
  <2>. QED
    BY <1>1, <1>2, <2>1, <2>3, <2>4, <2>5, <2>6, <2>7, TokensKept
<1>4. CASE /\ override # None
           /\ events' = events \o <<AddVirtualToken(override.piece), AdvanceSource>>
  <2>. DEFINE a == AddVirtualToken(override.piece)
              mid == Append(events, a)
  <2>1. a \in Event /\ a.type = "virtual" /\ a.piece = override.piece
    <3>1. override.piece \in Pieces
      BY <1>4, Facts
    <3>. QED
      BY <3>1, EventsAre
  <2>. HIDE DEF a
  <2>2. events' = Append(mid, AdvanceSource)
    BY <1>4, <2>1, Facts, EventsAre, TwoIs DEF a
  <2>3. /\ mid \in Seq(Event) /\ Len(mid) = Len(events) + 1 /\ Len(events) \in Nat
        /\ \A e \in 1..Len(events) : mid[e] = events[e]
        /\ mid[Len(events) + 1] = a
    BY <2>1, Facts, AppendIs
  <2>. HIDE DEF mid
  <2>4. /\ events' \in Seq(Event) /\ Len(events') = Len(mid) + 1
        /\ \A e \in 1..Len(mid) : events'[e] = mid[e]
        /\ events'[Len(mid) + 1] = AdvanceSource
    BY <2>2, <2>3, EventsAre, AppendIs
  <2>5. /\ Len(events') = Len(events) + 2 /\ \A e \in 1..Len(events) : events'[e] = events[e]
        /\ events'[Len(events) + 1] = a /\ events'[Len(events) + 2].type = "advance"
    <3>1. /\ Len(events) + 1 \in 1..Len(mid) /\ Len(mid) + 1 = Len(events) + 2
          /\ \A e \in 1..Len(events) : e \in 1..Len(mid)
      BY <2>3
    <3>. QED
      BY <2>3, <2>4, <3>1, EventsAre
  <2>6. Alike(events, events', Len(events)) /\ Extends(events, events')
    <3>1. Len(events) <= Len(events')
      BY <2>3, <2>5
    <3>. QED
      BY <2>5, <3>1 DEF Alike, Extends
  <2>7. Typed'
    BY <1>1, <1>2, <2>4, Facts DEF Typed
  <2>8. meant'.taken = TakenBy(events', Len(events'))
    <3>1. /\ Len(events) + 1 \in 1..Len(events') /\ Len(events) + 2 \in 1..Len(events')
          /\ Len(events) + 1 - 1 = Len(events) /\ Len(events) + 2 - 1 = Len(events) + 1
          /\ Len(events) \in 0..Len(events) /\ Len(events) <= Len(events')
      BY <2>3, <2>5
    <3>2. TakenBy(events', Len(events)) = TakenBy(events, Len(events))
      BY <2>4, <2>6, <3>1, Facts, SameCounts
    <3>3. TakenBy(events', Len(events) + 1) = TakenBy(events', Len(events)) + 1
      BY <2>1, <2>4, <2>5, <3>1, CountsNext
    <3>4. TakenBy(events', Len(events) + 2) = TakenBy(events', Len(events) + 1)
      BY <2>4, <2>5, <3>1, CountsNext
    <3>. QED
      BY <1>2, <2>5, <3>2, <3>3, <3>4, Facts
  <2>9. \A e \in Len(events) + 1..Len(events') : events'[e].type \notin {"start", "finish"}
    <3>1. \A e \in Len(events) + 1..Len(events') : e = Len(events) + 1 \/ e = Len(events) + 2
      BY <2>3, <2>5
    <3>. QED
      BY <2>1, <2>5, <3>1
  <2>10. ASSUME meant'.clean PROVE Follows(Indices', At', events', cursor', override')
    <3>1. meant.clean
      BY <1>2, <2>10
    <3>2. Follows(Indices, At, events', cursor + 1, None)
      BY <1>4, <2>1, <2>4, <2>5, <2>6, <3>1, Facts, FollowsRest
    <3>. QED
      BY <1>1, <3>2, SameTokens
  <2>11. Len(events) <= Len(events')
    BY <2>3, <2>5
  <2>. QED
    BY <1>1, <1>2, <2>5, <2>7, <2>8, <2>9, <2>10, <2>11, TokensKept
<1>. QED
  BY <1>3, <1>4 DEF Bump

LEMMA SplitStep ==
    ASSUME ParseInv, ExpectGt
    PROVE  ParseInv'
<1>1. /\ open # <<>> /\ ~AtEnd /\ UNCHANGED <<tokens, cursor, open, last, saved>>
  BY DEF ExpectGt
<1>2. PICK rest \in {"gt", "shr"} : Split(rest)
  BY DEF ExpectGt
<1>. DEFINE i == Nth(1)
            a == AddVirtualToken(HeadOf(At, i))
<1>3. /\ i \in Indices /\ CountTo(Indices, i) = cursor + 1
      /\ events' = Append(events, a)
      /\ override' = [kind |-> rest, piece |-> RestOf(At, i)]
      /\ HeadOf(At, i) \in Pieces /\ RestOf(At, i) \in Pieces
      /\ meant'.taken = meant.taken + 1 /\ meant'.nodes = meant.nodes
      /\ meant' \in [taken : Nat, nodes : Seq(Node), clean : BOOLEAN]
      /\ meant'.clean => meant.clean /\ override = None /\ (i = 1 \/ i - 1 \in Indices)
  BY <1>1, <1>2, Facts, SplitIs
<1>4. a \in Event /\ a.type = "virtual" /\ a.piece = HeadOf(At, i)
  BY <1>3, EventsAre
<1>. HIDE DEF i, a
<1>5. /\ events' \in Seq(Event) /\ Len(events') = Len(events) + 1 /\ Len(events) \in Nat
      /\ \A e \in 1..Len(events) : events'[e] = events[e]
      /\ events'[Len(events) + 1] = a
  BY <1>3, <1>4, Facts, AppendIs
<1>6. Alike(events, events', Len(events)) /\ Extends(events, events')
  BY <1>5 DEF Alike, Extends
<1>7. /\ override' \in [kind : {"gt", "shr"}, piece : Pieces] /\ override'.piece = RestOf(At, i)
      /\ override' # None
  <2>1. override' \in [kind : {"gt", "shr"}, piece : Pieces] /\ override'.piece = RestOf(At, i)
    BY <1>3
  <2>2. "kind" \in DOMAIN override'
    BY <1>3
  <2>3. DOMAIN None = {}
    BY DEF None
  <2>. QED
    BY <2>1, <2>2, <2>3
<1>8. Typed'
  BY <1>1, <1>3, <1>5, <1>7, Facts DEF Typed
<1>9. meant'.taken = TakenBy(events', Len(events'))
  <2>1. events'[Len(events')].type = "virtual"
    BY <1>4, <1>5
  <2>. QED
    BY <1>3, <1>5, <1>6, <2>1, Facts, TakenNext
<1>10. \A e \in Len(events) + 1..Len(events') : events'[e].type \notin {"start", "finish"}
  <2>1. \A e \in Len(events) + 1..Len(events') : e = Len(events) + 1
    BY <1>5
  <2>. QED
    BY <1>4, <1>5, <2>1
<1>11. ASSUME meant'.clean PROVE Follows(Indices', At', events', cursor', override')
  <2>1. Follows(Indices, At, events', cursor, override')
    <3>1. meant.clean /\ override = None /\ (i = 1 \/ i - 1 \in Indices)
      BY <1>3, <1>11
    <3>2. /\ Follows(Indices, At, events, cursor, override)
          /\ events'[Len(events) + 1].type = "virtual"
          /\ events'[Len(events) + 1].piece = HeadOf(At, i)
      BY <1>4, <1>5, <3>1, Facts
    <3>. HIDE DEF Indices, At, Follows
    <3>. QED
      BY <1>3, <1>5, <1>6, <1>7, <3>1, <3>2, Facts, FollowsHead
  <2>. QED
    BY <1>1, <2>1, SameTokens
<1>12. Len(events) <= Len(events')
  BY <1>5
<1>. QED
  BY <1>1, <1>3, <1>5, <1>8, <1>9, <1>10, <1>11, <1>12, TokensKept

LEMMA CheckpointStep ==
    ASSUME ParseInv, Checkpoint
    PROVE  ParseInv'
<1>1. /\ open # <<>> /\ saved = None /\ override = None /\ last' = None
      /\ UNCHANGED <<tokens, cursor, events, override, open, meant>>
      /\ saved' = [cursor |-> cursor, events |-> Len(events), depth |-> Len(open),
                   taken |-> meant.taken, nodes |-> Len(meant.nodes)]
  BY DEF Checkpoint
<1>2. /\ saved'.cursor = cursor /\ saved'.events = Len(events) /\ saved'.depth = Len(open)
      /\ saved'.taken = meant.taken /\ saved'.nodes = Len(meant.nodes)
  BY <1>1
<1>3. Typed'
  <2>1. saved' \in [cursor : Nat, events : Nat, depth : Nat, taken : Nat, nodes : Nat]
    BY <1>1, Facts
  <2>. QED
    BY <1>1, <2>1, Facts DEF Typed
<1>4. Shape(events', meant'.nodes, open', meant'.taken)
  BY <1>1, Facts DEF Shape
<1>5. LastFits'
  BY <1>1 DEF LastFits
<1>6. Rooted'
  BY <1>1, Facts DEF Rooted, Done
<1>7. SavedFits'
  <2>1. Len(events) \in 1..Len(events) /\ Len(open) \in 1..Len(open)
    BY <1>1, Facts, EmptySeq DEF Rooted
  <2>2. /\ SubSeq(events, 1, Len(events)) = events /\ SubSeq(open, 1, Len(open)) = open
        /\ SubSeq(meant.nodes, 1, Len(meant.nodes)) = meant.nodes
    BY Facts, WholeIs
  <2>3. Shape(events, meant.nodes, open, meant.taken)
    BY Facts DEF Shape
  <2>4. meant.clean => Follows(Indices', At', events, cursor, None)
    <3>. HIDE DEF Indices, At, Follows
    <3>. QED
      BY <1>1, Facts, SameTokens
  <2>5. /\ saved'.events \in 1..Len(events') /\ saved'.depth \in 1..Len(open')
        /\ saved'.nodes <= Len(meant'.nodes)
    BY <1>1, <1>2, <2>1, Facts
  <2>6. /\ SubSeq(events', 1, saved'.events) = events /\ SubSeq(open', 1, saved'.depth) = open
        /\ SubSeq(meant'.nodes, 1, saved'.nodes) = meant.nodes
    BY <1>1, <1>2, <2>2
  <2>7. \A d \in saved'.depth + 1..Len(open') : open'[d].pos > saved'.events
    BY <1>1, <1>2, Facts
  <2>8. meant' = meant /\ saved'.cursor = cursor /\ saved'.taken = meant.taken /\ last' = None
    BY <1>1, <1>2
  <2>. HIDE DEF Indices, At, Follows, Shape
  <2>. QED
    BY <2>3, <2>4, <2>5, <2>6, <2>7, <2>8 DEF SavedFits
<1>8. meant'.clean => Follows(Indices', At', events', cursor', override')
  <2>. HIDE DEF Indices, At, Follows
  <2>. QED
    BY <1>1, SameTokens, Facts
<1>. QED
  BY <1>3, <1>4, <1>5, <1>6, <1>7, <1>8 DEF ParseInv

LEMMA RewindStep ==
    ASSUME ParseInv, Rewind
    PROVE  ParseInv'
<1>1. /\ saved # None /\ Len(open) = saved.depth /\ cursor' = saved.cursor
      /\ events' = SubSeq(events, 1, saved.events) /\ saved' = None /\ last' = None
      /\ UNCHANGED <<tokens, override, open>>
      /\ meant' = [taken |-> saved.taken, nodes |-> SubSeq(meant.nodes, 1, saved.nodes),
                   clean |-> meant.clean /\ override = None]
  BY DEF Rewind
<1>2. /\ saved.events \in 1..Len(events) /\ saved.depth \in 1..Len(open)
      /\ saved.nodes \in 0..Len(meant.nodes) /\ saved.cursor \in Nat /\ saved.taken \in Nat
  BY <1>1, SavedBounds
<1>3. /\ meant'.taken = saved.taken /\ meant'.nodes = SubSeq(meant.nodes, 1, saved.nodes)
      /\ meant'.clean = (meant.clean /\ override = None)
  BY <1>1
<1>4. events' \in Seq(Event) /\ Len(events') = saved.events
  <2>1. saved.events \in 0..Len(events)
    BY <1>2
  <2>. QED
    BY <1>1, <2>1, Facts, PrefixIs
<1>5. meant'.nodes \in Seq(Node)
  BY <1>2, <1>3, Facts, PrefixIs
<1>6. Typed'
  <2>1. meant' \in [taken : Nat, nodes : Seq(Node), clean : BOOLEAN]
    BY <1>1, <1>2, <1>3, <1>5
  <2>. QED
    BY <1>1, <1>2, <1>4, <2>1, Facts DEF Typed
<1>7. /\ Shape(SubSeq(events, 1, saved.events), SubSeq(meant.nodes, 1, saved.nodes),
               SubSeq(open, 1, saved.depth), saved.taken)
      /\ meant.clean => Follows(Indices, At, SubSeq(events, 1, saved.events), saved.cursor, None)
  BY <1>1, Facts DEF SavedFits
<1>8. SubSeq(open, 1, saved.depth) = open
  BY <1>1, Facts, WholeIs
<1>9. Shape(events', meant'.nodes, open', meant'.taken)
  BY <1>1, <1>3, <1>7, <1>8
<1>10. LastFits' /\ SavedFits'
  BY <1>1 DEF LastFits, SavedFits
<1>11. Rooted'
  <2>1. events' # <<>>
    <3>1. Len(<<>>) = 0 /\ Len(events') # 0
      BY <1>2, <1>4
    <3>. QED
      BY <3>1
  <2>2. open # <<>> /\ open[1].pos = 1 /\ open[1].first = 1
    <3>1. Len(<<>>) = 0 /\ Len(open) # 0
      BY <1>2
    <3>2. open # <<>>
      BY <3>1
    <3>. QED
      BY <3>2, Facts DEF Rooted
  <2>. QED
    BY <1>1, <2>1, <2>2 DEF Rooted, Done
<1>12. ASSUME meant'.clean PROVE Follows(Indices', At', events', cursor', override')
  <2>1. meant.clean /\ override = None
    BY <1>3, <1>12
  <2>. HIDE DEF Indices, At, Follows
  <2>2. Follows(Indices, At, events', cursor', None)
    BY <1>1, <1>7, <2>1
  <2>. QED
    BY <1>1, <2>1, <2>2, SameTokens
<1>. QED
  BY <1>6, <1>9, <1>10, <1>11, <1>12 DEF ParseInv

(* The first state, and a step of something else.                          *)
LEMMA InitParse ==
    ASSUME ParserInit
    PROVE  ParseInv
<1>1. /\ tokens \in Inputs /\ cursor = 0 /\ events = <<>> /\ override = None
      /\ open = <<>> /\ last = None /\ saved = None
      /\ meant = [taken |-> 0, nodes |-> <<>>, clean |-> TRUE]
  BY DEF ParserInit, ParserStart
<1>2. /\ <<>> \in Seq(Event) /\ <<>> \in Seq(Node) /\ <<>> \in Seq(Marker)
      /\ Len(<<>>) = 0 /\ 1..0 = {} /\ Len(events) = 0 /\ Len(open) = 0 /\ Len(meant.nodes) = 0
      /\ meant.nodes = <<>> /\ meant.taken = 0
  BY <1>1
<1>3. tokens \in Seq(Kinds)
  BY <1>1, ParserAssumption
<1>4. Typed
  <2>1. meant \in [taken : Nat, nodes : Seq(Node), clean : BOOLEAN]
    BY <1>1, <1>2
  <2>. QED
    BY <1>1, <1>2, <1>3, <2>1 DEF Typed
<1>5. events \in Seq(Event) /\ 0 \in 0..Len(events)
  BY <1>1, <1>2
<1>6. /\ TakenBy(events, 0) = 0 /\ Moved(events, 0) = 0 /\ Finishes(events, 0) = 0
      /\ Virtuals(events, 0) = 0 /\ Advances(events, 0) = 0
  BY <1>5, CountsAreNat
<1>7. Shape(events, meant.nodes, open, meant.taken)
  <2>1. Markers(events, open)
    BY <1>2 DEF Markers
  <2>2. Nodes(events, meant.nodes)
    BY <1>2, <1>6 DEF Nodes
  <2>3. Nested(meant.nodes, open)
    BY <1>2 DEF Nested
  <2>4. Chained(events, meant.nodes, open)
    BY <1>2 DEF Chained
  <2>. QED
    BY <1>2, <1>6, <2>1, <2>2, <2>3, <2>4 DEF Shape
<1>8. LastFits /\ SavedFits /\ Rooted
  BY <1>1 DEF LastFits, SavedFits, Rooted, Done
<1>9. Follows(Indices, At, events, cursor, override)
  BY <1>1, <1>2, <1>6 DEF Follows, Halves
<1>. QED
  BY <1>4, <1>7, <1>8, <1>9 DEF ParseInv

LEMMA IdleStep ==
    ASSUME ParseInv, UNCHANGED parserVars
    PROVE  ParseInv'
<1>1. UNCHANGED <<tokens, cursor, events, override, open, last, saved, meant>>
  BY DEF parserVars
<1>2. Typed' /\ LastFits'
  BY <1>1 DEF ParseInv, Typed, LastFits
<1>3. Rooted' /\ Shape(events', meant'.nodes, open', meant'.taken)
  <2>1. AtEnd' <=> AtEnd
    BY <1>1, SameTokens
  <2>. QED
    BY <1>1, <2>1 DEF ParseInv, Rooted, Done
<1>4. SavedFits'
  <2>. HIDE DEF Indices, At, Follows, Shape
  <2>1. Indices' = Indices /\ At' = At
    BY <1>1, SameTokens
  <2>. QED
    BY <1>1, <2>1 DEF ParseInv, SavedFits
<1>5. meant'.clean => Follows(Indices', At', events', cursor', override')
  <2>. HIDE DEF Indices, At, Follows
  <2>. QED
    BY <1>1, SameTokens DEF ParseInv
<1>. QED
  BY <1>2, <1>3, <1>4, <1>5 DEF ParseInv

(* However the grammar uses the parser, its events and markers describe a  *)
(* tree over the tokens taken: also after a split, an abandoned marker,    *)
(* one that precedes a node, and a lookahead that is rewound.              *)
THEOREM ParserKeepsShape == ParserSpec => []ParseInv
<1>1. ParserInit => ParseInv
  BY InitParse
<1>2. ParseInv /\ [ParserNext]_parserVars => ParseInv'
  <2>. SUFFICES ASSUME ParseInv, [ParserNext]_parserVars PROVE ParseInv'
    OBVIOUS
  <2>. QED
    BY StartStep, CompleteStep, AbandonStep, PrecedeStep, BumpStep, SplitStep, CheckpointStep,
       RewindStep, IdleStep DEF ParserNext
<1>. QED
  BY <1>1, <1>2, PTL DEF ParserSpec

-----------------------------------------------------------------------------
(* The sink: the chain of forward parents.                                 *)

LEMMA MinIs ==
    ASSUME NEW S, S \subseteq Nat, S # {}
    PROVE  Min(S) \in S /\ \A y \in S : Min(S) <= y
<1>0. S \in SUBSET Nat
  OBVIOUS
<1>1. PICK x \in S : \A y \in S : ~ (<<y, x>> \in OpToRel(<, Nat))
  BY <1>0, NatLessThanWellFounded, WFMin
<1>2. ASSUME NEW y \in S PROVE x <= y
  <2>1. x \in Nat /\ y \in Nat
    OBVIOUS
  <2>2. SUFFICES ASSUME y < x PROVE FALSE
    BY <2>1
  <2>. QED
    BY <1>1, <2>1, <2>2 DEF OpToRel
<1>. QED
  BY <1>2 DEF Min

(* The first event of a node is that of a node.                            *)
LEMMA FirstIs ==
    ASSUME NEW evs \in Seq(Event), NEW nodes \in Seq(Node), Nodes(evs, nodes),
           Chained(evs, nodes, <<>>)
    PROVE  \A i \in 1..Len(nodes) : \E j \in 1..Len(nodes) :
              nodes[j].node = nodes[i].first /\ nodes[j].first = nodes[i].first
<1>. DEFINE Led1(i) == \E j \in 1..Len(nodes) :
                nodes[j].node = nodes[i].first /\ nodes[j].first = nodes[i].first
            S == {k \in 0..Len(evs) : \A i \in 1..Len(nodes) : nodes[i].node <= k => Led1(i)}
<1>1. \A i \in 1..Len(nodes) : nodes[i].node \in 1..Len(evs) /\ Led(nodes[i].first, nodes[i].node, evs, nodes)
  BY NodeBounds DEF Chained
<1>2. 0 \in S
  BY <1>1
<1>3. ASSUME NEW k \in 0 + 1..Len(evs), k - 1 \in S PROVE k \in S
  <2>1. ASSUME NEW i \in 1..Len(nodes), nodes[i].node <= k PROVE Led1(i)
    <3>1. CASE nodes[i].first = nodes[i].node
      BY <3>1
    <3>2. CASE nodes[i].first # nodes[i].node
      <4>1. PICK l \in 1..Len(nodes) : nodes[l].first = nodes[i].first /\ nodes[l].node < nodes[i].node
        BY <1>1, <3>2 DEF Led
      <4>2. nodes[l].node <= k - 1
        BY <1>1, <2>1, <4>1
      <4>3. Led1(l)
        BY <1>3, <4>2
      <4>. QED
        BY <4>1, <4>3
    <3>. QED
      BY <3>1, <3>2
  <2>. HIDE DEF Led1
  <2>. QED
    BY <2>1
<1>4. 0..Len(evs) \subseteq S
  <2>. HIDE DEF S
  <2>1. Len(evs) \in Nat
    OBVIOUS
  <2>. QED
    BY <1>2, <1>3, <2>1, Upwards
<1>5. ASSUME NEW i \in 1..Len(nodes) PROVE Led1(i)
  <2>1. nodes[i].node \in 1..Len(evs) /\ Len(evs) \in 0..Len(evs)
    BY <1>1
  <2>2. Len(evs) \in S
    BY <1>4, <2>1
  <2>. HIDE DEF Led1
  <2>. QED
    BY <2>1, <2>2
<1>. QED
  BY <1>5

(* The chain of forward parents that an event leads to.                    *)
Path(at, idx) == [k \in 1..Len(events) |-> IF k = 1 THEN idx ELSE at[k - 1] + events[at[k - 1]].forward]
Starts == {e \in 1..Len(events) : events[e].type = "start"}
Linked == \A e \in Starts : e + events[e].forward \in Starts
LEMMA ChainIs ==
    ASSUME events \in Seq(Event), NEW idx \in Starts, Linked
    PROVE  LET c == Chain(idx) IN
           /\ c \in Seq(Starts) /\ Len(c) >= 1 /\ c[1] = idx
           /\ \A k \in 1..Len(c) - 1 : /\ c[k + 1] = c[k] + events[c[k]].forward
                                       /\ c[k] < c[k + 1]
           /\ events[c[Len(c)]].forward = 0
<1>. DEFINE L == Len(events)
            h == [z \in (1..L) \X Starts |-> z[2] + events[z[2]].forward]
            f == CHOOSE at : at = Path(at, idx)
<1>0. L \in Nat /\ idx \in 1..L /\ 1 <= L /\ Starts \subseteq 1..L
  BY DEF Starts
<1>1. \A e \in Starts : events[e].forward \in Nat /\ e \in Nat /\ e <= L
  BY DEF Starts, Event, Tombstone, AddToken, AdvanceSource, FinishNode
<1>2. PICK g : g = Following(g, 1, L, idx, h)
  <2>1. 1 \in Nat /\ L \in Nat /\ 1 <= L
    BY <1>0
  <2>. HIDE DEF L, h, f
  <2>. QED
    BY <2>1, FollowingExists
<1>3. \A k \in 1..L : g[k] \in Starts
  <2>. DEFINE S == {k \in 1..L : g[k] \in Starts}
  <2>1. 1 \in S
    <3>1. 1 \in 1..L
      BY <1>0
    <3>2. g[1] = Following(g, 1, L, idx, h)[1]
      BY <1>2
    <3>. QED
      BY <3>1, <3>2 DEF Following
  <2>2. ASSUME NEW k \in 1 + 1..L, k - 1 \in S PROVE k \in S
    <3>1. k \in 1..L /\ k # 1 /\ g[k - 1] \in Starts
      BY <2>2
    <3>2. g[k] = Following(g, 1, L, idx, h)[k]
      BY <1>2
    <3>3. g[k] = h[<<k, g[k - 1]>>]
      <4>. HIDE DEF h
      <4>. QED
        BY <3>1, <3>2 DEF Following
    <3>4. h[<<k, g[k - 1]>>] = g[k - 1] + events[g[k - 1]].forward
      BY <3>1
    <3>. QED
      BY <3>1, <3>3, <3>4 DEF Linked
  <2>3. 1..L \subseteq S
    <3>. HIDE DEF S, h, L
    <3>. QED
      BY <1>0, <2>1, <2>2, Upwards
  <2>. QED
    BY <2>3
<1>4. g = Path(g, idx)
  <2>1. ASSUME NEW k \in 1..L
        PROVE  (IF k = 1 THEN idx ELSE h[<<k, g[k - 1]>>])
               = IF k = 1 THEN idx ELSE g[k - 1] + events[g[k - 1]].forward
    <3>1. CASE k = 1
      BY <3>1
    <3>2. CASE k # 1
      <4>1. k - 1 \in 1..L
        BY <3>2
      <4>2. g[k - 1] \in Starts
        BY <1>3, <4>1
      <4>. QED
        BY <3>2, <4>2
    <3>. QED
      BY <3>1, <3>2
  <2>. HIDE DEF h
  <2>2. Following(g, 1, L, idx, h) = Path(g, idx)
    BY <2>1, Zenon DEF Following, Path
  <2>. QED
    BY <1>2, <2>2
<1>5. f = Path(f, idx)
  BY <1>4
<1>6. Chain(idx) = SubSeq(f, 1, Min({k \in 1..L : events[f[k]].forward = 0}))
  BY Zenon DEF Chain, Path
<1>. HIDE DEF f
<1>7. f[1] = idx /\ \A k \in 2..L : f[k] = f[k - 1] + events[f[k - 1]].forward
  <2>1. f[1] = Path(f, idx)[1] /\ 1 \in 1..L
    BY <1>0, <1>5
  <2>2. ASSUME NEW k \in 2..L PROVE f[k] = f[k - 1] + events[f[k - 1]].forward
    <3>1. f[k] = Path(f, idx)[k] /\ k \in 1..L /\ k # 1
      BY <1>0, <1>5
    <3>. QED
      BY <3>1 DEF Path
  <2>. QED
    BY <2>1, <2>2 DEF Path
<1>8. \A k \in 1..L : f[k] \in Starts
  <2>. DEFINE S == {k \in 1..L : f[k] \in Starts}
  <2>1. 1 \in S
    BY <1>0, <1>7
  <2>2. ASSUME NEW k \in 1 + 1..L, k - 1 \in S PROVE k \in S
    <3>1. k \in 2..L /\ f[k - 1] \in Starts /\ k \in 1..L
      BY <2>2
    <3>. QED
      BY <1>7, <3>1 DEF Linked
  <2>3. 1..L \subseteq S
    <3>. HIDE DEF S, L
    <3>. QED
      BY <1>0, <2>1, <2>2, Upwards
  <2>. QED
    BY <2>3
<1>9. f \in [1..L -> Starts]
  <2>1. f = [k \in 1..L |-> f[k]]
    <3>1. \A k \in 1..L : (IF k = 1 THEN idx ELSE f[k - 1] + events[f[k - 1]].forward) = f[k]
      <4>1. \A k \in 1..L : Path(f, idx)[k] = f[k]
        BY <1>5
      <4>. QED
        BY <4>1 DEF Path
    <3>2. Path(f, idx) = [k \in 1..L |-> f[k]]
      BY <3>1, Zenon DEF Path
    <3>. QED
      BY <1>5, <3>2
  <2>. QED
    BY <1>8, <2>1
<1>. DEFINE Z == {k \in 1..L : events[f[k]].forward = 0}
            n == Min(Z)
<1>10. Z # {}
  <2>1. SUFFICES ASSUME Z = {} PROVE FALSE
    OBVIOUS
  <2>2. \A k \in 1..L : events[f[k]].forward > 0
    <3>1. \A k \in 1..L : events[f[k]].forward \in Nat /\ events[f[k]].forward # 0
      BY <1>1, <1>8, <2>1
    <3>. QED
      BY <3>1
  <2>. DEFINE S == {k \in 1..L : f[k] >= k}
  <2>3. 1 \in S
    BY <1>0, <1>7
  <2>4. ASSUME NEW k \in 1 + 1..L, k - 1 \in S PROVE k \in S
    <3>1. k \in 2..L /\ k - 1 \in 1..L /\ k \in 1..L /\ f[k - 1] >= k - 1
      BY <2>4
    <3>2. f[k] = f[k - 1] + events[f[k - 1]].forward /\ f[k - 1] \in Starts
      BY <1>7, <1>8, <3>1
    <3>4. f[k - 1] \in Nat /\ events[f[k - 1]].forward \in Nat
      BY <1>1, <3>2
    <3>3. events[f[k - 1]].forward > 0
      BY <2>2, <3>1
    <3>. QED
      BY <3>1, <3>2, <3>3, <3>4
  <2>5. 1..L \subseteq S
    <3>. HIDE DEF S, L
    <3>. QED
      BY <1>0, <2>3, <2>4, Upwards
  <2>6. L \in 1..L /\ f[L] >= L /\ f[L] \in Starts
    BY <1>0, <1>8, <2>5
  <2>7. f[L] + events[f[L]].forward \in Starts /\ events[f[L]].forward > 0
        /\ events[f[L]].forward \in Nat /\ f[L] \in Nat
    BY <1>1, <2>2, <2>6 DEF Linked
  <2>8. f[L] + events[f[L]].forward <= L
    BY <1>1, <2>7
  <2>. QED
    BY <1>0, <2>6, <2>7, <2>8
<1>11. n \in Z /\ \A k \in Z : n <= k
  <2>1. Z \subseteq Nat
    OBVIOUS
  <2>. HIDE DEF Z
  <2>. QED
    BY <1>10, <2>1, MinIs
<1>12. /\ n \in 1..L /\ events[f[n]].forward = 0
       /\ \A k \in 1..n - 1 : events[f[k]].forward # 0 /\ k \in 1..L /\ k + 1 \in 2..L
  <2>. HIDE DEF n
  <2>. QED
    BY <1>0, <1>11
<1>13. Chain(idx) = SubSeq(f, 1, n)
  BY <1>6
<1>. HIDE DEF n, Z, L
<1>14. /\ SubSeq(f, 1, n) \in Seq(Starts) /\ Len(SubSeq(f, 1, n)) = n
       /\ \A k \in 1..n : SubSeq(f, 1, n)[k] = f[k]
  <2>1. f \in Seq(Starts) /\ Len(f) = L
    BY <1>0, <1>9 DEF Seq
  <2>2. n \in 0..Len(f)
    BY <1>0, <1>12, <2>1
  <2>. QED
    BY <2>1, <2>2, PrefixIs
<1>15. ASSUME NEW k \in 1..n - 1
       PROVE  f[k + 1] = f[k] + events[f[k]].forward /\ f[k] < f[k + 1]
  <2>1. /\ events[f[k]].forward # 0 /\ k \in 1..L /\ k + 1 \in 2..L /\ k + 1 - 1 = k
    BY <1>0, <1>12
  <2>4. f[k] \in Starts
    BY <1>8, <2>1
  <2>2. f[k] \in Nat /\ events[f[k]].forward \in Nat
    BY <1>1, <2>4
  <2>3. f[k + 1] = f[k] + events[f[k]].forward
    BY <1>7, <2>1
  <2>. QED
    BY <2>1, <2>2, <2>3
<1>16. \A k \in 1..n - 1 : k \in 1..n /\ k + 1 \in 1..n
  BY <1>0, <1>12
<1>17. 1 \in 1..n /\ n \in 1..n /\ n >= 1
  BY <1>0, <1>12
<1>. QED
  BY <1>7, <1>12, <1>13, <1>14, <1>15, <1>16, <1>17

(* A complete tree: every marker is closed.                                *)
Whole(nodes) ==
    /\ events \in Seq(Event) /\ nodes \in Seq(Node)
    /\ Nodes(events, nodes) /\ Nested(nodes, <<>>) /\ Chained(events, nodes, <<>>)
    /\ nodes # <<>> /\ nodes[Len(nodes)].node = 1 /\ nodes[Len(nodes)].last = Len(events)

LEMMA WholeNodes ==
    ASSUME NEW nodes, Whole(nodes)
    PROVE  /\ events \in Seq(Event) /\ nodes \in Seq(Node)
           /\ Len(events) \in Nat /\ Len(nodes) \in Nat /\ Len(nodes) \in 1..Len(nodes)
           /\ \A i \in 1..Len(nodes) :
                 /\ nodes[i] \in Node /\ nodes[i].first \in 1..nodes[i].node
                 /\ nodes[i].first \in 1..Len(events) /\ nodes[i].node \in Starts
                 /\ nodes[i].node \in 1..Len(events) /\ nodes[i].last \in 1..Len(events)
                 /\ nodes[i].node < nodes[i].last /\ nodes[i].first < nodes[i].last
                 /\ events[nodes[i].last].type = "finish" /\ Finishes(events, nodes[i].last) = i
                 /\ nodes[i].from = TakenBy(events, nodes[i].first)
                 /\ nodes[i].to = TakenBy(events, nodes[i].last)
           /\ \A i, j \in 1..Len(nodes) : nodes[i].node = nodes[j].node => i = j
           /\ \A e \in Starts : \E i \in 1..Len(nodes) : nodes[i].node = e
           /\ Linked
<1>1. events \in Seq(Event) /\ nodes \in Seq(Node) /\ Len(events) \in Nat /\ Len(nodes) \in Nat
      /\ Len(nodes) # 0
  BY EmptySeq DEF Whole
<1>2. ASSUME NEW i \in 1..Len(nodes)
      PROVE  /\ nodes[i] \in Node /\ nodes[i].first \in 1..nodes[i].node
             /\ nodes[i].first \in 1..Len(events) /\ nodes[i].node \in Starts
             /\ nodes[i].node \in 1..Len(events) /\ nodes[i].last \in 1..Len(events)
             /\ nodes[i].node < nodes[i].last /\ nodes[i].first < nodes[i].last
             /\ events[nodes[i].last].type = "finish" /\ Finishes(events, nodes[i].last) = i
             /\ nodes[i].from = TakenBy(events, nodes[i].first)
             /\ nodes[i].to = TakenBy(events, nodes[i].last)
  <2>1. /\ nodes[i] \in Node /\ nodes[i].first \in 1..nodes[i].node
        /\ nodes[i].first \in 1..Len(events) /\ nodes[i].node \in 1..Len(events)
        /\ nodes[i].last \in 1..Len(events) /\ nodes[i].node < nodes[i].last
    BY NodeBounds DEF Whole
  <2>2. /\ events[nodes[i].node].type = "start"
        /\ events[nodes[i].last].type = "finish" /\ Finishes(events, nodes[i].last) = i
        /\ nodes[i].from = TakenBy(events, nodes[i].first)
        /\ nodes[i].to = TakenBy(events, nodes[i].last)
    BY DEF Whole, Nodes
  <2>3. nodes[i].first < nodes[i].last
    <3>1. nodes[i].first \in Nat /\ nodes[i].node \in Nat /\ nodes[i].last \in Nat
          /\ nodes[i].first <= nodes[i].node
      BY <1>1, <2>1
    <3>. QED
      BY <2>1, <3>1
  <2>. QED
    BY <2>1, <2>2, <2>3 DEF Starts
<1>3. \A i, j \in 1..Len(nodes) : nodes[i].node = nodes[j].node => i = j
  BY DEF Whole, Nodes
<1>4. \A e \in Starts : \E i \in 1..Len(nodes) : nodes[i].node = e
  BY DEF Whole, Nodes, Starts
<1>5. Linked
  <2>. SUFFICES ASSUME NEW e \in Starts PROVE e + events[e].forward \in Starts
    BY DEF Linked
  <2>1. PICK i \in 1..Len(nodes) : nodes[i].node = e
    BY <1>4
  <2>2. e \in Nat
    BY DEF Starts
  <2>3. CASE events[e].forward = 0
    BY <2>2, <2>3
  <2>4. CASE events[e].forward # 0
    <3>1. Placed(nodes[i].first, Target(events, nodes[i]), nodes, <<>>)
      BY <2>1, <2>4 DEF Whole, Chained
    <3>2. \E j \in 1..Len(nodes) : nodes[j].node = Target(events, nodes[i])
      <4>1. 1..Len(<<>>) = {}
        OBVIOUS
      <4>. QED
        BY <3>1, <4>1 DEF Placed
    <3>3. Target(events, nodes[i]) = e + events[e].forward
      BY <2>1 DEF Target
    <3>. QED
      BY <1>2, <3>2, <3>3
  <2>. QED
    BY <2>3, <2>4
<1>6. Len(nodes) \in 1..Len(nodes)
  BY <1>1
<1>. QED
  BY <1>1, <1>2, <1>3, <1>4, <1>5, <1>6

(* The chain an event leads to holds the nodes that start there, outwards. *)
LEMMA ChainNodes ==
    ASSUME NEW nodes, Whole(nodes), NEW i0 \in 1..Len(nodes), nodes[i0].first = nodes[i0].node
    PROVE  LET c == Chain(nodes[i0].node) IN
           /\ c \in Seq(Starts)
           /\ \A k \in 1..Len(c) : \E i \in 1..Len(nodes) :
                 nodes[i].node = c[k] /\ nodes[i].first = nodes[i0].node
           /\ \A i \in 1..Len(nodes) : nodes[i].first = nodes[i0].node =>
                 \E k \in 1..Len(c) : c[k] = nodes[i].node
           /\ \A k \in 1..Len(c) : \A j \in 1..k - 1 : c[j] < c[k]
<1>. DEFINE idx == nodes[i0].node
            c == Chain(idx)
<1>1. /\ c \in Seq(Starts) /\ Len(c) >= 1 /\ c[1] = idx
      /\ \A k \in 1..Len(c) - 1 : /\ c[k + 1] = c[k] + events[c[k]].forward
                                  /\ c[k] < c[k + 1]
      /\ events[c[Len(c)]].forward = 0
  <2>1. idx \in Starts
    BY WholeNodes
  <2>. HIDE DEF idx
  <2>. QED
    BY <2>1, WholeNodes, ChainIs
<1>. HIDE DEF c
<1>2. Len(c) \in Nat /\ (\A k \in 1..Len(c) : c[k] \in Starts) /\ (\A e \in Starts : e \in Nat)
  <2>1. \A e \in Starts : e \in Nat
    BY DEF Starts
  <2>. QED
    BY <1>1, <2>1
<1>3. ASSUME NEW k \in 1..Len(c)
      PROVE  \E i \in 1..Len(nodes) : nodes[i].node = c[k] /\ nodes[i].first = idx
  <2>. DEFINE S == {m \in 1..Len(c) : \E i \in 1..Len(nodes) :
                        nodes[i].node = c[m] /\ nodes[i].first = idx}
  <2>1. 1 \in S
    BY <1>1, <1>2
  <2>2. ASSUME NEW m \in 1 + 1..Len(c), m - 1 \in S PROVE m \in S
    <3>1. m - 1 \in 1..Len(c) - 1 /\ m - 1 + 1 = m /\ m \in 1..Len(c)
      BY <1>2
    <3>2. c[m] = c[m - 1] + events[c[m - 1]].forward /\ c[m - 1] < c[m]
      BY <1>1, <3>1
    <3>3. PICK i \in 1..Len(nodes) : nodes[i].node = c[m - 1] /\ nodes[i].first = idx
      BY <2>2
    <3>4. events[nodes[i].node].forward # 0
      <4>1. c[m - 1] \in Nat
        BY <1>2, <3>1
      <4>2. SUFFICES ASSUME events[c[m - 1]].forward = 0 PROVE FALSE
        BY <3>3
      <4>. QED
        BY <3>2, <4>1, <4>2
    <3>5. Placed(nodes[i].first, Target(events, nodes[i]), nodes, <<>>)
      BY <3>4 DEF Whole, Chained
    <3>6. \E j \in 1..Len(nodes) : nodes[j].node = Target(events, nodes[i]) /\ nodes[j].first = nodes[i].first
      <4>1. 1..Len(<<>>) = {}
        OBVIOUS
      <4>. QED
        BY <3>5, <4>1 DEF Placed
    <3>7. Target(events, nodes[i]) = c[m]
      BY <3>2, <3>3 DEF Target
    <3>. QED
      BY <3>1, <3>3, <3>6, <3>7
  <2>3. 1..Len(c) \subseteq S
    <3>. HIDE DEF S
    <3>. QED
      BY <1>2, <2>1, <2>2, Upwards
  <2>. QED
    BY <2>3
<1>4. ASSUME NEW i \in 1..Len(nodes), nodes[i].first = idx
      PROVE  \E k \in 1..Len(c) : c[k] = nodes[i].node
  <2>. DEFINE In(e) == \E k \in 1..Len(c) : c[k] = e
              S == {m \in 0..Len(events) : \A j \in 1..Len(nodes) :
                        nodes[j].first = idx /\ nodes[j].node <= m => In(nodes[j].node)}
  <2>0. \A j \in 1..Len(nodes) : nodes[j].node \in 1..Len(events)
    BY WholeNodes
  <2>1. 0 \in S
    BY <2>0, WholeNodes
  <2>2. ASSUME NEW m \in 0 + 1..Len(events), m - 1 \in S PROVE m \in S
    <3>1. ASSUME NEW j \in 1..Len(nodes), nodes[j].first = idx, nodes[j].node <= m
          PROVE  In(nodes[j].node)
      <4>1. CASE nodes[j].first = nodes[j].node
        BY <1>1, <1>2, <3>1, <4>1
      <4>2. CASE nodes[j].first # nodes[j].node
        <5>1. Led(nodes[j].first, nodes[j].node, events, nodes)
          BY DEF Whole, Chained
        <5>2. PICK l \in 1..Len(nodes) : /\ nodes[l].first = nodes[j].first
                                         /\ nodes[l].node < nodes[j].node
                                         /\ Target(events, nodes[l]) = nodes[j].node
          BY <4>2, <5>1 DEF Led
        <5>3. nodes[l].node <= m - 1
          <6>1. nodes[l].node \in Nat /\ nodes[j].node \in Nat
            BY <2>0
          <6>. QED
            BY <3>1, <5>2, <6>1
        <5>4. In(nodes[l].node)
          BY <2>2, <3>1, <5>2, <5>3
        <5>5. PICK k \in 1..Len(c) : c[k] = nodes[l].node
          BY <5>4
        <5>6. nodes[l].node + events[nodes[l].node].forward = nodes[j].node
          BY <5>2 DEF Target
        <5>7. k # Len(c)
          <6>1. events[c[k]].forward # 0
            <7>1. nodes[l].node \in Nat
              BY <2>0
            <7>2. SUFFICES ASSUME events[nodes[l].node].forward = 0 PROVE FALSE
              BY <5>5
            <7>. QED
              BY <5>2, <5>6, <7>1, <7>2
          <6>. QED
            BY <1>1, <6>1
        <5>8. k \in 1..Len(c) - 1 /\ k + 1 \in 1..Len(c)
          BY <1>2, <5>7
        <5>9. c[k + 1] = nodes[j].node
          BY <1>1, <5>5, <5>6, <5>8
        <5>. QED
          BY <5>8, <5>9
      <4>. QED
        BY <4>1, <4>2
    <3>. HIDE DEF In
    <3>. QED
      BY <3>1
  <2>3. 0..Len(events) \subseteq S
    <3>. HIDE DEF S
    <3>1. Len(events) \in Nat
      BY WholeNodes
    <3>. QED
      BY <2>1, <2>2, <3>1, Upwards
  <2>4. nodes[i].node \in S /\ nodes[i].node \in Nat
    BY <2>0, <2>3
  <2>. HIDE DEF In
  <2>5. In(nodes[i].node)
    BY <1>4, <2>4
  <2>. QED
    BY <2>5 DEF In
<1>5. ASSUME NEW k \in 1..Len(c), NEW j \in 1..k - 1 PROVE c[j] < c[k]
  <2>. DEFINE S == {m \in 1..Len(c) : c[j] < c[m]}
  <2>0. j \in 1..Len(c) - 1 /\ j + 1 \in 1..Len(c) /\ j \in 1..Len(c) /\ j + 1 \in Nat /\ k \in j + 1..Len(c)
    BY <1>2
  <2>1. j + 1 \in S
    BY <1>1, <2>0
  <2>2. ASSUME NEW m \in j + 1 + 1..Len(c), m - 1 \in S PROVE m \in S
    <3>1. m - 1 \in 1..Len(c) - 1 /\ m - 1 + 1 = m /\ m \in 1..Len(c) /\ m - 1 \in 1..Len(c)
      BY <1>2, <2>0
    <3>2. c[m - 1] < c[m] /\ c[j] < c[m - 1]
      BY <1>1, <2>2, <3>1
    <3>3. c[j] \in Nat /\ c[m - 1] \in Nat /\ c[m] \in Nat
      BY <1>2, <2>0, <3>1
    <3>. QED
      BY <3>1, <3>2, <3>3
  <2>3. j + 1..Len(c) \subseteq S
    <3>. HIDE DEF S
    <3>. QED
      BY <1>2, <2>0, <2>1, <2>2, Upwards
  <2>. QED
    BY <2>0, <2>3
<1>6. /\ c \in Seq(Starts)
      /\ \A k \in 1..Len(c) : \E i \in 1..Len(nodes) :
            nodes[i].node = c[k] /\ nodes[i].first = idx
      /\ \A i \in 1..Len(nodes) : nodes[i].first = idx =>
            \E k \in 1..Len(c) : c[k] = nodes[i].node
      /\ \A k \in 1..Len(c) : \A j \in 1..k - 1 : c[j] < c[k]
  BY <1>1, <1>3, <1>4, <1>5
<1>. QED
  BY <1>6 DEF c

LEMMA FinishIs ==
    ASSUME NEW nodes, Whole(nodes), NEW n \in 1..Len(events), events[n].type = "finish"
    PROVE  Finishes(events, n) \in 1..Len(nodes) /\ nodes[Finishes(events, n)].last = n
<1>. DEFINE i == Finishes(events, n)
<1>1. /\ events \in Seq(Event) /\ Len(events) \in Nat /\ n \in 0..Len(events) /\ n \in Nat
      /\ Len(events) \in 0..Len(events) /\ n - 1 \in 0..Len(events)
  BY WholeNodes
<1>2. Finishes(events, Len(events)) = Len(nodes) /\ Len(nodes) \in Nat
  BY WholeNodes DEF Whole, Nodes
<1>3. i \in Nat /\ i <= Len(nodes)
  BY <1>1, <1>2, EventsCounted DEF Finishes
<1>4. i >= 1
  <2>1. i = Finishes(events, n - 1) + 1 /\ Finishes(events, n - 1) \in Nat
    BY <1>1, CountsNext, CountsAreNat
  <2>. QED
    BY <2>1
<1>5. i \in 1..Len(nodes)
  BY <1>2, <1>3, <1>4
<1>6. /\ nodes[i].last \in 1..Len(events) /\ events[nodes[i].last].type = "finish"
      /\ Finishes(events, nodes[i].last) = i
  BY <1>5, WholeNodes
<1>7. nodes[i].last \in Nat /\ nodes[i].last \in 0..Len(events)
  BY <1>1, <1>6
<1>8. ~(nodes[i].last < n)
  <2>1. nodes[i].last < n => nodes[i].last \in 0..n
    BY <1>1, <1>7
  <2>2. nodes[i].last < n => Finishes(events, nodes[i].last) < i
    BY <1>1, <2>1, EventsCounted DEF Finishes
  <2>. QED
    BY <1>3, <1>6, <2>2
<1>9. ~(n < nodes[i].last)
  <2>1. n < nodes[i].last => n \in 0..nodes[i].last
    BY <1>1, <1>7
  <2>2. n < nodes[i].last => i < Finishes(events, nodes[i].last)
    BY <1>1, <1>6, <1>7, <2>1, EventsCounted DEF Finishes
  <2>. QED
    BY <1>3, <1>6, <2>2
<1>. QED
  BY <1>1, <1>5, <1>7, <1>8, <1>9

LEMMA RootIs ==
    ASSUME NEW nodes, Whole(nodes), NEW i \in 1..Len(nodes), nodes[i].first = 1
    PROVE  nodes[i].node = 1
<1>. DEFINE r == Len(nodes)
<1>1. r \in 1..Len(nodes) /\ nodes[r].node = 1 /\ nodes[r].first = 1 /\ r \in Nat
  <2>1. r \in 1..Len(nodes) /\ nodes[r].node = 1 /\ nodes[r].first \in 1..nodes[r].node /\ r \in Nat
    BY WholeNodes DEF Whole
  <2>. HIDE DEF r
  <2>. QED
    BY <2>1
<1>2. CASE i = r
  BY <1>1, <1>2
<1>3. CASE i # r
  <2>1. i \in 1..r - 1
    BY <1>1, <1>3
  <2>2. Apart(nodes[r].first, nodes[r].node, nodes[i])
    BY <1>1, <2>1 DEF Whole, Nested
  <2>3. nodes[i].last \in 1..Len(events) /\ nodes[i].node \in 1..Len(events) /\ Len(events) \in Nat
    BY WholeNodes
  <2>4. nodes[i].last >= 1 /\ ~(nodes[i].node < 1)
    BY <2>3
  <2>. QED
    BY <1>1, <2>2, <2>4 DEF Apart
<1>. QED
  BY <1>2, <1>3

-----------------------------------------------------------------------------
(* The sink: the text it builds.                                           *)

(* The state of the sink, and a text that another extends.                 *)
Text == [from : Nat, to : Nat, trivia : BOOLEAN]
SinkType == [cursor : Nat, text : Seq(Text), open : Seq([node : Nat, first : Nat]),
             closed : Seq([node : Nat, first : Nat, last : Nat]), gone : SUBSET Nat]
Grown(body, more) == Len(body) <= Len(more) /\ \A i \in 1..Len(body) : more[i] = body[i]

LEMMA TokensInIs ==
    ASSUME NEW body \in Seq(Text), NEW n \in Nat
    PROVE  /\ TokensIn(body, n) \in Nat /\ TokensIn(body, 0) = 0
           /\ n < Len(body) => TokensIn(body, n + 1)
                   = IF body[n + 1].trivia THEN TokensIn(body, n) ELSE TokensIn(body, n) + 1
<1>. DEFINE S == {i \in DOMAIN body : ~body[i].trivia}
<1>1. DOMAIN body = 1..Len(body) /\ Len(body) \in Nat
  OBVIOUS
<1>2. n < Len(body) => (n + 1 \in S <=> ~body[n + 1].trivia)
  BY <1>1
<1>. HIDE DEF S
<1>3. /\ CountTo(S, n) \in Nat /\ CountTo(S, 0) = 0
      /\ CountTo(S, n + 1) = IF n + 1 \in S THEN CountTo(S, n) + 1 ELSE CountTo(S, n)
  BY CountIsNat, CountNext
<1>4. \A k : TokensIn(body, k) = CountTo(S, k)
  BY DEF TokensIn, S
<1>. QED
  BY <1>2, <1>3, <1>4

LEMMA TokensGrown ==
    ASSUME NEW body \in Seq(Text), NEW more \in Seq(Text), Grown(body, more), NEW n \in 0..Len(body)
    PROVE  TokensIn(more, n) = TokensIn(body, n)
<1>. DEFINE S == {i \in DOMAIN body : ~body[i].trivia}
            R == {i \in DOMAIN more : ~more[i].trivia}
<1>1. /\ DOMAIN body = 1..Len(body) /\ Len(body) \in Nat
      /\ DOMAIN more = 1..Len(more) /\ Len(more) \in Nat /\ n \in Nat
  OBVIOUS
<1>2. \A e \in 1..n : e \in 1..Len(body) /\ e \in 1..Len(more) /\ more[e] = body[e]
  BY <1>1 DEF Grown
<1>3. \A e \in 1..n : e \in S <=> e \in R
  BY <1>1, <1>2
<1>. HIDE DEF S, R
<1>4. CountTo(S, n) = CountTo(R, n)
  BY <1>1, <1>3, CountSame
<1>. QED
  BY <1>4 DEF TokensIn, S, R

LEMMA TokensIdle ==
    ASSUME NEW body \in Seq(Text), NEW m \in 0..Len(body), \A i \in m + 1..Len(body) : body[i].trivia
    PROVE  TokensIn(body, Len(body)) = TokensIn(body, m)
<1>. DEFINE S == {n \in m..Len(body) : TokensIn(body, n) = TokensIn(body, m)}
<1>1. m \in Nat /\ Len(body) \in Nat /\ Len(body) \in m..Len(body)
  OBVIOUS
<1>2. m \in S
  BY <1>1
<1>3. ASSUME NEW n \in m + 1..Len(body), n - 1 \in S PROVE n \in S
  <2>1. n - 1 \in Nat /\ n - 1 < Len(body) /\ n - 1 + 1 = n /\ n \in m..Len(body) /\ body[n].trivia
    BY <1>1
  <2>2. TokensIn(body, n - 1 + 1) = IF body[n - 1 + 1].trivia THEN TokensIn(body, n - 1) ELSE TokensIn(body, n - 1) + 1
    BY <2>1, TokensInIs
  <2>3. TokensIn(body, n - 1) = TokensIn(body, m)
    BY <1>3
  <2>4. TokensIn(body, n) = TokensIn(body, n - 1)
    BY <2>1, <2>2
  <2>. QED
    BY <2>1, <2>3, <2>4
<1>4. m..Len(body) \subseteq S
  <2>. HIDE DEF S
  <2>. QED
    BY <1>1, <1>2, <1>3, Upwards
<1>. QED
  BY <1>1, <1>4

Clear(cur) == cur = Len(tokens) + 1 \/ cur \in Indices

LEMMA FunctionIsSeq ==
    ASSUME NEW T, NEW m \in Nat, NEW f \in [1..m -> T]
    PROVE  f \in Seq(T) /\ Len(f) = m
  BY DEF Seq

LEMMA ConcatIs ==
    ASSUME NEW T, NEW s \in Seq(T), NEW e \in Seq(T)
    PROVE  /\ s \o e \in Seq(T) /\ Len(s \o e) = Len(s) + Len(e)
           /\ \A i \in 1..Len(s) : (s \o e)[i] = s[i]
           /\ \A i \in 1..Len(e) : (s \o e)[Len(s) + i] = e[i]
           /\ Len(e) = 0 => s \o e = s
<1>1. s \o e \in Seq(T) /\ Len(s \o e) = Len(s) + Len(e)
  BY ConcatProperties
<1>2. /\ \A i \in 1..Len(s) : (s \o e)[i] = s[i]
      /\ \A i \in 1..Len(e) : (s \o e)[Len(s) + i] = e[i]
  OBVIOUS
<1>3. Len(e) = 0 => s \o e = s
  BY EmptySeq, ConcatEmptySeq
<1>. QED
  BY <1>1, <1>2, <1>3

(* What EatTrivia eats: the trivia up to the next token, or the end.       *)
LEMMA EatIs ==
    ASSUME tokens \in Seq(Kinds), NEW s \in SinkType, s.cursor \in 1..Len(tokens) + 1
    PROVE  LET t == EatTrivia(s) IN
           /\ t \in SinkType /\ t.open = s.open /\ t.closed = s.closed /\ t.gone = s.gone
           /\ t.cursor \in s.cursor..Len(tokens) + 1 /\ Clear(t.cursor)
           /\ \A i \in Indices : s.cursor <= i => t.cursor <= i
           /\ Len(t.text) = Len(s.text) + (t.cursor - s.cursor) /\ Grown(s.text, t.text)
           /\ \A k \in 1..t.cursor - s.cursor :
                 t.text[Len(s.text) + k] = Built(Piece(s.cursor + k - 1), TRUE)
           /\ Clear(s.cursor) => t.cursor = s.cursor /\ t.text = s.text
<1>. DEFINE t == EatTrivia(s)
            M == {Len(tokens) + 1} \cup {i \in Indices : s.cursor <= i}
            end == Min(M)
            eaten == [k \in 1..(end - s.cursor) |-> Built(Piece(s.cursor + k - 1), TRUE)]
            n == [s EXCEPT !.cursor = end]
<1>1. /\ Indices \subseteq 1..Len(tokens) /\ Len(tokens) \in Nat
      /\ \A i \in Indices : i \in Nat /\ i >= 1 /\ i <= Len(tokens)
      /\ s.cursor \in Nat /\ s.cursor >= 1 /\ s.cursor <= Len(tokens) + 1
  <2>1. Indices \subseteq 1..Len(tokens) /\ Len(tokens) \in Nat
    BY DEF Indices
  <2>. QED
    BY <2>1
<1>2. end \in M /\ \A y \in M : end <= y
  <2>1. M \subseteq Nat /\ M # {}
    <3>1. Len(tokens) + 1 \in Nat /\ Len(tokens) + 1 \in M
      BY <1>1
    <3>2. ASSUME NEW y \in M PROVE y = Len(tokens) + 1 \/ y \in Indices
      OBVIOUS
    <3>3. \A y \in Indices : y \in Nat
      BY <1>1
    <3>. HIDE DEF M
    <3>. QED
      BY <3>1, <3>2, <3>3
  <2>. HIDE DEF M
  <2>. QED
    BY <2>1, MinIs
<1>3. /\ end \in s.cursor..Len(tokens) + 1 /\ Clear(end) /\ end \in Nat /\ end - s.cursor \in Nat
      /\ \A i \in Indices : s.cursor <= i => end <= i
      /\ Clear(s.cursor) => end = s.cursor
  <2>. HIDE DEF end
  <2>1. end = Len(tokens) + 1 \/ (end \in Indices /\ s.cursor <= end)
    BY <1>2
  <2>2. /\ end <= Len(tokens) + 1
        /\ \A i \in Indices : s.cursor <= i => end <= i
    BY <1>2
  <2>3. end \in s.cursor..Len(tokens) + 1 /\ end \in Nat /\ end - s.cursor \in Nat
    <3>1. end \in Nat /\ s.cursor <= end
      <4>1. CASE end = Len(tokens) + 1
        BY <1>1, <4>1
      <4>2. CASE end \in Indices /\ s.cursor <= end
        BY <1>1, <4>2
      <4>. QED
        BY <2>1, <4>1, <4>2
    <3>. QED
      BY <1>1, <2>2, <3>1
  <2>4. Clear(s.cursor) => end = s.cursor
    <3>1. Clear(s.cursor) => end <= s.cursor
      BY <1>1, <2>2 DEF Clear
    <3>. QED
      BY <1>1, <2>3, <3>1
  <2>. QED
    BY <2>1, <2>2, <2>3, <2>4 DEF Clear
<1>. HIDE DEF M, end
<1>4. eaten \in Seq(Text) /\ Len(eaten) = end - s.cursor
      /\ \A k \in 1..end - s.cursor : eaten[k] = Built(Piece(s.cursor + k - 1), TRUE)
  <2>1. ASSUME NEW k \in 1..end - s.cursor PROVE Built(Piece(s.cursor + k - 1), TRUE) \in Text
    <3>1. s.cursor + k - 1 \in 1..Len(tokens) + 1 /\ s.cursor + k - 1 + 1 \in 1..Len(tokens) + 1
      BY <1>1, <1>3
    <3>2. Offset(s.cursor + k - 1) \in Nat /\ Offset(s.cursor + k - 1 + 1) \in Nat
      BY <3>1, OffsetsAre
    <3>. QED
      BY <3>2 DEF Built, Piece, Text
  <2>2. eaten \in [1..end - s.cursor -> Text]
    BY <2>1
  <2>3. \A k \in 1..end - s.cursor : eaten[k] = Built(Piece(s.cursor + k - 1), TRUE)
    OBVIOUS
  <2>. HIDE DEF eaten
  <2>. QED
    BY <1>3, <2>2, <2>3, FunctionIsSeq
<1>5. t = [n EXCEPT !.text = s.text \o eaten]
  BY Zenon DEF EatTrivia, end, M
<1>6. n \in SinkType /\ n.cursor = end /\ n.text = s.text /\ n.open = s.open /\ n.closed = s.closed
      /\ n.gone = s.gone
  BY <1>3 DEF SinkType
<1>7. s.text \in Seq(Text) /\ Len(s.text) \in Nat
  BY DEF SinkType
<1>. HIDE DEF n, eaten, t
<1>8. /\ s.text \o eaten \in Seq(Text) /\ Len(s.text \o eaten) = Len(s.text) + Len(eaten)
      /\ \A i \in 1..Len(s.text) : (s.text \o eaten)[i] = s.text[i]
      /\ \A i \in 1..Len(eaten) : (s.text \o eaten)[Len(s.text) + i] = eaten[i]
      /\ Len(eaten) = 0 => s.text \o eaten = s.text
  BY <1>4, <1>7, ConcatIs
<1>9. /\ t \in SinkType /\ t.open = s.open /\ t.closed = s.closed /\ t.gone = s.gone
      /\ t.cursor = end /\ t.text = s.text \o eaten
  BY <1>5, <1>6, <1>8 DEF SinkType
<1>10. Len(t.text) = Len(s.text) + (end - s.cursor) /\ Grown(s.text, t.text)
  <2>1. Len(s.text) <= Len(t.text) /\ Len(t.text) = Len(s.text) + (end - s.cursor)
    BY <1>3, <1>4, <1>7, <1>8, <1>9
  <2>. QED
    BY <1>8, <1>9, <2>1 DEF Grown
<1>11. \A k \in 1..end - s.cursor :
          t.text[Len(s.text) + k] = Built(Piece(s.cursor + k - 1), TRUE)
  BY <1>4, <1>8, <1>9
<1>12. Clear(s.cursor) => t.cursor = s.cursor /\ t.text = s.text
  <2>1. Clear(s.cursor) => end - s.cursor = 0
    BY <1>3
  <2>. QED
    BY <1>3, <1>4, <1>8, <1>9, <2>1
<1>13. /\ t \in SinkType /\ t.open = s.open /\ t.closed = s.closed /\ t.gone = s.gone
       /\ t.cursor \in s.cursor..Len(tokens) + 1 /\ Clear(t.cursor)
       /\ \A i \in Indices : s.cursor <= i => t.cursor <= i
       /\ Len(t.text) = Len(s.text) + (t.cursor - s.cursor) /\ Grown(s.text, t.text)
       /\ \A k \in 1..t.cursor - s.cursor :
             t.text[Len(s.text) + k] = Built(Piece(s.cursor + k - 1), TRUE)
       /\ Clear(s.cursor) => t.cursor = s.cursor /\ t.text = s.text
  BY <1>3, <1>9, <1>10, <1>11, <1>12
<1>. QED
  BY <1>13 DEF t

(* The text built of m whole tokens and a part of the next: none, its first *)
(* character or all of it; k pieces of it are tokens.                       *)
TextHas(s, m, h, k) ==
    /\ Joined(s.text) /\ s.cursor \in 1..Len(tokens) + 1
    /\ CountTo(Indices, s.cursor - 1) = m
    /\ \/ h = 0 /\ End(s.text, Len(s.text)) = Offset(s.cursor)
       \/ h = 1 /\ s.cursor \in Indices /\ End(s.text, Len(s.text)) = Offset(s.cursor) + 1
       \/ h = 2 /\ s.cursor \in Indices /\ End(s.text, Len(s.text)) = Offset(s.cursor + 1)
    /\ TokensIn(s.text, Len(s.text)) = k
Onward(s, t) ==
    /\ t \in SinkType /\ Grown(s.text, t.text)
    /\ t.open = s.open /\ t.closed = s.closed /\ t.gone = s.gone

LEMMA NextIs ==
    ASSUME tokens \in Seq(Kinds), NEW cur \in 1..Len(tokens) + 1, NEW m \in Nat,
           CountTo(Indices, cur - 1) = m, NEW i \in Indices, CountTo(Indices, i) = m + 1
    PROVE  /\ cur <= i /\ \A j \in Indices : cur <= j => i <= j
           /\ i = 1 \/ i - 1 \in Indices => cur = i
           /\ cur \in Indices => cur = i
<1>1. /\ cur \in Nat /\ cur - 1 \in Nat /\ i \in Nat /\ i >= 1
      /\ \A j \in Indices : j \in Nat /\ CountTo(Indices, j) \in Nat
  <2>1. Indices \subseteq 1..Len(tokens) /\ Len(tokens) \in Nat
    BY DEF Indices
  <2>2. \A j \in Indices : j \in Nat /\ j >= 1
    BY <2>1
  <2>3. cur \in Nat /\ cur - 1 \in Nat
    BY <2>1
  <2>. QED
    BY <2>2, <2>3, CountIsNat
<1>2. cur <= i
  <2>1. SUFFICES ASSUME i <= cur - 1 PROVE FALSE
    BY <1>1
  <2>2. CountTo(Indices, i) <= CountTo(Indices, cur - 1)
    BY <1>1, <2>1, CountGrows
  <2>. QED
    BY <2>2
<1>3. ASSUME NEW j \in Indices, cur <= j PROVE i <= j
  <2>1. CountTo(Indices, cur - 1) < CountTo(Indices, j)
    <3>1. cur - 1 < j /\ j \in Nat /\ cur - 1 <= j
      BY <1>1, <1>3
    <3>. QED
      BY <1>1, <3>1, CountGrows
  <2>2. j < i => CountTo(Indices, j) < CountTo(Indices, i)
    <3>1. j \in Nat /\ (j < i => j <= i)
      BY <1>1
    <3>. QED
      BY <1>1, <3>1, CountGrows
  <2>3. CountTo(Indices, j) \in Nat /\ j \in Nat
    BY <1>1
  <2>. QED
    BY <1>1, <2>1, <2>2, <2>3
<1>4. ASSUME i = 1 \/ i - 1 \in Indices PROVE cur = i
  <2>1. SUFFICES ASSUME cur < i PROVE FALSE
    BY <1>1, <1>2
  <2>2. i - 1 \in Indices /\ cur <= i - 1
    BY <1>1, <1>4, <2>1
  <2>3. i <= i - 1
    BY <1>3, <2>2
  <2>. QED
    BY <1>1, <2>3
<1>5. ASSUME cur \in Indices PROVE cur = i
  <2>1. i <= cur
    BY <1>1, <1>3, <1>5
  <2>. QED
    BY <1>1, <1>2, <2>1
<1>. QED
  BY <1>2, <1>3, <1>4, <1>5

LEMMA CountGap ==
    ASSUME NEW S, NEW a \in Nat, NEW b \in Nat, a <= b, \A e \in a + 1..b : e \notin S
    PROVE  CountTo(S, b) = CountTo(S, a)
<1>. DEFINE R == {e \in a..b : CountTo(S, e) = CountTo(S, a)}
<1>1. a \in R
  OBVIOUS
<1>2. ASSUME NEW e \in a + 1..b, e - 1 \in R PROVE e \in R
  <2>1. e - 1 \in Nat /\ e - 1 + 1 = e /\ e \in a..b /\ e \notin S
    OBVIOUS
  <2>2. CountTo(S, e - 1 + 1) = IF e - 1 + 1 \in S THEN CountTo(S, e - 1) + 1 ELSE CountTo(S, e - 1)
    BY <2>1, CountNext
  <2>. QED
    BY <1>2, <2>1, <2>2
<1>3. a..b \subseteq R
  <2>. HIDE DEF R
  <2>. QED
    BY <1>1, <1>2, Upwards
<1>. QED
  BY <1>3

(* What the sink's state is made of.                                       *)
LEMMA TypeIs ==
    ASSUME NEW s \in SinkType
    PROVE  /\ s.cursor \in Nat /\ s.text \in Seq(Text) /\ Len(s.text) \in Nat
           /\ s.open \in Seq([node : Nat, first : Nat])
           /\ s.closed \in Seq([node : Nat, first : Nat, last : Nat]) /\ s.gone \in SUBSET Nat
           /\ \A i \in 1..Len(s.text) : s.text[i] \in Text /\ s.text[i].to \in Nat
           /\ End(s.text, Len(s.text)) \in Nat
<1>1. /\ s.cursor \in Nat /\ s.text \in Seq(Text)
      /\ s.open \in Seq([node : Nat, first : Nat])
      /\ s.closed \in Seq([node : Nat, first : Nat, last : Nat]) /\ s.gone \in SUBSET Nat
  BY DEF SinkType
<1>2. Len(s.text) \in Nat /\ \A i \in 1..Len(s.text) : s.text[i] \in Text
  BY <1>1
<1>3. \A i \in 1..Len(s.text) : s.text[i].to \in Nat
  BY <1>2 DEF Text
<1>4. End(s.text, Len(s.text)) \in Nat
  <2>1. Len(s.text) # 0 => Len(s.text) \in 1..Len(s.text)
    BY <1>2
  <2>. QED
    BY <1>3, <2>1 DEF End
<1>. QED
  BY <1>1, <1>2, <1>3, <1>4

LEMMA EatText ==
    ASSUME tokens \in Seq(Kinds), NEW s \in SinkType, NEW m, NEW h, NEW k, TextHas(s, m, h, k)
    PROVE  TextHas(EatTrivia(s), m, h, k) /\ Onward(s, EatTrivia(s))
<1>. DEFINE t == EatTrivia(s)
            d == t.cursor - s.cursor
            L == Len(s.text)
<1>0. s.cursor \in 1..Len(tokens) + 1 /\ Joined(s.text)
  BY DEF TextHas
<1>1. /\ t \in SinkType /\ t.open = s.open /\ t.closed = s.closed /\ t.gone = s.gone
      /\ t.cursor \in s.cursor..Len(tokens) + 1 /\ Clear(t.cursor)
      /\ \A i \in Indices : s.cursor <= i => t.cursor <= i
      /\ Len(t.text) = L + d /\ Grown(s.text, t.text)
      /\ \A j \in 1..d : t.text[L + j] = Built(Piece(s.cursor + j - 1), TRUE)
      /\ Clear(s.cursor) => t.cursor = s.cursor /\ t.text = s.text
  BY <1>0, EatIs
<1>. HIDE DEF t
<1>2. Onward(s, t)
  BY <1>1 DEF Onward
<1>3. CASE s.cursor \in Indices
  <2>1. t.cursor = s.cursor /\ t.text = s.text
    BY <1>1, <1>3 DEF Clear
  <2>2. TextHas(t, m, h, k)
    BY <2>1 DEF TextHas
  <2>. QED
    BY <1>2, <2>2 DEF t
<1>4. CASE h = 0 /\ s.cursor \notin Indices
  <2>1. /\ L \in Nat /\ d \in Nat /\ t.cursor \in 1..Len(tokens) + 1 /\ s.cursor \in Nat
        /\ t.cursor \in Nat /\ Len(tokens) \in Nat /\ t.text \in Seq(Text) /\ s.text \in Seq(Text)
    <3>1. L \in Nat /\ t.text \in Seq(Text) /\ s.text \in Seq(Text) /\ Len(tokens) \in Nat
      BY <1>1, TypeIs
    <3>. QED
      BY <1>0, <1>1, <3>1
  <2>0. /\ s.cursor >= 1 /\ t.cursor = s.cursor + d /\ Len(t.text) = L + d
    BY <1>0, <1>1, <2>1
  <2>2. End(s.text, L) = Offset(s.cursor)
    BY <1>4 DEF TextHas
  <2>3. ASSUME NEW j \in 1..d
        PROVE  /\ t.text[L + j].trivia /\ t.text[L + j].from = Offset(s.cursor + j - 1)
               /\ t.text[L + j].to = Offset(s.cursor + j) /\ s.cursor + j - 1 + 1 = s.cursor + j
    <3>1. s.cursor + j - 1 + 1 = s.cursor + j
      BY <2>1
    <3>. DEFINE p == s.cursor + j - 1
    <3>2. t.text[L + j] = Built(Piece(p), TRUE)
      BY <1>1
    <3>. HIDE DEF p
    <3>3. t.text[L + j].trivia /\ t.text[L + j].from = Offset(p) /\ t.text[L + j].to = Offset(p + 1)
      BY <3>2 DEF Built, Piece
    <3>. QED
      BY <3>1, <3>3 DEF p
  <2>4. \A i \in 1..L : i \in 1..Len(t.text) /\ t.text[i] = s.text[i]
    <3>1. Grown(s.text, t.text)
      BY <1>1
    <3>. QED
      BY <2>0, <2>1, <3>1 DEF Grown
  <2>5. Joined(t.text)
    <3>. SUFFICES ASSUME NEW i \in 1..Len(t.text)
                  PROVE  t.text[i].from = IF i = 1 THEN 0 ELSE t.text[i - 1].to
      BY DEF Joined
    <3>1. CASE i \in 1..L
      <4>1. i # 1 => i - 1 \in 1..L
        BY <2>1, <3>1
      <4>. QED
        BY <1>0, <2>4, <3>1, <4>1 DEF Joined
    <3>2. CASE i = L + 1
      <4>0. 1 \in 1..d /\ s.cursor + 1 - 1 = s.cursor
        BY <1>1, <2>1, <3>2
      <4>1. t.text[L + 1].from = Offset(s.cursor)
        BY <2>3, <4>0
      <4>2. CASE L = 0
        BY <2>2, <3>2, <4>1, <4>2 DEF End
      <4>3. CASE L # 0
        <5>1. L \in 1..L /\ i # 1 /\ i - 1 = L
          BY <2>1, <3>2, <4>3
        <5>2. t.text[L] = s.text[L] /\ s.text[L].to = Offset(s.cursor)
          BY <2>2, <2>4, <4>3, <5>1 DEF End
        <5>. QED
          BY <3>2, <4>1, <5>1, <5>2
      <4>. QED
        BY <4>2, <4>3
    <3>3. CASE i \in L + 2..Len(t.text)
      <4>. DEFINE j == i - L
      <4>1. /\ j \in 1..d /\ j - 1 \in 1..d /\ L + j = i /\ L + (j - 1) = i - 1 /\ i # 1
            /\ s.cursor + (j - 1) = s.cursor + j - 1
        <5>. HIDE DEF L, d
        <5>1. L \in Nat /\ d \in Nat /\ Len(t.text) = L + d /\ s.cursor \in Nat
          BY <2>0, <2>1
        <5>. QED
          BY <5>1, <3>3
      <4>. HIDE DEF j
      <4>2. t.text[i].from = Offset(s.cursor + j - 1)
        BY <2>3, <4>1
      <4>3. t.text[i - 1].to = Offset(s.cursor + j - 1)
        <5>1. t.text[L + (j - 1)].to = Offset(s.cursor + (j - 1))
          BY <2>3, <4>1
        <5>. QED
          BY <4>1, <5>1
      <4>. QED
        BY <4>1, <4>2, <4>3
    <3>. QED
      <4>1. L \in Nat /\ Len(t.text) \in Nat
        BY <2>1, LenProperties
      <4>. HIDE DEF L
      <4>2. i \in 1..L \/ i = L + 1 \/ i \in L + 2..Len(t.text)
        BY <4>1
      <4>. QED
        BY <3>1, <3>2, <3>3, <4>2
  <2>6. End(t.text, Len(t.text)) = Offset(t.cursor)
    <3>1. CASE d = 0
      <4>1. t.cursor = s.cursor /\ Len(t.text) = L
        BY <1>1, <2>1, <3>1
      <4>2. L # 0 => t.text[L] = s.text[L]
        <5>1. L # 0 => L \in 1..L
          BY <2>1
        <5>. QED
          BY <2>4, <5>1
      <4>3. End(t.text, L) = End(s.text, L)
        BY <4>2 DEF End
      <4>. QED
        BY <2>2, <4>1, <4>3
    <3>2. CASE d # 0
      <4>1. d \in 1..d /\ L + d # 0 /\ s.cursor + d = t.cursor
        BY <1>1, <2>1, <3>2
      <4>2. t.text[L + d].to = Offset(s.cursor + d)
        BY <2>3, <4>1
      <4>3. End(t.text, L + d) = t.text[L + d].to
        BY <4>1 DEF End
      <4>. QED
        BY <1>1, <4>1, <4>2, <4>3
    <3>. QED
      BY <3>1, <3>2
  <2>7. CountTo(Indices, t.cursor - 1) = CountTo(Indices, s.cursor - 1)
    <3>1. ASSUME NEW e \in s.cursor - 1 + 1..t.cursor - 1, e \in Indices PROVE FALSE
      <4>1. s.cursor <= e /\ e < t.cursor /\ e \in Nat
        BY <2>1
      <4>2. t.cursor <= e
        BY <1>1, <3>1, <4>1
      <4>. QED
        BY <2>1, <4>1, <4>2
    <3>2. s.cursor - 1 \in Nat /\ t.cursor - 1 \in Nat /\ s.cursor - 1 <= t.cursor - 1
      <4>. HIDE DEF d
      <4>. QED
        <5>1. s.cursor \in Nat /\ t.cursor \in Nat /\ s.cursor >= 1
          BY <2>0, <2>1
        <5>2. s.cursor <= t.cursor
          BY <1>1, <5>1
        <5>. QED
          BY <5>1, <5>2, OneLessOfBoth
    <3>. QED
      BY <3>1, <3>2, CountGap
  <2>8. TokensIn(t.text, Len(t.text)) = TokensIn(s.text, L)
    <3>1. \A i \in L + 1..Len(t.text) : t.text[i].trivia
      <4>1. ASSUME NEW i \in L + 1..Len(t.text) PROVE t.text[i].trivia
        <5>1. i - L \in 1..d /\ L + (i - L) = i
          BY <1>1, <2>1
        <5>. QED
          BY <2>3, <5>1
      <4>. QED
        BY <4>1
    <3>2. L \in 0..Len(t.text) /\ L \in 0..L
      BY <1>1, <2>1
    <3>3. TokensIn(t.text, Len(t.text)) = TokensIn(t.text, L)
      BY <2>1, <3>1, <3>2, TokensIdle
    <3>. QED
      BY <1>1, <2>1, <3>2, <3>3, TokensGrown
  <2>9. TextHas(t, m, h, k)
    BY <1>4, <2>1, <2>5, <2>6, <2>7, <2>8 DEF TextHas
  <2>. QED
    BY <1>2, <2>9 DEF t
<1>5. h = 0 \/ s.cursor \in Indices
  BY DEF TextHas
<1>. QED
  BY <1>3, <1>4, <1>5

(* One more piece, that is a token.                                        *)
LEMMA AddText ==
    ASSUME NEW s \in SinkType, Joined(s.text), NEW piece \in Pieces,
           piece.from = End(s.text, Len(s.text))
    PROVE  LET t == Add(s, piece) IN
           /\ Onward(s, t) /\ t.cursor = s.cursor /\ Joined(t.text)
           /\ Len(t.text) = Len(s.text) + 1 /\ ~t.text[Len(s.text) + 1].trivia
           /\ End(t.text, Len(t.text)) = piece.to
           /\ TokensIn(t.text, Len(t.text)) = TokensIn(s.text, Len(s.text)) + 1
<1>. DEFINE b == Built(piece, FALSE)
            t == Add(s, piece)
            L == Len(s.text)
<1>1. b \in Text /\ b.from = piece.from /\ b.to = piece.to /\ b.trivia = FALSE
  BY DEF Built, Text, Pieces
<1>. HIDE DEF b
<1>2. s.text \in Seq(Text) /\ L \in Nat
  BY TypeIs
<1>3. /\ Append(s.text, b) \in Seq(Text) /\ Len(Append(s.text, b)) = L + 1
      /\ \A d \in 1..L : Append(s.text, b)[d] = s.text[d]
      /\ Append(s.text, b)[L + 1] = b
  BY <1>1, <1>2, AppendIs
<1>4. t = [s EXCEPT !.text = Append(s.text, b)]
  BY DEF Add, b
<1>5. /\ t \in SinkType /\ t.open = s.open /\ t.closed = s.closed /\ t.gone = s.gone
      /\ t.cursor = s.cursor /\ t.text = Append(s.text, b)
  BY <1>3, <1>4 DEF SinkType
<1>. HIDE DEF t
<1>6. /\ Len(t.text) = L + 1 /\ t.text[L + 1] = b /\ \A d \in 1..L : t.text[d] = s.text[d]
      /\ t.text \in Seq(Text)
  BY <1>3, <1>5
<1>7. Onward(s, t)
  <2>1. L <= Len(t.text)
    BY <1>2, <1>6
  <2>. QED
    BY <1>5, <1>6, <2>1 DEF Onward, Grown
<1>8. Joined(t.text)
  <2>. SUFFICES ASSUME NEW i \in 1..Len(t.text)
                PROVE  t.text[i].from = IF i = 1 THEN 0 ELSE t.text[i - 1].to
    BY DEF Joined
  <2>1. CASE i \in 1..L
    <3>1. i # 1 => i - 1 \in 1..L
      BY <1>2, <2>1
    <3>. QED
      BY <1>6, <2>1, <3>1 DEF Joined
  <2>2. CASE i = L + 1
    <3>1. L # 0 => L \in 1..L /\ i # 1 /\ i - 1 = L
      BY <1>2, <2>2
    <3>2. L = 0 => i = 1
      BY <2>2
    <3>3. b.from = End(s.text, L)
      BY <1>1
    <3>. QED
      BY <1>6, <2>2, <3>1, <3>2, <3>3 DEF End
  <2>. QED
    BY <1>2, <1>6, <2>1, <2>2
<1>9. End(t.text, Len(t.text)) = piece.to
  <2>1. L + 1 # 0
    BY <1>2
  <2>. QED
    BY <1>1, <1>6, <2>1 DEF End
<1>10. TokensIn(t.text, Len(t.text)) = TokensIn(s.text, L) + 1
  <2>1. L < Len(t.text) /\ L \in 0..L
    BY <1>2, <1>6
  <2>2. TokensIn(t.text, L + 1) = IF t.text[L + 1].trivia THEN TokensIn(t.text, L) ELSE TokensIn(t.text, L) + 1
    BY <1>2, <1>6, <2>1, TokensInIs
  <2>3. TokensIn(t.text, L) = TokensIn(s.text, L)
    BY <1>2, <1>6, <1>7, <2>1, TokensGrown DEF Onward
  <2>. QED
    BY <1>1, <1>6, <2>2, <2>3
<1>11. /\ Onward(s, t) /\ t.cursor = s.cursor /\ Joined(t.text)
       /\ Len(t.text) = L + 1 /\ ~t.text[L + 1].trivia
       /\ End(t.text, Len(t.text)) = piece.to
       /\ TokensIn(t.text, Len(t.text)) = TokensIn(s.text, L) + 1
  BY <1>1, <1>5, <1>6, <1>7, <1>8, <1>9, <1>10
<1>. QED
  BY <1>11 DEF t

LEMMA MoveText ==
    ASSUME NEW s \in SinkType
    PROVE  LET t == [s EXCEPT !.cursor = @ + 1] IN
           Onward(s, t) /\ t.text = s.text /\ t.cursor = s.cursor + 1
<1>. DEFINE t == [s EXCEPT !.cursor = s.cursor + 1]
<1>1. s.cursor + 1 \in Nat
  BY TypeIs
<1>2. /\ t \in SinkType /\ t.open = s.open /\ t.closed = s.closed /\ t.gone = s.gone
      /\ t.cursor = s.cursor + 1 /\ t.text = s.text
  BY <1>1 DEF SinkType
<1>. HIDE DEF t
<1>3. Grown(s.text, t.text)
  BY <1>2, TypeIs DEF Grown
<1>4. Onward(s, t) /\ t.text = s.text /\ t.cursor = s.cursor + 1
  BY <1>2, <1>3 DEF Onward
<1>. QED
  BY <1>4 DEF t

LEMMA OnwardTwice ==
    ASSUME NEW s \in SinkType, NEW t, NEW u, Onward(s, t), Onward(t, u)
    PROVE  Onward(s, u)
<1>1. Len(s.text) \in Nat /\ Len(t.text) \in Nat /\ Len(u.text) \in Nat
  BY TypeIs DEF Onward
<1>2. Grown(s.text, u.text)
  <2>1. Len(s.text) <= Len(t.text) /\ Len(t.text) <= Len(u.text)
    BY DEF Onward, Grown
  <2>2. \A i \in 1..Len(s.text) : i \in 1..Len(t.text)
    BY <1>1, <2>1
  <2>3. Len(s.text) <= Len(u.text)
    BY <1>1, <2>1
  <2>. QED
    BY <2>2, <2>3 DEF Onward, Grown
<1>. QED
  BY <1>2 DEF Onward

LEMMA CursorCount ==
    ASSUME tokens \in Seq(Kinds), NEW i \in Indices
    PROVE  /\ i \in Nat /\ i - 1 \in Nat /\ i >= 1 /\ i <= Len(tokens) /\ Len(tokens) \in Nat
           /\ i + 1 \in 1..Len(tokens) + 1 /\ i + 1 - 1 = i
           /\ CountTo(Indices, i) = CountTo(Indices, i - 1) + 1
<1>1. Indices \subseteq 1..Len(tokens) /\ Len(tokens) \in Nat
  BY DEF Indices
<1>2. i \in Nat /\ i - 1 \in Nat /\ i - 1 + 1 = i
  BY <1>1
<1>3. CountTo(Indices, i - 1 + 1) = CountTo(Indices, i - 1) + 1
  BY <1>2, CountNext
<1>. QED
  BY <1>1, <1>2, <1>3

(* A whole token, after the trivia before it.                              *)
LEMMA TokenText ==
    ASSUME tokens \in Seq(Kinds), NEW s \in SinkType, NEW m \in Nat, NEW k \in Nat,
           TextHas(s, m, 0, k), NEW i \in Indices, CountTo(Indices, i) = m + 1
    PROVE  LET t == EatToken(s) IN
           /\ TextHas(t, m + 1, 0, k + 1) /\ Onward(s, t) /\ Len(t.text) > Len(s.text)
           /\ Clear(s.cursor) => ~t.text[Len(s.text) + 1].trivia
<1>. DEFINE u == EatTrivia(s)
            a == Add(u, Piece(u.cursor))
            t == [a EXCEPT !.cursor = @ + 1]
<1>1. TextHas(u, m, 0, k) /\ Onward(s, u)
  BY EatText
<1>2. s.cursor \in 1..Len(tokens) + 1 /\ CountTo(Indices, s.cursor - 1) = m
  BY DEF TextHas
<1>3. s.cursor <= i /\ \A j \in Indices : s.cursor <= j => i <= j
  BY <1>2, NextIs
<1>4. /\ u.cursor \in s.cursor..Len(tokens) + 1 /\ Clear(u.cursor)
      /\ \A j \in Indices : s.cursor <= j => u.cursor <= j
      /\ Clear(s.cursor) => u.cursor = s.cursor /\ u.text = s.text
      /\ u \in SinkType
  BY <1>2, EatIs
<1>. HIDE DEF u
<1>5. u.cursor = i
  <2>1. u.cursor <= i /\ i <= Len(tokens) /\ i \in Nat /\ Len(tokens) \in Nat /\ u.cursor \in Nat
    BY <1>3, <1>4, CursorCount, TypeIs
  <2>2. u.cursor \in Indices
    BY <1>4, <2>1 DEF Clear
  <2>3. s.cursor <= u.cursor
    BY <1>2, <1>4
  <2>4. i <= u.cursor
    BY <1>3, <2>2, <2>3
  <2>. QED
    BY <2>1, <2>4
<1>6. EatToken(s) = t
  <2>1. ~(u.cursor > Len(tokens))
    BY <1>5, CursorCount
  <2>. QED
    BY <2>1 DEF EatToken, u
<1>7. Piece(i) \in Pieces /\ Piece(i).from = Offset(i) /\ Piece(i).to = Offset(i + 1)
  BY PieceIs DEF Piece
<1>8. /\ Joined(u.text) /\ End(u.text, Len(u.text)) = Offset(i) /\ TokensIn(u.text, Len(u.text)) = k
  BY <1>1, <1>5 DEF TextHas
<1>9. /\ Onward(u, a) /\ a.cursor = i /\ Joined(a.text)
      /\ Len(a.text) = Len(u.text) + 1 /\ ~a.text[Len(u.text) + 1].trivia
      /\ End(a.text, Len(a.text)) = Offset(i + 1)
      /\ TokensIn(a.text, Len(a.text)) = k + 1
  BY <1>4, <1>5, <1>7, <1>8, AddText
<1>. HIDE DEF a
<1>10. a \in SinkType
  BY <1>9 DEF Onward
<1>11. Onward(a, t) /\ t.text = a.text /\ t.cursor = a.cursor + 1
  BY <1>10, MoveText
<1>. HIDE DEF t
<1>12. TextHas(t, m + 1, 0, k + 1)
  BY <1>9, <1>11, CursorCount DEF TextHas
<1>13. Onward(s, t)
  BY <1>1, <1>4, <1>9, <1>10, <1>11, OnwardTwice
<1>14. Len(t.text) > Len(s.text)
  <2>1. Len(s.text) <= Len(u.text) /\ Len(s.text) \in Nat /\ Len(u.text) \in Nat
    BY <1>1, <1>4, TypeIs DEF Onward, Grown
  <2>. QED
    BY <1>9, <1>11, <2>1
<1>15. Clear(s.cursor) => ~t.text[Len(s.text) + 1].trivia
  BY <1>4, <1>9, <1>11
<1>. QED
  BY <1>6, <1>12, <1>13, <1>14, <1>15

(* The first character of a token, and the rest of it.                     *)
LEMMA HeadText ==
    ASSUME tokens \in Seq(Kinds), NEW s \in SinkType, NEW m \in Nat, NEW k \in Nat,
           TextHas(s, m, 0, k), NEW i \in Indices, CountTo(Indices, i) = m + 1,
           i = 1 \/ i - 1 \in Indices
    PROVE  LET t == Add(s, HeadOf(At, i)) IN
           /\ TextHas(t, m, 1, k + 1) /\ Onward(s, t) /\ Len(t.text) = Len(s.text) + 1
           /\ ~t.text[Len(s.text) + 1].trivia
<1>. DEFINE t == Add(s, HeadOf(At, i))
<1>1. /\ s.cursor \in 1..Len(tokens) + 1 /\ CountTo(Indices, s.cursor - 1) = m
      /\ Joined(s.text) /\ End(s.text, Len(s.text)) = Offset(s.cursor)
      /\ TokensIn(s.text, Len(s.text)) = k
  BY DEF TextHas
<1>2. s.cursor = i
  BY <1>1, NextIs
<1>3. /\ HeadOf(At, i) \in Pieces /\ HeadOf(At, i).from = Offset(i)
      /\ HeadOf(At, i).to = Offset(i) + 1
  <2>1. At[i] = Offset(i)
    BY PieceIs DEF Piece
  <2>. QED
    BY <2>1, PieceIs DEF HeadOf
<1>4. /\ Onward(s, t) /\ t.cursor = s.cursor /\ Joined(t.text)
      /\ Len(t.text) = Len(s.text) + 1 /\ ~t.text[Len(s.text) + 1].trivia
      /\ End(t.text, Len(t.text)) = Offset(i) + 1
      /\ TokensIn(t.text, Len(t.text)) = k + 1
  BY <1>1, <1>2, <1>3, AddText
<1>. HIDE DEF t
<1>5. TextHas(t, m, 1, k + 1)
  BY <1>1, <1>2, <1>4 DEF TextHas
<1>. QED
  BY <1>4, <1>5 DEF t

LEMMA RestText ==
    ASSUME tokens \in Seq(Kinds), NEW s \in SinkType, NEW m \in Nat, NEW k \in Nat,
           TextHas(s, m, 1, k), NEW i \in Indices, CountTo(Indices, i) = m + 1
    PROVE  LET t == Add(s, RestOf(At, i)) IN
           /\ TextHas(t, m, 2, k + 1) /\ Onward(s, t) /\ Len(t.text) = Len(s.text) + 1
           /\ ~t.text[Len(s.text) + 1].trivia
<1>. DEFINE t == Add(s, RestOf(At, i))
<1>1. /\ s.cursor \in 1..Len(tokens) + 1 /\ CountTo(Indices, s.cursor - 1) = m
      /\ Joined(s.text) /\ End(s.text, Len(s.text)) = Offset(s.cursor) + 1
      /\ TokensIn(s.text, Len(s.text)) = k /\ s.cursor \in Indices
  BY DEF TextHas
<1>2. s.cursor = i
  BY <1>1, NextIs
<1>3. /\ RestOf(At, i) \in Pieces /\ RestOf(At, i).from = Offset(i) + 1
      /\ RestOf(At, i).to = Offset(i + 1)
  <2>1. At[i] = Offset(i) /\ At[i + 1] = Offset(i + 1)
    BY PieceIs DEF Piece
  <2>. QED
    BY <2>1, PieceIs DEF RestOf
<1>4. /\ Onward(s, t) /\ t.cursor = s.cursor /\ Joined(t.text)
      /\ Len(t.text) = Len(s.text) + 1 /\ ~t.text[Len(s.text) + 1].trivia
      /\ End(t.text, Len(t.text)) = Offset(i + 1)
      /\ TokensIn(t.text, Len(t.text)) = k + 1
  BY <1>1, <1>2, <1>3, AddText
<1>. HIDE DEF t
<1>5. TextHas(t, m, 2, k + 1)
  BY <1>1, <1>2, <1>4 DEF TextHas
<1>. QED
  BY <1>4, <1>5 DEF t

LEMMA AdvanceText ==
    ASSUME tokens \in Seq(Kinds), NEW s \in SinkType, NEW m \in Nat, NEW k \in Nat,
           TextHas(s, m, 2, k)
    PROVE  LET t == [s EXCEPT !.cursor = @ + 1] IN
           TextHas(t, m + 1, 0, k) /\ Onward(s, t) /\ t.text = s.text
<1>. DEFINE t == [s EXCEPT !.cursor = @ + 1]
<1>1. /\ s.cursor \in 1..Len(tokens) + 1 /\ CountTo(Indices, s.cursor - 1) = m
      /\ Joined(s.text) /\ End(s.text, Len(s.text)) = Offset(s.cursor + 1)
      /\ TokensIn(s.text, Len(s.text)) = k /\ s.cursor \in Indices
  BY DEF TextHas
<1>2. Onward(s, t) /\ t.text = s.text /\ t.cursor = s.cursor + 1
  BY MoveText
<1>. HIDE DEF t
<1>3. TextHas(t, m + 1, 0, k)
  BY <1>1, <1>2, CursorCount DEF TextHas
<1>. QED
  BY <1>2, <1>3 DEF t

-----------------------------------------------------------------------------
(* The sink: the text after each event.                                    *)

(* Where the text is after n events.                                       *)
TextFits(s, n) ==
    \E h \in 0..2 : Halves(events, n, h) /\ TextHas(s, Moved(events, n), h, TakenBy(events, n))
Placings == \A e \in 1..Len(events) : Placing(Indices, At, events, e)
(* What the next event may do to the text where a node begins.             *)
Keeps(s, t, n) ==
    /\ Grown(s.text, t.text)
    /\ Clear(s.cursor) /\ Len(t.text) = Len(s.text) =>
          Clear(t.cursor) \/ (n > 1 /\ events[n - 1].type = "virtual")
    /\ Clear(s.cursor) /\ Len(t.text) # Len(s.text) => ~t.text[Len(s.text) + 1].trivia
    /\ events[n].type = "virtual" => Len(t.text) > Len(s.text)

LEMMA TextCounts ==
    ASSUME events \in Seq(Event), NEW n \in 1..Len(events)
    PROVE  /\ Moved(events, n - 1) \in Nat /\ TakenBy(events, n - 1) \in Nat
           /\ Virtuals(events, n - 1) \in Nat /\ Advances(events, n - 1) \in Nat
           /\ events[n].type = "token" =>
                 /\ Moved(events, n) = Moved(events, n - 1) + 1
                 /\ TakenBy(events, n) = TakenBy(events, n - 1) + 1
                 /\ \A h : Halves(events, n, h) <=> Halves(events, n - 1, h)
           /\ events[n].type = "virtual" =>
                 /\ Moved(events, n) = Moved(events, n - 1)
                 /\ TakenBy(events, n) = TakenBy(events, n - 1) + 1
                 /\ \A h \in Nat : Halves(events, n - 1, h) => Halves(events, n, h + 1)
           /\ events[n].type = "advance" =>
                 /\ Moved(events, n) = Moved(events, n - 1) + 1
                 /\ TakenBy(events, n) = TakenBy(events, n - 1)
                 /\ Halves(events, n - 1, 2) => Halves(events, n, 0)
           /\ events[n].type \notin {"token", "virtual", "advance"} =>
                 /\ Moved(events, n) = Moved(events, n - 1)
                 /\ TakenBy(events, n) = TakenBy(events, n - 1)
                 /\ \A h : Halves(events, n, h) <=> Halves(events, n - 1, h)
           /\ \A h, g \in Nat : Halves(events, n - 1, h) /\ Halves(events, n - 1, g) => h = g
<1>1. n - 1 \in 0..Len(events)
  OBVIOUS
<1>2. /\ Moved(events, n - 1) \in Nat /\ TakenBy(events, n - 1) \in Nat
      /\ Virtuals(events, n - 1) \in Nat /\ Advances(events, n - 1) \in Nat
  BY <1>1, CountsAreNat
<1>3. events[n].type = "token" =>
         /\ Moved(events, n) = Moved(events, n - 1) + 1
         /\ TakenBy(events, n) = TakenBy(events, n - 1) + 1
         /\ Virtuals(events, n) = Virtuals(events, n - 1)
         /\ Advances(events, n) = Advances(events, n - 1)
  BY CountsNext
<1>4. events[n].type = "virtual" =>
         /\ Moved(events, n) = Moved(events, n - 1)
         /\ TakenBy(events, n) = TakenBy(events, n - 1) + 1
         /\ Virtuals(events, n) = Virtuals(events, n - 1) + 1
         /\ Advances(events, n) = Advances(events, n - 1)
  BY CountsNext
<1>5. events[n].type = "advance" =>
         /\ Moved(events, n) = Moved(events, n - 1) + 1
         /\ TakenBy(events, n) = TakenBy(events, n - 1)
         /\ Virtuals(events, n) = Virtuals(events, n - 1)
         /\ Advances(events, n) = Advances(events, n - 1) + 1
  BY CountsNext
<1>6. events[n].type \notin {"token", "virtual", "advance"} =>
         /\ Moved(events, n) = Moved(events, n - 1)
         /\ TakenBy(events, n) = TakenBy(events, n - 1)
         /\ Virtuals(events, n) = Virtuals(events, n - 1)
         /\ Advances(events, n) = Advances(events, n - 1)
  BY CountsNext
<1>7. events[n].type = "token" => \A h : Halves(events, n, h) <=> Halves(events, n - 1, h)
  BY <1>3 DEF Halves
<1>8. events[n].type \notin {"token", "virtual", "advance"} =>
         \A h : Halves(events, n, h) <=> Halves(events, n - 1, h)
  BY <1>6 DEF Halves
<1>9. events[n].type = "virtual" =>
         \A h \in Nat : Halves(events, n - 1, h) => Halves(events, n, h + 1)
  BY <1>2, <1>4 DEF Halves
<1>10. events[n].type = "advance" => (Halves(events, n - 1, 2) => Halves(events, n, 0))
  BY <1>2, <1>5 DEF Halves
<1>11. \A h, g \in Nat : Halves(events, n - 1, h) /\ Halves(events, n - 1, g) => h = g
  BY <1>2 DEF Halves
<1>. QED
  BY <1>2, <1>3, <1>4, <1>5, <1>6, <1>7, <1>8, <1>9, <1>10, <1>11

LEMMA TextNow ==
    ASSUME events \in Seq(Event), NEW n \in 1..Len(events), NEW s, TextFits(s, n - 1),
           NEW h \in Nat, Halves(events, n - 1, h)
    PROVE  TextHas(s, Moved(events, n - 1), h, TakenBy(events, n - 1))
<1>1. PICK g \in 0..2 : /\ Halves(events, n - 1, g)
                        /\ TextHas(s, Moved(events, n - 1), g, TakenBy(events, n - 1))
  BY DEF TextFits
<1>2. g = h
  <2>1. g \in Nat
    OBVIOUS
  <2>. QED
    BY <1>1, <2>1, TextCounts
<1>. QED
  BY <1>1, <1>2

(* The events that give the tree its text.                                 *)
LEMMA TextStep ==
    ASSUME tokens \in Seq(Kinds), events \in Seq(Event), Placings,
           NEW n \in 1..Len(events), NEW s \in SinkType, TextFits(s, n - 1),
           events[n].type \in {"token", "virtual", "advance"}
    PROVE  LET t == Replay(s, n) IN Onward(s, t) /\ TextFits(t, n) /\ Keeps(s, t, n)
<1>. DEFINE t == Replay(s, n)
            m == Moved(events, n - 1)
            k == TakenBy(events, n - 1)
<1>0. /\ Placing(Indices, At, events, n) /\ m \in Nat /\ k \in Nat /\ n - 1 + 1 = n
      /\ Len(s.text) \in Nat
  BY TextCounts, TypeIs DEF Placings
<1>1. CASE events[n].type = "token"
  <2>1. Halves(events, n - 1, 0) /\ \E i \in Indices : NextToken(Indices, events, n - 1, i)
    BY <1>0, <1>1 DEF Placing
  <2>2. PICK i \in Indices : CountTo(Indices, i) = m + 1
    BY <2>1 DEF NextToken
  <2>3. TextHas(s, m, 0, k)
    BY <2>1, TextNow
  <2>4. t = EatToken(s)
    BY <1>1 DEF Replay
  <2>. HIDE DEF t, m, k
  <2>5. /\ TextHas(t, m + 1, 0, k + 1) /\ Onward(s, t) /\ Len(t.text) > Len(s.text)
        /\ Clear(s.cursor) => ~t.text[Len(s.text) + 1].trivia
    BY <1>0, <2>2, <2>3, <2>4, TokenText
  <2>6. Halves(events, n, 0) /\ Moved(events, n) = m + 1 /\ TakenBy(events, n) = k + 1
    BY <1>1, <2>1, TextCounts DEF m, k
  <2>7. TextFits(t, n)
    BY <2>5, <2>6 DEF TextFits
  <2>8. Grown(s.text, t.text) /\ t \in SinkType
    BY <2>5 DEF Onward
  <2>9. Len(t.text) \in Nat
    BY <2>8, TypeIs
  <2>10. Len(t.text) # Len(s.text)
    BY <1>0, <2>5, <2>9
  <2>11. Keeps(s, t, n)
    BY <1>1, <2>5, <2>8, <2>10 DEF Keeps
  <2>. QED
    BY <2>5, <2>7, <2>11 DEF t
<1>2. CASE events[n].type = "virtual"
  <2>1. PICK i \in Indices : /\ NextToken(Indices, events, n - 1, i)
                             /\ IsHead(Indices, At, events, n, i) \/ IsRest(Indices, At, events, n, i)
    BY <1>0, <1>2 DEF Placing
  <2>2. CountTo(Indices, i) = m + 1
    BY <2>1 DEF NextToken
  <2>3. t = Add(s, events[n].piece)
    BY <1>2 DEF Replay
  <2>. HIDE DEF t
  <2>4. /\ Onward(s, t) /\ TextFits(t, n) /\ Len(t.text) = Len(s.text) + 1
        /\ ~t.text[Len(s.text) + 1].trivia
    <3>1. CASE IsHead(Indices, At, events, n, i)
      <4>1. Halves(events, n - 1, 0) /\ (i = 1 \/ i - 1 \in Indices) /\ t = Add(s, HeadOf(At, i))
        BY <2>3, <3>1 DEF IsHead
      <4>2. TextHas(s, m, 0, k)
        BY <4>1, TextNow
      <4>. HIDE DEF m, k
      <4>3. /\ TextHas(t, m, 1, k + 1) /\ Onward(s, t) /\ Len(t.text) = Len(s.text) + 1
            /\ ~t.text[Len(s.text) + 1].trivia
        BY <1>0, <2>2, <4>1, <4>2, HeadText
      <4>4. Halves(events, n, 0 + 1) /\ Moved(events, n) = m /\ TakenBy(events, n) = k + 1
        BY <1>2, <4>1, TextCounts DEF m, k
      <4>5. TextFits(t, n)
        BY <4>3, <4>4 DEF TextFits
      <4>. QED
        BY <4>3, <4>5
    <3>2. CASE IsRest(Indices, At, events, n, i)
      <4>1. Halves(events, n - 1, 1) /\ t = Add(s, RestOf(At, i))
        BY <2>3, <3>2 DEF IsRest
      <4>2. TextHas(s, m, 1, k)
        BY <4>1, TextNow
      <4>. HIDE DEF m, k
      <4>3. /\ TextHas(t, m, 2, k + 1) /\ Onward(s, t) /\ Len(t.text) = Len(s.text) + 1
            /\ ~t.text[Len(s.text) + 1].trivia
        BY <1>0, <2>2, <4>1, <4>2, RestText
      <4>4. Halves(events, n, 1 + 1) /\ Moved(events, n) = m /\ TakenBy(events, n) = k + 1
        BY <1>2, <4>1, TextCounts DEF m, k
      <4>5. TextFits(t, n)
        BY <4>3, <4>4 DEF TextFits
      <4>. QED
        BY <4>3, <4>5
    <3>. QED
      BY <2>1, <3>1, <3>2
  <2>5. Keeps(s, t, n)
    <3>1. Grown(s.text, t.text) /\ Len(t.text) # Len(s.text) /\ Len(t.text) > Len(s.text)
      BY <1>0, <2>4 DEF Onward
    <3>. QED
      BY <2>4, <3>1 DEF Keeps
  <2>. QED
    BY <2>4, <2>5 DEF t
<1>3. CASE events[n].type = "advance"
  <2>1. n > 1 /\ events[n - 1].type = "virtual" /\ Halves(events, n - 1, 2)
    BY <1>0, <1>3 DEF Placing
  <2>2. TextHas(s, m, 2, k)
    BY <2>1, TextNow
  <2>3. t = [s EXCEPT !.cursor = @ + 1]
    BY <1>3 DEF Replay
  <2>. HIDE DEF t, m, k
  <2>4. TextHas(t, m + 1, 0, k) /\ Onward(s, t) /\ t.text = s.text
    BY <1>0, <2>2, <2>3, AdvanceText
  <2>5. Halves(events, n, 0) /\ Moved(events, n) = m + 1 /\ TakenBy(events, n) = k
    BY <1>3, <2>1, TextCounts DEF m, k
  <2>6. TextFits(t, n)
    BY <2>4, <2>5 DEF TextFits
  <2>7. Keeps(s, t, n)
    BY <1>3, <2>1, <2>4 DEF Keeps, Onward
  <2>. QED
    BY <2>4, <2>6, <2>7 DEF t
<1>. QED
  BY <1>1, <1>2, <1>3

(* The others only eat trivia, if any.                                     *)
LEMMA EatStep ==
    ASSUME tokens \in Seq(Kinds), events \in Seq(Event),
           NEW n \in 1..Len(events), NEW s \in SinkType, TextFits(s, n - 1),
           events[n].type \notin {"token", "virtual", "advance"},
           NEW u, u = s \/ u = EatTrivia(s)
    PROVE  /\ Onward(s, u) /\ Keeps(s, u, n) /\ TextFits(u, n)
           /\ TokensIn(u.text, Len(u.text)) = TakenBy(events, n)
           /\ u = EatTrivia(s) => Clear(u.cursor)
<1>1. PICK h \in 0..2 : /\ Halves(events, n - 1, h)
                        /\ TextHas(s, Moved(events, n - 1), h, TakenBy(events, n - 1))
  BY DEF TextFits
<1>2. /\ Moved(events, n) = Moved(events, n - 1) /\ TakenBy(events, n) = TakenBy(events, n - 1)
      /\ Halves(events, n, h)
  BY <1>1, TextCounts
<1>3. CASE u = s
  <2>1. Onward(s, u) /\ Grown(s.text, u.text)
    BY <1>3, TypeIs DEF Onward, Grown
  <2>2. Keeps(s, u, n)
    BY <1>3, <2>1 DEF Keeps
  <2>3. TextFits(u, n)
    BY <1>1, <1>2, <1>3 DEF TextFits
  <2>4. TokensIn(u.text, Len(u.text)) = TakenBy(events, n)
    BY <1>1, <1>2, <1>3 DEF TextHas
  <2>5. u = EatTrivia(s) => Clear(u.cursor)
    BY <1>1, EatIs DEF TextHas
  <2>. QED
    BY <2>1, <2>2, <2>3, <2>4, <2>5
<1>4. CASE u = EatTrivia(s)
  <2>1. TextHas(u, Moved(events, n), h, TakenBy(events, n)) /\ Onward(s, u)
    BY <1>1, <1>2, <1>4, EatText
  <2>2. Clear(u.cursor) /\ (Clear(s.cursor) => u.cursor = s.cursor /\ u.text = s.text)
    BY <1>1, <1>4, EatIs DEF TextHas
  <2>3. Keeps(s, u, n)
    BY <2>1, <2>2 DEF Keeps, Onward
  <2>4. TextFits(u, n)
    BY <1>2, <2>1 DEF TextFits
  <2>5. TokensIn(u.text, Len(u.text)) = TakenBy(events, n)
    BY <2>1 DEF TextHas
  <2>. QED
    BY <2>1, <2>2, <2>3, <2>4, <2>5
<1>. QED
  BY <1>3, <1>4

-----------------------------------------------------------------------------
(* The sink: the nodes after each event.                                   *)

(* The nodes open and closed after n events.                               *)
Opens(s, n, o, m) ==
    /\ o.node = m.node /\ m.first <= n /\ n < m.last
    /\ o.first \in 1..Len(s.text) + 1 /\ TokensIn(s.text, o.first - 1) = m.from
    /\ o.node # 1 /\ o.first <= Len(s.text) => ~s.text[o.first].trivia
    /\ o.node # 1 /\ o.first = Len(s.text) + 1 => Clear(s.cursor)
    /\ n > 0 /\ events[n].type = "virtual" => o.first <= Len(s.text)
Closes(s, c, m) ==
    /\ c.node = m.node
    /\ c.first \in 1..Len(s.text) + 1 /\ TokensIn(s.text, c.first - 1) = m.from
    /\ c.last \in 0..Len(s.text) /\ TokensIn(s.text, c.last) = m.to
    /\ c.node # 1 /\ c.first <= c.last => ~s.text[c.first].trivia
Inside(k, m) == k.first < m.first \/ (k.first = m.first /\ m.node < k.node)
OpenAt(s, n, nodes) == \A p \in 1..Len(s.open) : \E i \in 1..Len(nodes) : Opens(s, n, s.open[p], nodes[i])
Ordered(opn, nodes) ==
    \A p \in 1..Len(opn) : \A q \in 1..p - 1 : \A i, k \in 1..Len(nodes) :
        opn[p].node = nodes[i].node /\ opn[q].node = nodes[k].node => Inside(nodes[k], nodes[i])
AllOpen(opn, n, nodes) ==
    \A i \in 1..Len(nodes) : nodes[i].first <= n /\ n < nodes[i].last =>
        \E p \in 1..Len(opn) : opn[p].node = nodes[i].node
GoneAt(gone, n, nodes) == \A e : e \in gone <=> \E i \in 1..Len(nodes) : nodes[i].node = e /\ nodes[i].first <= n
ClosedAt(s, n, nodes) ==
    /\ Len(s.closed) = Finishes(events, n)
    /\ \A i \in 1..Len(s.closed) : Closes(s, s.closed[i], nodes[i])
StackFits(s, n, nodes) ==
    /\ OpenAt(s, n, nodes) /\ Ordered(s.open, nodes) /\ AllOpen(s.open, n, nodes)
    /\ GoneAt(s.gone, n, nodes) /\ ClosedAt(s, n, nodes)
    /\ n = Len(events) => Clear(s.cursor)

LEMMA GrownTokens ==
    ASSUME NEW s \in SinkType, NEW t \in SinkType, Grown(s.text, t.text), NEW f \in 1..Len(s.text) + 1
    PROVE  /\ f \in Nat /\ f - 1 \in 0..Len(s.text) /\ f \in 1..Len(t.text) + 1
           /\ Len(s.text) <= Len(t.text) /\ Len(s.text) \in Nat /\ Len(t.text) \in Nat
           /\ TokensIn(t.text, f - 1) = TokensIn(s.text, f - 1)
           /\ f <= Len(s.text) => t.text[f] = s.text[f]
<1>1. Len(s.text) \in Nat /\ Len(t.text) \in Nat /\ s.text \in Seq(Text) /\ t.text \in Seq(Text)
  BY TypeIs
<1>2. Len(s.text) <= Len(t.text)
  BY DEF Grown
<1>3. /\ f \in Nat /\ f - 1 \in 0..Len(s.text) /\ f \in 1..Len(t.text) + 1
      /\ f <= Len(s.text) => f \in 1..Len(s.text)
  BY <1>1, <1>2
<1>4. TokensIn(t.text, f - 1) = TokensIn(s.text, f - 1)
  BY <1>1, <1>3, TokensGrown
<1>5. f <= Len(s.text) => t.text[f] = s.text[f]
  BY <1>3 DEF Grown
<1>. QED
  BY <1>1, <1>2, <1>3, <1>4, <1>5

LEMMA OpensKept ==
    ASSUME events \in Seq(Event), NEW n \in 1..Len(events), NEW s \in SinkType, NEW t \in SinkType,
           Keeps(s, t, n), NEW o, NEW m \in Node, Opens(s, n - 1, o, m), n < m.last
    PROVE  Opens(t, n, o, m)
<1>1. /\ n \in Nat /\ n - 1 \in Nat /\ n > 0 /\ m.first \in Nat /\ m.last \in Nat
      /\ m.first <= n - 1
  BY DEF Node, Opens
<1>2. m.first <= n
  BY <1>1
<1>. DEFINE f == o.first
<1>3. f \in 1..Len(s.text) + 1 /\ Grown(s.text, t.text)
  BY DEF Opens, Keeps
<1>4. /\ f \in Nat /\ f \in 1..Len(t.text) + 1
      /\ Len(s.text) <= Len(t.text) /\ Len(s.text) \in Nat /\ Len(t.text) \in Nat
      /\ TokensIn(t.text, f - 1) = TokensIn(s.text, f - 1)
      /\ f <= Len(s.text) => t.text[f] = s.text[f]
  BY <1>3, GrownTokens
<1>5. f <= Len(s.text) \/ f = Len(s.text) + 1
  <2>1. f <= Len(s.text) + 1
    BY <1>3, <1>4
  <2>. QED
    BY <1>4, <2>1
<1>6. TokensIn(t.text, f - 1) = m.from
  BY <1>4 DEF Opens
<1>7. ASSUME o.node # 1, f <= Len(t.text) PROVE ~t.text[f].trivia
  <2>1. CASE f <= Len(s.text)
    BY <1>4, <1>7, <2>1 DEF Opens
  <2>2. CASE f = Len(s.text) + 1
    <3>1. Clear(s.cursor)
      BY <1>7, <2>2 DEF Opens
    <3>2. Len(t.text) # Len(s.text)
      BY <1>4, <1>7, <2>2
    <3>. QED
      BY <2>2, <3>1, <3>2 DEF Keeps
  <2>. QED
    BY <1>5, <2>1, <2>2
<1>8. ASSUME o.node # 1, f = Len(t.text) + 1 PROVE Clear(t.cursor)
  <2>1. f = Len(s.text) + 1 /\ Len(t.text) = Len(s.text)
    BY <1>4, <1>5, <1>8
  <2>2. Clear(s.cursor)
    BY <1>8, <2>1 DEF Opens
  <2>3. SUFFICES ASSUME n > 1, events[n - 1].type = "virtual" PROVE FALSE
    BY <2>1, <2>2 DEF Keeps
  <2>4. n - 1 > 0
    BY <1>1, <2>3
  <2>5. f <= Len(s.text)
    BY <2>3, <2>4 DEF Opens
  <2>. QED
    BY <1>4, <2>1, <2>5
<1>9. ASSUME events[n].type = "virtual" PROVE f <= Len(t.text)
  <2>1. Len(t.text) > Len(s.text)
    BY <1>9 DEF Keeps
  <2>. QED
    BY <1>4, <1>5, <2>1
<1>10. o.node = m.node
  BY DEF Opens
<1>. QED
  BY <1>2, <1>4, <1>6, <1>7, <1>8, <1>9, <1>10 DEF Opens

LEMMA ClosesKept ==
    ASSUME NEW s \in SinkType, NEW t \in SinkType, Grown(s.text, t.text), NEW c, NEW m, Closes(s, c, m)
    PROVE  Closes(t, c, m)
<1>1. /\ c.first \in 1..Len(s.text) + 1 /\ c.last \in 0..Len(s.text) /\ c.node = m.node
      /\ TokensIn(s.text, c.first - 1) = m.from /\ TokensIn(s.text, c.last) = m.to
  BY DEF Closes
<1>2. /\ c.first \in Nat /\ c.first \in 1..Len(t.text) + 1
      /\ Len(s.text) <= Len(t.text) /\ Len(s.text) \in Nat /\ Len(t.text) \in Nat
      /\ TokensIn(t.text, c.first - 1) = TokensIn(s.text, c.first - 1)
      /\ c.first <= Len(s.text) => t.text[c.first] = s.text[c.first]
  BY <1>1, GrownTokens
<1>3. TokensIn(t.text, c.last) = TokensIn(s.text, c.last)
  <2>. DEFINE f == c.last + 1
  <2>1. f \in 1..Len(s.text) + 1 /\ f - 1 = c.last
    BY <1>1, <1>2
  <2>. HIDE DEF f
  <2>. QED
    BY <2>1, GrownTokens
<1>4. c.last \in 0..Len(t.text) /\ (c.first <= c.last => c.first <= Len(s.text))
  BY <1>1, <1>2
<1>. QED
  BY <1>1, <1>2, <1>3, <1>4 DEF Closes

(* Which nodes begin and end with an event.                                *)
LEMMA EndsAt ==
    ASSUME NEW nodes, Whole(nodes), NEW n \in 1..Len(events)
    PROVE  /\ events[n].type # "finish" => \A i \in 1..Len(nodes) : nodes[i].last # n
           /\ \A i \in 1..Len(nodes) : nodes[i].first = n =>
                 /\ events[n].type = "start"
                 /\ \E j \in 1..Len(nodes) : nodes[j].node = n /\ nodes[j].first = n
           /\ \A i \in 1..Len(nodes) :
                 /\ nodes[i].first \in Nat /\ nodes[i].last \in Nat /\ nodes[i].node \in Nat
                 /\ (nodes[i].first <= n <=> nodes[i].first <= n - 1 \/ nodes[i].first = n)
                 /\ (n - 1 < nodes[i].last <=> n < nodes[i].last \/ nodes[i].last = n)
           /\ events[Len(events)].type = "finish" /\ n \in Nat /\ n - 1 \in Nat
<1>1. /\ \A i \in 1..Len(nodes) : events[nodes[i].last].type = "finish"
      /\ \A i \in 1..Len(nodes) : nodes[i].node \in Starts
      /\ \A i \in 1..Len(nodes) : nodes[i].first \in 1..Len(events) /\ nodes[i].last \in 1..Len(events)
                                  /\ nodes[i].node \in 1..Len(events)
      /\ Len(events) \in Nat /\ Len(nodes) \in 1..Len(nodes)
  BY WholeNodes
<1>2. \A i \in 1..Len(nodes) : \E j \in 1..Len(nodes) :
              nodes[j].node = nodes[i].first /\ nodes[j].first = nodes[i].first
  BY FirstIs DEF Whole
<1>3. ASSUME NEW i \in 1..Len(nodes), nodes[i].first = n
      PROVE  /\ events[n].type = "start"
             /\ \E j \in 1..Len(nodes) : nodes[j].node = n /\ nodes[j].first = n
  <2>1. PICK j \in 1..Len(nodes) : nodes[j].node = n /\ nodes[j].first = n
    BY <1>2, <1>3
  <2>2. n \in Starts
    BY <1>1, <2>1
  <2>3. events[n].type = "start"
    BY <2>2 DEF Starts
  <2>. QED
    BY <2>1, <2>3
<1>4. events[Len(events)].type = "finish"
  BY <1>1 DEF Whole
<1>5. ASSUME NEW i \in 1..Len(nodes)
      PROVE  /\ nodes[i].first \in Nat /\ nodes[i].last \in Nat /\ nodes[i].node \in Nat
             /\ (nodes[i].first <= n <=> nodes[i].first <= n - 1 \/ nodes[i].first = n)
             /\ (n - 1 < nodes[i].last <=> n < nodes[i].last \/ nodes[i].last = n)
  <2>1. nodes[i].first \in Nat /\ nodes[i].last \in Nat /\ nodes[i].node \in Nat /\ n \in Nat
    BY <1>1
  <2>. QED
    BY <2>1
<1>6. n \in Nat /\ n - 1 \in Nat
  OBVIOUS
<1>7. events[n].type # "finish" => \A i \in 1..Len(nodes) : nodes[i].last # n
  BY <1>1
<1>. QED
  BY <1>3, <1>4, <1>5, <1>6, <1>7

(* An event that begins and ends no node.                                  *)
LEMMA IdleNodes ==
    ASSUME NEW nodes, Whole(nodes), NEW n \in 1..Len(events), NEW s \in SinkType, NEW t \in SinkType,
           StackFits(s, n - 1, nodes), Keeps(s, t, n),
           t.open = s.open, t.closed = s.closed, t.gone = s.gone,
           events[n].type # "finish", events[n].type = "start" => n \in s.gone
    PROVE  StackFits(t, n, nodes)
<1>1. events \in Seq(Event) /\ \A i \in 1..Len(nodes) : nodes[i] \in Node
  BY WholeNodes
<1>2. \A i \in 1..Len(nodes) : nodes[i].first # n
  <2>. SUFFICES ASSUME NEW i \in 1..Len(nodes), nodes[i].first = n PROVE FALSE
    OBVIOUS
  <2>1. PICK j \in 1..Len(nodes) : nodes[j].node = n /\ nodes[j].first = n
    BY EndsAt
  <2>2. n \in s.gone
    BY EndsAt
  <2>3. PICK l \in 1..Len(nodes) : nodes[l].node = n /\ nodes[l].first <= n - 1
    BY <2>2 DEF StackFits, GoneAt
  <2>4. l = j
    BY <2>1, <2>3, WholeNodes
  <2>5. n \in Nat
    BY EndsAt
  <2>. QED
    BY <2>1, <2>3, <2>4, <2>5
<1>3. \A i \in 1..Len(nodes) : nodes[i].last # n
  BY EndsAt
<1>4. \A i \in 1..Len(nodes) : /\ (nodes[i].first <= n <=> nodes[i].first <= n - 1)
                               /\ (n - 1 < nodes[i].last <=> n < nodes[i].last)
  BY <1>2, <1>3, EndsAt
<1>5. Finishes(events, n) = Finishes(events, n - 1)
  BY <1>1, CountsNext
<1>6. OpenAt(t, n, nodes)
  <2>. SUFFICES ASSUME NEW p \in 1..Len(t.open) PROVE \E i \in 1..Len(nodes) : Opens(t, n, t.open[p], nodes[i])
    BY DEF OpenAt
  <2>1. PICK i \in 1..Len(nodes) : Opens(s, n - 1, s.open[p], nodes[i])
    BY DEF StackFits, OpenAt
  <2>2. n < nodes[i].last
    BY <1>4, <2>1 DEF Opens
  <2>3. Opens(t, n, s.open[p], nodes[i])
    BY <1>1, <2>1, <2>2, OpensKept
  <2>. QED
    BY <2>3
<1>7. ClosedAt(t, n, nodes)
  <2>1. \A i \in 1..Len(s.closed) : Closes(s, s.closed[i], nodes[i])
    BY DEF StackFits, ClosedAt
  <2>2. \A i \in 1..Len(s.closed) : Closes(t, s.closed[i], nodes[i])
    BY <2>1, ClosesKept DEF Keeps
  <2>. QED
    BY <1>5, <2>2 DEF StackFits, ClosedAt
<1>8. GoneAt(t.gone, n, nodes)
  BY <1>4 DEF StackFits, GoneAt
<1>9. AllOpen(t.open, n, nodes)
  BY <1>4 DEF StackFits, AllOpen
<1>10. n # Len(events)
  BY EndsAt
<1>. QED
  BY <1>6, <1>7, <1>8, <1>9, <1>10 DEF StackFits

(* What the sink opens and closes.                                         *)
LEMMA OpenedIs ==
    ASSUME events \in Seq(Event), NEW c \in Seq(Starts), NEW u \in SinkType
    PROVE  LET o == Opened(Reverse(c), u) IN
           /\ o \in Seq([node : Nat, first : Nat]) /\ Len(o) = Len(c) /\ Len(c) \in Nat
           /\ \A i \in 1..Len(c) : /\ Len(c) - i + 1 \in 1..Len(c)
                                   /\ o[i].node = c[Len(c) - i + 1] /\ o[i].first = Len(u.text) + 1
<1>. DEFINE o == Opened(Reverse(c), u)
            r == Reverse(c)
            z == Len(u.text) + 1
<1>1. Len(c) \in Nat /\ z \in Nat /\ Starts \subseteq Nat
  BY TypeIs DEF Starts
<1>2. ASSUME NEW i \in 1..Len(c) PROVE Len(c) - i + 1 \in 1..Len(c)
  BY <1>1
<1>3. r = [i \in 1..Len(c) |-> c[Len(c) - i + 1]]
  BY DEF Reverse
<1>4. r \in [1..Len(c) -> Starts]
  <2>1. ASSUME NEW i \in 1..Len(c) PROVE c[Len(c) - i + 1] \in Starts
    BY <1>2
  <2>. QED
    BY <1>3, <2>1
<1>5. Len(r) = Len(c)
  BY <1>1, <1>4, FunctionIsSeq
<1>6. \A i \in 1..Len(c) : r[i] = c[Len(c) - i + 1] /\ r[i] \in Nat
  BY <1>1, <1>3, <1>4
<1>. HIDE DEF r, z
<1>7. o = [i \in 1..Len(c) |-> [node |-> r[i], first |-> z]]
  BY <1>5 DEF Opened, r, z
<1>8. o \in [1..Len(c) -> [node : Nat, first : Nat]]
  BY <1>1, <1>6, <1>7
<1>9. \A i \in 1..Len(c) : o[i].node = r[i] /\ o[i].first = z
  BY <1>7
<1>. HIDE DEF o
<1>10. o \in Seq([node : Nat, first : Nat]) /\ Len(o) = Len(c)
  BY <1>1, <1>8, FunctionIsSeq
<1>11. /\ o \in Seq([node : Nat, first : Nat]) /\ Len(o) = Len(c) /\ Len(c) \in Nat
       /\ \A i \in 1..Len(c) : /\ Len(c) - i + 1 \in 1..Len(c)
                               /\ o[i].node = c[Len(c) - i + 1] /\ o[i].first = Len(u.text) + 1
  BY <1>1, <1>2, <1>6, <1>9, <1>10 DEF z
<1>. QED
  BY <1>11 DEF o

LEMMA OpenNodesIs ==
    ASSUME tokens \in Seq(Kinds), events \in Seq(Event), NEW idx \in Starts, NEW s \in SinkType,
           s.cursor \in 1..Len(tokens) + 1, Chain(idx) \in Seq(Starts)
    PROVE  LET u == IF idx = 1 THEN s ELSE EatTrivia(s)
               t == OpenNodes(s, idx)
               c == Chain(idx) IN
           /\ u \in SinkType /\ u.open = s.open /\ u.closed = s.closed /\ u.gone = s.gone
           /\ t \in SinkType /\ t.cursor = u.cursor /\ t.text = u.text /\ t.closed = s.closed
           /\ t.open = s.open \o Opened(Reverse(c), u)
           /\ \A e : e \in t.gone <=> e \in s.gone \/ \E k \in 1..Len(c) : c[k] = e
<1>. DEFINE u == IF idx = 1 THEN s ELSE EatTrivia(s)
            t == OpenNodes(s, idx)
            c == Chain(idx)
            o == Opened(Reverse(c), u)
            x == u.open \o o
            y == u.gone \cup ToSet(c)
            n1 == [u EXCEPT !.open = x]
<1>1. u \in SinkType /\ u.open = s.open /\ u.closed = s.closed /\ u.gone = s.gone
  BY EatIs
<1>. HIDE DEF u
<1>2. o \in Seq([node : Nat, first : Nat])
  BY <1>1, OpenedIs
<1>3. t = [n1 EXCEPT !.gone = y]
  <2>1. t = [u EXCEPT !.open = x, !.gone = y]
    BY Zenon DEF OpenNodes, u
  <2>. HIDE DEF x, y, t
  <2>. QED
    BY <2>1, Zenon
<1>. HIDE DEF t, o
<1>4. u.open \in Seq([node : Nat, first : Nat]) /\ x \in Seq([node : Nat, first : Nat])
  BY <1>1, <1>2, ConcatIs, TypeIs
<1>5. (\A e : e \in ToSet(c) <=> \E k \in 1..Len(c) : c[k] = e) /\ ToSet(c) \subseteq Nat
  <2>1. DOMAIN c = 1..Len(c) /\ c \in Seq(Starts)
    BY DEF c
  <2>2. \A k \in 1..Len(c) : c[k] \in Nat
    BY <2>1 DEF Starts
  <2>. HIDE DEF c
  <2>. QED
    BY <2>1, <2>2 DEF ToSet
<1>. HIDE DEF c
<1>6. y \in SUBSET Nat
  BY <1>1, <1>5, TypeIs
<1>. HIDE DEF x, y
<1>7. /\ n1 \in SinkType /\ n1.cursor = u.cursor /\ n1.text = u.text /\ n1.closed = u.closed
      /\ n1.open = x
  BY <1>1, <1>4 DEF SinkType
<1>. HIDE DEF n1
<1>8. /\ t \in SinkType /\ t.cursor = u.cursor /\ t.text = u.text /\ t.closed = u.closed
      /\ t.open = x /\ t.gone = y
  BY <1>3, <1>6, <1>7 DEF SinkType
<1>9. \A e : e \in y <=> e \in s.gone \/ \E k \in 1..Len(c) : c[k] = e
  BY <1>1, <1>5 DEF y
<1>10. t.open = s.open \o o
  BY <1>1, <1>8 DEF x
<1>. QED
  BY <1>1, <1>8, <1>9, <1>10 DEF u, t, c, o

LEMMA SameText ==
    ASSUME NEW s, NEW t, t.cursor = s.cursor, t.text = s.text
    PROVE  /\ \A n : TextFits(s, n) => TextFits(t, n)
           /\ \A r, n : Keeps(r, s, n) => Keeps(r, t, n)
           /\ \A n, o, m : Opens(s, n, o, m) => Opens(t, n, o, m)
           /\ \A c, m : Closes(s, c, m) => Closes(t, c, m)
  BY DEF TextFits, TextHas, Keeps, Opens, Closes

LEMMA Mirrored ==
    ASSUME NEW k \in Nat, NEW i \in 1..k, NEW j \in 1..k, j < i
    PROVE  k - i + 1 \in 1..(k - j + 1) - 1
  OBVIOUS

(* An event that begins nodes: those of its chain.                         *)
LEMMA OpenStep ==
    ASSUME tokens \in Seq(Kinds), NEW nodes, Whole(nodes), NEW n \in 1..Len(events),
           NEW s \in SinkType, TextFits(s, n - 1), StackFits(s, n - 1, nodes),
           events[n].type = "start", n \notin s.gone
    PROVE  LET t == OpenNodes(s, n) IN t \in SinkType /\ TextFits(t, n) /\ StackFits(t, n, nodes)
<1>. DEFINE u == IF n = 1 THEN s ELSE EatTrivia(s)
            t == OpenNodes(s, n)
            c == Chain(n)
            o == Opened(Reverse(c), u)
            L == Len(s.open)
<1>1. /\ events \in Seq(Event) /\ \A i \in 1..Len(nodes) : nodes[i] \in Node
      /\ n \in Starts /\ n \in Nat /\ n - 1 \in Nat /\ s.cursor \in 1..Len(tokens) + 1
  BY WholeNodes, EndsAt DEF Starts, TextFits, TextHas
<1>2. PICK i0 \in 1..Len(nodes) : nodes[i0].node = n /\ nodes[i0].first = n
  <2>1. PICK i \in 1..Len(nodes) : nodes[i].node = n
    BY <1>1, WholeNodes
  <2>2. nodes[i].first <= n
    <3>1. nodes[i].first \in 1..nodes[i].node
      BY WholeNodes
    <3>. QED
      BY <1>1, <2>1, <3>1
  <2>3. ~(nodes[i].first <= n - 1)
    BY <2>1 DEF StackFits, GoneAt
  <2>. QED
    BY <2>1, <2>2, <2>3, EndsAt
<1>3. /\ c \in Seq(Starts)
      /\ \A k \in 1..Len(c) : \E i \in 1..Len(nodes) : nodes[i].node = c[k] /\ nodes[i].first = n
      /\ \A i \in 1..Len(nodes) : nodes[i].first = n => \E k \in 1..Len(c) : c[k] = nodes[i].node
      /\ \A k \in 1..Len(c) : \A j \in 1..k - 1 : c[j] < c[k]
  <2>. DEFINE x == nodes[i0].node
              d == Chain(x)
  <2>1. nodes[i0].first = x /\ x = n
    BY <1>2
  <2>2. /\ d \in Seq(Starts)
        /\ \A k \in 1..Len(d) : \E i \in 1..Len(nodes) : nodes[i].node = d[k] /\ nodes[i].first = x
        /\ \A i \in 1..Len(nodes) : nodes[i].first = x => \E k \in 1..Len(d) : d[k] = nodes[i].node
        /\ \A k \in 1..Len(d) : \A j \in 1..k - 1 : d[j] < d[k]
    BY <2>1, ChainNodes
  <2>3. d = c
    BY <2>1
  <2>. HIDE DEF d, c, x
  <2>. QED
    BY <2>1, <2>2, <2>3
<1>4. /\ u \in SinkType /\ u.open = s.open /\ u.closed = s.closed /\ u.gone = s.gone
      /\ t \in SinkType /\ t.cursor = u.cursor /\ t.text = u.text /\ t.closed = s.closed
      /\ t.open = s.open \o o
      /\ \A e : e \in t.gone <=> e \in s.gone \/ \E k \in 1..Len(c) : c[k] = e
  BY <1>1, <1>3, OpenNodesIs
<1>5. /\ Keeps(s, u, n) /\ TextFits(u, n)
      /\ TokensIn(u.text, Len(u.text)) = TakenBy(events, n)
      /\ n # 1 => Clear(u.cursor)
  <2>1. u = s \/ u = EatTrivia(s)
    OBVIOUS
  <2>2. n # 1 => u = EatTrivia(s)
    OBVIOUS
  <2>. HIDE DEF u
  <2>. QED
    BY <1>1, <2>1, <2>2, EatStep
<1>6. /\ o \in Seq([node : Nat, first : Nat]) /\ Len(o) = Len(c) /\ Len(c) \in Nat
      /\ \A i \in 1..Len(c) : /\ Len(c) - i + 1 \in 1..Len(c)
                              /\ o[i].node = c[Len(c) - i + 1] /\ o[i].first = Len(u.text) + 1
  BY <1>1, <1>3, <1>4, OpenedIs
<1>. HIDE DEF u, t, c, o
<1>7. /\ L \in Nat /\ Len(t.open) = L + Len(c)
      /\ \A p \in 1..L : t.open[p] = s.open[p]
      /\ \A p \in 1..Len(c) : t.open[L + p] = o[p]
  <2>1. s.open \in Seq([node : Nat, first : Nat]) /\ L \in Nat
    BY TypeIs
  <2>2. /\ Len(s.open \o o) = L + Len(o)
        /\ \A p \in 1..L : (s.open \o o)[p] = s.open[p]
        /\ \A p \in 1..Len(o) : (s.open \o o)[L + p] = o[p]
    <3>. DEFINE T == [node : Nat, first : Nat]
                x == s.open
    <3>1. x \in Seq(T) /\ o \in Seq(T)
      BY <1>6, <2>1
    <3>. HIDE DEF T, x
    <3>2. /\ Len(x \o o) = Len(x) + Len(o)
          /\ \A p \in 1..Len(x) : (x \o o)[p] = x[p]
          /\ \A p \in 1..Len(o) : (x \o o)[Len(x) + p] = o[p]
      BY <3>1, ConcatIs
    <3>. QED
      BY <3>2 DEF x
  <2>. QED
    BY <1>4, <1>6, <2>1, <2>2
<1>8. TextFits(t, n) /\ Keeps(s, t, n)
  BY <1>4, <1>5, SameText
<1>9. /\ Finishes(events, n) = Finishes(events, n - 1)
      /\ \A i \in 1..Len(nodes) : nodes[i].last # n
      /\ n # Len(events)
  BY <1>1, CountsNext, EndsAt
<1>10. \A p \in 1..Len(t.open) : p \in 1..L \/ (p - L \in 1..Len(c) /\ L + (p - L) = p)
  BY <1>6, <1>7
<1>11. OpenAt(t, n, nodes)
  <2>. SUFFICES ASSUME NEW p \in 1..Len(t.open) PROVE \E i \in 1..Len(nodes) : Opens(t, n, t.open[p], nodes[i])
    BY DEF OpenAt
  <2>1. CASE p \in 1..L
    <3>1. PICK i \in 1..Len(nodes) : Opens(s, n - 1, s.open[p], nodes[i])
      BY <2>1 DEF StackFits, OpenAt
    <3>2. n < nodes[i].last
      <4>1. n - 1 < nodes[i].last
        BY <3>1 DEF Opens
      <4>2. nodes[i].last # n /\ nodes[i].last \in Nat
        BY <1>9, EndsAt
      <4>3. n \in Nat
        OBVIOUS
      <4>. QED
        BY <4>1, <4>2, <4>3, NextBelow
    <3>3. Opens(t, n, s.open[p], nodes[i])
      BY <1>1, <1>4, <1>8, <3>1, <3>2, OpensKept
    <3>. QED
      BY <1>7, <2>1, <3>3
  <2>2. CASE p - L \in 1..Len(c) /\ L + (p - L) = p
    <3>. DEFINE z == t.open[p]
                k == Len(c) - (p - L) + 1
    <3>1. k \in 1..Len(c) /\ z.node = c[k] /\ z.first = Len(u.text) + 1
      <4>1. z = o[p - L]
        BY <1>7, <2>2
      <4>. QED
        BY <1>6, <2>2, <4>1
    <3>. HIDE DEF z, k
    <3>2. PICK i \in 1..Len(nodes) : nodes[i].node = z.node /\ nodes[i].first = n
      BY <1>3, <3>1
    <3>3. nodes[i].first < nodes[i].last /\ nodes[i].from = TakenBy(events, nodes[i].first)
      BY WholeNodes
    <3>4. /\ Len(u.text) \in Nat /\ z.first \in 1..Len(u.text) + 1 /\ z.first - 1 = Len(u.text)
          /\ ~(z.first <= Len(u.text))
      <4>. DEFINE w == Len(u.text)
      <4>1. w \in Nat /\ z.first = w + 1
        BY <1>4, <3>1, TypeIs
      <4>. HIDE DEF w
      <4>2. w \in Nat /\ w + 1 \in 1..w + 1 /\ w + 1 - 1 = w /\ ~(w + 1 <= w)
        BY <4>1
      <4>. QED
        BY <4>1, <4>2 DEF w
    <3>5. TokensIn(u.text, z.first - 1) = nodes[i].from
      BY <1>5, <3>2, <3>3, <3>4
    <3>6. z.node # 1 => Clear(u.cursor)
      <4>1. n = 1 => nodes[i].node = 1
        BY <3>2, RootIs
      <4>. QED
        BY <1>5, <3>2, <4>1
    <3>7. nodes[i].first <= n /\ n < nodes[i].last
      BY <1>1, <3>2, <3>3
    <3>8. events[n].type # "virtual"
      OBVIOUS
    <3>9. Opens(u, n, z, nodes[i])
      BY <3>2, <3>4, <3>5, <3>6, <3>7, <3>8 DEF Opens
    <3>10. Opens(t, n, z, nodes[i])
      BY <1>4, <3>9, SameText
    <3>. QED
      BY <3>10 DEF z
  <2>. QED
    BY <1>10, <2>1, <2>2
<1>12. \A p \in 1..L : \A i \in 1..Len(nodes) : s.open[p].node = nodes[i].node => nodes[i].first <= n - 1
  <2>. SUFFICES ASSUME NEW p \in 1..L, NEW i \in 1..Len(nodes), s.open[p].node = nodes[i].node
                PROVE  nodes[i].first <= n - 1
    OBVIOUS
  <2>1. PICK j \in 1..Len(nodes) : Opens(s, n - 1, s.open[p], nodes[j])
    BY DEF StackFits, OpenAt
  <2>2. j = i
    <3>1. nodes[j].node = nodes[i].node
      BY <2>1 DEF Opens
    <3>. QED
      BY <3>1, WholeNodes
  <2>. QED
    BY <2>1, <2>2 DEF Opens
<1>18. \A k \in 1..Len(c) : \A i \in 1..Len(nodes) : nodes[i].node = c[k] => nodes[i].first = n
  <2>. SUFFICES ASSUME NEW k \in 1..Len(c), NEW i \in 1..Len(nodes), nodes[i].node = c[k]
                PROVE  nodes[i].first = n
    OBVIOUS
  <2>1. PICK j \in 1..Len(nodes) : nodes[j].node = c[k] /\ nodes[j].first = n
    BY <1>3
  <2>2. j = i
    BY <2>1, WholeNodes
  <2>. QED
    BY <2>1, <2>2
<1>13. Ordered(t.open, nodes)
  <2>. SUFFICES ASSUME NEW p \in 1..Len(t.open), NEW q \in 1..p - 1,
                       NEW i \in 1..Len(nodes), NEW k \in 1..Len(nodes),
                       t.open[p].node = nodes[i].node, t.open[q].node = nodes[k].node
                PROVE  Inside(nodes[k], nodes[i])
    BY DEF Ordered
  <2>0. q \in 1..Len(t.open) /\ p \in Nat /\ q \in Nat /\ q < p
    BY <1>6, <1>7
  <2>1. CASE p \in 1..L
    <3>1. q \in 1..L
      BY <1>7, <2>0, <2>1
    <3>. QED
      <4>1. Ordered(s.open, nodes)
        BY DEF StackFits
      <4>2. s.open[p].node = nodes[i].node /\ s.open[q].node = nodes[k].node
        BY <1>7, <2>1, <3>1
      <4>. QED
        BY <2>1, <4>1, <4>2 DEF Ordered
  <2>2. CASE p - L \in 1..Len(c) /\ L + (p - L) = p
    <3>. DEFINE a == Len(c) - (p - L) + 1
    <3>1. a \in 1..Len(c) /\ nodes[i].node = c[a]
      <4>1. t.open[p] = o[p - L]
        BY <1>7, <2>2
      <4>. QED
        BY <1>6, <2>2, <4>1
    <3>2. nodes[i].first = n
      BY <1>18, <3>1
    <3>3. CASE q \in 1..L
      <4>1. nodes[k].first <= n - 1
        BY <1>7, <1>12, <3>3
      <4>2. nodes[k].first < n
        <5>1. nodes[k].first \in Nat
          BY EndsAt
        <5>. QED
          BY <1>1, <4>1, <5>1
      <4>. QED
        BY <3>2, <4>2 DEF Inside
    <3>4. CASE q - L \in 1..Len(c) /\ L + (q - L) = q
      <4>. DEFINE b == Len(c) - (q - L) + 1
      <4>1. b \in 1..Len(c) /\ nodes[k].node = c[b]
        <5>1. t.open[q] = o[q - L]
          BY <1>7, <3>4
        <5>. QED
          BY <1>6, <3>4, <5>1
      <4>2. nodes[k].first = n
        BY <1>18, <4>1
      <4>3. a \in 1..b - 1
        <5>1. /\ Len(c) \in Nat /\ L \in Nat /\ p \in Nat /\ q \in Nat /\ q < p
              /\ p - L \in 1..Len(c) /\ q - L \in 1..Len(c)
          BY <1>6, <1>7, <2>0, <2>2, <3>4
        <5>2. q - L < p - L
          <6>. HIDE DEF L, c
          <6>. QED
            BY <5>1
        <5>. QED
          BY <5>1, <5>2, Mirrored, Zenon
      <4>. HIDE DEF a, b
      <4>4. c[a] < c[b]
        BY <1>3, <4>1, <4>3
      <4>. QED
        BY <3>1, <3>2, <4>1, <4>2, <4>4 DEF Inside
    <3>. QED
      BY <1>10, <2>0, <3>3, <3>4
  <2>. QED
    BY <1>10, <2>1, <2>2
<1>14. AllOpen(t.open, n, nodes)
  <2>. SUFFICES ASSUME NEW i \in 1..Len(nodes), nodes[i].first <= n, n < nodes[i].last
                PROVE  \E p \in 1..Len(t.open) : t.open[p].node = nodes[i].node
    BY DEF AllOpen
  <2>1. CASE nodes[i].first <= n - 1
    <3>1. n - 1 < nodes[i].last
      BY EndsAt
    <3>2. PICK p \in 1..L : s.open[p].node = nodes[i].node
      BY <2>1, <3>1 DEF StackFits, AllOpen
    <3>3. p \in 1..Len(t.open)
      BY <1>6, <1>7
    <3>. QED
      BY <1>7, <3>2, <3>3
  <2>2. CASE nodes[i].first = n
    <3>1. PICK k \in 1..Len(c) : c[k] = nodes[i].node
      BY <1>3, <2>2
    <3>. DEFINE q == Len(c) - k + 1
    <3>2. q \in 1..Len(c) /\ Len(c) - q + 1 = k /\ L + q \in 1..Len(t.open)
      <4>. DEFINE C == Len(c)
                  M == Len(t.open)
      <4>1. C \in Nat /\ L \in Nat /\ M = L + C /\ k \in 1..C
        BY <1>6, <1>7
      <4>2. C - k + 1 \in 1..C /\ C - (C - k + 1) + 1 = k /\ L + (C - k + 1) \in 1..M
        <5>. HIDE DEF C, L, M
        <5>. QED
          BY <4>1
      <4>. QED
        BY <4>2
    <3>. HIDE DEF q
    <3>3. t.open[L + q].node = nodes[i].node
      BY <1>6, <1>7, <3>1, <3>2
    <3>. QED
      BY <3>2, <3>3
  <2>. QED
    BY <2>1, <2>2, EndsAt
<1>15. GoneAt(t.gone, n, nodes)
  <2>. SUFFICES ASSUME NEW e
                PROVE  e \in t.gone <=> \E i \in 1..Len(nodes) : nodes[i].node = e /\ nodes[i].first <= n
    BY DEF GoneAt
  <2>1. e \in s.gone <=> \E i \in 1..Len(nodes) : nodes[i].node = e /\ nodes[i].first <= n - 1
    BY DEF StackFits, GoneAt
  <2>2. (\E k \in 1..Len(c) : c[k] = e) <=> \E i \in 1..Len(nodes) : nodes[i].node = e /\ nodes[i].first = n
    BY <1>3
  <2>3. \A i \in 1..Len(nodes) : nodes[i].first <= n <=> nodes[i].first <= n - 1 \/ nodes[i].first = n
    BY EndsAt
  <2>4. e \in t.gone <=> e \in s.gone \/ \E k \in 1..Len(c) : c[k] = e
    BY <1>4
  <2>. QED
    BY <2>1, <2>2, <2>3, <2>4, Zenon
<1>16. ClosedAt(t, n, nodes)
  <2>1. \A i \in 1..Len(s.closed) : Closes(s, s.closed[i], nodes[i])
    BY DEF StackFits, ClosedAt
  <2>2. \A i \in 1..Len(s.closed) : Closes(t, s.closed[i], nodes[i])
    BY <1>4, <1>8, <2>1, ClosesKept DEF Keeps
  <2>. QED
    BY <1>4, <1>9, <2>2 DEF StackFits, ClosedAt
<1>17. StackFits(t, n, nodes)
  BY <1>9, <1>11, <1>13, <1>14, <1>15, <1>16 DEF StackFits
<1>. QED
  BY <1>4, <1>8, <1>17 DEF t

Trimmed(s, idx) == IF idx = Len(events) THEN EatTrivia(s) ELSE s
LEMMA CloseNodeIs ==
    ASSUME tokens \in Seq(Kinds), NEW idx, NEW s \in SinkType,
           s.cursor \in 1..Len(tokens) + 1, s.open # <<>>
    PROVE  LET u == Trimmed(s, idx)
               t == CloseNode(s, idx)
               o == s.open[Len(s.open)]
               x == t.closed[Len(s.closed) + 1] IN
           /\ u \in SinkType
           /\ t \in SinkType /\ t.cursor = u.cursor /\ t.text = u.text /\ t.gone = s.gone
           /\ Len(s.open) \in Nat \ {0} /\ Len(t.open) = Len(s.open) - 1
           /\ \A p \in 1..Len(t.open) : t.open[p] = s.open[p]
           /\ Len(s.closed) \in Nat /\ Len(t.closed) = Len(s.closed) + 1
           /\ \A i \in 1..Len(s.closed) : t.closed[i] = s.closed[i]
           /\ x.node = o.node /\ x.first = o.first /\ x.last = Len(u.text)
<1>. DEFINE u == Trimmed(s, idx)
            t == CloseNode(s, idx)
            l == Last(u.open)
            x == [node |-> l.node, first |-> l.first, last |-> Len(u.text)]
            y == Front(u.open)
            z == Append(u.closed, x)
            n1 == [u EXCEPT !.open = y]
            O == [node : Nat, first : Nat]
            C == [node : Nat, first : Nat, last : Nat]
<1>1. u \in SinkType /\ u.open = s.open /\ u.closed = s.closed /\ u.gone = s.gone
  BY EatIs DEF Trimmed
<1>. HIDE DEF u
<1>2. t = [n1 EXCEPT !.closed = z]
  <2>1. t = [u EXCEPT !.open = y, !.closed = z]
    BY Zenon DEF CloseNode, u, Trimmed
  <2>. HIDE DEF y, z, t
  <2>. QED
    BY <2>1, Zenon
<1>. HIDE DEF t
<1>3. u.open \in Seq(O) /\ u.closed \in Seq(C) /\ Len(u.text) \in Nat
  BY <1>1, TypeIs
<1>4. /\ y \in Seq(O) /\ Len(y) = Len(u.open) - 1 /\ Len(u.open) \in Nat \ {0}
      /\ \A d \in 1..Len(y) : y[d] = u.open[d]
      /\ l = u.open[Len(u.open)] /\ l \in O
  <2>. DEFINE v == u.open
  <2>1. v \in Seq(O) /\ v # <<>>
    BY <1>1, <1>3
  <2>. HIDE DEF O, v
  <2>2. /\ Front(v) \in Seq(O) /\ Len(Front(v)) = Len(v) - 1 /\ Len(v) \in Nat \ {0}
        /\ \A d \in 1..Len(Front(v)) : Front(v)[d] = v[d]
        /\ Last(v) = v[Len(v)] /\ v[Len(v)] \in O
    BY <2>1, FrontIs
  <2>. QED
    BY <2>2 DEF v
<1>. HIDE DEF l, y
<1>5. x \in C /\ x.node = l.node /\ x.first = l.first /\ x.last = Len(u.text)
  BY <1>3, <1>4
<1>. HIDE DEF x
<1>6. /\ z \in Seq(C) /\ Len(z) = Len(u.closed) + 1 /\ Len(u.closed) \in Nat
      /\ \A d \in 1..Len(u.closed) : z[d] = u.closed[d]
      /\ z[Len(u.closed) + 1] = x
  <2>. DEFINE v == u.closed
  <2>1. v \in Seq(C)
    BY <1>3
  <2>. HIDE DEF C, v
  <2>2. /\ Append(v, x) \in Seq(C) /\ Len(Append(v, x)) = Len(v) + 1 /\ Len(v) \in Nat
        /\ \A d \in 1..Len(v) : Append(v, x)[d] = v[d]
        /\ Append(v, x)[Len(v) + 1] = x
    BY <1>5, <2>1, AppendIs
  <2>. QED
    BY <2>2 DEF v
<1>. HIDE DEF z
<1>7. /\ n1 \in SinkType /\ n1.cursor = u.cursor /\ n1.text = u.text /\ n1.closed = u.closed
      /\ n1.open = y /\ n1.gone = u.gone
  BY <1>1, <1>4 DEF SinkType
<1>. HIDE DEF n1
<1>8. /\ t \in SinkType /\ t.cursor = u.cursor /\ t.text = u.text /\ t.closed = z
      /\ t.open = y /\ t.gone = u.gone
  BY <1>2, <1>6, <1>7 DEF SinkType
<1>9. /\ Len(s.open) \in Nat \ {0} /\ Len(t.open) = Len(s.open) - 1
      /\ \A p \in 1..Len(t.open) : t.open[p] = s.open[p]
      /\ l = s.open[Len(s.open)]
  BY <1>1, <1>4, <1>8
<1>10. /\ Len(s.closed) \in Nat /\ Len(t.closed) = Len(s.closed) + 1
       /\ \A i \in 1..Len(s.closed) : t.closed[i] = s.closed[i]
       /\ t.closed[Len(s.closed) + 1] = x
  BY <1>1, <1>6, <1>8
<1>. HIDE DEF O, C
<1>. QED
  BY <1>1, <1>5, <1>8, <1>9, <1>10 DEF u, t

(* An event that ends a node: the innermost of those open.                 *)
LEMMA CloseStep ==
    ASSUME tokens \in Seq(Kinds), NEW nodes, Whole(nodes), NEW n \in 1..Len(events),
           NEW s \in SinkType, TextFits(s, n - 1), StackFits(s, n - 1, nodes),
           events[n].type = "finish"
    PROVE  LET t == CloseNode(s, n) IN t \in SinkType /\ TextFits(t, n) /\ StackFits(t, n, nodes)
<1>. DEFINE u == Trimmed(s, n)
            t == CloseNode(s, n)
            L == Len(s.open)
            K == Len(s.closed)
            j == Finishes(events, n)
            x == t.closed[K + 1]
<1>1. /\ events \in Seq(Event) /\ \A i \in 1..Len(nodes) : nodes[i] \in Node
      /\ n \in Nat /\ n - 1 \in Nat /\ s.cursor \in 1..Len(tokens) + 1
  BY WholeNodes, EndsAt DEF TextFits, TextHas
<1>2. j \in 1..Len(nodes) /\ nodes[j].last = n
  BY FinishIs
<1>3. j = Finishes(events, n - 1) + 1 /\ K = Finishes(events, n - 1)
  BY <1>1, CountsNext DEF StackFits, ClosedAt
<1>. HIDE DEF j
<1>4. \A i \in 1..Len(nodes) : nodes[i].last = n => i = j
  <2>1. \A i \in 1..Len(nodes) : Finishes(events, nodes[i].last) = i
    BY WholeNodes
  <2>. QED
    BY <1>2, <2>1 DEF j
<1>5. \A i \in 1..Len(nodes) : nodes[i].first # n
  BY EndsAt
<1>6. \A i \in 1..Len(nodes) : nodes[i].first <= n <=> nodes[i].first <= n - 1
  BY <1>5, EndsAt
<1>7. PICK p0 \in 1..L : s.open[p0].node = nodes[j].node
  <2>1. nodes[j].first < nodes[j].last /\ nodes[j].first \in Nat
    BY <1>2, WholeNodes, EndsAt
  <2>2. nodes[j].first <= n - 1 /\ n - 1 < nodes[j].last
    BY <1>1, <1>2, <2>1
  <2>. QED
    BY <1>2, <2>2 DEF StackFits, AllOpen
<1>8. L \in Nat \ {0} /\ s.open # <<>> /\ L \in 1..L
  <2>1. L \in Nat /\ Len(<<>>) = 0
    BY TypeIs
  <2>2. L # 0
    BY <1>7, <2>1
  <2>. QED
    BY <2>1, <2>2
<1>9. p0 = L
  <2>. SUFFICES ASSUME p0 # L PROVE FALSE
    OBVIOUS
  <2>1. p0 \in 1..L - 1
    BY <1>7, <1>8
  <2>2. PICK i \in 1..Len(nodes) : Opens(s, n - 1, s.open[L], nodes[i])
    BY <1>8 DEF StackFits, OpenAt
  <2>3. Inside(nodes[j], nodes[i])
    <3>1. s.open[L].node = nodes[i].node
      BY <2>2 DEF Opens
    <3>. QED
      BY <1>2, <1>7, <1>8, <2>1, <3>1 DEF StackFits, Ordered
  <2>4. /\ nodes[i].first \in Nat /\ nodes[j].first \in Nat
        /\ nodes[i].node \in Nat /\ nodes[j].node \in Nat
    BY <1>2, EndsAt
  <2>5. i # j
    BY <2>3, <2>4 DEF Inside
  <2>6. n < nodes[i].last /\ nodes[i].first <= n - 1
    BY <1>4, <2>2, <2>5, EndsAt DEF Opens
  <2>7. j < i
    <3>1. Finishes(events, nodes[i].last) = i /\ events[nodes[i].last].type = "finish"
          /\ nodes[i].last \in 0..Len(events)
      <4>1. nodes[i].last \in 1..Len(events) /\ Len(events) \in Nat
        BY WholeNodes
      <4>. QED
        BY <4>1, WholeNodes
    <3>2. n \in 0..nodes[i].last
      BY <1>1, <2>6, <3>1
    <3>3. Finishes(events, n) < Finishes(events, nodes[i].last)
      BY <1>1, <2>6, <3>1, <3>2, EventsCounted DEF Finishes
    <3>. QED
      BY <3>1, <3>3 DEF j
  <2>8. j \in 1..i - 1
    BY <1>2, <2>7
  <2>9. Apart(nodes[i].first, nodes[i].node, nodes[j])
    BY <2>8 DEF Whole, Nested
  <2>10. nodes[i].first <= nodes[j].last
    BY <1>1, <1>2, <2>4, <2>6
  <2>11. \/ nodes[i].first < nodes[j].first
         \/ nodes[i].first = nodes[j].first /\ nodes[j].node < nodes[i].node
    BY <2>9, <2>10 DEF Apart
  <2>. QED
    BY <2>3, <2>4, <2>11, OneInsideOther DEF Inside
<1>10. \A p \in 1..L - 1 : s.open[p].node # nodes[j].node
  <2>. SUFFICES ASSUME NEW p \in 1..L - 1, s.open[p].node = nodes[j].node PROVE FALSE
    OBVIOUS
  <2>1. Inside(nodes[j], nodes[j])
    BY <1>2, <1>7, <1>8, <1>9 DEF StackFits, Ordered
  <2>2. nodes[j].first \in Nat /\ nodes[j].node \in Nat
    BY <1>2, EndsAt
  <2>. QED
    BY <2>1, <2>2 DEF Inside
<1>11. /\ u \in SinkType
       /\ t \in SinkType /\ t.cursor = u.cursor /\ t.text = u.text /\ t.gone = s.gone
       /\ Len(t.open) = L - 1
       /\ \A p \in 1..Len(t.open) : t.open[p] = s.open[p]
       /\ K \in Nat /\ Len(t.closed) = K + 1
       /\ \A i \in 1..K : t.closed[i] = s.closed[i]
       /\ x.node = s.open[L].node /\ x.first = s.open[L].first /\ x.last = Len(u.text)
  <2>1. s.cursor \in 1..Len(tokens) + 1 /\ s.open # <<>>
    BY <1>1, <1>8
  <2>2. /\ u \in SinkType
        /\ t \in SinkType /\ t.cursor = u.cursor /\ t.text = u.text /\ t.gone = s.gone
    BY <2>1, CloseNodeIs
  <2>3. Len(t.open) = L - 1 /\ \A p \in 1..Len(t.open) : t.open[p] = s.open[p]
    BY <2>1, CloseNodeIs
  <2>4. /\ K \in Nat /\ Len(t.closed) = K + 1
        /\ \A i \in 1..K : t.closed[i] = s.closed[i]
    BY <2>1, CloseNodeIs
  <2>5. x.node = s.open[L].node /\ x.first = s.open[L].first /\ x.last = Len(u.text)
    BY <2>1, CloseNodeIs
  <2>. HIDE DEF u, t, x, K, L
  <2>. QED
    BY <2>2, <2>3, <2>4, <2>5
<1>12. /\ Keeps(s, u, n) /\ TextFits(u, n) /\ TokensIn(u.text, Len(u.text)) = TakenBy(events, n)
       /\ n = Len(events) => Clear(u.cursor)
  <2>1. u = s \/ u = EatTrivia(s)
    BY DEF Trimmed
  <2>2. n = Len(events) => u = EatTrivia(s)
    BY DEF Trimmed
  <2>. HIDE DEF u
  <2>. QED
    BY <1>1, <2>1, <2>2, EatStep
<1>. HIDE DEF u, t, x
<1>13. TextFits(t, n) /\ Keeps(s, t, n)
  BY <1>11, <1>12, SameText
<1>14. OpenAt(t, n, nodes)
  <2>. SUFFICES ASSUME NEW p \in 1..Len(t.open) PROVE \E i \in 1..Len(nodes) : Opens(t, n, t.open[p], nodes[i])
    BY DEF OpenAt
  <2>1. p \in 1..L - 1 /\ p \in 1..L
    BY <1>8, <1>11
  <2>2. PICK i \in 1..Len(nodes) : Opens(s, n - 1, s.open[p], nodes[i])
    BY <2>1 DEF StackFits, OpenAt
  <2>3. i # j
    BY <1>10, <2>1, <2>2 DEF Opens
  <2>4. n < nodes[i].last
    BY <1>4, <2>2, <2>3, EndsAt DEF Opens
  <2>5. Opens(t, n, s.open[p], nodes[i])
    BY <1>1, <1>11, <1>13, <2>2, <2>4, OpensKept
  <2>. QED
    BY <1>11, <2>5
<1>15. Ordered(t.open, nodes)
  <2>1. \A p \in 1..Len(t.open) : p \in 1..L /\ \A q \in 1..p - 1 : q \in 1..Len(t.open)
    BY <1>8, <1>11
  <2>2. Ordered(s.open, nodes)
    BY DEF StackFits
  <2>3. \A p \in 1..Len(t.open) : t.open[p] = s.open[p]
    BY <1>11
  <2>. HIDE DEF L
  <2>. QED
    BY <2>1, <2>2, <2>3 DEF Ordered, L
<1>16. AllOpen(t.open, n, nodes)
  <2>. SUFFICES ASSUME NEW i \in 1..Len(nodes), nodes[i].first <= n, n < nodes[i].last
                PROVE  \E p \in 1..Len(t.open) : t.open[p].node = nodes[i].node
    BY DEF AllOpen
  <2>1. nodes[i].first <= n - 1 /\ n - 1 < nodes[i].last /\ nodes[i].last # n
    <3>1. nodes[i].last \in Nat
      BY EndsAt
    <3>. QED
      BY <1>1, <1>6, <3>1
  <2>2. PICK p \in 1..L : s.open[p].node = nodes[i].node
    BY <2>1 DEF StackFits, AllOpen
  <2>3. p # L
    <3>1. i # j
      BY <1>2, <2>1
    <3>2. nodes[i].node # nodes[j].node
      BY <1>2, <3>1, WholeNodes
    <3>. QED
      BY <1>7, <1>9, <2>2, <3>2
  <2>4. p \in 1..Len(t.open)
    BY <1>8, <1>11, <2>3
  <2>. QED
    BY <1>11, <2>2, <2>4
<1>17. GoneAt(t.gone, n, nodes)
  <2>1. GoneAt(s.gone, n - 1, nodes) /\ t.gone = s.gone
    BY <1>11 DEF StackFits
  <2>. QED
    BY <1>6, <2>1 DEF GoneAt
<1>18. ClosedAt(t, n, nodes)
  <2>1. \A i \in 1..K : Closes(s, s.closed[i], nodes[i])
    BY DEF StackFits, ClosedAt
  <2>2. \A i \in 1..K : Closes(t, t.closed[i], nodes[i])
    BY <1>11, <1>13, <2>1, ClosesKept DEF Keeps
  <2>3. Closes(t, x, nodes[j])
    <3>1. PICK i \in 1..Len(nodes) : Opens(s, n - 1, s.open[L], nodes[i])
      BY <1>8 DEF StackFits, OpenAt
    <3>2. i = j
      <4>1. nodes[i].node = nodes[j].node
        BY <1>7, <1>9, <3>1 DEF Opens
      <4>. QED
        BY <1>2, <4>1, WholeNodes
    <3>. DEFINE f == s.open[L].first
    <3>3. f \in 1..Len(s.text) + 1 /\ TokensIn(s.text, f - 1) = nodes[j].from
      BY <3>1, <3>2 DEF Opens
    <3>4. /\ f \in 1..Len(t.text) + 1 /\ TokensIn(t.text, f - 1) = nodes[j].from
          /\ Len(t.text) \in Nat /\ Len(s.text) \in Nat /\ f \in Nat
          /\ Len(s.text) <= Len(t.text) /\ (f <= Len(s.text) => t.text[f] = s.text[f])
      <4>1. Grown(s.text, t.text)
        BY <1>13 DEF Keeps
      <4>. HIDE DEF f
      <4>. QED
        BY <1>11, <3>3, <4>1, GrownTokens
    <3>5. x.node = nodes[j].node /\ x.first = f /\ x.last = Len(t.text)
      BY <1>7, <1>9, <1>11
    <3>6. TokensIn(t.text, x.last) = nodes[j].to
      <4>1. nodes[j].to = TakenBy(events, nodes[j].last)
        BY <1>2, WholeNodes
      <4>. QED
        BY <1>2, <1>11, <1>12, <3>5, <4>1
    <3>7. ASSUME x.node # 1, x.first <= x.last PROVE ~t.text[x.first].trivia
      <4>1. s.open[L].node # 1 /\ f <= Len(t.text)
        BY <1>11, <3>5, <3>7
      <4>2. CASE f <= Len(s.text)
        BY <3>1, <3>4, <3>5, <4>1, <4>2 DEF Opens
      <4>3. CASE f = Len(s.text) + 1
        <5>1. Clear(s.cursor)
          BY <3>1, <4>1, <4>3 DEF Opens
        <5>2. Len(t.text) # Len(s.text)
          BY <3>4, <4>1, <4>3
        <5>3. ~t.text[Len(s.text) + 1].trivia
          BY <1>13, <5>1, <5>2 DEF Keeps
        <5>. QED
          BY <3>5, <4>3, <5>3
      <4>4. f <= Len(s.text) \/ f = Len(s.text) + 1
        <5>. HIDE DEF f
        <5>. QED
          BY <3>3, <3>4
      <4>. QED
        BY <4>2, <4>3, <4>4
    <3>8. x.last \in 0..Len(t.text)
      BY <3>4, <3>5
    <3>. QED
      BY <3>4, <3>5, <3>6, <3>7, <3>8 DEF Closes
  <2>4. j = K + 1 /\ Len(t.closed) = j /\ \A i \in 1..Len(t.closed) : i \in 1..K \/ i = j
    BY <1>3, <1>11
  <2>5. t.closed[j] = x
    BY <2>4 DEF x
  <2>6. \A i \in 1..Len(t.closed) : Closes(t, t.closed[i], nodes[i])
    BY <2>2, <2>3, <2>4, <2>5
  <2>. QED
    BY <2>4, <2>6 DEF ClosedAt, j
<1>19. n = Len(events) => Clear(t.cursor)
  BY <1>11, <1>12
<1>20. StackFits(t, n, nodes)
  BY <1>14, <1>15, <1>16, <1>17, <1>18, <1>19 DEF StackFits
<1>. QED
  BY <1>11, <1>13, <1>20 DEF t

-----------------------------------------------------------------------------
(* The sink: all its events, and the tree.                                 *)

SinkFits(s, n, nodes) == s \in SinkType /\ TextFits(s, n) /\ StackFits(s, n, nodes)

(* The sink before the first event, and after each one.                    *)
LEMMA FirstSink ==
    ASSUME tokens \in Seq(Kinds), NEW nodes, Whole(nodes)
    PROVE  SinkFits(SinkStart, 0, nodes)
<1>. DEFINE s == SinkStart
<1>1. /\ s.cursor = 1 /\ s.text = <<>> /\ s.open = <<>> /\ s.closed = <<>> /\ s.gone = {}
      /\ s \in SinkType
  BY DEF SinkStart, SinkType
<1>. HIDE DEF s
<1>2. Len(<<>>) = 0 /\ 1..0 = {} /\ 1 \in 1..Len(tokens) + 1 /\ 1 - 1 = 0 /\ <<>> \in Seq(Text)
  OBVIOUS
<1>3. events \in Seq(Event) /\ 0 \in 0..Len(events) /\ Len(events) # 0
  BY WholeNodes
<1>4. /\ TakenBy(events, 0) = 0 /\ Moved(events, 0) = 0 /\ Finishes(events, 0) = 0
      /\ Virtuals(events, 0) = 0 /\ Advances(events, 0) = 0
  BY <1>3, CountsAreNat
<1>5. TextHas(s, 0, 0, 0)
  <2>1. CountTo(Indices, 0) = 0
    BY CountIsNat
  <2>2. Offset(1) = 0
    BY OffsetsAre
  <2>3. TokensIn(<<>>, 0) = 0
    BY <1>2, TokensInIs
  <2>4. Joined(<<>>) /\ End(<<>>, 0) = 0
    BY <1>2 DEF Joined, End
  <2>. QED
    BY <1>1, <1>2, <2>1, <2>2, <2>3, <2>4 DEF TextHas
<1>6. TextFits(s, 0)
  <2>1. Halves(events, 0, 0) /\ 0 \in 0..2
    BY <1>4 DEF Halves
  <2>. QED
    BY <1>4, <1>5, <2>1 DEF TextFits
<1>7. \A i \in 1..Len(nodes) : ~(nodes[i].first <= 0)
  <2>1. \A i \in 1..Len(nodes) : nodes[i].first \in 1..Len(events) /\ Len(events) \in Nat
    BY WholeNodes
  <2>. QED
    BY <2>1
<1>8. StackFits(s, 0, nodes)
  BY <1>1, <1>2, <1>3, <1>4, <1>7 DEF StackFits, OpenAt, Ordered, AllOpen, GoneAt, ClosedAt
<1>. QED
  BY <1>1, <1>6, <1>8 DEF SinkFits, s

LEMMA ReplayStep ==
    ASSUME tokens \in Seq(Kinds), NEW nodes, Whole(nodes), Placings,
           NEW n \in 1..Len(events), NEW s, SinkFits(s, n - 1, nodes)
    PROVE  SinkFits(Replay(s, n), n, nodes)
<1>. DEFINE t == Replay(s, n)
<1>1. events \in Seq(Event) /\ s \in SinkType /\ TextFits(s, n - 1) /\ StackFits(s, n - 1, nodes)
  BY WholeNodes DEF SinkFits
<1>2. CASE events[n].type \in {"token", "virtual", "advance"}
  <2>1. Onward(s, t) /\ TextFits(t, n) /\ Keeps(s, t, n)
    BY <1>1, <1>2, TextStep
  <2>2. t \in SinkType /\ t.open = s.open /\ t.closed = s.closed /\ t.gone = s.gone
    BY <2>1 DEF Onward
  <2>. HIDE DEF t
  <2>3. StackFits(t, n, nodes)
    BY <1>1, <1>2, <2>1, <2>2, IdleNodes
  <2>. QED
    BY <2>1, <2>2, <2>3 DEF SinkFits, t
<1>3. CASE events[n].type = "start" /\ n \notin s.gone
  <2>1. t = OpenNodes(s, n)
    BY <1>3 DEF Replay
  <2>. HIDE DEF t
  <2>2. t \in SinkType /\ TextFits(t, n) /\ StackFits(t, n, nodes)
    BY <1>1, <1>3, <2>1, OpenStep
  <2>. QED
    BY <2>2 DEF SinkFits, t
<1>4. CASE events[n].type = "finish"
  <2>1. t = CloseNode(s, n)
    BY <1>4 DEF Replay
  <2>. HIDE DEF t
  <2>2. t \in SinkType /\ TextFits(t, n) /\ StackFits(t, n, nodes)
    BY <1>1, <1>4, <2>1, CloseStep
  <2>. QED
    BY <2>2 DEF SinkFits, t
<1>5. CASE /\ events[n].type \notin {"token", "virtual", "advance", "finish"}
           /\ events[n].type = "start" => n \in s.gone
  <2>1. t = s
    BY <1>5 DEF Replay
  <2>. HIDE DEF t
  <2>2. TextFits(s, n) /\ Keeps(s, s, n)
    BY <1>1, <1>5, EatStep
  <2>3. StackFits(s, n, nodes)
    BY <1>1, <1>5, <2>2, IdleNodes
  <2>. QED
    BY <1>1, <2>1, <2>2, <2>3 DEF SinkFits, t
<1>. QED
  BY <1>2, <1>3, <1>4, <1>5

(* The events, replayed.                                                   *)
Replays(f) == [n \in 0..Len(events) |-> IF n = 0 THEN SinkStart ELSE Replay(f[n - 1], n)]
Followed(a, b, x, h) == \E f : f = Following(f, a, b, x, h)
LEMMA FollowedAll ==
    ASSUME NEW a \in Nat, NEW b \in Nat, a <= b, NEW x, NEW h
    PROVE  Followed(a, b, x, h)
  BY FollowingExists DEF Followed

(* The sink after the last event.                                          *)
LEMMA SinkIs ==
    ASSUME tokens \in Seq(Kinds), NEW nodes, Whole(nodes), Placings
    PROVE  SinkFits(Sink, Len(events), nodes)
<1>. DEFINE L == Len(events)
            h == [z \in (1..L) \X SinkType |-> Replay(z[2], z[1])]
            f == CHOOSE g : g = Replays(g)
            Good(g) == {n \in 0..L : SinkFits(g[n], n, nodes)}
<1>0. L \in Nat /\ 0 \in 0..L /\ L \in 0..L /\ 0 \in Nat /\ 0 <= L
  BY WholeNodes
<1>1. PICK g : g = Following(g, 0, L, SinkStart, h)
  <2>1. 0 \in Nat /\ L \in Nat /\ 0 <= L
    BY <1>0
  <2>. HIDE DEF L, h, f, Good
  <2>2. Followed(0, L, SinkStart, h)
    BY <2>1, FollowedAll
  <2>. QED
    BY <2>2, Zenon DEF Followed
<1>2. \A n \in 0..L : SinkFits(g[n], n, nodes)
  <2>1. 0 \in Good(g)
    <3>1. g[0] = Following(g, 0, L, SinkStart, h)[0]
      BY <1>1
    <3>2. g[0] = SinkStart
      <4>. HIDE DEF h, L
      <4>. QED
        BY <1>0, <3>1 DEF Following
    <3>. QED
      BY <1>0, <3>2, FirstSink
  <2>2. ASSUME NEW n \in 0 + 1..L, n - 1 \in Good(g) PROVE n \in Good(g)
    <3>1. n \in 0..L /\ n # 0 /\ n \in 1..L /\ SinkFits(g[n - 1], n - 1, nodes)
      BY <2>2
    <3>2. g[n - 1] \in SinkType
      BY <3>1 DEF SinkFits
    <3>3. g[n] = h[<<n, g[n - 1]>>]
      <4>1. g[n] = Following(g, 0, L, SinkStart, h)[n]
        BY <1>1
      <4>. HIDE DEF h, L
      <4>. QED
        BY <3>1, <4>1 DEF Following
    <3>4. h[<<n, g[n - 1]>>] = Replay(g[n - 1], n)
      BY <3>1, <3>2
    <3>5. SinkFits(g[n], n, nodes)
      <4>. HIDE DEF h
      <4>. QED
        BY <3>1, <3>3, <3>4, ReplayStep
    <3>. QED
      BY <3>1, <3>5
  <2>3. 0..L \subseteq Good(g)
    <3>. DEFINE S == Good(g)
    <3>. HIDE DEF Good, h, L
    <3>. QED
      BY <1>0, <2>1, <2>2, Upwards
  <2>. QED
    BY <2>3
<1>3. g = Replays(g)
  <2>1. ASSUME NEW n \in 0..L
        PROVE  (IF n = 0 THEN SinkStart ELSE h[<<n, g[n - 1]>>])
               = IF n = 0 THEN SinkStart ELSE Replay(g[n - 1], n)
    <3>1. CASE n = 0
      BY <3>1
    <3>2. CASE n # 0
      <4>1. n \in 1..L /\ n - 1 \in 0..L
        BY <1>0, <3>2
      <4>2. g[n - 1] \in SinkType
        BY <1>2, <4>1 DEF SinkFits
      <4>. QED
        BY <3>2, <4>1, <4>2
    <3>. QED
      BY <3>1, <3>2
  <2>. HIDE DEF h
  <2>2. Following(g, 0, L, SinkStart, h) = Replays(g)
    BY <2>1, Zenon DEF Following, Replays
  <2>. QED
    BY <1>1, <2>2
<1>4. f = Replays(f)
  BY <1>3
<1>5. Sink = f[L]
  BY Zenon DEF Sink, Replays
<1>. HIDE DEF f, h
<1>6. \A n \in 0..L : SinkFits(f[n], n, nodes)
  <2>1. 0 \in Good(f)
    <3>1. f[0] = Replays(f)[0]
      BY <1>4
    <3>2. f[0] = SinkStart
      BY <1>0, <3>1 DEF Replays
    <3>. QED
      BY <1>0, <3>2, FirstSink
  <2>2. ASSUME NEW n \in 0 + 1..L, n - 1 \in Good(f) PROVE n \in Good(f)
    <3>1. n \in 0..L /\ n # 0 /\ n \in 1..L /\ SinkFits(f[n - 1], n - 1, nodes)
      BY <2>2
    <3>2. f[n] = Replays(f)[n]
      BY <1>4
    <3>3. f[n] = Replay(f[n - 1], n)
      BY <3>1, <3>2 DEF Replays
    <3>4. SinkFits(f[n], n, nodes)
      BY <3>1, <3>3, ReplayStep
    <3>. QED
      BY <3>1, <3>4
  <2>3. 0..L \subseteq Good(f)
    <3>. HIDE DEF Good, L
    <3>. QED
      BY <1>0, <2>1, <2>2, Upwards
  <2>. QED
    BY <2>3
<1>. QED
  BY <1>0, <1>5, <1>6

(* A finished parse, replayed.                                             *)
LEMMA TreeIs ==
    ASSUME ParseInv, Done, meant.clean
    PROVE  TextIsSource(Sink.text) /\ NodesAsMeant(Sink) /\ NodeStartsAtToken
<1>. DEFINE nodes == meant.nodes
            L == Len(events)
            K == Len(nodes)
            s == Sink
            body == s.text
            N == Len(tokens)
<1>1. /\ tokens \in Seq(Kinds) /\ cursor \in Nat /\ events \in Seq(Event)
      /\ nodes \in Seq(Node) /\ L \in Nat /\ N \in Nat /\ open = <<>>
      /\ Nodes(events, nodes) /\ Nested(nodes, open) /\ Chained(events, nodes, open)
      /\ Rooted /\ Follows(Indices, At, events, cursor, override)
  BY Facts DEF Done
<1>2. AtEnd /\ nodes # <<>> /\ nodes[K].node = 1 /\ nodes[K].last = L
  BY <1>1 DEF Rooted
<1>3. Whole(nodes)
  BY <1>1, <1>2 DEF Whole
<1>4. /\ cursor = Moved(events, L) /\ \A e \in 1..L : Placing(Indices, At, events, e)
      /\ override = None => Halves(events, L, 0)
      /\ override # None => \E i \in Indices : NextToken(Indices, events, L, i)
  BY <1>1, FollowsIs
<1>5. Placings
  BY <1>4 DEF Placings
<1>6. s \in SinkType /\ TextFits(s, L) /\ StackFits(s, L, nodes)
  BY <1>1, <1>3, <1>5, SinkIs DEF SinkFits
<1>. HIDE DEF s, nodes
<1>7. /\ body \in Seq(Text) /\ Len(body) \in Nat /\ \A i \in 1..Len(body) : body[i].to \in Nat
  BY <1>6, TypeIs
<1>8. ~\E i \in Indices : CountTo(Indices, i) = cursor + 1
  BY <1>1, <1>2, NthIs
<1>9. Halves(events, L, 0)
  <2>1. override = None
    BY <1>4, <1>8 DEF NextToken
  <2>. QED
    BY <1>4, <2>1
<1>10. TextHas(s, cursor, 0, TakenBy(events, L))
  <2>1. PICK h \in 0..2 : Halves(events, L, h) /\ TextHas(s, Moved(events, L), h, TakenBy(events, L))
    BY <1>6 DEF TextFits
  <2>2. h = 0
    <3>1. Virtuals(events, L) \in Nat /\ Advances(events, L) \in Nat
      BY <1>1, CountsAreNat
    <3>. QED
      BY <1>9, <2>1, <3>1 DEF Halves
  <2>. QED
    BY <1>4, <2>1, <2>2
<1>11. Joined(body) /\ End(body, Len(body)) = Offset(N + 1)
  <2>1. /\ Joined(body) /\ End(body, Len(body)) = Offset(s.cursor)
        /\ CountTo(Indices, s.cursor - 1) = cursor
    BY <1>10 DEF TextHas
  <2>2. s.cursor = N + 1
    <3>1. s.cursor = N + 1 \/ s.cursor \in Indices
      BY <1>6 DEF StackFits, Clear
    <3>2. s.cursor \notin Indices
      BY <1>1, <1>8, <2>1, CursorCount
    <3>. QED
      BY <3>1, <3>2
  <2>. QED
    BY <2>1, <2>2
<1>12. \A n \in 0..Len(body) : Length(body, n) = End(body, n)
  <2>. SUFFICES ASSUME NEW n \in 0..Len(body) PROVE Length(body, n) = End(body, n)
    OBVIOUS
  <2>1. n \in Nat /\ n <= Len(body) /\ \A i \in 1..n : body[i].to \in Nat
    BY <1>7
  <2>. QED
    BY <1>7, <1>11, <2>1, JoinedLength
<1>13. TextIsSource(body)
  <2>1. Len(body) \in 0..Len(body)
    BY <1>7
  <2>. QED
    BY <1>11, <1>12, <2>1 DEF TextIsSource, Joined
<1>14. \A i \in 1..K : nodes[i].last <= L /\ nodes[i].last \in Nat
  BY <1>1, <1>3, WholeNodes
<1>15. s.open = <<>>
  <2>1. s.open \in Seq([node : Nat, first : Nat]) /\ Len(s.open) \in Nat
    BY <1>6, TypeIs
  <2>2. ASSUME NEW p \in 1..Len(s.open) PROVE FALSE
    <3>1. PICK i \in 1..K : Opens(s, L, s.open[p], nodes[i])
      BY <1>6 DEF StackFits, OpenAt
    <3>2. L < nodes[i].last
      BY <3>1 DEF Opens
    <3>. QED
      BY <1>1, <1>14, <3>2
  <2>3. Len(s.open) = 0
    BY <2>1, <2>2
  <2>. QED
    BY <2>1, <2>3, EmptySeq
<1>16. Len(s.closed) = K /\ \A i \in 1..K : Closes(s, s.closed[i], nodes[i])
  <2>1. Finishes(events, L) = K
    BY <1>3 DEF Whole, Nodes
  <2>. QED
    BY <1>6, <2>1 DEF StackFits, ClosedAt
<1>17. NodesAsMeant(s)
  BY <1>15, <1>16 DEF NodesAsMeant, Closes, nodes
<1>18. ASSUME NEW i \in 1..Len(s.closed), s.closed[i].node # 1, s.closed[i].first <= s.closed[i].last
       PROVE  /\ ~body[s.closed[i].first].trivia
              /\ body[s.closed[i].first].from = Length(body, s.closed[i].first - 1)
  <2>. DEFINE c == s.closed[i]
              f == c.first
  <2>1. Closes(s, c, nodes[i])
    BY <1>16
  <2>2. f \in 1..Len(body) + 1 /\ c.last \in 0..Len(body) /\ ~body[f].trivia
    BY <1>18, <2>1 DEF Closes
  <2>3. f <= c.last
    BY <1>18
  <2>. HIDE DEF f, c
  <2>4. f \in 1..Len(body) /\ f - 1 \in 0..Len(body) /\ (f = 1 <=> f - 1 = 0)
    BY <1>7, <2>2, <2>3
  <2>5. body[f].from = IF f = 1 THEN 0 ELSE body[f - 1].to
    BY <1>11, <2>4 DEF Joined
  <2>6. Length(body, f - 1) = IF f = 1 THEN 0 ELSE body[f - 1].to
    BY <1>12, <2>4 DEF End
  <2>. QED
    BY <2>2, <2>5, <2>6 DEF f, c
<1>19. NodeStartsAtToken
  BY <1>18 DEF NodeStartsAtToken, s
<1>. QED
  BY <1>13, <1>17, <1>19 DEF s

(* A finished parse gives the tree the grammar meant, for any tokens and   *)
(* any grammar: unless a shift operator is split behind trivia, twice, or  *)
(* in a lookahead that is rewound, the text of the tree is the text of the *)
(* file, every node completed is in it, around the tokens taken while its  *)
(* marker was open, and except for the root every node begins with a token *)
(* (java-syntax: parser.rs, parser/marker.rs, parser/sink.rs).             *)
THEOREM TreeIsAsMeant == ParserSpec => []TreeAsMeant
<1>1. ParseInv => TreeAsMeant
  <2>. SUFFICES ASSUME ParseInv PROVE TreeAsMeant
    OBVIOUS
  <2>1. Finished => TextIsSource(Sink.text) /\ NodesAsMeant(Sink)
    BY TreeIs DEF Finished
  <2>2. meant.clean => NodeStartsAtToken
    BY TreeIs DEF NodeStartsAtToken
  <2>. QED
    BY <2>1, <2>2 DEF TreeAsMeant
<1>. QED
  BY <1>1, ParserKeepsShape, PTL
=============================================================================
