------------------------ MODULE DiagnosticPullProofs ------------------------
(***************************************************************************)
(* What holds of DiagnosticPull for any files, texts and reports: document *)
(* and workspace pulls answered, and their answers taken, in any order.    *)
(***************************************************************************)
EXTENDS DiagnosticPull, TLAPS

Kinds == {"document", "workspace"}
Pulls == [number : 0 .. MaxPulls, kind : Kinds, edits : 0 .. MaxEdits]
Views == [Files -> [id : Ids \cup {NoId}, items : Items]]

(* An id tells the diagnostics a client has under it: all of them, or the  *)
(* report they were made from when a workspace pull gave it.               *)
Describes(id, items) ==
    /\ id = NoId => items = NoItems
    /\ id # NoId /\ id.of = "report" => items[1] = id.content[1]
    /\ id # NoId /\ id.of # "report" => items = id.content

ViewSound(view) == view \in Views /\ \A f \in Files : Describes(view[f].id, view[f].items)

Now(f) == IF f \in Present THEN Converted(f) ELSE NoItems

RequestSound(r) ==
    /\ r.pull \in Pulls /\ r.pull.number > 0 /\ r.pull.edits <= edits
    /\ r.files \subseteq Files /\ (r.pull.kind = "workspace" => r.files = Files)
    /\ ViewSound(r.seen) /\ r.ids = [f \in r.files |-> r.seen[f].id]

(* An entry says "unchanged" only under the id the client has seen; that   *)
(* of a document pull is no hash of a report, and is of the texts as they  *)
(* are now if no text has changed since.                                   *)
EntrySound(a, f) ==
    /\ a.entries[f].id \in Ids \cup {NoId} /\ a.entries[f].items \in Items
    /\ Describes(a.entries[f].id, a.entries[f].items)
    /\ a.entries[f].unchanged =>
          a.entries[f].id # NoId /\ a.seen[f].id = a.entries[f].id
    /\ a.pull.kind = "document" =>
          /\ a.entries[f].id # NoId => a.entries[f].id.of # "report"
          /\ a.pull.edits = edits => a.entries[f].items = Now(f)

AnswerSound(a) ==
    /\ a.pull \in Pulls /\ a.pull.number > 0 /\ a.pull.edits <= edits
    /\ ViewSound(a.seen) /\ DOMAIN a.entries \subseteq Files
    /\ \A f \in DOMAIN a.entries : EntrySound(a, f)

Typed ==
    /\ text \in States /\ pulls \in 0 .. MaxPulls /\ edits \in 0 .. MaxEdits
    /\ ViewSound(shown) /\ latest \in [Files -> Pulls]

PullInv ==
    /\ Typed /\ \A f \in Files : latest[f].edits <= edits
    /\ \A r \in requests : RequestSound(r)
    /\ \A a \in answers : AnswerSound(a)
    /\ DocumentPullShows

-----------------------------------------------------------------------------
(* Ids and what they tell.                                                 *)

LEMMA ConvertedIsItems ==
    ASSUME text \in States, NEW f \in Present
    PROVE  /\ Converted(f) \in Items /\ Converted(f)[1] = Report[<<f, text>>]
           /\ <<Report[<<f, text>>], 0>> \in Items
<1>1. f \in Files /\ text[f] \in Texts
  BY DEF Present, States
<1>2. Report[<<f, text>>] \in Reports /\ Clean \in Reports
  <2>1. <<f, text>> \in Files \X States
    BY <1>1
  <2>. QED
    BY <2>1 DEF Reports
<1>3. \A r \in Reports : <<r, 0>> \in Items /\ <<r, LinesOf[text[f]]>> \in Items
  BY <1>1 DEF Items
<1>. QED
  BY <1>2, <1>3 DEF Converted, NoItems

LEMMA NothingTyped ==
    /\ NoItems \in Items /\ NoPull \in Pulls /\ NoDiagnostics \in [id : Ids \cup {NoId}, items : Items]
    /\ Describes(NoDiagnostics.id, NoDiagnostics.items)
<1>1. NoItems \in Items
  BY DEF NoItems, Items, Reports
<1>2. NoPull \in Pulls
  <2>1. 0 \in 0 .. MaxPulls /\ 0 \in 0 .. MaxEdits
    BY DiagnosticAssumption
  <2>. QED
    BY <2>1 DEF NoPull, Pulls, Kinds
<1>. QED
  BY <1>1, <1>2 DEF NoDiagnostics, Describes

LEMMA HashDescribes ==
    ASSUME NEW of \in {"items", "report"}, NEW content \in Items, NEW items,
           IF of = "items" THEN items = content
           ELSE items[1] = content[1] /\ (content = NoItems => items = NoItems)
    PROVE  /\ Hash(of, content) \in Ids /\ Hash(of, content) # NoId
           /\ Describes(Hash(of, content), items)
           /\ of = "items" => Hash(of, content).of # "report"
<1>. DEFINE id == Hash(of, content)
<1>1. id.of \in {"items", "report", "nothing"} /\ id.content = content
  BY DEF Hash
<1>2. id \in Ids
  BY DEF Hash, Ids
<1>3. id # NoId
  BY <1>2, DiagnosticAssumption
<1>4. IF content = NoItems THEN id.of = "nothing" ELSE id.of = of
  BY DEF Hash
<1>. HIDE DEF id
<1>5. Describes(id, items)
  BY <1>1, <1>3, <1>4 DEF Describes
<1>6. of = "items" => id.of # "report"
  BY <1>4
<1>. QED
  BY <1>2, <1>3, <1>5, <1>6 DEF id

LEMMA IdsDescribe ==
    ASSUME text \in States, NEW f \in Present
    PROVE  /\ ResultId(f) \in Ids /\ ResultId(f) # NoId /\ ResultId(f).of # "report"
           /\ Describes(ResultId(f), Converted(f))
           /\ ReportResultId(f) \in Ids /\ ReportResultId(f) # NoId
           /\ Describes(ReportResultId(f), Converted(f))
<1>. DEFINE c == Converted(f)
            report == <<Report[<<f, text>>], 0>>
<1>1. c \in Items /\ report \in Items /\ c[1] = report[1]
  BY ConvertedIsItems
<1>2. report = NoItems => c = NoItems
  BY DEF Converted, NoItems
<1>. HIDE DEF c, report
<1>3. /\ Hash("items", c) \in Ids /\ Hash("items", c) # NoId /\ Describes(Hash("items", c), c)
      /\ Hash("items", c).of # "report"
  BY <1>1, HashDescribes
<1>4. /\ Hash("report", report) \in Ids /\ Hash("report", report) # NoId
      /\ Describes(Hash("report", report), c)
  BY <1>1, <1>2, HashDescribes
<1>. QED
  BY <1>3, <1>4 DEF ResultId, ReportResultId, c, report

LEMMA EntryIs ==
    ASSUME NEW f, NEW id, NEW previous
    PROVE  /\ Entry(f, id, previous).id = id /\ Entry(f, id, previous).items = Converted(f)
           /\ Entry(f, id, previous).unchanged => previous = id
BY DEF Entry, Full, Unchanged

-----------------------------------------------------------------------------
(* What each step does to the invariant.                                   *)

LEMMA InitPulls ==
    ASSUME Init
    PROVE  PullInv
<1>1. text \in States
  BY DEF Init, States
<1>2. ViewSound(shown) /\ latest \in [Files -> Pulls]
  BY NothingTyped DEF Init, ViewSound, Views
<1>3. pulls \in 0 .. MaxPulls /\ edits \in 0 .. MaxEdits
  BY DiagnosticAssumption DEF Init
<1>4. \A f \in Files : latest[f].edits <= edits /\ latest[f].number = 0
  BY DEF Init, NoPull
<1>5. DocumentPullShows
  BY <1>4 DEF DocumentPullShows
<1>6. requests = {} /\ answers = {}
  BY DEF Init
<1>. QED
  BY <1>1, <1>2, <1>3, <1>4, <1>5, <1>6 DEF PullInv, Typed

LEMMA PullKeeps ==
    ASSUME PullInv, NEW kind \in Kinds, NEW files \in SUBSET Files,
           kind = "workspace" => files = Files, Pull(kind, files)
    PROVE  PullInv'
<1>. DEFINE new == [pull |-> [number |-> pulls + 1, kind |-> kind, edits |-> edits], files |-> files,
                    ids |-> [f \in files |-> shown[f].id], seen |-> shown]
<1>1. /\ pulls < MaxPulls /\ pulls' = pulls + 1 /\ requests' = requests \cup {new}
      /\ UNCHANGED <<text, shown, latest, answers, edits>>
  BY DEF Pull
<1>2. pulls + 1 \in 0 .. MaxPulls /\ pulls + 1 > 0 /\ edits <= edits
  BY <1>1, DiagnosticAssumption DEF PullInv, Typed
<1>3. Typed'
  BY <1>1, <1>2 DEF PullInv, Typed, ViewSound
<1>4. RequestSound(new)
  <2>1. new.pull \in Pulls /\ new.pull.number > 0 /\ new.pull.edits <= edits
    BY <1>2 DEF PullInv, Typed, Pulls
  <2>2. new.files \subseteq Files /\ (new.pull.kind = "workspace" => new.files = Files)
    OBVIOUS
  <2>3. ViewSound(new.seen) /\ new.ids = [f \in new.files |-> new.seen[f].id]
    BY DEF PullInv, Typed
  <2>. HIDE DEF new
  <2>. QED
    BY <2>1, <2>2, <2>3 DEF RequestSound
<1>. HIDE DEF new
<1>5. (\A r \in requests : RequestSound(r))'
  BY <1>1, <1>4 DEF PullInv, RequestSound
<1>6. (\A a \in answers : AnswerSound(a))'
  BY <1>1 DEF PullInv, AnswerSound, EntrySound, Now, Present, Converted
<1>7. DocumentPullShows'
  BY <1>1 DEF PullInv, DocumentPullShows, Present, Converted
<1>8. (\A f \in Files : latest[f].edits <= edits)'
  BY <1>1 DEF PullInv
<1>. QED
  BY <1>3, <1>5, <1>6, <1>7, <1>8 DEF PullInv

LEMMA AnswerKeeps ==
    ASSUME PullInv, NEW r \in requests, Answer(r)
    PROVE  PullInv'
<1>. DEFINE entries == IF r.pull.kind = "document" THEN AnswerDocument(r) ELSE AnswerWorkspace(r)
            new == [pull |-> r.pull, seen |-> r.seen, entries |-> entries]
<1>1. /\ requests' = requests \ {r} /\ answers' = answers \cup {new}
      /\ UNCHANGED <<text, shown, latest, pulls, edits>>
  BY DEF Answer
<1>2. RequestSound(r) /\ text \in States
  BY DEF PullInv, Typed
<1>3. new.pull = r.pull /\ new.seen = r.seen /\ new.entries = entries
  OBVIOUS
<1>4. DOMAIN entries \subseteq r.files
  <2>1. r.pull.kind # "document" => r.files = Files
    BY <1>2 DEF RequestSound, Pulls, Kinds
  <2>. QED
    BY <2>1 DEF AnswerDocument, AnswerWorkspace, Present
<1>5. ASSUME NEW f \in DOMAIN entries
      PROVE  EntrySound(new, f)
  <2>1. f \in Files /\ r.ids[f] = r.seen[f].id
    BY <1>2, <1>4 DEF RequestSound
  <2>. DEFINE entry == entries[f]
  <2>2. SUFFICES
           /\ entry.id \in Ids \cup {NoId} /\ entry.items \in Items
           /\ Describes(entry.id, entry.items)
           /\ entry.unchanged => entry.id # NoId /\ r.ids[f] = entry.id
           /\ r.pull.kind = "document" =>
                 /\ entry.id # NoId => entry.id.of # "report"
                 /\ entry.items = Now(f)
    <3>. HIDE DEF entries, new
    <3>. QED
      BY <1>3, <2>1 DEF EntrySound
  <2>3. CASE f \in Present /\ r.pull.kind = "document"
    <3>1. entry = Entry(f, ResultId(f), r.ids[f])
      BY <2>3 DEF AnswerDocument
    <3>. HIDE DEF entry
    <3>2. /\ entry.id = ResultId(f) /\ entry.items = Converted(f)
          /\ entry.unchanged => r.ids[f] = ResultId(f)
      BY <3>1, EntryIs
    <3>. QED
      BY <1>2, <2>3, <3>2, IdsDescribe, ConvertedIsItems DEF Now
  <2>4. CASE f \in Present /\ r.pull.kind # "document"
    <3>1. entry = Entry(f, ReportResultId(f), r.ids[f])
      BY <2>4 DEF AnswerWorkspace
    <3>. HIDE DEF entry
    <3>2. /\ entry.id = ReportResultId(f) /\ entry.items = Converted(f)
          /\ entry.unchanged => r.ids[f] = ReportResultId(f)
      BY <3>1, EntryIs
    <3>. QED
      BY <1>2, <2>4, <3>2, IdsDescribe, ConvertedIsItems
  <2>5. CASE f \notin Present
    <3>1. r.pull.kind = "document"
      BY <2>5 DEF AnswerWorkspace
    <3>2. entry = [unchanged |-> FALSE, id |-> NoId, items |-> NoItems]
      BY <2>5, <3>1 DEF AnswerDocument
    <3>. QED
      BY <2>5, <3>2, NothingTyped DEF Now, Describes
  <2>. QED
    BY <2>3, <2>4, <2>5
<1>6. AnswerSound(new)
  <2>. HIDE DEF entries, new
  <2>. QED
    BY <1>2, <1>3, <1>4, <1>5 DEF AnswerSound, RequestSound
<1>. HIDE DEF new, entries
<1>7. Typed'
  BY <1>1 DEF PullInv, Typed, ViewSound
<1>8. (\A q \in requests : RequestSound(q))'
  BY <1>1 DEF PullInv, RequestSound
<1>9. (\A a \in answers : AnswerSound(a))'
  BY <1>1, <1>6 DEF PullInv, AnswerSound, EntrySound, Now, Present, Converted
<1>10. DocumentPullShows'
  BY <1>1 DEF PullInv, DocumentPullShows, Present, Converted
<1>11. (\A f \in Files : latest[f].edits <= edits)'
  BY <1>1 DEF PullInv
<1>. QED
  BY <1>7, <1>8, <1>9, <1>10, <1>11 DEF PullInv

(* What the client makes of an answer is described by the id it keeps.     *)
LEMMA ReceiveKeeps ==
    ASSUME PullInv, NEW a \in answers, Receive(a)
    PROVE  PullInv'
<1>. DEFINE news == {f \in DOMAIN a.entries : a.pull.number > latest[f].number}
            show(f) == IF a.entries[f].unchanged THEN a.seen[f]
                       ELSE [id |-> a.entries[f].id, items |-> a.entries[f].items]
<1>1. /\ answers' = answers \ {a}
      /\ latest' = [f \in Files |-> IF f \in news THEN a.pull ELSE latest[f]]
      /\ shown' = [f \in Files |-> IF f \notin news THEN shown[f] ELSE show(f)]
      /\ UNCHANGED <<text, requests, pulls, edits>>
  BY DEF Receive
<1>2. AnswerSound(a)
  BY DEF PullInv
<1>3. /\ news \subseteq Files /\ \A f \in news : EntrySound(a, f)
      /\ a.pull \in Pulls /\ a.pull.edits <= edits
      /\ \A f \in Files : a.seen[f] \in [id : Ids \cup {NoId}, items : Items]
                          /\ Describes(a.seen[f].id, a.seen[f].items)
  BY <1>2 DEF AnswerSound, ViewSound, Views
<1>. HIDE DEF news
<1>4. ASSUME NEW f \in news
      PROVE  /\ show(f) \in [id : Ids \cup {NoId}, items : Items]
             /\ Describes(show(f).id, show(f).items)
             /\ a.pull.kind = "document" /\ a.pull.edits = edits => show(f).items = Now(f)
  <2>1. EntrySound(a, f) /\ f \in Files
    BY <1>3
  <2>2. CASE a.entries[f].unchanged
    <3>1. show(f) = a.seen[f]
      BY <2>2
    <3>. HIDE DEF show
    <3>2. a.pull.kind = "document" => a.seen[f].items = a.entries[f].items
      BY <1>3, <2>1, <2>2 DEF EntrySound, Describes
    <3>. QED
      BY <1>3, <2>1, <3>1, <3>2 DEF EntrySound
  <2>3. CASE ~a.entries[f].unchanged
    BY <2>1, <2>3 DEF EntrySound
  <2>. QED
    BY <2>2, <2>3
<1>. HIDE DEF show
<1>5. \A f \in Files : /\ shown'[f] = IF f \notin news THEN shown[f] ELSE show(f)
                       /\ latest'[f] = IF f \in news THEN a.pull ELSE latest[f]
  BY <1>1
<1>6. Typed'
  <2>1. \A f \in Files : shown'[f] \in [id : Ids \cup {NoId}, items : Items]
                         /\ Describes(shown'[f].id, shown'[f].items)
    BY <1>4, <1>5 DEF PullInv, Typed, ViewSound, Views
  <2>2. shown' \in Views
    <3>1. shown' = [f \in Files |-> shown'[f]]
      BY <1>1
    <3>. QED
      BY <2>1, <3>1 DEF Views
  <2>3. latest' \in [Files -> Pulls]
    BY <1>1, <1>3 DEF PullInv, Typed
  <2>. QED
    BY <1>1, <2>1, <2>2, <2>3 DEF PullInv, Typed, ViewSound
<1>7. (\A f \in Files : latest[f].edits <= edits)'
  BY <1>1, <1>3, <1>5 DEF PullInv
<1>8. DocumentPullShows'
  <2>. SUFFICES ASSUME NEW f \in Files, latest'[f].number > 0, latest'[f].kind = "document",
                       latest'[f].edits = edits
                PROVE  shown'[f].items = Now(f)
    BY <1>1 DEF DocumentPullShows, Now, Present, Converted
  <2>1. CASE f \in news
    BY <1>4, <1>5, <2>1
  <2>2. CASE f \notin news
    BY <1>5, <2>2 DEF PullInv, DocumentPullShows, Now
  <2>. QED
    BY <2>1, <2>2
<1>9. (\A q \in requests : RequestSound(q))'
  BY <1>1 DEF PullInv, RequestSound
<1>10. (\A b \in answers : AnswerSound(b))'
  BY <1>1 DEF PullInv, AnswerSound, EntrySound, Now, Present, Converted
<1>. QED
  BY <1>6, <1>7, <1>8, <1>9, <1>10 DEF PullInv

(* After a change no answer under way, and none the client has taken, is   *)
(* of the texts as they are now.                                           *)
LEMMA ChangeKeeps ==
    ASSUME PullInv, NEW g \in Files, Change(g)
    PROVE  PullInv'
<1>1. PICK t \in Texts \cup {Absent} : text' = [text EXCEPT ![g] = t]
  BY DEF Change
<1>2. edits < MaxEdits /\ edits' = edits + 1 /\ UNCHANGED <<shown, latest, requests, answers, pulls>>
  BY DEF Change
<1>3. edits \in Nat /\ edits' \in 0 .. MaxEdits
  BY <1>2, DiagnosticAssumption DEF PullInv, Typed
<1>4. \A e \in 0 .. MaxEdits : e <= edits => e <= edits' /\ e # edits'
  BY <1>2, <1>3
<1>5. Typed'
  BY <1>1, <1>2, <1>3 DEF PullInv, Typed, ViewSound, States
<1>6. \A p \in Pulls : p.edits \in 0 .. MaxEdits
  BY DEF Pulls
<1>7. \A f \in Files : latest[f].edits <= edits' /\ latest[f].edits # edits'
  BY <1>4, <1>6 DEF PullInv, Typed
<1>8. (\A r \in requests : RequestSound(r))'
  BY <1>2, <1>4, <1>6 DEF PullInv, RequestSound
<1>9. (\A a \in answers : AnswerSound(a))'
  <2>. SUFFICES ASSUME NEW a \in answers
                PROVE  AnswerSound(a)'
    BY <1>2
  <2>1. AnswerSound(a) /\ a.pull.edits <= edits' /\ a.pull.edits # edits'
    BY <1>4, <1>6 DEF PullInv, AnswerSound
  <2>2. ASSUME NEW f \in DOMAIN a.entries
        PROVE  EntrySound(a, f)'
    BY <2>1 DEF AnswerSound, EntrySound
  <2>. QED
    BY <2>1, <2>2 DEF AnswerSound
<1>10. DocumentPullShows'
  BY <1>2, <1>7 DEF DocumentPullShows
<1>. QED
  BY <1>2, <1>5, <1>7, <1>8, <1>9, <1>10 DEF PullInv

LEMMA PullStep ==
    ASSUME PullInv, [Next]_vars
    PROVE  PullInv'
<1>1. CASE UNCHANGED vars
  <2>1. Typed'
    BY <1>1 DEF vars, PullInv, Typed, ViewSound
  <2>2. (\A r \in requests : RequestSound(r))'
    BY <1>1 DEF vars, PullInv, RequestSound
  <2>3. (\A a \in answers : AnswerSound(a))'
    BY <1>1 DEF vars, PullInv, AnswerSound, EntrySound, Now, Present, Converted
  <2>4. DocumentPullShows'
    BY <1>1 DEF vars, PullInv, DocumentPullShows, Present, Converted
  <2>5. (\A f \in Files : latest[f].edits <= edits)'
    BY <1>1 DEF vars, PullInv
  <2>. QED
    BY <2>1, <2>2, <2>3, <2>4, <2>5 DEF PullInv
<1>2. ASSUME NEW f \in Files, PullDocument(f)
      PROVE  PullInv'
  BY <1>2, PullKeeps DEF PullDocument, Kinds
<1>3. CASE PullWorkspace
  BY <1>3, PullKeeps DEF PullWorkspace, Kinds
<1>. QED
  BY <1>1, <1>2, <1>3, AnswerKeeps, ReceiveKeeps, ChangeKeeps DEF Next

-----------------------------------------------------------------------------
(* The theorems.                                                           *)

LEMMA PullInvariant == Spec => []PullInv
BY InitPulls, PullStep, PTL DEF Spec

(* A client that took the answer to a document pull, made after the last   *)
(* change of any text, shows the diagnostics the file has now: no answer   *)
(* overtaken by another, no "unchanged" and no id of a workspace pull can  *)
(* leave it with others.                                                   *)
THEOREM DocumentPullIsCurrent == Spec => []DocumentPullShows
<1>1. PullInv => DocumentPullShows
  BY DEF PullInv
<1>. QED
  BY <1>1, PullInvariant, PTL

(* A workspace pull says "unchanged" only of a file with the report that   *)
(* the client's diagnostics were made from.                                *)
THEOREM UnchangedReportsAreSame == Spec => []WorkspaceSeesReports
<1>1. PullInv => WorkspaceSeesReports
  <2>. SUFFICES ASSUME PullInv, NEW a \in answers, NEW f \in DOMAIN a.entries,
                       a.entries[f].unchanged
                PROVE  a.seen[f].items[1] = a.entries[f].items[1]
    BY DEF WorkspaceSeesReports
  <2>1. EntrySound(a, f) /\ f \in Files /\ Describes(a.seen[f].id, a.seen[f].items)
    BY DEF PullInv, AnswerSound, ViewSound
  <2>2. /\ a.entries[f].id # NoId /\ a.seen[f].id = a.entries[f].id
        /\ Describes(a.entries[f].id, a.entries[f].items)
    BY <2>1 DEF EntrySound
  <2>. QED
    BY <2>1, <2>2 DEF Describes
<1>. QED
  BY <1>1, PullInvariant, PTL
=============================================================================
