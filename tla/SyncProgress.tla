---------------------------- MODULE SyncProgress ----------------------------
(***************************************************************************)
(* How the lines and events of a build tool become one percentage: the     *)
(* PhaseProgressAggregator of a sync (caffeine-ls/src/main_loop.rs).  The  *)
(* tool's events come in any order and any number; after each the status   *)
(* is computed and sent unless it is what was sent last.                   *)
(*                                                                         *)
(* A status is a message and a percentage.  A message is what it shows:    *)
(* the phase and the figures the phase's text contains.                    *)
(***************************************************************************)
EXTENDS Naturals

CONSTANTS Sizes,        \* the sizes of downloads
          Modules,      \* the numbers of a module, and of modules
          MaxDownloads  \* bound on the downloads of one sync

ASSUME SyncAssumption ==
    Sizes \subseteq Nat /\ Modules \subseteq Nat /\ MaxDownloads \in Nat

VARIABLES phase,        \* PhaseProgressAggregator::phase
          got,          \* bytes_downloaded
          expected,     \* bytes_total, 0 for None
          downloads,    \* download_count
          project,      \* current_project with its index and total
          parsed,       \* model_parsed
          finished,     \* finished
          report        \* last_report
syncVars == <<phase, got, expected, downloads, project, parsed, finished, report>>

Phases == {"Resolving", "Downloading", "Configuring", "Compiling", "Exporting",
           "Done", "Failed"}
Nothing == [message |-> <<>>, percentage |-> 0]

(* PHASE_PERCENTAGE_RANGES *)
Low(p) == CASE p = "Resolving" -> 0 [] p = "Downloading" -> 15
            [] p = "Configuring" -> 60 [] OTHER -> 85
High(p) == CASE p = "Resolving" -> 15 [] p = "Downloading" -> 60
             [] p = "Configuring" -> 85 [] OTHER -> 99

(* lo + ((hi - lo) as f64 * ratio) as u32, with ratio = part / whole *)
Advance(p, part, whole) == Low(p) + ((High(p) - Low(p)) * part) \div whole
AtMost(n, limit) == IF n < limit THEN n ELSE limit

(* Mutant: more bytes than expected, or a module past the last, count. *)
BudgetedPercentageUnbounded ==
    CASE phase' = "Downloading" /\ expected' > 0 /\ got' > 0 ->
            Advance(phase', got', expected')
      [] phase' \in {"Configuring", "Compiling"} /\ project'.total > 0 ->
            Advance(phase', project'.index, project'.total)
      [] phase' = "Exporting" -> High(phase')
      [] OTHER -> Low(phase')

(* budgeted_percentage, of the state after a step *)
BudgetedPercentage ==
    CASE phase' = "Downloading" /\ expected' > 0 /\ got' > 0 ->
            Advance(phase', AtMost(got', expected'), expected')
      [] phase' \in {"Configuring", "Compiling"} /\ project'.total > 0 ->
            Advance(phase', AtMost(project'.index, project'.total), project'.total)
      [] phase' = "Exporting" -> High(phase')
      [] OTHER -> Low(phase')

(* status_message *)
StatusMessage ==
    CASE phase' = "Downloading" -> <<phase', downloads', got', expected'>>
      [] phase' \in {"Configuring", "Compiling"} -> <<phase', project'>>
      [] phase' = "Exporting" -> <<phase', parsed'>>
      [] OTHER -> <<phase'>>

(* current_status, after every step: the worker sends what it returns; a    *)
(* status that is the last one again is not sent.                           *)
Report ==
    report' = [message    |-> StatusMessage,
               percentage |-> IF finished' THEN 100 ELSE BudgetedPercentage]

SyncStart ==
    /\ phase = "Resolving" /\ got = 0 /\ expected = 0 /\ downloads = 0
    /\ project = [named |-> FALSE, index |-> 0, total |-> 0]
    /\ parsed = FALSE /\ finished = FALSE /\ report = Nothing

(* on_event, one action for each kind of event *)
OnPhase(p) ==
    /\ ~finished
    /\ phase' = IF p \in {"Done", "Failed"} THEN phase ELSE p
    /\ UNCHANGED <<got, expected, downloads, project, parsed, finished>>
    /\ Report
OnDownload(bytes, total) ==
    /\ ~finished /\ downloads < MaxDownloads
    /\ phase' = "Downloading"
    /\ downloads' = downloads + 1
    /\ got' = IF total > 0 /\ bytes > got THEN bytes ELSE got
    /\ expected' = IF total > 0 THEN total ELSE expected
    /\ UNCHANGED <<project, parsed, finished>>
    /\ Report
OnProject(index, total, action) ==
    /\ ~finished
    /\ project' = [named |-> TRUE,
                   index |-> IF index > 0 THEN index ELSE project.index,
                   total |-> IF total > 0 THEN total ELSE project.total]
    /\ phase' = IF action = "other" THEN phase ELSE action
    /\ UNCHANGED <<got, expected, downloads, parsed, finished>>
    /\ Report

(* on_model_begin, on_model_end *)
OnModel(end) ==
    /\ ~finished
    /\ phase' = "Exporting"
    /\ parsed' = (parsed \/ end)
    /\ UNCHANGED <<got, expected, downloads, project, finished>>
    /\ Report

(* on_sync_complete *)
OnSyncComplete(success) ==
    /\ ~finished
    /\ finished' = TRUE
    /\ phase' = IF success THEN "Done" ELSE "Failed"
    /\ UNCHANGED <<got, expected, downloads, project, parsed>>
    /\ Report

SyncNext ==
    \/ \E p \in Phases : OnPhase(p)
    \/ \E bytes, total \in Sizes \cup {0} : OnDownload(bytes, total)
    \/ \E index, total \in Modules \cup {0}, action \in {"Compiling", "Configuring", "other"} :
          OnProject(index, total, action)
    \/ \E end \in BOOLEAN : OnModel(end)
    \/ \E success \in BOOLEAN : OnSyncComplete(success)

SyncSpec == SyncStart /\ [][SyncNext]_syncVars

-----------------------------------------------------------------------------
(* Properties *)

(* Whatever the tool reports, sizes that shrink, indexes past the total and *)
(* phases out of order included, the bar stays in the window of its phase   *)
(* ("together they always span 0..=99"), and shows 100 at the end and only  *)
(* then ("a successful sync always reaches 100%").                          *)
BarInWindow ==
    /\ finished <=> report.percentage = 100
    /\ report # Nothing /\ ~finished =>
          Low(phase) <= report.percentage /\ report.percentage <= High(phase)
=============================================================================
