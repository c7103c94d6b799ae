----------------------------- MODULE ImportScan -----------------------------
(***************************************************************************)
(* The historical import: run_import of python/watcher.py over             *)
(* import_service.py.  The old logs are scanned one after the other, each  *)
(* into a WatcherState of its own, and what was completed or correlated is *)
(* written out once at the end.                                            *)
(*                                                                         *)
(* A log is given by the lines the scan reads from it, chosen as it reads; *)
(* LogReplay's `lines` holds those of the file that is being scanned.      *)
(* A line without a timestamp counts as time 0.  A file can vanish or      *)
(* refuse to be read at any step, for the game rotates its backups while   *)
(* the import runs.                                                        *)
(***************************************************************************)
EXTENDS LogReplay, FiniteSets

CONSTANTS
  File   \* the logs, numbered in the order they are scanned

ASSUME FileAssumption == File \subseteq Nat /\ IsFiniteSet(File)

VARIABLES
  pc,          \* "collect", "file", "scan", "write" or "done"
  todo,        \* files_to_scan that are still to be scanned, oldest first
  logs,        \* the lines of each file scanned to its end (history)
  missions, blueprints,   \* all_missions, all_blueprints
  source_logs,
  written      \* the payload, once the output file is written

exportVars == <<missions, blueprints>>
vars == <<guid_map, active, recent_lifecycle, out, lines,
          pc, todo, logs, missions, blueprints, source_logs, written>>

Mission == [guid : Guid, debugName : Contract, generator : Generator,
            startTs : Time, endTs : Time]
Drop == [ts : Time, mission : LifecycleEvent]

ImportInit ==
  /\ ReplayInit
  /\ pc = "collect" /\ todo = <<>>
  /\ logs = [f \in File |-> <<>>]
  /\ missions = <<>> /\ blueprints = <<>>
  /\ source_logs = <<>> /\ written = None

-----------------------------------------------------------------------------
(* Every choice of files, in their order.                                  *)
Ascending ==
  {s \in UNION {[1..n -> File] : n \in 0..Cardinality(File)} :
     \A i, j \in DOMAIN s : i < j => s[i] < s[j]}

(* collect_log_files: the backups there are, by name, and the current log  *)
(* after them if it is asked for; without any the import ends with 1.      *)
Collect ==
  /\ pc = "collect"
  /\ todo' \in Ascending
  /\ pc' = IF todo' = <<>> THEN "done" ELSE "file"
  /\ UNCHANGED <<replayVars, logs, exportVars, source_logs, written>>

(* Seeded faults are named <definition>_<change>.                          *)
FileDone_OneMore ==
  /\ source_logs' = Append(source_logs, Head(todo))
  /\ todo' = Tail(todo)
  /\ pc' = IF todo = <<>> THEN "write" ELSE "file"

(* A file is scanned, or skipped, and the loop goes on.                    *)
FileDone ==
  /\ source_logs' = Append(source_logs, Head(todo))
  /\ todo' = Tail(todo)
  /\ pc' = IF Len(todo) = 1 THEN "write" ELSE "file"

(* stat, a read or the writing of the output raises: run_import is left    *)
(* and nothing is exported.                                                *)
Aborts ==
  /\ pc \in {"file", "scan", "write"}
  /\ pc' = "done"
  /\ UNCHANGED <<replayVars, todo, logs, exportVars, source_logs, written>>

(* open raises OSError: the file is skipped, and listed all the same.      *)
OpenFails ==
  /\ pc = "file"
  /\ FileDone
  /\ UNCHANGED <<replayVars, logs, exportVars, written>>

Opens_KeepsState ==
  /\ pc = "file"
  /\ pc' = "scan"
  /\ lines' = <<>>
  /\ UNCHANGED <<stateVars, todo, logs, exportVars, source_logs, written>>

(* Every file gets a new WatcherState.                                     *)
Opens ==
  /\ pc = "file"
  /\ pc' = "scan"
  /\ guid_map' = [g \in Guid |-> None]
  /\ active' = [g \in Guid |-> None]
  /\ recent_lifecycle' = <<>>
  /\ out' = None
  /\ lines' = <<>>
  /\ UNCHANGED <<todo, logs, exportVars, source_logs, written>>

Reads(l) ==
  /\ pc = "scan"
  /\ lines' = Append(lines, l)
  /\ UNCHANGED <<pc, todo, logs, source_logs, written>>

ScanMarker(l) == Reads(l) /\ Marker(l) /\ UNCHANGED exportVars

ScanAccepted(l) ==
  /\ Reads(l)
  /\ AcceptedUnknown(l) \/ AcceptedKnown(l)
  /\ UNCHANGED exportVars

(* Exported is what was completed and was active in this file.             *)
ScanEnd(l) ==
  /\ Reads(l)
  /\ EndMission(l)
  /\ missions' = IF l.completion = "Complete" /\ active[l.guid] # None
                 THEN Append(missions, [guid |-> l.guid,
                                        debugName |-> active[l.guid].debug_name,
                                        generator |-> active[l.guid].generator,
                                        startTs |-> active[l.guid].start_ts,
                                        endTs |-> l.ts])
                 ELSE missions
  /\ UNCHANGED blueprints

(* A blueprint is exported when it is correlated, to whatever event.       *)
ScanBlueprint(l) ==
  LET corr == correlate_blueprint(recent_lifecycle, l.ts)
  IN  /\ Reads(l)
      /\ Blueprint(l)
      /\ blueprints' = IF corr = None THEN blueprints
                       ELSE Append(blueprints, [ts |-> l.ts, mission |-> corr])
      /\ UNCHANGED missions

EndOfFile ==
  /\ pc = "scan"
  /\ FileDone
  /\ logs' = [logs EXCEPT ![Head(todo)] = lines]
  /\ UNCHANGED <<replayVars, exportVars, written>>

Keep_LastWins(kept, m) ==
  IF \E k \in DOMAIN kept : kept[k].guid = m.guid
  THEN [k \in DOMAIN kept |-> IF kept[k].guid = m.guid THEN m ELSE kept[k]]
  ELSE Append(kept, m)

(* One turn of the loop: a guid that is already there is passed over.      *)
Keep(kept, m) ==
  IF \E k \in DOMAIN kept : kept[k].guid = m.guid THEN kept ELSE Append(kept, m)

(* dedupe_missions_by_guid: the first of every guid, in their order.       *)
dedupe_missions_by_guid(ms) ==
  LET kept[n \in 0..Len(ms)] == IF n = 0 THEN <<>> ELSE Keep(kept[n - 1], ms[n])
  IN  kept[Len(ms)]

export_payload == [missions |-> dedupe_missions_by_guid(missions),
                   blueprints |-> blueprints, sourceLogs |-> source_logs]

(* The output file is written last of all.                                 *)
Write ==
  /\ pc = "write"
  /\ written' = export_payload
  /\ pc' = "done"
  /\ UNCHANGED <<replayVars, todo, logs, exportVars, source_logs>>

Scan ==
  \/ \E l \in MarkerLine : ScanMarker(l)
  \/ \E l \in AcceptedLine : ScanAccepted(l)
  \/ \E l \in EndLine : ScanEnd(l)
  \/ \E l \in BlueprintLine : ScanBlueprint(l)

ImportNext == Collect \/ Aborts \/ OpenFails \/ Opens \/ Scan \/ EndOfFile \/ Write

ImportSpec == ImportInit /\ [][ImportNext]_vars

-----------------------------------------------------------------------------
ImportTypeOK ==
  /\ TypeOK /\ lines \in Seq(Line)
  /\ pc \in {"collect", "file", "scan", "write", "done"}
  /\ todo \in Seq(File) /\ source_logs \in Seq(File)
  /\ pc \in {"file", "scan"} => todo # <<>>
  /\ logs \in [File -> Seq(Line)]
  /\ missions \in Seq(Mission)
  /\ blueprints \in Seq(Drop)
  /\ written = None \/ written.missions \in Seq(Mission)

(* Line i of a log completes a run of mission g that line s began.         *)
Completes(log, s, i, g) ==
  /\ EndAt(log, i, g) /\ log[i].completion = "Complete"
  /\ s < i /\ StartAt(log, s, g)
  /\ \A j \in (s + 1)..(i - 1) : ~StartAt(log, j, g) /\ ~EndAt(log, j, g)

CompletedIn(log, g) ==
  \E i \in DOMAIN log : \E s \in 1..(i - 1) : Completes(log, s, i, g)

(* m is the record of the first completion of its mission in the logs.     *)
IsFirstCompletion(read, m) ==
  \E f \in File : \E i \in DOMAIN read[f] : \E s, n \in 1..(i - 1) :
    /\ Completes(read[f], s, i, m.guid)
    /\ FirstMarkerAt(read[f], n, m.guid)
    /\ m.debugName = read[f][n].contract /\ m.generator = read[f][n].generator
    /\ m.startTs = read[f][s].ts /\ m.endTs = read[f][i].ts
    /\ \A h \in File : h < f => ~CompletedIn(read[h], m.guid)
    /\ \A j \in 1..(i - 1) : \A r \in 1..(j - 1) : ~Completes(read[f], r, j, m.guid)

(* The export holds every mission completed in a log that was read, once,  *)
(* with the times and the name of its first completion in the order of the *)
(* logs; and no other.  A run that begins in one log and ends in the next  *)
(* is none (import_service.py:22-74, 84-95, watcher.py:373-390).           *)
ExportsFirstCompletions ==
  written # None =>
    /\ Len(written.missions) =
         Cardinality({g \in Guid : \E f \in File : CompletedIn(logs[f], g)})
    /\ \A k \in DOMAIN written.missions : IsFirstCompletion(logs, written.missions[k])

(* Line i of a log is an accept or a completion that line b, a blueprint,  *)
(* comes close enough after: what correlate_blueprint may put it down to.  *)
Earned(log, b, i) ==
  /\ log[b].kind = "blueprint"
  /\ i < b /\ AnyLifecycleAt(log, i)
  /\ log[b].ts - log[i].ts \in 0..WINDOW

EarnedDrops(read) ==
  UNION {{<<f, b>> : b \in {b \in DOMAIN read[f] : \E i \in 1..(b - 1) : Earned(read[f], b, i)}}
           : f \in File}

(* Those among them that come after the completion of a run.               *)
CompletedDrops(read) ==
  {d \in EarnedDrops(read) :
     \E i \in 1..(d[2] - 1) : \E s \in 1..(i - 1), g \in Guid :
        Earned(read[d[1]], d[2], i) /\ Completes(read[d[1]], s, i, g)}

(* The drop is put down to what a line of its own log says.                *)
IsFromItsLog(read, d) ==
  \E f \in File : \E b \in DOMAIN read[f] : \E i \in 1..(b - 1) :
    /\ Earned(read[f], b, i)
    /\ LifecycleAt(read[f], i, d.mission.trigger, d.mission.guid)
    /\ d.ts = read[f][b].ts /\ d.mission.ts = read[f][i].ts

(* Every exported blueprint is put down to an accept or a completion of    *)
(* its own log: nothing leaks from one log into the next.  While the times *)
(* of the logs run forward, at least as many are exported as came after a  *)
(* completion, and at most as many as came after either.  Whether those    *)
(* that came after an accept alone belong in the export is left to the     *)
(* next property (import_service.py:24, 60-72).                            *)
BlueprintsFromTheirLog ==
  written # None =>
    /\ \A k \in DOMAIN written.blueprints : IsFromItsLog(logs, written.blueprints[k])
    /\ (\A f \in File : InOrder(logs[f])) =>
         /\ Cardinality(CompletedDrops(logs)) <= Len(written.blueprints)
         /\ Len(written.blueprints) <= Cardinality(EarnedDrops(logs))

(* Only the drops of completed missions are exported, and those of no      *)
(* abandoned, failed or disconnected run: one that is put down to an       *)
(* accept belongs to a mission that some log completes                     *)
(* (python/README.md:232-236).                                             *)
BlueprintsOfCompletedMissions ==
  written # None =>
    \A k \in DOMAIN written.blueprints :
       written.blueprints[k].mission.trigger = "accept" =>
         \E f \in File : CompletedIn(logs[f], written.blueprints[k].mission.guid)
=============================================================================
