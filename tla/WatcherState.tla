---------------------------- MODULE WatcherState ----------------------------
(***************************************************************************)
(* The domain state of the watcher and its line processor:                 *)
(* python/scmdb_watcher/domain.py.                                         *)
(*                                                                         *)
(* One action per kind of Game.log line that process_line recognises, plus *)
(* the reset the tailer performs when it sees a new log.  Every method of  *)
(* WatcherState holds the lock for its whole body and only the tailer      *)
(* thread writes, so a line is one atomic step on the three containers.    *)
(* What the line hands to bus.broadcast is left in `out`; the modules that *)
(* compose this one deliver it.                                            *)
(*                                                                         *)
(* A dictionary is a function on Guid with None for a missing key, which   *)
(* is what dict.get and dict.pop(.., None) answer.  The matching of the    *)
(* regular expressions, the product name of a blueprint and the reason of  *)
(* an end line are not told apart by any property and are left out.        *)
(***************************************************************************)
EXTENDS Integers, Sequences

CONSTANTS
  Guid,        \* mission identifiers
  Contract,    \* contract (debug) names a CreateMarker line may carry
  Generator,   \* generator names a CreateMarker line may carry
  Completion,  \* CompletionType words of an EndMission line
  Time,        \* timestamps: of the line, or the wall clock when it has none
  WINDOW,      \* BLUEPRINT_CORRELATION_WINDOW_SEC
  MAXLEN,      \* maxlen of recent_lifecycle
  None         \* Python's None

ASSUME TimeAssumption == Time \subseteq Int
ASSUME WindowAssumption == WINDOW \in Nat
ASSUME MaxLenAssumption == MAXLEN \in Nat \ {0}
ASSUME UnknownNameAssumption == "?" \notin Contract

VARIABLES
  guid_map,         \* guid -> MissionEntry, from CreateMarker lines
  active,           \* guid -> ActiveMission, accepted and not ended
  recent_lifecycle, \* the deque of accept and complete events
  out               \* the event given to bus.broadcast by the last line, or None

domainVars == <<guid_map, active, recent_lifecycle>>
stateVars == <<guid_map, active, recent_lifecycle, out>>

-----------------------------------------------------------------------------
(* The lines process_line acts on, in the order it tries its patterns.     *)

MarkerLine == [kind : {"marker"}, guid : Guid, contract : Contract, generator : Generator]
AcceptedLine == [kind : {"accepted"}, guid : Guid, ts : Time]
EndLine == [kind : {"end"}, guid : Guid, completion : Completion, ts : Time]
BlueprintLine == [kind : {"blueprint"}, ts : Time]

(* MissionEntry, ActiveMission and MissionLifecycleEvent.                  *)
MissionEntry == [debug_name : Contract, generator : Generator]
ActiveMission == [debug_name : Contract, generator : Generator, start_ts : Time]
LifecycleEvent == [trigger : {"accept", "complete"}, guid : Guid,
                   debug_name : Contract \cup {"?"}, ts : Time]

(* What is given to broadcast; the type field tells the events apart.      *)
Event ==
  [type : {"mission_start"}, guid : Guid, mission : ActiveMission]
  \cup [type : {"mission_complete", "mission_ended"}, guid : Guid,
        debugName : Contract \cup {None}, completion : Completion, endTs : Time]
  \cup [type : {"blueprint_received"}, ts : Time, mission : LifecycleEvent \cup {None}]
  \cup [type : {"session_reset"}]

(* None is not a Python object of any of these kinds.                      *)
ASSUME NoneAssumption ==
  None \notin MissionEntry \cup ActiveMission \cup LifecycleEvent \cup Event

-----------------------------------------------------------------------------
(* Definitions named <definition>_<change> are seeded faults: what the      *)
(* definition would be with a plausible mistake in the code.  No action    *)
(* uses them; the checks put them in the place of the definition to see    *)
(* that a property notices.                                                *)
DequeAppend_Unbounded(d, e) == Append(d, e)

DequeAppend_DropsNewest(d, e) == IF Len(d) < MAXLEN THEN Append(d, e) ELSE d

(* deque(maxlen=MAXLEN).append: a full deque drops its oldest element.     *)
DequeAppend(d, e) ==
  IF Len(d) < MAXLEN THEN Append(d, e) ELSE Append(Tail(d), e)

InWindow_BothSides(d, ts) ==
  {i \in DOMAIN d : ts - d[i].ts \in (-WINDOW)..WINDOW}

(* The positions of the events at most WINDOW before ts and not after it.  *)
InWindow(d, ts) == {i \in DOMAIN d : ts - d[i].ts \in 0..WINDOW}

(* The closest event in the window; the strict comparison of the loop      *)
(* keeps the earliest of those equally close.  CorrelationLoop checks     *)
(* the loop itself against this.                                           *)
correlate_blueprint(d, ts) ==
  IF InWindow(d, ts) = {}
  THEN None
  ELSE d[CHOOSE i \in InWindow(d, ts) :
            \A j \in InWindow(d, ts) :
               d[j].ts < d[i].ts \/ (d[j].ts = d[i].ts /\ i <= j)]

-----------------------------------------------------------------------------
Init ==
  /\ guid_map = [g \in Guid |-> None]
  /\ active = [g \in Guid |-> None]
  /\ recent_lifecycle = <<>>
  /\ out = None

Marker_LastWins(l) ==
  /\ guid_map' = [guid_map EXCEPT ![l.guid] = [debug_name |-> l.contract,
                                               generator |-> l.generator]]
  /\ out' = None
  /\ UNCHANGED <<active, recent_lifecycle>>

(* record_marker: the first marker of a guid wins, nothing is broadcast.   *)
Marker(l) ==
  /\ guid_map' = IF guid_map[l.guid] = None
                 THEN [guid_map EXCEPT ![l.guid] = [debug_name |-> l.contract,
                                                    generator |-> l.generator]]
                 ELSE guid_map
  /\ out' = None
  /\ UNCHANGED <<active, recent_lifecycle>>

(* record_accepted without a prior marker: the line is ignored.            *)
AcceptedUnknown(l) ==
  /\ guid_map[l.guid] = None
  /\ out' = None
  /\ UNCHANGED domainVars

AcceptedKnown_FirstWins(l) ==
  LET entry == guid_map[l.guid]
      mission == [debug_name |-> entry.debug_name, generator |-> entry.generator,
                  start_ts |-> l.ts]
  IN  /\ entry # None
      /\ active' = IF active[l.guid] = None
                   THEN [active EXCEPT ![l.guid] = mission] ELSE active
      /\ recent_lifecycle' = DequeAppend(recent_lifecycle,
                               [trigger |-> "accept", guid |-> l.guid,
                                debug_name |-> entry.debug_name, ts |-> l.ts])
      /\ out' = [type |-> "mission_start", guid |-> l.guid, mission |-> mission]
      /\ UNCHANGED guid_map

(* record_accepted: a second accept of the same guid replaces the first,   *)
(* start time included.                                                    *)
AcceptedKnown(l) ==
  LET entry == guid_map[l.guid]
  IN  /\ entry # None
      /\ active' = [active EXCEPT ![l.guid] = [debug_name |-> entry.debug_name,
                                               generator |-> entry.generator,
                                               start_ts |-> l.ts]]
      /\ recent_lifecycle' = DequeAppend(recent_lifecycle,
                               [trigger |-> "accept", guid |-> l.guid,
                                debug_name |-> entry.debug_name, ts |-> l.ts])
      /\ out' = [type |-> "mission_start", guid |-> l.guid,
                 mission |-> active'[l.guid]]
      /\ UNCHANGED guid_map

(* The name an end line reports: that of the active mission, else that of  *)
(* the marker, else nothing.                                               *)
EndedName(g, nothing) ==
  IF active[g] # None THEN active[g].debug_name
  ELSE IF guid_map[g] # None THEN guid_map[g].debug_name ELSE nothing

(* record_end: broadcast even when the mission was never active or known;  *)
(* only "Complete" enters the deque.                                       *)
EndMission(l) ==
  /\ active' = [active EXCEPT ![l.guid] = None]
  /\ recent_lifecycle' =
       IF l.completion = "Complete"
       THEN DequeAppend(recent_lifecycle,
              [trigger |-> "complete", guid |-> l.guid,
               debug_name |-> EndedName(l.guid, "?"), ts |-> l.ts])
       ELSE recent_lifecycle
  /\ out' = [type |-> IF l.completion = "Complete"
                      THEN "mission_complete" ELSE "mission_ended",
             guid |-> l.guid, debugName |-> EndedName(l.guid, None),
             completion |-> l.completion, endTs |-> l.ts]
  /\ UNCHANGED guid_map

(* A blueprint is always broadcast, with the mission it is put down to.    *)
Blueprint(l) ==
  /\ out' = [type |-> "blueprint_received", ts |-> l.ts,
             mission |-> correlate_blueprint(recent_lifecycle, l.ts)]
  /\ UNCHANGED domainVars

(* WatcherState.reset and the session_reset the tailer broadcasts after it *)
Reset ==
  /\ guid_map' = [g \in Guid |-> None]
  /\ active' = [g \in Guid |-> None]
  /\ recent_lifecycle' = <<>>
  /\ out' = [type |-> "session_reset"]

process_line ==
  \/ \E l \in MarkerLine : Marker(l)
  \/ \E l \in AcceptedLine : AcceptedUnknown(l) \/ AcceptedKnown(l)
  \/ \E l \in EndLine : EndMission(l)
  \/ \E l \in BlueprintLine : Blueprint(l)

Next == process_line \/ Reset

Spec == Init /\ [][Next]_stateVars

-----------------------------------------------------------------------------
(* The containers hold what the data classes of domain.py declare and the  *)
(* deque never exceeds its maxlen.                                         *)
TypeOK ==
  /\ guid_map \in [Guid -> MissionEntry \cup {None}]
  /\ active \in [Guid -> ActiveMission \cup {None}]
  /\ recent_lifecycle \in Seq(LifecycleEvent)
  /\ Len(recent_lifecycle) <= MAXLEN
  /\ out \in Event \cup {None}

(* An active mission is a known one and shows the names of its marker,     *)
(* however many markers and accepts of the guid followed (domain.py:88-91  *)
(* first writer wins, 98-103 copies).                                      *)
ActiveMatchesMarkers ==
  \A g \in Guid : active[g] # None =>
     /\ guid_map[g] # None
     /\ active[g].debug_name = guid_map[g].debug_name
     /\ active[g].generator = guid_map[g].generator

(* Every event of the deque that names a mission names it as its marker    *)
(* does; the "?" of a completion of an unknown mission (domain.py:115)     *)
(* is never the name of an accepted one.                                   *)
LifecycleNamesAgree ==
  \A i \in DOMAIN recent_lifecycle :
     LET e == recent_lifecycle[i]
     IN  /\ e.trigger = "accept" => guid_map[e.guid] # None
         /\ e.debug_name # "?" => /\ guid_map[e.guid] # None
                                  /\ e.debug_name = guid_map[e.guid].debug_name
         /\ e.debug_name = "?" =>
              /\ e.trigger = "complete"
              /\ \A j \in 1..(i - 1) :
                    ~ /\ recent_lifecycle[j].trigger = "accept"
                      /\ recent_lifecycle[j].guid = e.guid
=============================================================================
