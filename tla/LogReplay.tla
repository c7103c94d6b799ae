------------------------------ MODULE LogReplay ------------------------------
(***************************************************************************)
(* What the log says, against what the watcher remembers.                  *)
(*                                                                         *)
(* WatcherState keeps three bounded or overwritten containers and never    *)
(* looks back at the log.  This module keeps, beside it, the history of    *)
(* the lines processed since the last reset, defines what that history     *)
(* says of a mission and of a blueprint, and states that the containers    *)
(* answer the same.  The history constrains nothing.                       *)
(***************************************************************************)
EXTENDS WatcherState

VARIABLE lines   \* the lines processed since the last reset, oldest first

replayVars == <<guid_map, active, recent_lifecycle, out, lines>>

ReplayInit == Init /\ lines = <<>>

ReadMarker == \E l \in MarkerLine : Marker(l) /\ lines' = Append(lines, l)

ReadAccepted == \E l \in AcceptedLine : /\ AcceptedUnknown(l) \/ AcceptedKnown(l)
                                        /\ lines' = Append(lines, l)

ReadEnd == \E l \in EndLine : EndMission(l) /\ lines' = Append(lines, l)

ReadBlueprint == \E l \in BlueprintLine : Blueprint(l) /\ lines' = Append(lines, l)

SessionReset == Reset /\ lines' = <<>>

ReplayNext == ReadMarker \/ ReadAccepted \/ ReadEnd \/ ReadBlueprint \/ SessionReset

ReplaySpec == ReplayInit /\ [][ReplayNext]_replayVars

-----------------------------------------------------------------------------
(* A log read back.                                                         *)

Line == MarkerLine \cup AcceptedLine \cup EndLine \cup BlueprintLine

MarkerAt(log, i, g) == log[i].kind = "marker" /\ log[i].guid = g

FirstMarkerAt(log, i, g) == MarkerAt(log, i, g) /\ \A j \in 1..(i - 1) : ~MarkerAt(log, j, g)

KnownBefore(log, i, g) == \E j \in 1..(i - 1) : MarkerAt(log, j, g)

(* An accept counts only after a marker of the same mission.               *)
StartAt(log, i, g) ==
  log[i].kind = "accepted" /\ log[i].guid = g /\ KnownBefore(log, i, g)

EndAt(log, i, g) == log[i].kind = "end" /\ log[i].guid = g

(* The accept that governs the mission now: nothing started or ended it    *)
(* since.                                                                  *)
GovernedBy(log, i, g) ==
  StartAt(log, i, g) /\ \A j \in (i + 1)..Len(log) : ~StartAt(log, j, g) /\ ~EndAt(log, j, g)

(* A line that put an event into the deque.                                *)
LifecycleAt(log, i, trigger, g) ==
  \/ trigger = "accept" /\ StartAt(log, i, g)
  \/ trigger = "complete" /\ EndAt(log, i, g) /\ log[i].completion = "Complete"

AnyLifecycleAt(log, i) == \E t \in {"accept", "complete"}, g \in Guid : LifecycleAt(log, i, t, g)

(* The log's own times do not run backwards over lifecycle and blueprint   *)
(* lines.                                                                  *)
Timed(log, i) == log[i].kind # "marker"

InOrder(log) == \A i, j \in DOMAIN log :
              i < j /\ Timed(log, i) /\ Timed(log, j) => log[i].ts <= log[j].ts

BlueprintJustRead == out # None /\ out.type = "blueprint_received"

-----------------------------------------------------------------------------
(* The missions the watcher calls active, and their names and start times, *)
(* are those the lines since the last reset prescribe: known by a marker,  *)
(* accepted after it, not ended since, named by the first marker, started  *)
(* at the last accept (domain.py:88-119).                                  *)
ActiveIsReplay ==
  \A g \in Guid :
    /\ active[g] # None <=> \E i \in DOMAIN lines : GovernedBy(lines, i, g)
    /\ \A i, m \in DOMAIN lines :
         GovernedBy(lines, i, g) /\ FirstMarkerAt(lines, m, g) =>
            active[g] = [debug_name |-> lines[m].contract,
                         generator |-> lines[m].generator,
                         start_ts |-> lines[i].ts]

(* A blueprint is never put down to a mission that did nothing: the log    *)
(* holds, before the blueprint and within the window, the accept or the    *)
(* completion the event names (domain.py:121-130, 190-203).                *)
AttributionHappened ==
  BlueprintJustRead /\ out.mission # None =>
    \E i \in 1..(Len(lines) - 1) :
       /\ LifecycleAt(lines, i, out.mission.trigger, out.mission.guid)
       /\ lines[i].ts = out.mission.ts
       /\ out.ts - lines[i].ts \in 0..WINDOW

(* While the log's times run forward, the deque's bound costs no           *)
(* attribution: a blueprint goes without a mission only if the whole       *)
(* history holds none in the window, and no event of the history is closer *)
(* than the one chosen, however many were evicted (domain.py:80, 121-130). *)
EvictionCostsNothing ==
  BlueprintJustRead /\ InOrder(lines) =>
    \A i \in 1..(Len(lines) - 1) :
       AnyLifecycleAt(lines, i) /\ out.ts - lines[i].ts \in 0..WINDOW =>
          /\ out.mission # None
          /\ lines[i].ts <= out.mission.ts
=============================================================================
