-------------------------- MODULE LogReplay_proofs --------------------------
(***************************************************************************)
(* ActiveIsReplay, for logs of any length.                                 *)
(***************************************************************************)
EXTENDS LogReplay, WatcherState_proofs

(* Besides the missions, the invariant says of the markers what it says of *)
(* them: known is what a marker named, by the first marker's names.        *)
MarkersAreReplay ==
  \A g \in Guid :
    /\ guid_map[g] # None <=> \E i \in DOMAIN lines : MarkerAt(lines, i, g)
    /\ \A m \in DOMAIN lines : FirstMarkerAt(lines, m, g) =>
          guid_map[g] = [debug_name |-> lines[m].contract,
                         generator |-> lines[m].generator]


ReplayInv ==
  /\ TypeOK
  /\ lines \in Seq(Line)
  /\ MarkersAreReplay
  /\ ActiveIsReplay

-----------------------------------------------------------------------------
(* One more line leaves what was said of the earlier ones, except that a   *)
(* start or an end of its mission ends their say about it.                 *)
LEMMA OneMoreLine ==
  ASSUME lines \in Seq(Line), NEW l \in Line, lines' = Append(lines, l),
         NEW n, n = Len(lines)
  PROVE  /\ n \in Nat /\ DOMAIN lines = 1..n /\ DOMAIN lines' = 1..(n + 1)
         /\ lines'[n + 1] = l
         /\ \A i \in 1..n : lines'[i] = lines[i]
         /\ \A i \in 1..n, g \in Guid :
              /\ MarkerAt(lines', i, g) <=> MarkerAt(lines, i, g)
              /\ FirstMarkerAt(lines', i, g) <=> FirstMarkerAt(lines, i, g)
              /\ StartAt(lines', i, g) <=> StartAt(lines, i, g)
              /\ EndAt(lines', i, g) <=> EndAt(lines, i, g)
              /\ GovernedBy(lines', i, g) <=>
                   GovernedBy(lines, i, g) /\ ~StartAt(lines', n + 1, g) /\ ~EndAt(lines', n + 1, g)
         /\ \A g \in Guid :
              /\ FirstMarkerAt(lines', n + 1, g) <=>
                   l.kind = "marker" /\ l.guid = g /\ \A i \in 1..n : ~MarkerAt(lines, i, g)
              /\ StartAt(lines', n + 1, g) <=>
                   l.kind = "accepted" /\ l.guid = g /\ \E i \in 1..n : MarkerAt(lines, i, g)
              /\ EndAt(lines', n + 1, g) <=> l.kind = "end" /\ l.guid = g
              /\ GovernedBy(lines', n + 1, g) <=> StartAt(lines', n + 1, g)
<1>1. /\ n \in Nat /\ DOMAIN lines = 1..n
      /\ Len(lines') = n + 1 /\ DOMAIN lines' = 1..(n + 1)
      /\ lines'[n + 1] = l
      /\ \A i \in 1..n : lines'[i] = lines[i]
  OBVIOUS
<1>2. \A i \in 1..n, g \in Guid :
        /\ MarkerAt(lines', i, g) <=> MarkerAt(lines, i, g)
        /\ EndAt(lines', i, g) <=> EndAt(lines, i, g)
  BY <1>1 DEF MarkerAt, EndAt
<1>3. \A i \in 1..n, g \in Guid : FirstMarkerAt(lines', i, g) <=> FirstMarkerAt(lines, i, g)
  BY <1>1, <1>2 DEF FirstMarkerAt
<1>4. \A i \in 1..n, g \in Guid : KnownBefore(lines', i, g) <=> KnownBefore(lines, i, g)
  BY <1>1, <1>2 DEF KnownBefore
<1>5. \A i \in 1..n, g \in Guid : StartAt(lines', i, g) <=> StartAt(lines, i, g)
  BY <1>1, <1>4 DEF StartAt
<1>6. ASSUME NEW i \in 1..n, NEW g \in Guid
      PROVE  GovernedBy(lines', i, g) <=>
               GovernedBy(lines, i, g) /\ ~StartAt(lines', n + 1, g) /\ ~EndAt(lines', n + 1, g)
  <2>1. \A j \in (i + 1)..(n + 1) : j = n + 1 \/ j \in (i + 1)..n
    BY <1>1
  <2>2. n + 1 \in (i + 1)..(n + 1) /\ \A j \in (i + 1)..n : j \in (i + 1)..(n + 1)
    BY <1>1
  <2>3. \A j \in (i + 1)..n : /\ StartAt(lines', j, g) <=> StartAt(lines, j, g)
                              /\ EndAt(lines', j, g) <=> EndAt(lines, j, g)
    BY <1>1, <1>2, <1>5
  <2> QED
    BY <1>1, <1>5, <2>1, <2>2, <2>3 DEF GovernedBy
<1>7. (n + 1) - 1 = n /\ (n + 1 + 1)..(n + 1) = {}
  BY <1>1
<1>8. ASSUME NEW g \in Guid
      PROVE  /\ FirstMarkerAt(lines', n + 1, g) <=>
                  l.kind = "marker" /\ l.guid = g /\ \A i \in 1..n : ~MarkerAt(lines, i, g)
             /\ StartAt(lines', n + 1, g) <=>
                  l.kind = "accepted" /\ l.guid = g /\ \E i \in 1..n : MarkerAt(lines, i, g)
             /\ EndAt(lines', n + 1, g) <=> l.kind = "end" /\ l.guid = g
  <2>1. MarkerAt(lines', n + 1, g) <=> l.kind = "marker" /\ l.guid = g
    BY <1>1 DEF MarkerAt
  <2>2. KnownBefore(lines', n + 1, g) <=> \E i \in 1..n : MarkerAt(lines, i, g)
    BY <1>2, <1>7 DEF KnownBefore
  <2> QED
    BY <1>1, <1>2, <1>7, <2>1, <2>2 DEF FirstMarkerAt, StartAt, EndAt
<1>9. ASSUME NEW g \in Guid
      PROVE  GovernedBy(lines', n + 1, g) <=> StartAt(lines', n + 1, g)
  BY <1>1, <1>7 DEF GovernedBy
<1> QED
  BY <1>1, <1>2, <1>3, <1>5, <1>6, <1>8, <1>9

(* A governing accept comes after a marker of its mission.                 *)
LEMMA GovernedIsKnown ==
  ASSUME lines \in Seq(Line), NEW i \in DOMAIN lines, NEW g, GovernedBy(lines, i, g)
  PROVE  \E j \in 1..(i - 1) : j \in DOMAIN lines /\ MarkerAt(lines, j, g)
BY DEF GovernedBy, StartAt, KnownBefore

-----------------------------------------------------------------------------
(* Each kind of line keeps the two replays.                                *)

LEMMA MarkerKeepsReplay ==
  ASSUME ReplayInv, NEW l \in MarkerLine, Marker(l), lines' = Append(lines, l)
  PROVE  MarkersAreReplay' /\ ActiveIsReplay'
<1> USE DEF ReplayInv
<1>0. PICK n \in Nat : n = Len(lines)
  OBVIOUS
<1> DEFINE e == [debug_name |-> l.contract, generator |-> l.generator]
<1>1. l \in Line /\ l.kind = "marker" /\ l.guid \in Guid
  BY DEF Line, MarkerLine
<1>2. e \in MissionEntry /\ e # None
  BY NoneAssumption DEF MarkerLine, MissionEntry
<1>3. /\ active' = active
      /\ guid_map' = IF guid_map[l.guid] = None
                     THEN [guid_map EXCEPT ![l.guid] = e] ELSE guid_map
  BY DEF Marker
<1>4. /\ \A g \in Guid : g # l.guid => guid_map'[g] = guid_map[g]
      /\ guid_map[l.guid] = None => guid_map'[l.guid] = e
      /\ guid_map[l.guid] # None => guid_map'[l.guid] = guid_map[l.guid]
      /\ guid_map'[l.guid] # None
  BY <1>1, <1>2, <1>3 DEF TypeOK
<1>5. /\ n \in Nat /\ DOMAIN lines = 1..n /\ DOMAIN lines' = 1..(n + 1)
      /\ lines'[n + 1] = l
      /\ \A i \in 1..n : lines'[i] = lines[i]
  BY <1>0, <1>1, OneMoreLine
<1>6. \A i \in 1..n, g \in Guid :
        /\ MarkerAt(lines', i, g) <=> MarkerAt(lines, i, g)
        /\ FirstMarkerAt(lines', i, g) <=> FirstMarkerAt(lines, i, g)
        /\ GovernedBy(lines', i, g) <=> GovernedBy(lines, i, g)
  BY <1>0, <1>1, OneMoreLine
<1>7. \A g \in Guid :
        /\ MarkerAt(lines', n + 1, g) <=> l.guid = g
        /\ FirstMarkerAt(lines', n + 1, g) <=> l.guid = g /\ \A i \in 1..n : ~MarkerAt(lines, i, g)
        /\ ~GovernedBy(lines', n + 1, g)
  <2>1. \A g \in Guid : MarkerAt(lines', n + 1, g) <=> l.guid = g
    BY <1>1, <1>5 DEF MarkerAt
  <2> QED
    BY <1>0, <1>1, <2>1, OneMoreLine
<1> HIDE DEF e
<1>8. \A i \in 1..(n + 1) : i = n + 1 \/ i \in 1..n
  BY <1>5
<1>9. n + 1 \in 1..(n + 1) /\ \A i \in 1..n : i \in 1..(n + 1)
  BY <1>5
<1>10. ASSUME NEW g \in Guid
       PROVE  /\ guid_map'[g] # None <=> \E i \in 1..(n + 1) : MarkerAt(lines', i, g)
              /\ \A m \in 1..(n + 1) : FirstMarkerAt(lines', m, g) =>
                    guid_map'[g] = [debug_name |-> lines'[m].contract,
                                    generator |-> lines'[m].generator]
  <2>1. guid_map[g] # None <=> \E i \in 1..n : MarkerAt(lines, i, g)
    BY <1>5 DEF MarkersAreReplay
  <2>2. guid_map'[g] # None <=> \E i \in 1..(n + 1) : MarkerAt(lines', i, g)
    BY <1>4, <1>6, <1>7, <1>8, <1>9, <2>1
  <2>3. ASSUME NEW m \in 1..n, FirstMarkerAt(lines', m, g)
        PROVE  guid_map'[g] = [debug_name |-> lines'[m].contract,
                               generator |-> lines'[m].generator]
    <3>1. FirstMarkerAt(lines, m, g) /\ MarkerAt(lines, m, g)
      BY <1>6, <2>3 DEF FirstMarkerAt
    <3>2. guid_map[g] = [debug_name |-> lines[m].contract,
                         generator |-> lines[m].generator]
      BY <1>5, <3>1 DEF MarkersAreReplay
    <3>3. guid_map[g] # None
      BY <2>1, <3>1
    <3> QED
      BY <1>4, <1>5, <3>2, <3>3
  <2>4. ASSUME FirstMarkerAt(lines', n + 1, g)
        PROVE  guid_map'[g] = [debug_name |-> lines'[n + 1].contract,
                               generator |-> lines'[n + 1].generator]
    BY <1>4, <1>5, <1>7, <2>1, <2>4 DEF e
  <2> QED
    BY <1>8, <2>2, <2>3, <2>4
<1>11. ASSUME NEW g \in Guid
       PROVE  /\ active'[g] # None <=> \E i \in 1..(n + 1) : GovernedBy(lines', i, g)
              /\ \A i, m \in 1..(n + 1) : GovernedBy(lines', i, g) /\ FirstMarkerAt(lines', m, g) =>
                    active'[g] = [debug_name |-> lines'[m].contract,
                                  generator |-> lines'[m].generator,
                                  start_ts |-> lines'[i].ts]
  <2>1. active'[g] # None <=> \E i \in 1..(n + 1) : GovernedBy(lines', i, g)
    BY <1>3, <1>5, <1>6, <1>7, <1>8, <1>9 DEF ActiveIsReplay
  <2>2. ASSUME NEW i \in 1..(n + 1), NEW m \in 1..(n + 1),
               GovernedBy(lines', i, g), FirstMarkerAt(lines', m, g)
        PROVE  active'[g] = [debug_name |-> lines'[m].contract,
                             generator |-> lines'[m].generator,
                             start_ts |-> lines'[i].ts]
    <3>1. i \in 1..n /\ GovernedBy(lines, i, g)
      BY <1>6, <1>7, <1>8, <2>2
    <3>2. \E j \in 1..n : MarkerAt(lines, j, g)
      BY <1>5, <3>1, GovernedIsKnown
    <3>3. m \in 1..n /\ FirstMarkerAt(lines, m, g)
      BY <1>6, <1>7, <1>8, <2>2, <3>2
    <3> QED
      BY <1>3, <1>5, <3>1, <3>3 DEF ActiveIsReplay
  <2> QED
    BY <2>1, <2>2
<1> QED
  BY <1>5, <1>10, <1>11 DEF MarkersAreReplay, ActiveIsReplay

(* A line that is no marker leaves the markers as they were.               *)
LEMMA OtherLineKeepsMarkers ==
  ASSUME ReplayInv, NEW l \in Line, l.kind # "marker",
         lines' = Append(lines, l), guid_map' = guid_map
  PROVE  /\ MarkersAreReplay'
         /\ \A m \in DOMAIN lines', g \in Guid : FirstMarkerAt(lines', m, g) =>
               m \in DOMAIN lines /\ FirstMarkerAt(lines, m, g) /\ lines'[m] = lines[m]
<1> USE DEF ReplayInv
<1>0. PICK n \in Nat : n = Len(lines)
  OBVIOUS
<1>1. /\ n \in Nat /\ DOMAIN lines = 1..n /\ DOMAIN lines' = 1..(n + 1)
      /\ lines'[n + 1] = l
      /\ \A i \in 1..n : lines'[i] = lines[i]
  BY <1>0, OneMoreLine
<1>2. \A i \in 1..n, g \in Guid :
        /\ MarkerAt(lines', i, g) <=> MarkerAt(lines, i, g)
        /\ FirstMarkerAt(lines', i, g) <=> FirstMarkerAt(lines, i, g)
  BY <1>0, OneMoreLine
<1>3. \A g \in Guid : ~MarkerAt(lines', n + 1, g) /\ ~FirstMarkerAt(lines', n + 1, g)
  BY <1>1 DEF MarkerAt, FirstMarkerAt
<1>4. \A i \in 1..(n + 1) : i = n + 1 \/ i \in 1..n
  BY <1>1
<1>5. \A i \in 1..n : i \in 1..(n + 1)
  BY <1>1
<1>6. \A m \in 1..(n + 1), g \in Guid : FirstMarkerAt(lines', m, g) =>
         m \in 1..n /\ FirstMarkerAt(lines, m, g) /\ lines'[m] = lines[m]
  <2> SUFFICES ASSUME NEW m \in 1..(n + 1), NEW g \in Guid, FirstMarkerAt(lines', m, g)
               PROVE  m \in 1..n /\ FirstMarkerAt(lines, m, g) /\ lines'[m] = lines[m]
    OBVIOUS
  <2>1. m # n + 1
    BY <1>3
  <2>2. m \in 1..n
    BY <1>4, <2>1
  <2> QED
    BY <1>1, <1>2, <2>2
<1>7. MarkersAreReplay'
  <2>1. ASSUME NEW g \in Guid
        PROVE  (\E i \in 1..(n + 1) : MarkerAt(lines', i, g)) <=> \E i \in 1..n : MarkerAt(lines, i, g)
    BY <1>2, <1>3, <1>4, <1>5
  <2>2. ASSUME NEW g \in Guid, NEW m \in 1..(n + 1), FirstMarkerAt(lines', m, g)
        PROVE  guid_map[g] = [debug_name |-> lines'[m].contract,
                              generator |-> lines'[m].generator]
    <3>1. m \in DOMAIN lines /\ FirstMarkerAt(lines, m, g) /\ lines'[m] = lines[m]
      BY <1>1, <1>6, <2>2
    <3> QED
      BY <3>1 DEF MarkersAreReplay
  <2>3. \A g \in Guid : guid_map[g] # None <=> \E i \in 1..n : MarkerAt(lines, i, g)
    BY <1>1 DEF MarkersAreReplay
  <2> QED
    BY <1>1, <2>1, <2>2, <2>3 DEF MarkersAreReplay
<1> QED
  BY <1>1, <1>6, <1>7

(* An accept of a known mission governs it from now on.                    *)
LEMMA AcceptedKeepsReplay ==
  ASSUME ReplayInv, NEW l \in AcceptedLine, AcceptedUnknown(l) \/ AcceptedKnown(l),
         lines' = Append(lines, l)
  PROVE  MarkersAreReplay' /\ ActiveIsReplay'
<1> USE DEF ReplayInv
<1>0. PICK n \in Nat : n = Len(lines)
  OBVIOUS
<1>1. /\ l \in Line /\ l.kind = "accepted" /\ l.guid \in Guid /\ l.ts \in Time
      /\ guid_map' = guid_map
  BY DEF Line, AcceptedLine, AcceptedUnknown, AcceptedKnown, domainVars
<1>2. /\ MarkersAreReplay'
      /\ \A m \in DOMAIN lines', g \in Guid : FirstMarkerAt(lines', m, g) =>
            m \in DOMAIN lines /\ FirstMarkerAt(lines, m, g) /\ lines'[m] = lines[m]
  BY <1>1, OtherLineKeepsMarkers
<1>3. /\ DOMAIN lines = 1..n /\ DOMAIN lines' = 1..(n + 1)
      /\ lines'[n + 1] = l
      /\ \A i \in 1..n : lines'[i] = lines[i]
  BY <1>0, <1>1, OneMoreLine
<1>4. /\ \A i \in 1..n, g \in Guid : GovernedBy(lines', i, g) <=>
           GovernedBy(lines, i, g) /\ ~StartAt(lines', n + 1, g) /\ ~EndAt(lines', n + 1, g)
      /\ \A g \in Guid : GovernedBy(lines', n + 1, g) <=> StartAt(lines', n + 1, g)
  BY <1>0, <1>1, OneMoreLine
<1>5. \A g \in Guid : ~EndAt(lines', n + 1, g)
  BY <1>1, <1>3 DEF EndAt
<1>6. \A g \in Guid : StartAt(lines', n + 1, g) <=> l.guid = g /\ guid_map[g] # None
  <2>1. \A g \in Guid : StartAt(lines', n + 1, g) <=>
           l.kind = "accepted" /\ l.guid = g /\ \E i \in 1..n : MarkerAt(lines, i, g)
    BY <1>0, <1>1, OneMoreLine
  <2> QED
    BY <1>1, <1>3, <2>1 DEF MarkersAreReplay
<1>7. n + 1 \in 1..(n + 1) /\ \A i \in 1..(n + 1) : i = n + 1 \/ i \in 1..n
  OBVIOUS
<1>8. \A i \in 1..n : i \in 1..(n + 1)
  OBVIOUS
<1>9. ASSUME NEW g \in Guid, ~StartAt(lines', n + 1, g), active'[g] = active[g]
      PROVE  /\ active'[g] # None <=> \E i \in DOMAIN lines' : GovernedBy(lines', i, g)
             /\ \A i, m \in DOMAIN lines' : GovernedBy(lines', i, g) /\ FirstMarkerAt(lines', m, g) =>
                   active'[g] = [debug_name |-> lines'[m].contract,
                                 generator |-> lines'[m].generator,
                                 start_ts |-> lines'[i].ts]
  <2>1. \A i \in 1..n : GovernedBy(lines', i, g) <=> GovernedBy(lines, i, g)
    BY <1>4, <1>5, <1>9
  <2>2. ~GovernedBy(lines', n + 1, g)
    BY <1>4, <1>9
  <2>3. active'[g] # None <=> \E i \in 1..(n + 1) : GovernedBy(lines', i, g)
    BY <1>3, <1>7, <1>8, <1>9, <2>1, <2>2 DEF ActiveIsReplay
  <2>4. ASSUME NEW i \in DOMAIN lines', NEW m \in DOMAIN lines',
               GovernedBy(lines', i, g), FirstMarkerAt(lines', m, g)
        PROVE  active'[g] = [debug_name |-> lines'[m].contract,
                             generator |-> lines'[m].generator,
                             start_ts |-> lines'[i].ts]
    <3>1. i \in 1..n /\ GovernedBy(lines, i, g) /\ lines'[i] = lines[i]
      BY <1>3, <1>7, <2>1, <2>2, <2>4
    <3>2. m \in 1..n /\ FirstMarkerAt(lines, m, g) /\ lines'[m] = lines[m]
      BY <1>2, <1>3, <2>4
    <3> QED
      BY <1>3, <1>9, <3>1, <3>2 DEF ActiveIsReplay
  <2> QED
    BY <1>3, <2>3, <2>4
<1>10. ASSUME NEW g \in Guid, StartAt(lines', n + 1, g)
       PROVE  /\ active'[g] # None <=> \E i \in DOMAIN lines' : GovernedBy(lines', i, g)
              /\ \A i, m \in DOMAIN lines' : GovernedBy(lines', i, g) /\ FirstMarkerAt(lines', m, g) =>
                    active'[g] = [debug_name |-> lines'[m].contract,
                                  generator |-> lines'[m].generator,
                                  start_ts |-> lines'[i].ts]
  <2>1. l.guid = g /\ guid_map[g] # None
    BY <1>6, <1>10
  <2>2. active'[g] = [debug_name |-> guid_map[g].debug_name,
                      generator |-> guid_map[g].generator, start_ts |-> l.ts]
    BY <1>1, <2>1 DEF AcceptedUnknown, AcceptedKnown, TypeOK
  <2>3. active'[g] # None
    <3>1. guid_map[g] \in MissionEntry
      BY <2>1 DEF TypeOK
    <3>2. active'[g] \in ActiveMission
      BY <1>1, <2>2, <3>1 DEF MissionEntry, ActiveMission
    <3> QED
      BY <3>2, NoneAssumption
  <2>4. GovernedBy(lines', n + 1, g) /\ \A i \in 1..n : ~GovernedBy(lines', i, g)
    BY <1>4, <1>10
  <2>5. ASSUME NEW i \in DOMAIN lines', NEW m \in DOMAIN lines',
               GovernedBy(lines', i, g), FirstMarkerAt(lines', m, g)
        PROVE  active'[g] = [debug_name |-> lines'[m].contract,
                             generator |-> lines'[m].generator,
                             start_ts |-> lines'[i].ts]
    <3>1. lines'[i] = l
      BY <1>3, <1>7, <2>4, <2>5
    <3>2. m \in DOMAIN lines /\ FirstMarkerAt(lines, m, g) /\ lines'[m] = lines[m]
      BY <1>2, <2>5
    <3>3. guid_map[g] = [debug_name |-> lines'[m].contract,
                         generator |-> lines'[m].generator]
      BY <3>2 DEF MarkersAreReplay
    <3> QED
      BY <2>2, <3>1, <3>3
  <2> QED
    BY <1>3, <1>7, <2>3, <2>4, <2>5
<1>11. \A g \in Guid : ~StartAt(lines', n + 1, g) => active'[g] = active[g]
  <2>1. CASE AcceptedUnknown(l)
    BY <2>1 DEF AcceptedUnknown, domainVars
  <2>2. CASE AcceptedKnown(l)
    <3>1. guid_map[l.guid] # None
      BY <2>2 DEF AcceptedKnown
    <3>2. \A g \in Guid : g # l.guid => active'[g] = active[g]
      BY <2>2 DEF AcceptedKnown, TypeOK
    <3> QED
      BY <1>6, <3>1, <3>2
  <2> QED
    BY <2>1, <2>2
<1>12. ActiveIsReplay'
  BY <1>9, <1>10, <1>11 DEF ActiveIsReplay
<1> QED
  BY <1>2, <1>12

(* An end of a mission, whatever its completion, ends what governs it.     *)
LEMMA EndKeepsReplay ==
  ASSUME ReplayInv, NEW l \in EndLine, EndMission(l), lines' = Append(lines, l)
  PROVE  MarkersAreReplay' /\ ActiveIsReplay'
<1> USE DEF ReplayInv
<1>0. PICK n \in Nat : n = Len(lines)
  OBVIOUS
<1>1. /\ l \in Line /\ l.kind = "end" /\ l.guid \in Guid
      /\ guid_map' = guid_map
      /\ active' = [active EXCEPT ![l.guid] = None]
  BY DEF Line, EndLine, EndMission
<1>2. /\ MarkersAreReplay'
      /\ \A m \in DOMAIN lines', g \in Guid : FirstMarkerAt(lines', m, g) =>
            m \in DOMAIN lines /\ FirstMarkerAt(lines, m, g) /\ lines'[m] = lines[m]
  BY <1>1, OtherLineKeepsMarkers
<1>3. /\ DOMAIN lines = 1..n /\ DOMAIN lines' = 1..(n + 1)
      /\ lines'[n + 1] = l
      /\ \A i \in 1..n : lines'[i] = lines[i]
  BY <1>0, <1>1, OneMoreLine
<1>4. /\ \A i \in 1..n, g \in Guid : GovernedBy(lines', i, g) <=>
           GovernedBy(lines, i, g) /\ ~StartAt(lines', n + 1, g) /\ ~EndAt(lines', n + 1, g)
      /\ \A g \in Guid : GovernedBy(lines', n + 1, g) <=> StartAt(lines', n + 1, g)
      /\ \A g \in Guid : EndAt(lines', n + 1, g) <=> l.kind = "end" /\ l.guid = g
  BY <1>0, <1>1, OneMoreLine
<1>5. \A g \in Guid : ~StartAt(lines', n + 1, g)
  BY <1>1, <1>3 DEF StartAt
<1>6. /\ \A i \in 1..n, g \in Guid :
           GovernedBy(lines', i, g) <=> GovernedBy(lines, i, g) /\ g # l.guid
      /\ \A g \in Guid : ~GovernedBy(lines', n + 1, g)
  BY <1>1, <1>4, <1>5
<1>7. \A i \in 1..(n + 1) : i = n + 1 \/ i \in 1..n
  OBVIOUS
<1>8. \A i \in 1..n : i \in 1..(n + 1)
  OBVIOUS
<1>9. ASSUME NEW g \in Guid
      PROVE  /\ active'[g] # None <=> \E i \in DOMAIN lines' : GovernedBy(lines', i, g)
             /\ \A i, m \in DOMAIN lines' : GovernedBy(lines', i, g) /\ FirstMarkerAt(lines', m, g) =>
                   active'[g] = [debug_name |-> lines'[m].contract,
                                 generator |-> lines'[m].generator,
                                 start_ts |-> lines'[i].ts]
  <2>1. CASE g = l.guid
    <3>1. active'[g] = None
      BY <1>1, <2>1 DEF TypeOK
    <3>2. \A i \in DOMAIN lines' : ~GovernedBy(lines', i, g)
      BY <1>3, <1>6, <1>7, <2>1
    <3> QED
      BY <3>1, <3>2
  <2>2. CASE g # l.guid
    <3>1. active'[g] = active[g]
      BY <1>1, <2>2 DEF TypeOK
    <3>2. active'[g] # None <=> \E i \in DOMAIN lines' : GovernedBy(lines', i, g)
      BY <1>3, <1>6, <1>7, <1>8, <2>2, <3>1 DEF ActiveIsReplay
    <3>3. ASSUME NEW i \in DOMAIN lines', NEW m \in DOMAIN lines',
                 GovernedBy(lines', i, g), FirstMarkerAt(lines', m, g)
          PROVE  active'[g] = [debug_name |-> lines'[m].contract,
                               generator |-> lines'[m].generator,
                               start_ts |-> lines'[i].ts]
      <4>1. i \in 1..n /\ GovernedBy(lines, i, g) /\ lines'[i] = lines[i]
        BY <1>3, <1>6, <1>7, <3>3
      <4>2. m \in 1..n /\ FirstMarkerAt(lines, m, g) /\ lines'[m] = lines[m]
        BY <1>2, <1>3, <3>3
      <4> QED
        BY <1>3, <3>1, <4>1, <4>2 DEF ActiveIsReplay
    <3> QED
      BY <3>2, <3>3
  <2> QED
    BY <2>1, <2>2
<1> QED
  BY <1>2, <1>9 DEF ActiveIsReplay

(* A blueprint line changes neither.                                       *)
LEMMA BlueprintKeepsReplay ==
  ASSUME ReplayInv, NEW l \in BlueprintLine, Blueprint(l), lines' = Append(lines, l)
  PROVE  MarkersAreReplay' /\ ActiveIsReplay'
<1> USE DEF ReplayInv
<1>0. PICK n \in Nat : n = Len(lines)
  OBVIOUS
<1>1. /\ l \in Line /\ l.kind = "blueprint"
      /\ guid_map' = guid_map /\ active' = active
  BY DEF Line, BlueprintLine, Blueprint, domainVars
<1>2. /\ MarkersAreReplay'
      /\ \A m \in DOMAIN lines', g \in Guid : FirstMarkerAt(lines', m, g) =>
            m \in DOMAIN lines /\ FirstMarkerAt(lines, m, g) /\ lines'[m] = lines[m]
  BY <1>1, OtherLineKeepsMarkers
<1>3. /\ DOMAIN lines = 1..n /\ DOMAIN lines' = 1..(n + 1)
      /\ lines'[n + 1] = l
      /\ \A i \in 1..n : lines'[i] = lines[i]
  BY <1>0, <1>1, OneMoreLine
<1>4. /\ \A i \in 1..n, g \in Guid : GovernedBy(lines', i, g) <=>
           GovernedBy(lines, i, g) /\ ~StartAt(lines', n + 1, g) /\ ~EndAt(lines', n + 1, g)
      /\ \A g \in Guid : GovernedBy(lines', n + 1, g) <=> StartAt(lines', n + 1, g)
  BY <1>0, <1>1, OneMoreLine
<1>5. \A g \in Guid : ~StartAt(lines', n + 1, g) /\ ~EndAt(lines', n + 1, g)
  BY <1>1, <1>3 DEF StartAt, EndAt
<1>6. /\ \A i \in 1..n, g \in Guid : GovernedBy(lines', i, g) <=> GovernedBy(lines, i, g)
      /\ \A g \in Guid : ~GovernedBy(lines', n + 1, g)
  BY <1>4, <1>5
<1>7. \A i \in 1..(n + 1) : i = n + 1 \/ i \in 1..n
  OBVIOUS
<1>8. \A i \in 1..n : i \in 1..(n + 1)
  OBVIOUS
<1>9. ASSUME NEW g \in Guid
      PROVE  active[g] # None <=> \E i \in DOMAIN lines' : GovernedBy(lines', i, g)
  BY <1>3, <1>6, <1>7, <1>8 DEF ActiveIsReplay
<1>10. ASSUME NEW g \in Guid, NEW i \in DOMAIN lines', NEW m \in DOMAIN lines',
              GovernedBy(lines', i, g), FirstMarkerAt(lines', m, g)
       PROVE  active[g] = [debug_name |-> lines'[m].contract,
                           generator |-> lines'[m].generator,
                           start_ts |-> lines'[i].ts]
  <2>1. i \in 1..n /\ GovernedBy(lines, i, g) /\ lines'[i] = lines[i]
    BY <1>3, <1>6, <1>7, <1>10
  <2>2. m \in 1..n /\ FirstMarkerAt(lines, m, g) /\ lines'[m] = lines[m]
    BY <1>2, <1>3, <1>10
  <2> QED
    BY <1>3, <2>1, <2>2 DEF ActiveIsReplay
<1> QED
  BY <1>1, <1>2, <1>9, <1>10 DEF ActiveIsReplay

(* Empty containers are what an empty history prescribes: at the start and *)
(* after a reset.                                                          *)
LEMMA EmptyHistory ==
  ASSUME lines = <<>>, guid_map = [g \in Guid |-> None], active = [g \in Guid |-> None]
  PROVE  lines \in Seq(Line) /\ MarkersAreReplay /\ ActiveIsReplay
<1>1. lines \in Seq(Line) /\ DOMAIN lines = {}
  OBVIOUS
<1> QED
  BY <1>1 DEF MarkersAreReplay, ActiveIsReplay

LEMMA EmptyHistoryNext ==
  ASSUME lines' = <<>>, guid_map' = [g \in Guid |-> None], active' = [g \in Guid |-> None]
  PROVE  lines' \in Seq(Line) /\ MarkersAreReplay' /\ ActiveIsReplay'
<1>1. lines' \in Seq(Line) /\ DOMAIN lines' = {}
  OBVIOUS
<1> QED
  BY <1>1 DEF MarkersAreReplay, ActiveIsReplay

LEMMA ReplayInvInductive ==
  ASSUME ReplayInv, [ReplayNext]_replayVars
  PROVE  ReplayInv'
<1> USE DEF ReplayInv
<1>1. TypeOK'
  <2>1. CASE ReplayNext
    <3>1. Next
      BY <2>1 DEF ReplayNext, ReadMarker, ReadAccepted, ReadEnd, ReadBlueprint,
                  SessionReset, Next, process_line
    <3> QED
      BY <3>1, StepKeepsTypes
  <2>2. CASE UNCHANGED replayVars
    BY <2>2 DEF replayVars, TypeOK
  <2> QED
    BY <2>1, <2>2
<1>2. ASSUME NEW l \in Line, lines' = Append(lines, l)
      PROVE  lines' \in Seq(Line)
  BY <1>2
<1>3. CASE ReadMarker
  <2>1. PICK l \in MarkerLine : Marker(l) /\ lines' = Append(lines, l)
    BY <1>3 DEF ReadMarker
  <2>2. l \in Line
    BY DEF Line
  <2> QED
    BY <1>1, <1>2, <2>1, <2>2, MarkerKeepsReplay
<1>4. CASE ReadAccepted
  <2>1. PICK l \in AcceptedLine : /\ AcceptedUnknown(l) \/ AcceptedKnown(l)
                                  /\ lines' = Append(lines, l)
    BY <1>4 DEF ReadAccepted
  <2>2. l \in Line
    BY DEF Line
  <2> QED
    BY <1>1, <1>2, <2>1, <2>2, AcceptedKeepsReplay
<1>5. CASE ReadEnd
  <2>1. PICK l \in EndLine : EndMission(l) /\ lines' = Append(lines, l)
    BY <1>5 DEF ReadEnd
  <2>2. l \in Line
    BY DEF Line
  <2> QED
    BY <1>1, <1>2, <2>1, <2>2, EndKeepsReplay
<1>6. CASE ReadBlueprint
  <2>1. PICK l \in BlueprintLine : Blueprint(l) /\ lines' = Append(lines, l)
    BY <1>6 DEF ReadBlueprint
  <2>2. l \in Line
    BY DEF Line
  <2> QED
    BY <1>1, <1>2, <2>1, <2>2, BlueprintKeepsReplay
<1>7. CASE SessionReset
  BY <1>1, <1>7, EmptyHistoryNext DEF SessionReset, Reset
<1>8. CASE UNCHANGED replayVars
  <2>1. /\ lines' = lines /\ guid_map' = guid_map /\ active' = active
    BY <1>8 DEF replayVars
  <2>2. \A i, g : /\ MarkerAt(lines', i, g) <=> MarkerAt(lines, i, g)
                  /\ EndAt(lines', i, g) <=> EndAt(lines, i, g)
    BY <2>1 DEF MarkerAt, EndAt
  <2>3. \A i, g : /\ FirstMarkerAt(lines', i, g) <=> FirstMarkerAt(lines, i, g)
                  /\ StartAt(lines', i, g) <=> StartAt(lines, i, g)
    BY <2>1, <2>2 DEF FirstMarkerAt, StartAt, KnownBefore
  <2>4. \A i, g : GovernedBy(lines', i, g) <=> GovernedBy(lines, i, g)
    BY <2>1, <2>2, <2>3 DEF GovernedBy
  <2>5. MarkersAreReplay'
    BY <2>1, <2>2, <2>3 DEF MarkersAreReplay
  <2>6. ActiveIsReplay'
    BY <2>1, <2>3, <2>4 DEF ActiveIsReplay
  <2> QED
    BY <1>1, <2>1, <2>5, <2>6
<1> QED
  BY <1>3, <1>4, <1>5, <1>6, <1>7, <1>8 DEF ReplayNext

-----------------------------------------------------------------------------
(* For every log and every sequence of resets, the watcher's active        *)
(* missions are the ones its lines since the last reset prescribe, by the  *)
(* first marker's names and the last accept's time (domain.py:88-119).     *)
THEOREM ActiveReplayCorrect == ReplaySpec => []ActiveIsReplay
<1>1. ReplayInit => ReplayInv
  BY InitTyped, EmptyHistory DEF ReplayInit, Init, ReplayInv
<1>2. ReplayInv /\ [ReplayNext]_replayVars => ReplayInv'
  BY ReplayInvInductive
<1>3. ReplayInv => ActiveIsReplay
  BY DEF ReplayInv
<1> QED
  BY <1>1, <1>2, <1>3, PTL DEF ReplaySpec

-----------------------------------------------------------------------------
(* The deque, for logs of any length.                                      *)

(* Which line each event of the deque stems from: lines in the order of    *)
(* the events, and every other line that put an event there stands before  *)
(* them all and was evicted by a deque that is full.                       *)
StemsFrom(at) ==
  /\ \A i \in DOMAIN recent_lifecycle :
       /\ LifecycleAt(lines, at[i], recent_lifecycle[i].trigger, recent_lifecycle[i].guid)
       /\ lines[at[i]].ts = recent_lifecycle[i].ts
  /\ \A i, j \in DOMAIN recent_lifecycle : i < j => at[i] < at[j]
  /\ \A k \in DOMAIN lines : AnyLifecycleAt(lines, k) =>
       \/ \E i \in DOMAIN recent_lifecycle : at[i] = k
       \/ /\ Len(recent_lifecycle) = MAXLEN
          /\ \A i \in DOMAIN recent_lifecycle : k < at[i]

DequeIsReplay == \E at \in [DOMAIN recent_lifecycle -> DOMAIN lines] : StemsFrom(at)

(* A blueprint just read is the last line, put down to what the deque says.*)
BlueprintIsLast ==
  BlueprintJustRead =>
    /\ lines # <<>>
    /\ lines[Len(lines)].kind = "blueprint"
    /\ out.ts = lines[Len(lines)].ts
    /\ out.mission = correlate_blueprint(recent_lifecycle, out.ts)

DequeInv == ReplayInv /\ DequeIsReplay /\ BlueprintIsLast

(* One more line does not change which of the earlier put an event into    *)
(* the deque.                                                              *)
LEMMA LifecycleKept ==
  ASSUME lines \in Seq(Line), NEW l \in Line, lines' = Append(lines, l),
         NEW i \in DOMAIN lines
  PROVE  /\ \A t, g : g \in Guid => (LifecycleAt(lines', i, t, g) <=> LifecycleAt(lines, i, t, g))
         /\ AnyLifecycleAt(lines', i) <=> AnyLifecycleAt(lines, i)
         /\ lines'[i] = lines[i]
<1>0. PICK n \in Nat : n = Len(lines)
  OBVIOUS
<1>1. /\ i \in 1..n /\ lines'[i] = lines[i]
      /\ \A g \in Guid :
           /\ StartAt(lines', i, g) <=> StartAt(lines, i, g)
           /\ EndAt(lines', i, g) <=> EndAt(lines, i, g)
  BY <1>0, OneMoreLine
<1>2. ASSUME NEW t, NEW g \in Guid
      PROVE  LifecycleAt(lines', i, t, g) <=> LifecycleAt(lines, i, t, g)
  <2>1. StartAt(lines', i, g) <=> StartAt(lines, i, g)
    BY <1>1
  <2>2. EndAt(lines', i, g) <=> EndAt(lines, i, g)
    BY <1>1
  <2>3. lines'[i] = lines[i]
    BY <1>1
  <2> QED
    BY <2>1, <2>2, <2>3, Zenon DEF LifecycleAt
<1>3. AnyLifecycleAt(lines', i) <=> AnyLifecycleAt(lines, i)
  BY <1>2 DEF AnyLifecycleAt
<1> QED
  BY <1>1, <1>2, <1>3

(* A line that puts no event into the deque leaves it what it was.         *)
LEMMA QuietLineKeepsDeque ==
  ASSUME DequeInv, NEW l \in Line, lines' = Append(lines, l),
         recent_lifecycle' = recent_lifecycle,
         NEW n \in Nat, n = Len(lines), ~AnyLifecycleAt(lines', n + 1)
  PROVE  DequeIsReplay'
<1>0. PICK d : d = recent_lifecycle
  OBVIOUS
<1>1. lines \in Seq(Line) /\ d \in Seq(LifecycleEvent)
  BY <1>0 DEF DequeInv, ReplayInv, TypeOK
<1>2. DOMAIN lines = 1..n /\ DOMAIN lines' = 1..(n + 1)
  BY <1>1
<1>3. PICK at \in [DOMAIN d -> DOMAIN lines] : StemsFrom(at)
  BY <1>0 DEF DequeInv, DequeIsReplay
<1>4. \A i \in DOMAIN d : d[i].guid \in Guid /\ at[i] \in 1..n
  <2>1. \A i \in DOMAIN d : d[i] \in LifecycleEvent
    BY <1>1, ElementOfSeq
  <2> QED
    BY <1>2, <1>3, <2>1 DEF LifecycleEvent
<1>5. at \in [DOMAIN d -> DOMAIN lines']
  BY <1>2, <1>3
<1>6. ASSUME NEW i \in DOMAIN d
      PROVE  /\ LifecycleAt(lines', at[i], d[i].trigger, d[i].guid)
             /\ lines'[at[i]].ts = d[i].ts
  <2>1. LifecycleAt(lines, at[i], d[i].trigger, d[i].guid) /\ lines[at[i]].ts = d[i].ts
    BY <1>0, <1>3 DEF StemsFrom
  <2> QED
    BY <1>1, <1>2, <1>4, <2>1, LifecycleKept
<1>7. ASSUME NEW k \in 1..(n + 1), AnyLifecycleAt(lines', k)
      PROVE  \/ \E i \in DOMAIN d : at[i] = k
             \/ Len(d) = MAXLEN /\ \A i \in DOMAIN d : k < at[i]
  <2>1. k \in DOMAIN lines
    BY <1>2, <1>7
  <2>2. AnyLifecycleAt(lines, k)
    BY <1>1, <1>7, <2>1, LifecycleKept
  <2> QED
    BY <1>0, <1>3, <2>1, <2>2 DEF StemsFrom
<1>8. \A i, j \in DOMAIN d : i < j => at[i] < at[j]
  BY <1>0, <1>3 DEF StemsFrom
<1>9. StemsFrom(at)'
  BY <1>0, <1>2, <1>6, <1>7, <1>8 DEF StemsFrom
<1> QED
  BY <1>0, <1>5, <1>9 DEF DequeIsReplay

(* A line that puts an event into the deque is the one it stems from, and  *)
(* what is evicted for it stems from a line before all the others.         *)
LEMMA LoudLineKeepsDeque ==
  ASSUME DequeInv, NEW l \in Line, lines' = Append(lines, l),
         NEW e \in LifecycleEvent, e.ts = l.ts,
         recent_lifecycle' = DequeAppend(recent_lifecycle, e),
         NEW n \in Nat, n = Len(lines), LifecycleAt(lines', n + 1, e.trigger, e.guid)
  PROVE  DequeIsReplay'
<1>0. PICK d : d = recent_lifecycle
  OBVIOUS
<1>1. lines \in Seq(Line) /\ d \in Seq(LifecycleEvent) /\ Len(d) <= MAXLEN
  BY <1>0 DEF DequeInv, ReplayInv, TypeOK
<1>2. /\ DOMAIN lines = 1..n /\ DOMAIN lines' = 1..(n + 1)
      /\ lines'[n + 1] = l
  BY <1>1
<1>3. PICK D : D = recent_lifecycle'
  OBVIOUS
<1>4. PICK k \in {0, 1} : k = Evicted(d)
  BY DEF Evicted
<1>5. PICK m \in Nat : m = Len(d)
  BY <1>1
<1>6. /\ D \in Seq(LifecycleEvent)
      /\ Len(D) = m + 1 - k
      /\ D[m + 1 - k] = e
      /\ \A i \in 1..(m - k) : D[i] = d[i + k]
      /\ m + 1 - k \in Nat \ {0}
      /\ k = 1 => m = MAXLEN
      /\ k = 0 => m < MAXLEN
  <2> DEFINE E == DequeAppend(d, e)
  <2>1. D = E
    BY <1>0, <1>3
  <2>a. /\ E \in Seq(LifecycleEvent)
        /\ E[Len(E)] = e
        /\ Len(E) = Len(d) + 1 - Evicted(d)
        /\ \A i \in 1..(Len(E) - 1) : E[i] = d[i + Evicted(d)]
    BY <1>1, DequeAppendKeepsOrder
  <2> HIDE DEF E
  <2>2. /\ D \in Seq(LifecycleEvent)
        /\ D[Len(D)] = e
        /\ Len(D) = Len(d) + 1 - Evicted(d)
        /\ \A i \in 1..(Len(D) - 1) : D[i] = d[i + Evicted(d)]
    BY <2>1, <2>a
  <2>3. /\ k = 1 => m = MAXLEN
        /\ k = 0 => m < MAXLEN
    BY <1>1, <1>4, <1>5, MaxLenAssumption DEF Evicted
  <2>4. Len(D) = m + 1 - k /\ Len(D) - 1 = m - k
    BY <1>4, <1>5, <2>2
  <2>5. m + 1 - k \in Nat \ {0}
    BY <1>4, <1>5, <2>3, MaxLenAssumption
  <2> QED
    BY <1>4, <2>2, <2>3, <2>4, <2>5
<1>7. PICK at \in [DOMAIN d -> DOMAIN lines] : StemsFrom(at)
  BY <1>0 DEF DequeInv, DequeIsReplay
<1>8. DOMAIN d = 1..m /\ DOMAIN D = 1..(m + 1 - k)
  BY <1>1, <1>5, <1>6
<1>9. \A i \in 1..m : d[i].guid \in Guid /\ at[i] \in 1..n
  <2>1. \A i \in DOMAIN d : d[i] \in LifecycleEvent
    BY <1>1, ElementOfSeq
  <2> QED
    BY <1>2, <1>7, <1>8, <2>1 DEF LifecycleEvent
<1>a. PICK At : At = [i \in 1..(m + 1 - k) |->
                        IF i = m + 1 - k THEN n + 1 ELSE at[i + k]]
  OBVIOUS
<1>10. \A i \in 1..(m + 1 - k) : i = m + 1 - k \/ (i \in 1..(m - k) /\ i + k \in 1..m)
  BY <1>6
<1>11. /\ At[m + 1 - k] = n + 1
       /\ \A i \in 1..(m - k) : At[i] = at[i + k]
  BY <1>a, <1>6
<1>12. At \in [DOMAIN D -> DOMAIN lines']
  <2>1. \A i \in 1..(m + 1 - k) : At[i] \in 1..(n + 1)
    BY <1>4, <1>5, <1>9, <1>10, <1>11
  <2> QED
    BY <1>a, <1>2, <1>8, <2>1
<1>13. ASSUME NEW i \in DOMAIN D
       PROVE  /\ LifecycleAt(lines', At[i], D[i].trigger, D[i].guid)
              /\ lines'[At[i]].ts = D[i].ts
  <2>1. CASE i = m + 1 - k
    BY <1>2, <1>6, <1>11, <2>1
  <2>2. CASE i # m + 1 - k
    <3>1. i \in 1..(m - k) /\ i + k \in 1..m /\ D[i] = d[i + k] /\ At[i] = at[i + k]
      BY <1>6, <1>8, <1>10, <1>11, <2>2
    <3>2. PICK j \in DOMAIN d : j = i + k
      BY <1>8, <3>1
    <3>3. LifecycleAt(lines, at[j], d[j].trigger, d[j].guid) /\ lines[at[j]].ts = d[j].ts
      BY <1>0, <1>7 DEF StemsFrom
    <3>4. at[j] \in DOMAIN lines /\ d[j].guid \in Guid
      BY <1>2, <1>8, <1>9, <3>2
    <3>5. /\ LifecycleAt(lines', at[j], d[j].trigger, d[j].guid)
          /\ lines'[at[j]].ts = d[j].ts
      BY <1>1, <3>3, <3>4, LifecycleKept
    <3> QED
      BY <3>1, <3>2, <3>5
  <2> QED
    BY <2>1, <2>2
<1>14. ASSUME NEW i \in DOMAIN D, NEW j \in DOMAIN D, i < j
       PROVE  At[i] < At[j]
  <2>0. i # m + 1 - k
    BY <1>4, <1>5, <1>6, <1>8, <1>14
  <2>1. i \in 1..(m - k) /\ i + k \in 1..m /\ At[i] = at[i + k] /\ at[i + k] \in 1..n
    BY <1>8, <1>9, <1>10, <1>11, <2>0
  <2>2. CASE j = m + 1 - k
    BY <1>11, <2>1, <2>2
  <2>3. CASE j # m + 1 - k
    <3>1. j \in 1..(m - k) /\ j + k \in 1..m
      BY <1>8, <1>10, <2>3
    <3>2. At[j] = at[j + k]
      BY <1>11, <3>1
    <3>3. i + k < j + k
      BY <1>4, <1>14, <2>1, <3>1
    <3>4. \A a, b \in DOMAIN d : a < b => at[a] < at[b]
      BY <1>0, <1>7 DEF StemsFrom
    <3> QED
      BY <1>8, <2>1, <3>1, <3>2, <3>3, <3>4
  <2> QED
    BY <2>2, <2>3
<1>15. ASSUME NEW p \in 1..(n + 1), AnyLifecycleAt(lines', p)
       PROVE  \/ \E i \in DOMAIN D : At[i] = p
              \/ Len(D) = MAXLEN /\ \A i \in DOMAIN D : p < At[i]
  <2>1. CASE p = n + 1
    BY <1>4, <1>5, <1>6, <1>8, <1>11, <2>1
  <2>2. CASE p # n + 1
    <3>1. p \in DOMAIN lines /\ AnyLifecycleAt(lines, p)
      <4>1. p \in DOMAIN lines
        BY <1>2, <2>2
      <4> QED
        BY <1>1, <1>15, <4>1, LifecycleKept
    <3>2. CASE \E i \in DOMAIN d : at[i] = p /\ i > k
      <4>1. PICK i \in 1..m : at[i] = p /\ i > k
        BY <1>8, <3>2
      <4>2. i - k \in 1..(m - k) /\ (i - k) + k = i /\ i - k \in 1..(m + 1 - k)
        BY <4>1
      <4>3. At[i - k] = p
        BY <1>11, <4>1, <4>2
      <4> QED
        BY <1>8, <4>2, <4>3
    <3>3. CASE \A i \in DOMAIN d : at[i] # p \/ i <= k
      <4>1. \/ k = 1 /\ at[1] = p /\ m = MAXLEN
            \/ m = MAXLEN /\ \A i \in DOMAIN d : p < at[i]
        <5>1. \/ \E i \in DOMAIN d : at[i] = p
              \/ m = MAXLEN /\ \A i \in DOMAIN d : p < at[i]
          BY <1>0, <1>5, <1>7, <3>1 DEF StemsFrom
        <5> QED
          BY <1>6, <1>8, <3>3, <5>1
      <4>2. k = 1 /\ m = MAXLEN /\ Len(D) = MAXLEN
        BY <1>6, <4>1, MaxLenAssumption
      <4>3. \A i \in 1..m : 1 < i => at[1] < at[i]
        <5>1. \A i, j \in DOMAIN d : i < j => at[i] < at[j]
          BY <1>0, <1>7 DEF StemsFrom
        <5>2. 1 \in DOMAIN d
          BY <1>5, <1>8, <4>2, MaxLenAssumption
        <5> QED
          BY <1>8, <5>1, <5>2
      <4>4. \A i \in 1..m : 1 < i => p < at[i]
        BY <1>8, <4>1, <4>3
      <4>5. ASSUME NEW i \in DOMAIN D
            PROVE  p < At[i]
        <5>1. CASE i = m + 1 - k
          BY <1>11, <2>2, <5>1
        <5>2. CASE i # m + 1 - k
          <6>1. i \in 1..(m - k) /\ i + k \in 1..m
            BY <1>8, <1>10, <5>2
          <6>2. At[i] = at[i + k]
            BY <1>11, <6>1
          <6>3. 1 < i + k
            BY <4>2, <6>1
          <6> QED
            BY <4>4, <6>1, <6>2, <6>3
        <5> QED
          BY <5>1, <5>2
      <4> QED
        BY <4>2, <4>5
    <3> QED
      BY <1>4, <1>8, <3>2, <3>3
  <2> QED
    BY <2>1, <2>2
<1>16. StemsFrom(At)'
  BY <1>2, <1>3, <1>13, <1>14, <1>15 DEF StemsFrom
<1> QED
  BY <1>3, <1>12, <1>16 DEF DequeIsReplay

(* What the line appended may put into the deque.                          *)
LEMMA LifecycleOfLine ==
  ASSUME ReplayInv, NEW l \in Line, lines' = Append(lines, l),
         NEW n \in Nat, n = Len(lines), NEW g \in Guid
  PROVE  /\ LifecycleAt(lines', n + 1, "accept", g) <=>
              l.kind = "accepted" /\ l.guid = g /\ guid_map[g] # None
         /\ LifecycleAt(lines', n + 1, "complete", g) <=>
              l.kind = "end" /\ l.guid = g /\ l.completion = "Complete"
<1>1. lines \in Seq(Line) /\ DOMAIN lines = 1..n /\ lines'[n + 1] = l
  BY DEF ReplayInv
<1>2. /\ StartAt(lines', n + 1, g) <=>
           l.kind = "accepted" /\ l.guid = g /\ \E i \in 1..n : MarkerAt(lines, i, g)
      /\ EndAt(lines', n + 1, g) <=> l.kind = "end" /\ l.guid = g
  BY <1>1, OneMoreLine
<1>3. guid_map[g] # None <=> \E i \in 1..n : MarkerAt(lines, i, g)
  BY <1>1 DEF ReplayInv, MarkersAreReplay
<1>4. /\ LifecycleAt(lines', n + 1, "accept", g) <=> StartAt(lines', n + 1, g)
      /\ LifecycleAt(lines', n + 1, "complete", g) <=>
           EndAt(lines', n + 1, g) /\ lines'[n + 1].completion = "Complete"
  BY DEF LifecycleAt
<1> QED
  BY <1>1, <1>2, <1>3, <1>4

LEMMA DequeOfEmptyHistory ==
  ASSUME lines = <<>>, recent_lifecycle = <<>>
  PROVE  DequeIsReplay
<1>1. DOMAIN lines = {} /\ DOMAIN recent_lifecycle = {}
  OBVIOUS
<1>2. [i \in {} |-> i] \in [DOMAIN recent_lifecycle -> DOMAIN lines]
  BY <1>1
<1>3. StemsFrom([i \in {} |-> i])
  BY <1>1 DEF StemsFrom
<1> QED
  BY <1>2, <1>3 DEF DequeIsReplay

LEMMA DequeOfEmptyHistoryNext ==
  ASSUME lines' = <<>>, recent_lifecycle' = <<>>
  PROVE  DequeIsReplay'
<1>1. DOMAIN lines' = {} /\ DOMAIN recent_lifecycle' = {}
  OBVIOUS
<1>2. [i \in {} |-> i] \in [DOMAIN recent_lifecycle' -> DOMAIN lines']
  BY <1>1
<1>3. StemsFrom([i \in {} |-> i])'
  BY <1>1 DEF StemsFrom
<1> QED
  BY <1>2, <1>3 DEF DequeIsReplay

(* Every line, and the reset, keeps what is said of the deque.             *)
LEMMA DequeInvInductive ==
  ASSUME DequeInv, [ReplayNext]_replayVars
  PROVE  DequeInv'
<1>0. PICK n \in Nat : n = Len(lines)
  BY DEF DequeInv, ReplayInv
<1>1. ReplayInv /\ ReplayInv'
  BY ReplayInvInductive DEF DequeInv
<1>2. ASSUME NEW l \in Line, lines' = Append(lines, l), recent_lifecycle' = recent_lifecycle,
             l.kind = "accepted" => guid_map[l.guid] = None,
             l.kind = "end" => l.completion # "Complete"
      PROVE  DequeIsReplay'
  <2>1. ASSUME NEW g \in Guid
        PROVE  /\ ~LifecycleAt(lines', n + 1, "accept", g)
               /\ ~LifecycleAt(lines', n + 1, "complete", g)
    BY <1>0, <1>1, <1>2, LifecycleOfLine
  <2>2. ~AnyLifecycleAt(lines', n + 1)
    BY <2>1 DEF AnyLifecycleAt
  <2> QED
    BY <1>0, <1>2, <2>2, QuietLineKeepsDeque
<1>3. ASSUME out' = None \/ out'.type # "blueprint_received"
      PROVE  BlueprintIsLast'
  BY <1>3 DEF BlueprintIsLast, BlueprintJustRead
<1>4. CASE ReadMarker
  <2>1. PICK l \in MarkerLine : Marker(l) /\ lines' = Append(lines, l)
    BY <1>4 DEF ReadMarker
  <2>2. l \in Line /\ l.kind = "marker"
    BY DEF Line, MarkerLine
  <2>3. recent_lifecycle' = recent_lifecycle /\ out' = None
    BY <2>1 DEF Marker
  <2> QED
    BY <1>1, <1>2, <1>3, <2>1, <2>2, <2>3 DEF DequeInv
<1>5. CASE ReadAccepted
  <2>1. PICK l \in AcceptedLine : /\ AcceptedUnknown(l) \/ AcceptedKnown(l)
                                  /\ lines' = Append(lines, l)
    BY <1>5 DEF ReadAccepted
  <2>2. l \in Line /\ l.kind = "accepted" /\ l.guid \in Guid /\ l.ts \in Time
    BY DEF Line, AcceptedLine
  <2>3. CASE AcceptedUnknown(l)
    <3>1. recent_lifecycle' = recent_lifecycle /\ out' = None /\ guid_map[l.guid] = None
      BY <2>3 DEF AcceptedUnknown, domainVars
    <3> QED
      BY <1>1, <1>2, <1>3, <2>1, <2>2, <3>1 DEF DequeInv
  <2>4. CASE AcceptedKnown(l)
    <3> DEFINE e == [trigger |-> "accept", guid |-> l.guid,
                     debug_name |-> guid_map[l.guid].debug_name, ts |-> l.ts]
    <3>1. /\ guid_map[l.guid] # None
          /\ recent_lifecycle' = DequeAppend(recent_lifecycle, e)
          /\ out'.type = "mission_start"
      BY <2>4 DEF AcceptedKnown
    <3>2. guid_map[l.guid] \in MissionEntry
      BY <1>1, <2>2, <3>1 DEF ReplayInv, TypeOK
    <3>3. PICK f : f = e
      OBVIOUS
    <3>4. /\ f \in LifecycleEvent /\ f.ts = l.ts
          /\ f.trigger = "accept" /\ f.guid = l.guid
      BY <2>2, <3>2, <3>3 DEF MissionEntry, LifecycleEvent
    <3>5. recent_lifecycle' = DequeAppend(recent_lifecycle, f)
      BY <3>1, <3>3
    <3> HIDE DEF e
    <3>6. LifecycleAt(lines', n + 1, "accept", l.guid)
      BY <1>0, <1>1, <2>1, <2>2, <3>1, LifecycleOfLine
    <3>7. LifecycleAt(lines', n + 1, f.trigger, f.guid)
      BY <3>4, <3>6
    <3>8. DequeIsReplay'
      BY <1>0, <2>1, <2>2, <3>4, <3>5, <3>7, LoudLineKeepsDeque
    <3> QED
      BY <1>1, <1>3, <3>1, <3>8 DEF DequeInv
  <2> QED
    BY <2>1, <2>3, <2>4
<1>6. CASE ReadEnd
  <2>1. PICK l \in EndLine : EndMission(l) /\ lines' = Append(lines, l)
    BY <1>6 DEF ReadEnd
  <2>2. l \in Line /\ l.kind = "end" /\ l.guid \in Guid /\ l.ts \in Time
    BY DEF Line, EndLine
  <2>3. BlueprintIsLast'
    <3>1. out'.type \in {"mission_complete", "mission_ended"}
      BY <2>1 DEF EndMission
    <3> QED
      BY <1>3, <3>1
  <2>4. CASE l.completion # "Complete"
    <3>1. recent_lifecycle' = recent_lifecycle
      BY <2>1, <2>4 DEF EndMission
    <3> QED
      BY <1>1, <1>2, <2>1, <2>2, <2>3, <2>4, <3>1 DEF DequeInv
  <2>5. CASE l.completion = "Complete"
    <3>1. PICK f : f = [trigger |-> "complete", guid |-> l.guid,
                        debug_name |-> EndedName(l.guid, "?"), ts |-> l.ts]
      OBVIOUS
    <3>2. EndedName(l.guid, "?") \in Contract \cup {"?"}
      BY <1>1, <2>2, NameTyped DEF ReplayInv
    <3>3. /\ f \in LifecycleEvent /\ f.ts = l.ts
          /\ f.trigger = "complete" /\ f.guid = l.guid
      BY <2>2, <3>1, <3>2 DEF LifecycleEvent
    <3>4. recent_lifecycle' = DequeAppend(recent_lifecycle, f)
      BY <2>1, <2>5, <3>1 DEF EndMission
    <3>5. LifecycleAt(lines', n + 1, "complete", l.guid)
      BY <1>0, <1>1, <2>1, <2>2, <2>5, LifecycleOfLine
    <3>6. LifecycleAt(lines', n + 1, f.trigger, f.guid)
      BY <3>3, <3>5
    <3>7. DequeIsReplay'
      BY <1>0, <2>1, <2>2, <3>3, <3>4, <3>6, LoudLineKeepsDeque
    <3> QED
      BY <1>1, <2>3, <3>7 DEF DequeInv
  <2> QED
    BY <2>4, <2>5
<1>7. CASE ReadBlueprint
  <2>1. PICK l \in BlueprintLine : Blueprint(l) /\ lines' = Append(lines, l)
    BY <1>7 DEF ReadBlueprint
  <2>2. l \in Line /\ l.kind = "blueprint"
    BY DEF Line, BlueprintLine
  <2>3. recent_lifecycle' = recent_lifecycle
    BY <2>1 DEF Blueprint, domainVars
  <2>4. DequeIsReplay'
    BY <1>2, <2>1, <2>2, <2>3
  <2>5. lines' # <<>> /\ lines'[Len(lines')] = l
    BY <1>1, <2>1, <2>2 DEF ReplayInv
  <2>6. /\ out'.ts = l.ts
        /\ out'.mission = correlate_blueprint(recent_lifecycle', l.ts)
    BY <2>1, <2>3 DEF Blueprint
  <2>7. BlueprintIsLast'
    BY <2>2, <2>5, <2>6 DEF BlueprintIsLast
  <2> QED
    BY <1>1, <2>4, <2>7 DEF DequeInv
<1>8. CASE SessionReset
  <2>1. lines' = <<>> /\ recent_lifecycle' = <<>> /\ out'.type = "session_reset"
    BY <1>8 DEF SessionReset, Reset
  <2>2. DequeIsReplay'
    BY <2>1, DequeOfEmptyHistoryNext
  <2> QED
    BY <1>1, <1>3, <2>1, <2>2 DEF DequeInv
<1>9. CASE UNCHANGED replayVars
  <2>1. lines' = lines /\ recent_lifecycle' = recent_lifecycle /\ out' = out
    BY <1>9 DEF replayVars
  <2>2. \A i, t, g : LifecycleAt(lines', i, t, g) <=> LifecycleAt(lines, i, t, g)
    BY <2>1 DEF LifecycleAt, StartAt, EndAt, KnownBefore, MarkerAt
  <2>3. \A i : AnyLifecycleAt(lines', i) <=> AnyLifecycleAt(lines, i)
    BY <2>2 DEF AnyLifecycleAt
  <2>4. \A at : StemsFrom(at)' <=> StemsFrom(at)
    BY <2>1, <2>2, <2>3 DEF StemsFrom
  <2>5. DequeIsReplay'
    BY <2>1, <2>4 DEF DequeInv, DequeIsReplay
  <2>6. BlueprintIsLast'
    BY <2>1 DEF DequeInv, BlueprintIsLast, BlueprintJustRead
  <2> QED
    BY <1>1, <2>5, <2>6 DEF DequeInv
<1> QED
  BY <1>4, <1>5, <1>6, <1>7, <1>8, <1>9 DEF ReplayNext

LEMMA DequeInvHolds == ReplaySpec => []DequeInv
<1>1. ReplayInit => DequeInv
  <2> SUFFICES ASSUME ReplayInit
               PROVE  DequeInv
    OBVIOUS
  <2>1. ReplayInv
    BY InitTyped, EmptyHistory DEF ReplayInit, Init, ReplayInv
  <2>2. DequeIsReplay
    BY DequeOfEmptyHistory DEF ReplayInit, Init
  <2>3. BlueprintIsLast
    BY DEF ReplayInit, Init, BlueprintIsLast, BlueprintJustRead
  <2> QED
    BY <2>1, <2>2, <2>3 DEF DequeInv
<1>2. DequeInv /\ [ReplayNext]_replayVars => DequeInv'
  BY DequeInvInductive
<1> QED
  BY <1>1, <1>2, PTL DEF ReplaySpec

-----------------------------------------------------------------------------
(* The closest event is one of the window, and none of the window is later.*)
LEMMA CorrelationIsClosest ==
  ASSUME NEW d \in Seq(LifecycleEvent), NEW ts \in Time
  PROVE  /\ InWindow(d, ts) = {} => correlate_blueprint(d, ts) = None
         /\ InWindow(d, ts) # {} =>
              \E i \in InWindow(d, ts) :
                 /\ correlate_blueprint(d, ts) = d[i]
                 /\ \A j \in InWindow(d, ts) : d[j].ts <= d[i].ts
<1>1. CASE InWindow(d, ts) = {}
  BY <1>1 DEF correlate_blueprint
<1>2. CASE InWindow(d, ts) # {}
  <2> DEFINE Best(i) == \A j \in InWindow(d, ts) :
                          d[j].ts < d[i].ts \/ (d[j].ts = d[i].ts /\ i <= j)
             b == CHOOSE i \in InWindow(d, ts) : Best(i)
  <2>1. \E i \in InWindow(d, ts) : Best(i)
    BY <1>2, ClosestExists
  <2>2. b \in InWindow(d, ts) /\ Best(b)
    BY <2>1
  <2>3. correlate_blueprint(d, ts) = d[b]
    BY <1>2 DEF correlate_blueprint
  <2>4. \A j \in InWindow(d, ts) : d[j].ts \in Int
    <3>1. \A j \in InWindow(d, ts) : d[j] \in LifecycleEvent
      BY ElementOfSeq DEF InWindow
    <3> QED
      BY <3>1, TimeAssumption DEF LifecycleEvent
  <2>5. \A j \in InWindow(d, ts) : d[j].ts <= d[b].ts
    BY <2>2, <2>4
  <2> QED
    BY <1>2, <2>2, <2>3, <2>5
<1> QED
  BY <1>1, <1>2

(* A line that puts an event into the deque carries a time.                *)
LEMMA LifecycleTimed ==
  ASSUME lines \in Seq(Line), NEW i \in DOMAIN lines, AnyLifecycleAt(lines, i)
  PROVE  lines[i].kind \in {"accepted", "end"} /\ Timed(lines, i) /\ lines[i].ts \in Int
<1>1. lines[i] \in Line
  OBVIOUS
<1>2. lines[i].kind \in {"accepted", "end"}
  BY DEF AnyLifecycleAt, LifecycleAt, StartAt, EndAt
<1>3. lines[i].ts \in Time
  BY <1>1, <1>2 DEF Line, MarkerLine, AcceptedLine, EndLine, BlueprintLine
<1> QED
  BY <1>2, <1>3, TimeAssumption DEF Timed

(* The events of the deque, one by one.                                    *)
LEMMA DequeEvents ==
  ASSUME DequeInv,
         NEW at \in [DOMAIN recent_lifecycle -> DOMAIN lines], StemsFrom(at),
         NEW k \in DOMAIN recent_lifecycle
  PROVE  /\ recent_lifecycle[k] \in LifecycleEvent
         /\ recent_lifecycle[k].ts \in Int
         /\ LifecycleAt(lines, at[k], recent_lifecycle[k].trigger, recent_lifecycle[k].guid)
         /\ lines[at[k]].ts = recent_lifecycle[k].ts
         /\ at[k] \in DOMAIN lines /\ AnyLifecycleAt(lines, at[k])
<1>0. recent_lifecycle \in Seq(LifecycleEvent)
  BY DEF DequeInv, ReplayInv, TypeOK
<1>1. PICK e : e = recent_lifecycle[k]
  OBVIOUS
<1>2. e \in LifecycleEvent
  BY <1>0, <1>1, ElementOfSeq
<1>3. e.trigger \in {"accept", "complete"} /\ e.guid \in Guid /\ e.ts \in Int
  BY <1>2, TimeAssumption DEF LifecycleEvent
<1>4. LifecycleAt(lines, at[k], e.trigger, e.guid) /\ lines[at[k]].ts = e.ts
  BY <1>1 DEF StemsFrom
<1>5. AnyLifecycleAt(lines, at[k])
  BY <1>3, <1>4 DEF AnyLifecycleAt
<1> QED
  BY <1>1, <1>2, <1>3, <1>4, <1>5

(* What the deque answers to a blueprint of time ts happened.              *)
LEMMA DequeAnswersHappened ==
  ASSUME DequeInv, NEW ts \in Time,
         NEW e, e = correlate_blueprint(recent_lifecycle, ts), e # None
  PROVE  \E i \in DOMAIN lines :
            /\ e \in LifecycleEvent
            /\ LifecycleAt(lines, i, e.trigger, e.guid)
            /\ AnyLifecycleAt(lines, i)
            /\ lines[i].ts = e.ts
            /\ ts - lines[i].ts \in 0..WINDOW
<1> DEFINE d == recent_lifecycle
<1>1. d \in Seq(LifecycleEvent)
  BY DEF DequeInv, ReplayInv, TypeOK
<1>2. PICK b \in InWindow(d, ts) : e = d[b]
  BY <1>1, CorrelationIsClosest
<1>3. PICK at \in [DOMAIN d -> DOMAIN lines] : StemsFrom(at)
  BY DEF DequeInv, DequeIsReplay
<1>4. b \in DOMAIN d /\ ts - d[b].ts \in 0..WINDOW
  BY <1>2 DEF InWindow
<1>5. /\ e \in LifecycleEvent
      /\ LifecycleAt(lines, at[b], e.trigger, e.guid)
      /\ lines[at[b]].ts = e.ts
      /\ at[b] \in DOMAIN lines /\ AnyLifecycleAt(lines, at[b])
  BY <1>2, <1>3, <1>4, DequeEvents
<1> QED
  BY <1>2, <1>4, <1>5

(* When no line is later than ts, and the log's times run forward, the     *)
(* deque answers the last of the whole log that is in the window.          *)
LEMMA DequeAnswersLast ==
  ASSUME DequeInv, NEW ts \in Time, InOrder(lines),
         \A j \in DOMAIN lines : Timed(lines, j) => lines[j].ts <= ts,
         NEW i \in DOMAIN lines, AnyLifecycleAt(lines, i),
         ts - lines[i].ts \in 0..WINDOW,
         NEW e, e = correlate_blueprint(recent_lifecycle, ts)
  PROVE  e # None /\ lines[i].ts <= e.ts
<1> DEFINE d == recent_lifecycle
<1>1. d \in Seq(LifecycleEvent) /\ lines \in Seq(Line) /\ ts \in Int
  BY TimeAssumption DEF DequeInv, ReplayInv, TypeOK
<1>3. PICK at \in [DOMAIN d -> DOMAIN lines] : StemsFrom(at)
  BY DEF DequeInv, DequeIsReplay
<1>4. lines[i].ts \in Int /\ Timed(lines, i)
  BY <1>1, LifecycleTimed
<1>5. ASSUME NEW k \in DOMAIN d
      PROVE  /\ d[k] \in LifecycleEvent /\ d[k].ts \in Int
             /\ lines[at[k]].ts = d[k].ts
             /\ at[k] \in DOMAIN lines /\ Timed(lines, at[k])
  <2>1. /\ d[k] \in LifecycleEvent /\ d[k].ts \in Int
        /\ lines[at[k]].ts = d[k].ts
        /\ at[k] \in DOMAIN lines /\ AnyLifecycleAt(lines, at[k])
    BY <1>3, DequeEvents
  <2>2. Timed(lines, at[k])
    BY <1>1, <2>1, LifecycleTimed
  <2> QED
    BY <2>1, <2>2
<1>6. \E k \in InWindow(d, ts) : lines[i].ts <= d[k].ts
  <2>1. CASE \E k \in DOMAIN d : at[k] = i
    <3>1. PICK k \in DOMAIN d : at[k] = i
      BY <2>1
    <3>2. d[k].ts = lines[i].ts
      BY <1>5, <3>1
    <3>3. k \in InWindow(d, ts)
      BY <3>1, <3>2 DEF InWindow
    <3> QED
      BY <1>4, <3>2, <3>3
  <2>2. CASE ~ \E k \in DOMAIN d : at[k] = i
    <3>1. Len(d) = MAXLEN /\ \A k \in DOMAIN d : i < at[k]
      BY <1>3, <1>4, <2>2 DEF StemsFrom
    <3>2. 1 \in DOMAIN d
      BY <1>1, <3>1, MaxLenAssumption
    <3>3. i < at[1] /\ at[1] \in DOMAIN lines /\ Timed(lines, at[1])
      BY <1>5, <3>1, <3>2
    <3>4. lines[i].ts <= lines[at[1]].ts /\ lines[at[1]].ts <= ts
      BY <1>4, <3>3 DEF InOrder
    <3>5. lines[i].ts <= d[1].ts /\ d[1].ts <= ts /\ d[1].ts \in Int
      BY <1>5, <3>2, <3>4
    <3>6. ts - d[1].ts \in 0..WINDOW
      <4>1. PICK x \in Int : x = lines[i].ts
        BY <1>4
      <4>2. PICK y \in Int : y = d[1].ts
        BY <3>5
      <4>3. x <= y /\ y <= ts /\ ts \in Int
        BY <1>1, <3>5, <4>1, <4>2
      <4>4. ts - x \in 0..WINDOW
        BY <4>1
      <4>5. ts - y \in 0..WINDOW
        BY <4>1, <4>2, <4>3, <4>4, WindowAssumption
      <4> QED
        BY <4>2, <4>5
    <3> QED
      BY <3>2, <3>5, <3>6 DEF InWindow
  <2> QED
    BY <2>1, <2>2
<1>7. PICK k \in InWindow(d, ts) : lines[i].ts <= d[k].ts
  BY <1>6
<1>8. PICK b \in InWindow(d, ts) : e = d[b] /\ \A j \in InWindow(d, ts) : d[j].ts <= d[b].ts
  BY <1>1, <1>7, CorrelationIsClosest
<1>9. b \in DOMAIN d /\ k \in DOMAIN d
  BY <1>7, <1>8 DEF InWindow
<1>10. lines[i].ts <= d[b].ts
  <2>1. d[k].ts <= d[b].ts
    BY <1>7, <1>8
  <2> QED
    BY <1>4, <1>5, <1>7, <1>9, <2>1
<1> QED
  BY <1>5, <1>8, <1>9, <1>10, NoneAssumption

-----------------------------------------------------------------------------
(* What the invariant gives when a blueprint was just read.                *)
LEMMA BlueprintRead ==
  ASSUME DequeInv, BlueprintJustRead, NEW n \in Nat, n = Len(lines)
  PROVE  /\ n >= 1 /\ DOMAIN lines = 1..n
         /\ lines[n].kind = "blueprint" /\ lines[n].ts = out.ts
         /\ out.ts \in Time
         /\ out.mission = correlate_blueprint(recent_lifecycle, out.ts)
         /\ \A i \in DOMAIN lines : AnyLifecycleAt(lines, i) => i \in 1..(n - 1)
<1>1. lines \in Seq(Line)
  BY DEF DequeInv, ReplayInv
<1>2. /\ lines # <<>> /\ lines[n].kind = "blueprint" /\ lines[n].ts = out.ts
      /\ out.mission = correlate_blueprint(recent_lifecycle, out.ts)
  BY DEF DequeInv, BlueprintIsLast
<1>3. n >= 1 /\ DOMAIN lines = 1..n
  BY <1>1, <1>2
<1>4. lines[n] \in Line
  BY <1>1, <1>3
<1>5. lines[n].ts \in Time
  BY <1>2, <1>4 DEF Line, MarkerLine, AcceptedLine, EndLine, BlueprintLine
<1>6. ASSUME NEW i \in DOMAIN lines, AnyLifecycleAt(lines, i)
      PROVE  i \in 1..(n - 1)
  <2>1. lines[i].kind \in {"accepted", "end"}
    BY <1>1, <1>6, LifecycleTimed
  <2>2. i # n
    BY <1>2, <2>1
  <2> QED
    BY <1>3, <2>2
<1> QED
  BY <1>2, <1>3, <1>5, <1>6

LEMMA DequeEventsHappened ==
  ASSUME DequeInv, BlueprintJustRead
  PROVE  AttributionHappened
<1> SUFFICES ASSUME out.mission # None
             PROVE  \E i \in 1..(Len(lines) - 1) :
                       /\ LifecycleAt(lines, i, out.mission.trigger, out.mission.guid)
                       /\ lines[i].ts = out.mission.ts
                       /\ out.ts - lines[i].ts \in 0..WINDOW
  BY DEF AttributionHappened
<1>0. PICK n \in Nat : n = Len(lines)
  BY DEF DequeInv, ReplayInv
<1>1. /\ out.ts \in Time
      /\ out.mission = correlate_blueprint(recent_lifecycle, out.ts)
      /\ \A i \in DOMAIN lines : AnyLifecycleAt(lines, i) => i \in 1..(n - 1)
  BY <1>0, BlueprintRead
<1>2. PICK i \in DOMAIN lines :
         /\ LifecycleAt(lines, i, out.mission.trigger, out.mission.guid)
         /\ AnyLifecycleAt(lines, i)
         /\ lines[i].ts = out.mission.ts
         /\ out.ts - lines[i].ts \in 0..WINDOW
  BY <1>1, DequeAnswersHappened
<1> QED
  BY <1>0, <1>1, <1>2

LEMMA EvictedAreNotCloser ==
  ASSUME DequeInv, BlueprintJustRead
  PROVE  EvictionCostsNothing
<1>0. PICK n \in Nat : n = Len(lines)
  BY DEF DequeInv, ReplayInv
<1> SUFFICES ASSUME InOrder(lines), NEW i \in 1..(n - 1), AnyLifecycleAt(lines, i),
                    out.ts - lines[i].ts \in 0..WINDOW
             PROVE  out.mission # None /\ lines[i].ts <= out.mission.ts
  BY <1>0 DEF EvictionCostsNothing
<1>1. /\ n >= 1 /\ DOMAIN lines = 1..n
      /\ lines[n].kind = "blueprint" /\ lines[n].ts = out.ts
      /\ out.ts \in Time /\ out.ts \in Int
      /\ out.mission = correlate_blueprint(recent_lifecycle, out.ts)
  BY <1>0, BlueprintRead, TimeAssumption
<1>2. \A j \in DOMAIN lines : Timed(lines, j) => lines[j].ts <= out.ts
  <2>1. n \in DOMAIN lines /\ Timed(lines, n)
    BY <1>1 DEF Timed
  <2>2. \A j \in DOMAIN lines : j = n \/ j < n
    BY <1>1
  <2> QED
    BY <1>1, <2>1, <2>2 DEF InOrder
<1>3. i \in DOMAIN lines
  BY <1>1
<1> QED
  BY <1>1, <1>2, <1>3, DequeAnswersLast

(* However long the log and whatever its times, a blueprint is only put    *)
(* down to an accept or a completion that the log holds before it, in the  *)
(* window (domain.py:121-130, 190-203).                                    *)
THEOREM AttributionCorrect == ReplaySpec => []AttributionHappened
<1>1. DequeInv => AttributionHappened
  BY DequeEventsHappened DEF AttributionHappened
<1> QED
  BY <1>1, DequeInvHolds, PTL

(* Whatever the bound of the deque and the width of the window, a log whose*)
(* times run forward loses no attribution to the eviction: what was        *)
(* evicted is older than all that is left (domain.py:80, 121-130).         *)
THEOREM EvictionCorrect == ReplaySpec => []EvictionCostsNothing
<1>1. DequeInv => EvictionCostsNothing
  BY EvictedAreNotCloser DEF EvictionCostsNothing
<1> QED
  BY <1>1, DequeInvHolds, PTL
=============================================================================
