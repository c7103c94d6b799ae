------------------------- MODULE ImportScan_proofs -------------------------
(***************************************************************************)
(* The historical import, for any number of logs of any length.            *)
(***************************************************************************)
EXTENDS ImportScan, LogReplay_proofs, FunctionTheorems, FiniteSetTheorems

-----------------------------------------------------------------------------
(* dedupe_missions_by_guid.                                                *)

(* After n missions the loop holds the first of every guid among them, and *)
(* of no guid two.                                                         *)
KeptOf(ms, n, kept) ==
  /\ kept \in Seq(Mission)
  /\ \A k \in DOMAIN kept : \E j \in 1..n :
       kept[k] = ms[j] /\ \A i \in 1..(j - 1) : ms[i].guid # ms[j].guid
  /\ \A j \in 1..n : \E k \in DOMAIN kept : kept[k].guid = ms[j].guid
  /\ \A k, l \in DOMAIN kept : kept[k].guid = kept[l].guid => k = l

LEMMA KeepKeepsFirst ==
  ASSUME NEW ms \in Seq(Mission), NEW n \in 1..Len(ms),
         NEW kept, KeptOf(ms, n - 1, kept)
  PROVE  KeptOf(ms, n, Keep(kept, ms[n]))
<1>1. PICK m \in Mission : m = ms[n]
  OBVIOUS
<1>2. /\ kept \in Seq(Mission)
      /\ \A k \in DOMAIN kept : \E j \in 1..(n - 1) :
           kept[k] = ms[j] /\ \A i \in 1..(j - 1) : ms[i].guid # ms[j].guid
      /\ \A j \in 1..(n - 1) : \E k \in DOMAIN kept : kept[k].guid = ms[j].guid
      /\ \A k, l \in DOMAIN kept : kept[k].guid = kept[l].guid => k = l
  BY DEF KeptOf
<1>3. \A j \in 1..n : j = n \/ j \in 1..(n - 1)
  OBVIOUS
<1>4. n \in 1..n /\ \A j \in 1..(n - 1) : j \in 1..n
  OBVIOUS
<1>5. CASE \E k \in DOMAIN kept : kept[k].guid = m.guid
  <2>1. Keep(kept, ms[n]) = kept
    BY <1>1, <1>5 DEF Keep
  <2>2. \A j \in 1..n : \E k \in DOMAIN kept : kept[k].guid = ms[j].guid
    BY <1>1, <1>2, <1>3, <1>5
  <2>3. \A k \in DOMAIN kept : \E j \in 1..n :
          kept[k] = ms[j] /\ \A i \in 1..(j - 1) : ms[i].guid # ms[j].guid
    BY <1>2, <1>4
  <2> QED
    BY <1>2, <2>1, <2>2, <2>3 DEF KeptOf
<1>6. CASE ~ \E k \in DOMAIN kept : kept[k].guid = m.guid
  <2>1. PICK new : new = Append(kept, m)
    OBVIOUS
  <2>2. Keep(kept, ms[n]) = new
    BY <1>1, <1>6, <2>1 DEF Keep
  <2>a. kept \in Seq(Mission)
    BY <1>2
  <2>3. PICK c \in Nat : c = Len(kept)
    BY <2>a
  <2>b. DOMAIN kept = 1..c
    BY <2>a, <2>3
  <2>4. /\ new \in Seq(Mission) /\ DOMAIN new = 1..(c + 1) /\ DOMAIN kept = 1..c
        /\ new[c + 1] = m
        /\ \A k \in 1..c : new[k] = kept[k]
    BY <2>a, <2>1, <2>3
  <2>5. \A k \in 1..(c + 1) : k = c + 1 \/ k \in 1..c
    BY <2>3
  <2>6. c + 1 \in 1..(c + 1) /\ \A k \in 1..c : k \in 1..(c + 1)
    BY <2>3
  <2>7. \A i \in 1..(n - 1) : ms[i].guid # m.guid
    BY <1>2, <1>6
  <2>8. ASSUME NEW k \in DOMAIN new
        PROVE  \E j \in 1..n :
                 new[k] = ms[j] /\ \A i \in 1..(j - 1) : ms[i].guid # ms[j].guid
    <3>1. CASE k = c + 1
      BY <1>1, <1>4, <2>4, <2>7, <3>1
    <3>2. CASE k \in 1..c
      <4>1. PICK j \in 1..(n - 1) :
              kept[k] = ms[j] /\ \A i \in 1..(j - 1) : ms[i].guid # ms[j].guid
        BY <1>2, <2>b, <3>2
      <4>2. j \in 1..n /\ new[k] = ms[j]
        BY <1>4, <2>4, <3>2, <4>1
      <4> QED
        BY <4>1, <4>2
    <3> QED
      BY <2>4, <2>5, <3>1, <3>2
  <2>9. \A j \in 1..n : \E k \in DOMAIN new : new[k].guid = ms[j].guid
    <3> SUFFICES ASSUME NEW j \in 1..n
                 PROVE  \E k \in DOMAIN new : new[k].guid = ms[j].guid
      OBVIOUS
    <3>1. CASE j = n
      BY <1>1, <2>4, <2>6, <3>1
    <3>2. CASE j \in 1..(n - 1)
      <4>1. PICK k \in 1..c : kept[k].guid = ms[j].guid
        BY <1>2, <2>b, <3>2
      <4> QED
        BY <2>4, <2>6, <4>1
    <3> QED
      BY <1>3, <3>1, <3>2
  <2>10. \A k, l \in DOMAIN new : new[k].guid = new[l].guid => k = l
    <3>1. \A k, l \in 1..c : kept[k].guid = kept[l].guid => k = l
      BY <1>2, <2>b
    <3>2. \A k \in 1..c : kept[k].guid # m.guid
      BY <1>6, <2>b
    <3> QED
      BY <2>4, <2>5, <3>1, <3>2
  <2> QED
    BY <2>2, <2>4, <2>8, <2>9, <2>10 DEF KeptOf
<1> QED
  BY <1>5, <1>6

(* The loop runs: what the recursive definition names exists.              *)
LEMMA DedupeRuns ==
  ASSUME NEW ms \in Seq(Mission)
  PROVE  \E kept : /\ kept[0] = <<>>
                   /\ \A k \in 1..Len(ms) : kept[k] = Keep(kept[k - 1], ms[k])
                   /\ dedupe_missions_by_guid(ms) = kept[Len(ms)]
<1> DEFINE N == Len(ms)
           V == Seq(Mission)
           turn == [n \in 1..N |-> [b \in V |-> Keep(b, ms[n])]]
           Def(f) == [n \in 0..N |-> IF n = 0 THEN <<>> ELSE Keep(f[n - 1], ms[n])]
<1>1. N \in Nat /\ <<>> \in V
  OBVIOUS
<1>2. ASSUME NEW b \in V, NEW n \in 1..N
      PROVE  Keep(b, ms[n]) \in V
  BY DEF Keep
<1>3. turn \in [1..N -> [V -> V]]
  BY <1>2
<1>4. \A b \in V, n \in 1..N : turn[n][b] = Keep(b, ms[n])
  OBVIOUS
<1> HIDE DEF V, turn, N
<1>a. IsLoop(N, V, <<>>, turn)
  BY <1>1, <1>3 DEF IsLoop
<1>b. PICK run : IsRun(run, N, V, <<>>, turn)
  BY <1>a, LoopHasRun
<1>5. /\ run \in [0..N -> V]
      /\ run[0] = <<>>
      /\ \A k \in 1..N : run[k] = turn[k][run[k - 1]]
  BY <1>b DEF IsRun
<1>6. \A k \in 1..N : run[k] = Keep(run[k - 1], ms[k])
  <2>1. \A k \in 1..N : k - 1 \in 0..N
    BY <1>1
  <2> QED
    BY <1>4, <1>5, <2>1
<1>7. run = Def(run)
  BY <1>5, <1>6
<1>8. PICK kept : kept = CHOOSE f : f = Def(f)
  OBVIOUS
<1>9. kept = Def(kept)
  BY <1>7, <1>8
<1>10. dedupe_missions_by_guid(ms) = kept[N]
  BY <1>8 DEF dedupe_missions_by_guid, N
<1>11. \A k \in 1..N : k \in 0..N /\ k # 0
  BY <1>1
<1>12. kept[0] = <<>> /\ \A k \in 1..N : kept[k] = Keep(kept[k - 1], ms[k])
  BY <1>1, <1>9, <1>11
<1> QED
  BY <1>10, <1>12 DEF N

LEMMA DedupeKeepsFirst ==
  ASSUME NEW ms \in Seq(Mission)
  PROVE  KeptOf(ms, Len(ms), dedupe_missions_by_guid(ms))
<1> DEFINE N == Len(ms)
<1>1. PICK kept : /\ kept[0] = <<>>
                  /\ \A k \in 1..N : kept[k] = Keep(kept[k - 1], ms[k])
                  /\ dedupe_missions_by_guid(ms) = kept[N]
  BY DedupeRuns
<1> DEFINE T == {n \in 0..N : KeptOf(ms, n, kept[n])}
<1>2. 0 \in T
  <2>1. 1..0 = {} /\ DOMAIN <<>> = {} /\ <<>> \in Seq(Mission) /\ 0 \in 0..N
    OBVIOUS
  <2>2. KeptOf(ms, 0, <<>>)
    BY <2>1 DEF KeptOf
  <2> QED
    BY <1>1, <2>1, <2>2
<1>3. \A n \in 1..N : n - 1 \in T => n \in T
  <2> SUFFICES ASSUME NEW n \in 1..N, n - 1 \in T
               PROVE  n \in T
    OBVIOUS
  <2>1. KeptOf(ms, n, Keep(kept[n - 1], ms[n]))
    BY KeepKeepsFirst
  <2> QED
    BY <1>1, <2>1
<1>4. N \in Nat
  OBVIOUS
<1>5. N \in T
  <2> HIDE DEF T, N
  <2>1. \A n \in 0..N : n \in T
    BY <1>2, <1>3, <1>4, CountingUp
  <2> QED
    BY <1>4, <2>1
<1> QED
  BY <1>1, <1>5

(* What is kept is as many as the guids it has.                            *)
LEMMA KeptCount ==
  ASSUME NEW kept \in Seq(Mission), NEW S,
         \A k, l \in DOMAIN kept : kept[k].guid = kept[l].guid => k = l,
         \A k \in DOMAIN kept : kept[k].guid \in S,
         \A g \in S : \E k \in DOMAIN kept : kept[k].guid = g
  PROVE  Len(kept) = Cardinality(S)
<1> DEFINE N == Len(kept)
           f == [k \in 1..N |-> kept[k].guid]
<1>1. N \in Nat /\ DOMAIN kept = 1..N
  OBVIOUS
<1>2. f \in [1..N -> S] /\ (\A k, l \in 1..N : f[k] = f[l] => k = l)
  BY <1>1
<1>3. \A g \in S : \E k \in 1..N : f[k] = g
  BY <1>1
<1> HIDE DEF f, N
<1>4. f \in Bijection(1..N, S)
  BY <1>2, <1>3, Fun_IsBij
<1>5. ExistsBijection(1..N, S)
  BY <1>4 DEF ExistsBijection
<1> QED
  BY <1>1, <1>5, FS_CountingElements DEF N

-----------------------------------------------------------------------------
(* The scanner is the watcher: every step replays a line or leaves the     *)
(* state alone, but for Opens, which begins again.                         *)
LEMMA ScanReplays ==
  ASSUME [ImportNext]_vars
  PROVE  Opens \/ [ReplayNext]_replayVars
<1>1. CASE Scan
  BY <1>1 DEF Scan, ScanMarker, ScanAccepted, ScanEnd, ScanBlueprint, Reads,
     ReplayNext, ReadMarker, ReadAccepted, ReadEnd, ReadBlueprint
<1>2. CASE Collect \/ Aborts \/ OpenFails \/ EndOfFile \/ Write \/ UNCHANGED vars
  <2>1. UNCHANGED replayVars
    BY <1>2 DEF Collect, Aborts, OpenFails, EndOfFile, Write, vars, replayVars
  <2> QED
    BY <2>1
<1> QED
  BY <1>1, <1>2 DEF ImportNext

LEMMA ImportKeepsDeque ==
  ASSUME DequeInv, [ImportNext]_vars
  PROVE  DequeInv'
<1>1. CASE Opens
  <2>1. /\ lines' = <<>> /\ recent_lifecycle' = <<>> /\ out' = None
        /\ guid_map' = [g \in Guid |-> None] /\ active' = [g \in Guid |-> None]
    BY <1>1 DEF Opens
  <2>2. TypeOK'
    BY <2>1, MaxLenAssumption DEF TypeOK
  <2>3. ReplayInv'
    BY <2>1, <2>2, EmptyHistoryNext DEF ReplayInv
  <2>4. DequeIsReplay'
    BY <2>1, DequeOfEmptyHistoryNext
  <2>5. BlueprintIsLast'
    BY <2>1 DEF BlueprintIsLast, BlueprintJustRead
  <2> QED
    BY <2>3, <2>4, <2>5 DEF DequeInv
<1>2. CASE [ReplayNext]_replayVars
  BY <1>2, DequeInvInductive
<1> QED
  BY <1>1, <1>2, ScanReplays

-----------------------------------------------------------------------------
(* Types.                                                                  *)
ExportTypes ==
  /\ pc \in {"collect", "file", "scan", "write", "done"}
  /\ todo \in Seq(File) /\ source_logs \in Seq(File)
  /\ pc \in {"file", "scan"} => todo # <<>>
  /\ logs \in [File -> Seq(Line)]
  /\ missions \in Seq(Mission)
  /\ blueprints \in Seq(Drop)
  /\ written = None \/ written.missions \in Seq(Mission)

LEMMA AscendingTyped ==
  ASSUME NEW s \in Ascending
  PROVE  s \in Seq(File) /\ \A i, j \in DOMAIN s : i < j => s[i] < s[j]
<1>1. Cardinality(File) \in Nat
  BY FileAssumption, FS_CardinalityType
<1>2. PICK n \in 0..Cardinality(File) : s \in [1..n -> File]
  BY DEF Ascending
<1>3. n \in Nat
  BY <1>1
<1>4. s \in Seq(File)
  BY <1>2, <1>3
<1> QED
  BY <1>4 DEF Ascending

LEMMA FileDoneTypes ==
  ASSUME todo \in Seq(File), source_logs \in Seq(File), todo # <<>>, FileDone
  PROVE  /\ pc' \in {"file", "write"}
         /\ todo' \in Seq(File) /\ source_logs' \in Seq(File)
         /\ pc' = "file" => todo' # <<>>
<1>1. Head(todo) \in File /\ Tail(todo) \in Seq(File)
  OBVIOUS
<1>2. Len(todo) # 1 => Tail(todo) # <<>>
  <2>1. Len(todo) \in Nat /\ Len(todo) # 0 /\ Len(Tail(todo)) = Len(todo) - 1
    BY EmptySeq, HeadTailProperties
  <2>2. Len(<<>>) = 0
    OBVIOUS
  <2>3. PICK x \in Nat : x = Len(todo)
    BY <2>1
  <2>y. PICK y : y = Tail(todo)
    OBVIOUS
  <2>4. Len(y) = x - 1
    BY <2>1, <2>3, <2>y
  <2>5. ASSUME y = <<>>
        PROVE  x = 1
    <3>1. Len(y) = 0
      BY <2>2, <2>5, Zenon
    <3> QED
      BY <2>4, <3>1
  <2> QED
    BY <2>3, <2>5, <2>y
<1> QED
  BY <1>1, <1>2 DEF FileDone

LEMMA ImportKeepsTypes ==
  ASSUME ExportTypes, DequeInv, [ImportNext]_vars
  PROVE  ExportTypes'
<1> USE DEF ExportTypes
<1>1. CASE Collect
  <2>1. todo' \in Seq(File)
    BY <1>1, AscendingTyped DEF Collect
  <2> QED
    BY <1>1, <2>1 DEF Collect, exportVars
<1>2. CASE Aborts
  BY <1>2 DEF Aborts, exportVars
<1>3. CASE OpenFails
  <2>1. todo # <<>> /\ FileDone
    BY <1>3 DEF OpenFails
  <2> QED
    BY <1>3, <2>1, FileDoneTypes DEF OpenFails, exportVars
<1>4. CASE Opens
  BY <1>4 DEF Opens, exportVars
<1>5. CASE EndOfFile
  <2>1. todo # <<>> /\ FileDone
    BY <1>5 DEF EndOfFile
  <2>2. logs' \in [File -> Seq(Line)]
    BY <1>5 DEF EndOfFile, DequeInv, ReplayInv
  <2> QED
    BY <1>5, <2>1, <2>2, FileDoneTypes DEF EndOfFile, exportVars
<1>6. CASE Write
  <2>1. dedupe_missions_by_guid(missions) \in Seq(Mission)
    BY DedupeKeepsFirst DEF KeptOf
  <2> QED
    BY <1>6, <2>1 DEF Write, export_payload, exportVars
<1>7. ASSUME NEW l \in Line, Reads(l),
             missions' \in Seq(Mission), blueprints' \in Seq(Drop)
      PROVE  ExportTypes'
  BY <1>7 DEF Reads
<1>8. CASE Scan
  <2>1. ASSUME NEW l \in MarkerLine, ScanMarker(l)
        PROVE  ExportTypes'
    BY <1>7, <2>1 DEF ScanMarker, exportVars, Line
  <2>2. ASSUME NEW l \in AcceptedLine, ScanAccepted(l)
        PROVE  ExportTypes'
    BY <1>7, <2>2 DEF ScanAccepted, exportVars, Line
  <2>3. ASSUME NEW l \in EndLine, ScanEnd(l)
        PROVE  ExportTypes'
    <3>1. l \in Line /\ l.guid \in Guid /\ l.ts \in Time
      BY DEF Line, EndLine
    <3>2. ASSUME active[l.guid] # None
          PROVE  [guid |-> l.guid, debugName |-> active[l.guid].debug_name,
                  generator |-> active[l.guid].generator,
                  startTs |-> active[l.guid].start_ts, endTs |-> l.ts] \in Mission
      <4>1. active[l.guid] \in ActiveMission
        BY <3>1, <3>2 DEF DequeInv, ReplayInv, TypeOK
      <4> QED
        BY <3>1, <4>1 DEF ActiveMission, Mission
    <3>3. missions' \in Seq(Mission)
      BY <2>3, <3>2 DEF ScanEnd
    <3> QED
      BY <1>7, <2>3, <3>1, <3>3 DEF ScanEnd
  <2>4. ASSUME NEW l \in BlueprintLine, ScanBlueprint(l)
        PROVE  ExportTypes'
    <3>1. l \in Line /\ l.ts \in Time
      BY DEF Line, BlueprintLine
    <3>2. PICK corr : corr = correlate_blueprint(recent_lifecycle, l.ts)
      OBVIOUS
    <3>3. corr \in LifecycleEvent \cup {None}
      BY <3>1, <3>2, CorrelationTyped DEF DequeInv, ReplayInv
    <3>4. corr # None => [ts |-> l.ts, mission |-> corr] \in Drop
      BY <3>1, <3>3 DEF Drop
    <3>5. blueprints' \in Seq(Drop)
      BY <2>4, <3>2, <3>4 DEF ScanBlueprint
    <3> QED
      BY <1>7, <2>4, <3>1, <3>5 DEF ScanBlueprint
  <2> QED
    BY <1>8, <2>1, <2>2, <2>3, <2>4 DEF Scan
<1>9. CASE UNCHANGED vars
  BY <1>9 DEF vars
<1> QED
  BY <1>1, <1>2, <1>3, <1>4, <1>5, <1>6, <1>8, <1>9 DEF ImportNext

LEMMA ImportBegins == ImportInit => ExportTypes /\ DequeInv
<1> SUFFICES ASSUME ImportInit
             PROVE  ExportTypes /\ DequeInv
  OBVIOUS
<1>1. ReplayInv
  BY InitTyped, EmptyHistory DEF ImportInit, ReplayInit, Init, ReplayInv
<1>2. DequeIsReplay
  BY DequeOfEmptyHistory DEF ImportInit, ReplayInit, Init
<1>3. BlueprintIsLast
  BY DEF ImportInit, ReplayInit, Init, BlueprintIsLast, BlueprintJustRead
<1>4. ExportTypes
  BY DEF ImportInit, ExportTypes
<1> QED
  BY <1>1, <1>2, <1>3, <1>4 DEF DequeInv

(* The containers of the import, and of the watcher it runs over each log, *)
(* hold only what they are for, and a file that is open is one that was    *)
(* still to be scanned.                                                    *)
THEOREM ImportTypeCorrect == ImportSpec => []ImportTypeOK
<1>1. (ExportTypes /\ DequeInv) /\ [ImportNext]_vars => (ExportTypes /\ DequeInv)'
  BY ImportKeepsTypes, ImportKeepsDeque
<1>2. ExportTypes /\ DequeInv => ImportTypeOK
  BY DEF ExportTypes, DequeInv, ReplayInv, ImportTypeOK
<1> QED
  BY <1>1, <1>2, ImportBegins, PTL DEF ImportSpec

-----------------------------------------------------------------------------
(* What was read so far of every file, the one being scanned included.     *)
Read == [f \in File |-> IF pc = "scan" /\ f = Head(todo) THEN lines ELSE logs[f]]

(* The files still to be scanned are in order, and after those that were.  *)
FilesInOrder ==
  /\ \A i, j \in DOMAIN todo : i < j => todo[i] < todo[j]
  /\ \A f \in File : logs[f] # <<>> =>
       pc # "collect" /\ \A k \in DOMAIN todo : f < todo[k]

(* The first record of a mission is that of its first completion in what   *)
(* was read, and there is one for every mission completed.                 *)
MissionsOf(read, ms) ==
  /\ \A k \in DOMAIN ms :
       (\A j \in 1..(k - 1) : ms[j].guid # ms[k].guid) => IsFirstCompletion(read, ms[k])
  /\ \A f \in File, g \in Guid :
       CompletedIn(read[f], g) => \E k \in DOMAIN ms : ms[k].guid = g

(* Every drop is put down to its own log, and while times run forward      *)
(* there is one for every blueprint that was earned.                       *)
DropsOf(read, ds) ==
  /\ \A k \in DOMAIN ds : IsFromItsLog(read, ds[k])
  /\ (\A f \in File : InOrder(read[f])) =>
       IsFiniteSet(EarnedDrops(read)) /\ Len(ds) = Cardinality(EarnedDrops(read))

ImportInv ==
  /\ ExportTypes /\ DequeInv /\ FilesInOrder
  /\ pc # "done" => MissionsOf(Read, missions) /\ DropsOf(Read, blueprints)
  /\ written # None => pc = "done"
  /\ ExportsFirstCompletions
  /\ BlueprintsFromTheirLog

LEMMA FilesStayInOrder ==
  ASSUME ExportTypes, FilesInOrder, [ImportNext]_vars
  PROVE  FilesInOrder'
<1> USE DEF FilesInOrder
<1>1. CASE Collect
  <2>1. /\ pc = "collect" /\ pc' # "collect" /\ logs' = logs
        /\ \A i, j \in DOMAIN todo' : i < j => todo'[i] < todo'[j]
    BY <1>1, AscendingTyped DEF Collect
  <2> QED
    BY <2>1
<1>2. CASE Aborts \/ Opens \/ Write \/ Scan
  <2>1. todo' = todo /\ logs' = logs /\ pc' # "collect"
    BY <1>2 DEF Aborts, Opens, Write, Scan, ScanMarker, ScanAccepted, ScanEnd, ScanBlueprint, Reads
  <2> QED
    BY <2>1
<1>3. CASE OpenFails \/ EndOfFile
  <2>1. /\ pc \in {"file", "scan"} /\ pc' # "collect" /\ todo' = Tail(todo)
        /\ \A f \in File : f # Head(todo) => logs'[f] = logs[f]
        /\ OpenFails => logs'[Head(todo)] = logs[Head(todo)]
    BY <1>3 DEF OpenFails, EndOfFile, FileDone, ExportTypes
  <2>2. todo \in Seq(File) /\ todo # <<>>
    BY <2>1 DEF ExportTypes
  <2>3. PICK n \in Nat : n = Len(todo)
    BY <2>2
  <2>4. /\ n # 0 /\ DOMAIN todo = 1..n /\ Head(todo) = todo[1]
        /\ DOMAIN todo' = 1..(n - 1)
        /\ \A k \in 1..(n - 1) : todo'[k] = todo[k + 1]
    BY <2>1, <2>2, <2>3, HeadTailProperties, EmptySeq
  <2>5. /\ 1 \in 1..n
        /\ \A k \in 1..(n - 1) : k \in Nat /\ k + 1 \in 1..n /\ 1 < k + 1
    BY <2>3, <2>4
  <2>6. \A i, j \in 1..(n - 1) : i < j => todo'[i] < todo'[j]
    <3> SUFFICES ASSUME NEW i \in 1..(n - 1), NEW j \in 1..(n - 1), i < j
                 PROVE  todo'[i] < todo'[j]
      OBVIOUS
    <3>1. i + 1 < j + 1
      BY <2>5
    <3>2. todo[i + 1] < todo[j + 1]
      BY <2>4, <2>5, <3>1
    <3> QED
      BY <2>4, <3>2
  <2>7. ASSUME NEW f \in File, logs'[f] # <<>>, NEW k \in 1..(n - 1)
        PROVE  f < todo'[k]
    <3>1. CASE f = todo[1]
      BY <2>4, <2>5, <3>1
    <3>2. CASE f # todo[1]
      <4>1. logs[f] # <<>>
        BY <2>1, <2>4, <2>7, <3>2
      <4> QED
        BY <2>4, <2>5, <2>7, <4>1
    <3> QED
      BY <3>1, <3>2
  <2> QED
    BY <2>1, <2>4, <2>6, <2>7
<1>4. CASE UNCHANGED vars
  BY <1>4 DEF vars
<1> QED
  BY <1>1, <1>2, <1>3, <1>4 DEF ImportNext

(* Steps that read no line leave what was read what it is.                 *)
LEMMA ReadKept ==
  ASSUME ExportTypes, FilesInOrder, [ImportNext]_vars, ~Scan, pc' # "done"
  PROVE  Read' = Read /\ missions' = missions /\ blueprints' = blueprints
<1> USE DEF exportVars
<1>1. CASE Collect
  BY <1>1 DEF Collect, Read
<1>2. CASE OpenFails
  BY <1>2 DEF OpenFails, FileDone, Read
<1>3. CASE Opens
  <2>1. /\ todo \in Seq(File) /\ todo # <<>> /\ pc = "file" /\ pc' = "scan"
        /\ lines' = <<>> /\ todo' = todo /\ logs' = logs
        /\ missions' = missions /\ blueprints' = blueprints
    BY <1>3 DEF Opens, ExportTypes
  <2>2. 1 \in DOMAIN todo /\ Head(todo) = todo[1] /\ Head(todo) \in File
    BY <2>1, EmptySeq
  <2>3. PICK h \in Nat : h = Head(todo) /\ h \in File /\ h = todo[1]
    BY <2>2, FileAssumption
  <2>a. ~(h < h)
    BY <2>3
  <2>4. logs[Head(todo)] = <<>>
    BY <2>2, <2>3, <2>a DEF FilesInOrder
  <2> QED
    BY <2>1, <2>4 DEF Read
<1>4. CASE EndOfFile
  <2>1. /\ pc = "scan" /\ pc' # "scan" /\ logs' = [logs EXCEPT ![Head(todo)] = lines]
        /\ logs \in [File -> Seq(Line)]
        /\ missions' = missions /\ blueprints' = blueprints
    BY <1>4 DEF EndOfFile, FileDone, ExportTypes
  <2>2. \A f \in File : logs'[f] = IF f = Head(todo) THEN lines ELSE logs[f]
    BY <2>1
  <2> QED
    BY <2>1, <2>2 DEF Read
<1>5. CASE UNCHANGED vars
  BY <1>5 DEF vars, Read
<1>6. CASE Aborts \/ Write
  BY <1>6 DEF Aborts, Write
<1> QED
  BY <1>1, <1>2, <1>3, <1>4, <1>5, <1>6 DEF ImportNext

(* A line read is one more of the file that is open, and what else was     *)
(* read stands before it in the order of the files.                        *)
LEMMA ScanReads ==
  ASSUME ExportTypes, DequeInv, FilesInOrder, NEW l \in Line, Reads(l),
         NEW h, h = Head(todo)
  PROVE  /\ h \in File /\ Read[h] = lines /\ Read'[h] = lines'
         /\ \A f \in File : f # h => Read'[f] = Read[f]
         /\ \A f \in File : Read[f] # <<>> => f <= h
         /\ Read \in [File -> Seq(Line)]
<1>1. /\ todo \in Seq(File) /\ todo # <<>> /\ pc = "scan" /\ pc' = "scan"
      /\ todo' = todo /\ logs' = logs /\ logs \in [File -> Seq(Line)]
      /\ lines \in Seq(Line)
  BY DEF Reads, ExportTypes, DequeInv, ReplayInv
<1>2. 1 \in DOMAIN todo /\ h = todo[1] /\ h \in File
  BY <1>1, EmptySeq
<1>3. \A f \in File : f \in Nat
  BY FileAssumption
<1>4. \A f \in File : logs[f] # <<>> => f < h
  BY <1>2 DEF FilesInOrder
<1>5. \A f \in File : f < h => f <= h
  BY <1>2, <1>3
<1>6. h <= h
  BY <1>2, <1>3
<1>7. \A f \in File : Read[f] = IF f = h THEN lines ELSE logs[f]
  BY <1>1 DEF Read
<1>8. \A f \in File : Read'[f] = IF f = h THEN lines' ELSE logs[f]
  BY <1>1 DEF Read
<1>9. \A f \in File : Read[f] # <<>> => f <= h
  BY <1>4, <1>5, <1>6, <1>7
<1>10. Read \in [File -> Seq(Line)]
  BY <1>1 DEF Read
<1> QED
  BY <1>2, <1>7, <1>8, <1>9, <1>10

-----------------------------------------------------------------------------
(* Completions, when the open file has one line more.                      *)
LEMMA OneMoreCompletes ==
  ASSUME lines \in Seq(Line), NEW l \in Line, lines' = Append(lines, l),
         NEW n \in Nat, n = Len(lines)
  PROVE  /\ \A i \in 1..n : \A s \in 1..(i - 1), g \in Guid :
              Completes(lines', s, i, g) <=> Completes(lines, s, i, g)
         /\ \A s \in 1..n, g \in Guid :
              Completes(lines', s, n + 1, g) <=>
                /\ l.kind = "end" /\ l.guid = g /\ l.completion = "Complete"
                /\ GovernedBy(lines, s, g)
<1>1. /\ DOMAIN lines = 1..n /\ lines'[n + 1] = l
      /\ \A i \in 1..n : lines'[i] = lines[i]
      /\ \A i \in 1..n, g \in Guid :
           /\ StartAt(lines', i, g) <=> StartAt(lines, i, g)
           /\ EndAt(lines', i, g) <=> EndAt(lines, i, g)
      /\ \A g \in Guid : EndAt(lines', n + 1, g) <=> l.kind = "end" /\ l.guid = g
  BY OneMoreLine
<1>2. ASSUME NEW i \in 1..n, NEW s \in 1..(i - 1), NEW g \in Guid
      PROVE  Completes(lines', s, i, g) <=> Completes(lines, s, i, g)
  <2>1. s \in 1..n /\ \A j \in (s + 1)..(i - 1) : j \in 1..n
    OBVIOUS
  <2> QED
    BY <1>1, <2>1, Zenon DEF Completes
<1>3. ASSUME NEW s \in 1..n, NEW g \in Guid
      PROVE  Completes(lines', s, n + 1, g) <=>
               /\ l.kind = "end" /\ l.guid = g /\ l.completion = "Complete"
               /\ GovernedBy(lines, s, g)
  <2>1. (n + 1) - 1 = n /\ s < n + 1 /\ \A j \in (s + 1)..n : j \in 1..n
    OBVIOUS
  <2>2. \A j \in (s + 1)..n : /\ StartAt(lines', j, g) <=> StartAt(lines, j, g)
                              /\ EndAt(lines', j, g) <=> EndAt(lines, j, g)
    BY <1>1, <2>1
  <2>3. GovernedBy(lines, s, g) <=>
          StartAt(lines', s, g) /\ \A j \in (s + 1)..n : ~StartAt(lines', j, g) /\ ~EndAt(lines', j, g)
    BY <1>1, <2>2 DEF GovernedBy
  <2>4. Completes(lines', s, n + 1, g) <=>
          /\ EndAt(lines', n + 1, g) /\ l.completion = "Complete"
          /\ StartAt(lines', s, g)
          /\ \A j \in (s + 1)..n : ~StartAt(lines', j, g) /\ ~EndAt(lines', j, g)
    BY <1>1, <2>1, Zenon DEF Completes
  <2>5. EndAt(lines', n + 1, g) <=> l.kind = "end" /\ l.guid = g
    BY <1>1
  <2> QED
    BY <2>3, <2>4, <2>5, Zenon
<1> QED
  BY <1>2, <1>3

LEMMA OneMoreCompleted ==
  ASSUME lines \in Seq(Line), NEW l \in Line, lines' = Append(lines, l),
         NEW n \in Nat, n = Len(lines), NEW g \in Guid
  PROVE  CompletedIn(lines', g) <=>
           \/ CompletedIn(lines, g)
           \/ /\ l.kind = "end" /\ l.guid = g /\ l.completion = "Complete"
              /\ \E s \in 1..n : GovernedBy(lines, s, g)
<1>1. DOMAIN lines = 1..n /\ DOMAIN lines' = 1..(n + 1)
  OBVIOUS
<1>2. n + 1 \in 1..(n + 1) /\ (n + 1) - 1 = n
  OBVIOUS
<1>3. \A i \in 1..(n + 1) : i = n + 1 \/ i \in 1..n
  OBVIOUS
<1>4. \A i \in 1..n : i \in 1..(n + 1)
  OBVIOUS
<1>5. CompletedIn(lines', g) <=>
        \/ \E i \in 1..n : \E s \in 1..(i - 1) : Completes(lines', s, i, g)
        \/ \E s \in 1..n : Completes(lines', s, n + 1, g)
  BY <1>1, <1>2, <1>3, <1>4, Zenon DEF CompletedIn
<1>6. (\E i \in 1..n : \E s \in 1..(i - 1) : Completes(lines', s, i, g)) <=> CompletedIn(lines, g)
  BY <1>1, OneMoreCompletes DEF CompletedIn
<1>7. (\E s \in 1..n : Completes(lines', s, n + 1, g)) <=>
        /\ l.kind = "end" /\ l.guid = g /\ l.completion = "Complete"
        /\ \E s \in 1..n : GovernedBy(lines, s, g)
  BY OneMoreCompletes
<1> QED
  BY <1>5, <1>6, <1>7, Zenon

(* What was the first completion stays it when more is read.               *)
LEMMA FirstCompletionKept ==
  ASSUME ExportTypes, DequeInv, FilesInOrder, NEW l \in Line, Reads(l),
         NEW m, m.guid \in Guid, IsFirstCompletion(Read, m)
  PROVE  IsFirstCompletion(Read', m)
<1> DEFINE g == m.guid
<1>1. PICK h : h = Head(todo)
  OBVIOUS
<1>2. /\ h \in File /\ Read[h] = lines /\ Read'[h] = lines'
      /\ \A f \in File : f # h => Read'[f] = Read[f]
      /\ \A f \in File : Read[f] # <<>> => f <= h
      /\ Read \in [File -> Seq(Line)]
  BY <1>1, ScanReads
<1>3. lines \in Seq(Line) /\ lines' = Append(lines, l)
  BY DEF DequeInv, ReplayInv, Reads
<1>4. PICK n \in Nat : n = Len(lines)
  BY <1>3
<1>5. PICK f, i, s, k :
        /\ f \in File /\ i \in DOMAIN Read[f] /\ s \in 1..(i - 1) /\ k \in 1..(i - 1)
        /\ Completes(Read[f], s, i, g)
        /\ FirstMarkerAt(Read[f], k, g)
        /\ m.debugName = Read[f][k].contract /\ m.generator = Read[f][k].generator
        /\ m.startTs = Read[f][s].ts /\ m.endTs = Read[f][i].ts
        /\ \A e \in File : e < f => ~CompletedIn(Read[e], g)
        /\ \A j \in 1..(i - 1) : \A r \in 1..(j - 1) : ~Completes(Read[f], r, j, g)
  BY DEF IsFirstCompletion
<1>6. f <= h
  <2>1. Read[f] \in Seq(Line) /\ DOMAIN Read[f] # {}
    BY <1>2, <1>5
  <2>2. Read[f] # <<>>
    BY <2>1
  <2> QED
    BY <1>2, <1>5, <2>2
<1>7. \A e \in File : e < f => ~CompletedIn(Read'[e], g)
  <2> SUFFICES ASSUME NEW e \in File, e < f
               PROVE  ~CompletedIn(Read'[e], g)
    OBVIOUS
  <2>1. e # h
    BY <1>2, <1>5, <1>6, FileAssumption
  <2> QED
    BY <1>2, <1>5, <2>1
<1>8. CASE f # h
  <2>1. Read'[f] = Read[f]
    BY <1>2, <1>5, <1>8
  <2> QED
    BY <1>5, <1>7, <2>1 DEF IsFirstCompletion
<1>9. CASE f = h
  <2>1. /\ DOMAIN lines = 1..n /\ DOMAIN lines' = 1..(n + 1)
        /\ \A j \in 1..n : lines'[j] = lines[j]
        /\ \A j \in 1..n : FirstMarkerAt(lines', j, g) <=> FirstMarkerAt(lines, j, g)
    BY <1>3, <1>4, OneMoreLine
  <2>2. \A j \in 1..n : \A r \in 1..(j - 1) : Completes(lines', r, j, g) <=> Completes(lines, r, j, g)
    BY <1>3, <1>4, OneMoreCompletes
  <2>3. i \in 1..n /\ i \in 1..(n + 1) /\ s \in 1..n /\ k \in 1..n
    BY <1>2, <1>5, <1>9, <2>1
  <2>4. \A j \in 1..(i - 1) : j \in 1..n
    BY <2>3
  <2>5. Completes(lines', s, i, g) /\ FirstMarkerAt(lines', k, g)
    BY <1>2, <1>5, <1>9, <2>1, <2>2, <2>3
  <2>6. \A j \in 1..(i - 1) : \A r \in 1..(j - 1) : ~Completes(lines', r, j, g)
    BY <1>2, <1>5, <1>9, <2>2, <2>4
  <2>7. /\ m.debugName = lines'[k].contract /\ m.generator = lines'[k].generator
        /\ m.startTs = lines'[s].ts /\ m.endTs = lines'[i].ts
    BY <1>2, <1>5, <1>9, <2>1, <2>3
  <2>8. Read'[f] = lines' /\ i \in DOMAIN Read'[f]
    BY <1>2, <1>9, <2>1, <2>3
  <2> QED
    BY <1>5, <1>7, <2>5, <2>6, <2>7, <2>8 DEF IsFirstCompletion
<1> QED
  BY <1>8, <1>9

(* A line that completes nothing leaves the export's missions alone.       *)
LEMMA QuietLineKeepsMissions ==
  ASSUME ExportTypes, DequeInv, FilesInOrder, NEW l \in Line, Reads(l),
         MissionsOf(Read, missions), missions' = missions,
         l.kind = "end" /\ l.completion = "Complete" /\ l.guid \in Guid =>
            active[l.guid] = None
  PROVE  MissionsOf(Read', missions')
<1>1. PICK h : h = Head(todo)
  OBVIOUS
<1>2. /\ h \in File /\ Read[h] = lines /\ Read'[h] = lines'
      /\ \A f \in File : f # h => Read'[f] = Read[f]
  BY <1>1, ScanReads
<1>3. lines \in Seq(Line) /\ lines' = Append(lines, l)
  BY DEF DequeInv, ReplayInv, Reads
<1>4. PICK n \in Nat : n = Len(lines) /\ DOMAIN lines = 1..n
  BY <1>3
<1>5. ASSUME NEW k \in DOMAIN missions, \A j \in 1..(k - 1) : missions[j].guid # missions[k].guid
      PROVE  IsFirstCompletion(Read', missions[k])
  <2>1. IsFirstCompletion(Read, missions[k])
    BY <1>5 DEF MissionsOf
  <2>2. missions[k] \in Mission
    BY DEF ExportTypes
  <2>3. missions[k].guid \in Guid
    BY <2>2 DEF Mission
  <2> QED
    BY <2>1, <2>3, FirstCompletionKept
<1>6. ASSUME NEW f \in File, NEW g \in Guid, CompletedIn(Read'[f], g)
      PROVE  CompletedIn(Read[f], g)
  <2>1. CASE f # h
    BY <1>2, <1>6, <2>1
  <2>2. CASE f = h
    <3>1. CompletedIn(lines', g)
      BY <1>2, <1>6, <2>2
    <3>2. ASSUME /\ l.kind = "end" /\ l.guid = g /\ l.completion = "Complete"
                 /\ \E s \in 1..n : GovernedBy(lines, s, g)
          PROVE  FALSE
      <4>1. active[g] # None
        BY <1>4, <3>2 DEF DequeInv, ReplayInv, ActiveIsReplay
      <4> QED
        BY <3>2, <4>1
    <3>3. CompletedIn(lines, g)
      BY <1>3, <1>4, <3>1, <3>2, OneMoreCompleted
    <3> QED
      BY <1>2, <2>2, <3>3
  <2> QED
    BY <2>1, <2>2
<1> QED
  BY <1>5, <1>6 DEF MissionsOf

(* A mission completed while active is recorded; the record is that of its *)
(* first completion unless there is one already.                           *)
LEMMA CompletionKeepsMissions ==
  ASSUME ExportTypes, DequeInv, FilesInOrder, NEW l \in EndLine, Reads(l),
         MissionsOf(Read, missions),
         NEW g \in Guid, g = l.guid, l.completion = "Complete", active[g] # None,
         NEW m \in Mission,
         m = [guid |-> g, debugName |-> active[g].debug_name,
              generator |-> active[g].generator,
              startTs |-> active[g].start_ts, endTs |-> l.ts],
         missions' = Append(missions, m)
  PROVE  MissionsOf(Read', missions')
<1>0. l \in Line /\ l.kind = "end" /\ m.guid = g
  BY DEF Line, EndLine
<1>1. PICK h : h = Head(todo)
  OBVIOUS
<1>2. /\ h \in File /\ Read[h] = lines /\ Read'[h] = lines'
      /\ \A f \in File : f # h => Read'[f] = Read[f]
      /\ \A f \in File : Read[f] # <<>> => f <= h
      /\ Read \in [File -> Seq(Line)]
  BY <1>0, <1>1, ScanReads
<1>3. lines \in Seq(Line) /\ lines' = Append(lines, l)
  BY DEF DequeInv, ReplayInv, Reads
<1>4. PICK n \in Nat : n = Len(lines) /\ DOMAIN lines = 1..n /\ DOMAIN lines' = 1..(n + 1)
  BY <1>3
<1>5. PICK c \in Nat : c = Len(missions)
  BY DEF ExportTypes
<1>6. /\ DOMAIN missions = 1..c /\ DOMAIN missions' = 1..(c + 1)
      /\ missions'[c + 1] = m /\ \A k \in 1..c : missions'[k] = missions[k]
      /\ \A k \in 1..c : missions[k] \in Mission
  BY <1>5 DEF ExportTypes
<1>7. ASSUME NEW k \in 1..c, \A j \in 1..(k - 1) : missions'[j].guid # missions'[k].guid
      PROVE  IsFirstCompletion(Read', missions'[k])
  <2>1. \A j \in 1..(k - 1) : j \in 1..c
    BY <1>5
  <2>2. \A j \in 1..(k - 1) : missions[j].guid # missions[k].guid
    BY <1>6, <1>7, <2>1
  <2>3. IsFirstCompletion(Read, missions[k])
    BY <1>6, <2>2 DEF MissionsOf
  <2>4. missions[k].guid \in Guid
    BY <1>6 DEF Mission
  <2>5. IsFirstCompletion(Read', missions[k])
    BY <1>0, <2>3, <2>4, FirstCompletionKept
  <2> QED
    BY <1>6, <2>5
<1>8. ASSUME \A k \in 1..c : missions[k].guid # g
      PROVE  IsFirstCompletion(Read', m)
  <2>1. PICK s \in 1..n : GovernedBy(lines, s, g)
    BY <1>4 DEF DequeInv, ReplayInv, ActiveIsReplay
  <2>2. PICK k \in 1..n : FirstMarkerAt(lines, k, g)
    <3> DEFINE T == {j \in 1..n : MarkerAt(lines, j, g)}
    <3>1. T # {}
      BY <1>3, <1>4, <2>1, GovernedIsKnown
    <3>2. T \subseteq Nat
      OBVIOUS
    <3> HIDE DEF T
    <3>3. PICK k \in T : \A j \in T : k <= j
      BY <3>1, <3>2, NaturalsHaveLeast
    <3> USE DEF T
    <3>4. \A j \in 1..(k - 1) : j \in 1..n /\ ~(k <= j)
      OBVIOUS
    <3>5. FirstMarkerAt(lines, k, g)
      BY <3>3, <3>4 DEF FirstMarkerAt
    <3> QED
      BY <3>5
  <2>3. active[g] = [debug_name |-> lines[k].contract, generator |-> lines[k].generator,
                     start_ts |-> lines[s].ts]
    BY <1>4, <2>1, <2>2 DEF DequeInv, ReplayInv, ActiveIsReplay
  <2>4. /\ \A j \in 1..n : lines'[j] = lines[j]
        /\ lines'[n + 1] = l
        /\ FirstMarkerAt(lines', k, g) <=> FirstMarkerAt(lines, k, g)
    BY <1>0, <1>3, <1>4, OneMoreLine
  <2>5. Completes(lines', s, n + 1, g)
    BY <1>0, <1>3, <1>4, <2>1, OneMoreCompletes
  <2>6. /\ m.debugName = lines'[k].contract /\ m.generator = lines'[k].generator
        /\ m.startTs = lines'[s].ts /\ m.endTs = lines'[n + 1].ts
    BY <2>3, <2>4
  <2>7. \A f \in File : ~CompletedIn(Read[f], g)
    BY <1>6, <1>8 DEF MissionsOf
  <2>8. \A e \in File : e < h => ~CompletedIn(Read'[e], g)
    <3> SUFFICES ASSUME NEW e \in File, e < h
                 PROVE  ~CompletedIn(Read'[e], g)
      OBVIOUS
    <3>1. e # h
      BY <1>2, FileAssumption
    <3> QED
      BY <1>2, <2>7, <3>1
  <2>9. ASSUME NEW j \in 1..n, NEW r \in 1..(j - 1)
        PROVE  ~Completes(lines', r, j, g)
    <3>1. ~Completes(lines, r, j, g)
      BY <1>2, <1>4, <2>7 DEF CompletedIn
    <3> QED
      BY <1>0, <1>3, <1>4, <3>1, OneMoreCompletes
  <2>10. (n + 1) - 1 = n /\ n + 1 \in 1..(n + 1)
    OBVIOUS
  <2>11. FirstMarkerAt(lines', k, g)
    BY <2>2, <2>4
  <2>12. PICK i : i = n + 1 /\ i - 1 = n /\ i \in 1..(n + 1)
    BY <2>10
  <2>13. /\ Completes(Read'[h], s, i, m.guid)
         /\ FirstMarkerAt(Read'[h], k, m.guid)
         /\ m.debugName = Read'[h][k].contract /\ m.generator = Read'[h][k].generator
         /\ m.startTs = Read'[h][s].ts /\ m.endTs = Read'[h][i].ts
    BY <1>0, <1>2, <2>5, <2>6, <2>11, <2>12
  <2>14. /\ \A e \in File : e < h => ~CompletedIn(Read'[e], m.guid)
         /\ \A j \in 1..(i - 1) : \A r \in 1..(j - 1) : ~Completes(Read'[h], r, j, m.guid)
    BY <1>0, <1>2, <2>8, <2>9, <2>12
  <2>15. h \in File /\ i \in DOMAIN Read'[h] /\ s \in 1..(i - 1) /\ k \in 1..(i - 1)
    BY <1>2, <1>4, <2>12
  <2> QED
    BY <2>13, <2>14, <2>15 DEF IsFirstCompletion
<1>9. ASSUME NEW k \in DOMAIN missions', \A j \in 1..(k - 1) : missions'[j].guid # missions'[k].guid
      PROVE  IsFirstCompletion(Read', missions'[k])
  <2>1. CASE k \in 1..c
    BY <1>7, <1>9, <2>1
  <2>2. CASE k = c + 1
    <3>1. (c + 1) - 1 = c
      BY <1>5
    <3>2. \A j \in 1..c : missions[j].guid # g
      BY <1>0, <1>6, <1>9, <2>2, <3>1
    <3> QED
      BY <1>6, <1>8, <2>2, <3>2
  <2>3. \A j \in 1..(c + 1) : j \in 1..c \/ j = c + 1
    BY <1>5
  <2> QED
    BY <1>6, <2>1, <2>2, <2>3
<1>10. ASSUME NEW f \in File, NEW e \in Guid, CompletedIn(Read'[f], e)
       PROVE  \E k \in DOMAIN missions' : missions'[k].guid = e
  <2>1. c + 1 \in 1..(c + 1) /\ \A k \in 1..c : k \in 1..(c + 1)
    BY <1>5
  <2>2. CASE CompletedIn(Read[f], e)
    <3>1. PICK k \in 1..c : missions[k].guid = e
      BY <1>6, <2>2 DEF MissionsOf
    <3> QED
      BY <1>6, <2>1, <3>1
  <2>3. CASE ~CompletedIn(Read[f], e)
    <3>1. f = h
      BY <1>2, <1>10, <2>3
    <3>2. CompletedIn(lines', e) /\ ~CompletedIn(lines, e)
      BY <1>2, <1>10, <2>3, <3>1
    <3>3. l.guid = e
      BY <1>0, <1>3, <1>4, <3>2, OneMoreCompleted
    <3> QED
      BY <1>0, <1>6, <2>1, <3>3
  <2> QED
    BY <2>2, <2>3
<1> QED
  BY <1>9, <1>10 DEF MissionsOf

-----------------------------------------------------------------------------
(* Blueprints, when the open file has one line more.                       *)
LEMMA OneMoreEarned ==
  ASSUME lines \in Seq(Line), NEW l \in Line, lines' = Append(lines, l),
         NEW n \in Nat, n = Len(lines)
  PROVE  /\ \A b \in 1..n : \A i \in 1..(b - 1) :
              Earned(lines', b, i) <=> Earned(lines, b, i)
         /\ \A i \in 1..n :
              Earned(lines', n + 1, i) <=>
                /\ l.kind = "blueprint" /\ AnyLifecycleAt(lines, i)
                /\ l.ts - lines[i].ts \in 0..WINDOW
<1>1. DOMAIN lines = 1..n /\ lines'[n + 1] = l
  BY OneMoreLine
<1>2. \A i \in 1..n : lines'[i] = lines[i] /\ (AnyLifecycleAt(lines', i) <=> AnyLifecycleAt(lines, i))
  BY <1>1, LifecycleKept
<1>3. ASSUME NEW b \in 1..n, NEW i \in 1..(b - 1)
      PROVE  Earned(lines', b, i) <=> Earned(lines, b, i)
  <2>1. i \in 1..n
    OBVIOUS
  <2>2. lines'[b] = lines[b] /\ lines'[i] = lines[i]
    BY <1>2, <2>1
  <2>3. AnyLifecycleAt(lines', i) <=> AnyLifecycleAt(lines, i)
    BY <1>2, <2>1
  <2> QED
    BY <2>2, <2>3, Zenon DEF Earned
<1>4. ASSUME NEW i \in 1..n
      PROVE  Earned(lines', n + 1, i) <=>
               /\ l.kind = "blueprint" /\ AnyLifecycleAt(lines, i)
               /\ l.ts - lines[i].ts \in 0..WINDOW
  <2>1. i < n + 1
    OBVIOUS
  <2>2. lines'[i] = lines[i] /\ (AnyLifecycleAt(lines', i) <=> AnyLifecycleAt(lines, i))
    BY <1>2
  <2> QED
    BY <1>1, <2>1, <2>2, Zenon DEF Earned
<1> QED
  BY <1>3, <1>4

LEMMA OneMoreInOrder ==
  ASSUME lines \in Seq(Line), NEW l \in Line, lines' = Append(lines, l), InOrder(lines'),
         NEW n \in Nat, n = Len(lines)
  PROVE  /\ InOrder(lines)
         /\ l.kind # "marker" =>
              \A j \in DOMAIN lines : Timed(lines, j) => lines[j].ts <= l.ts
<1>1. /\ DOMAIN lines = 1..n /\ DOMAIN lines' = 1..(n + 1) /\ lines'[n + 1] = l
      /\ \A i \in 1..n : lines'[i] = lines[i]
  BY OneMoreLine
<1>2. n + 1 \in 1..(n + 1) /\ \A i \in 1..n : i \in 1..(n + 1) /\ i < n + 1
  OBVIOUS
<1>3. \A i, j \in 1..(n + 1) : i < j /\ lines'[i].kind # "marker" /\ lines'[j].kind # "marker"
                                 => lines'[i].ts <= lines'[j].ts
  BY <1>1 DEF InOrder, Timed
<1>4. InOrder(lines)
  BY <1>1, <1>2, <1>3 DEF InOrder, Timed
<1>5. ASSUME l.kind # "marker", NEW j \in 1..n, Timed(lines, j)
      PROVE  lines[j].ts <= l.ts
  BY <1>1, <1>2, <1>3, <1>5 DEF Timed
<1> QED
  BY <1>1, <1>4, <1>5

LEMMA EarnedDropsRead ==
  ASSUME NEW read, NEW x
  PROVE  x \in EarnedDrops(read) <=>
           \E f \in File : \E b \in DOMAIN read[f] :
             x = <<f, b>> /\ \E i \in 1..(b - 1) : Earned(read[f], b, i)
BY DEF EarnedDrops

(* One more line earns at most its own drop.                               *)
LEMMA EarnedGrows ==
  ASSUME ExportTypes, DequeInv, FilesInOrder, NEW l \in Line, Reads(l),
         NEW h, h = Head(todo), NEW n \in Nat, n = Len(lines)
  PROVE  /\ <<h, n + 1>> \notin EarnedDrops(Read)
         /\ (\E i \in 1..n : Earned(lines', n + 1, i)) =>
              EarnedDrops(Read') = EarnedDrops(Read) \cup {<<h, n + 1>>}
         /\ ~(\E i \in 1..n : Earned(lines', n + 1, i)) =>
              EarnedDrops(Read') = EarnedDrops(Read)
<1>1. /\ h \in File /\ Read[h] = lines /\ Read'[h] = lines'
      /\ \A f \in File : f # h => Read'[f] = Read[f]
  BY ScanReads
<1>2. lines \in Seq(Line) /\ lines' = Append(lines, l)
  BY DEF DequeInv, ReplayInv, Reads
<1>3. DOMAIN lines = 1..n /\ DOMAIN lines' = 1..(n + 1)
  BY <1>2
<1>4. n + 1 \notin 1..n /\ n + 1 \in 1..(n + 1) /\ (n + 1) - 1 = n
  OBVIOUS
<1>5. \A b \in 1..(n + 1) : b = n + 1 \/ b \in 1..n
  OBVIOUS
<1>6. \A b \in 1..n : b \in 1..(n + 1)
  OBVIOUS
<1>7. \A b \in 1..n : (\E i \in 1..(b - 1) : Earned(lines', b, i)) <=>
                      (\E i \in 1..(b - 1) : Earned(lines, b, i))
  BY <1>2, OneMoreEarned
<1>8. <<h, n + 1>> \notin EarnedDrops(Read)
  <2>1. ASSUME NEW f \in File, NEW b \in DOMAIN Read[f], <<h, n + 1>> = <<f, b>>
        PROVE  FALSE
    <3>1. f = h /\ b = n + 1
      BY <2>1
    <3> QED
      BY <1>1, <1>3, <1>4, <3>1
  <2> QED
    BY <2>1, EarnedDropsRead
<1>9. ASSUME NEW x
      PROVE  x \in EarnedDrops(Read') <=>
               \/ x \in EarnedDrops(Read)
               \/ x = <<h, n + 1>> /\ \E i \in 1..n : Earned(lines', n + 1, i)
  <2>1. ASSUME x \in EarnedDrops(Read')
        PROVE  \/ x \in EarnedDrops(Read)
               \/ x = <<h, n + 1>> /\ \E i \in 1..n : Earned(lines', n + 1, i)
    <3>1. PICK f, b : /\ f \in File /\ b \in DOMAIN Read'[f] /\ x = <<f, b>>
                      /\ \E i \in 1..(b - 1) : Earned(Read'[f], b, i)
      BY <2>1, EarnedDropsRead
    <3>2. CASE f # h
      <4>1. Read'[f] = Read[f]
        BY <1>1, <3>1, <3>2
      <4> QED
        BY <3>1, <4>1, EarnedDropsRead
    <3>3. CASE f = h /\ b \in 1..n
      <4>1. \E i \in 1..(b - 1) : Earned(Read[f], b, i)
        BY <1>1, <1>7, <3>1, <3>3
      <4>2. b \in DOMAIN Read[f]
        BY <1>1, <1>3, <3>3
      <4> QED
        BY <3>1, <4>1, <4>2, EarnedDropsRead
    <3>4. CASE f = h /\ b = n + 1
      BY <1>1, <1>4, <3>1, <3>4
    <3> QED
      BY <1>1, <1>3, <1>5, <3>1, <3>2, <3>3, <3>4
  <2>2. ASSUME x \in EarnedDrops(Read)
        PROVE  x \in EarnedDrops(Read')
    <3>1. PICK f, b : /\ f \in File /\ b \in DOMAIN Read[f] /\ x = <<f, b>>
                      /\ \E i \in 1..(b - 1) : Earned(Read[f], b, i)
      BY <2>2, EarnedDropsRead
    <3>2. CASE f # h
      <4>1. Read'[f] = Read[f]
        BY <1>1, <3>1, <3>2
      <4> QED
        BY <3>1, <4>1, EarnedDropsRead
    <3>3. CASE f = h
      <4>1. b \in 1..n
        BY <1>1, <1>3, <3>1, <3>3
      <4>2. \E i \in 1..(b - 1) : Earned(Read'[f], b, i)
        BY <1>1, <1>7, <3>1, <3>3, <4>1
      <4>3. b \in DOMAIN Read'[f]
        BY <1>1, <1>3, <1>6, <3>3, <4>1
      <4> QED
        BY <3>1, <4>2, <4>3, EarnedDropsRead
    <3> QED
      BY <3>2, <3>3
  <2>3. ASSUME x = <<h, n + 1>>, \E i \in 1..n : Earned(lines', n + 1, i)
        PROVE  x \in EarnedDrops(Read')
    <3>1. n + 1 \in DOMAIN Read'[h]
      BY <1>1, <1>3, <1>4
    <3>2. \E i \in 1..((n + 1) - 1) : Earned(Read'[h], n + 1, i)
      BY <1>1, <1>4, <2>3
    <3> QED
      BY <1>1, <2>3, <3>1, <3>2, EarnedDropsRead
  <2> QED
    BY <2>1, <2>2, <2>3
<1> QED
  BY <1>8, <1>9

LEMMA FromItsLogKept ==
  ASSUME ExportTypes, DequeInv, FilesInOrder, NEW l \in Line, Reads(l),
         NEW d \in Drop, IsFromItsLog(Read, d)
  PROVE  IsFromItsLog(Read', d)
<1>1. PICK h : h = Head(todo)
  OBVIOUS
<1>2. /\ h \in File /\ Read[h] = lines /\ Read'[h] = lines'
      /\ \A f \in File : f # h => Read'[f] = Read[f]
  BY <1>1, ScanReads
<1>3. lines \in Seq(Line) /\ lines' = Append(lines, l)
  BY DEF DequeInv, ReplayInv, Reads
<1>4. PICK n \in Nat : n = Len(lines) /\ DOMAIN lines = 1..n /\ DOMAIN lines' = 1..(n + 1)
  BY <1>3
<1>5. PICK f, b, i :
        /\ f \in File /\ b \in DOMAIN Read[f] /\ i \in 1..(b - 1)
        /\ Earned(Read[f], b, i)
        /\ LifecycleAt(Read[f], i, d.mission.trigger, d.mission.guid)
        /\ d.ts = Read[f][b].ts /\ d.mission.ts = Read[f][i].ts
  BY DEF IsFromItsLog
<1>6. d.mission.guid \in Guid
  BY DEF Drop, LifecycleEvent
<1>7. CASE f # h
  <2>1. Read'[f] = Read[f]
    BY <1>2, <1>5, <1>7
  <2> QED
    BY <1>5, <2>1 DEF IsFromItsLog
<1>8. CASE f = h
  <2>1. b \in 1..n
    BY <1>2, <1>4, <1>5, <1>8
  <2>2. i \in 1..n /\ b \in 1..(n + 1)
    BY <1>5, <2>1
  <2>3. /\ lines'[b] = lines[b] /\ lines'[i] = lines[i]
        /\ LifecycleAt(lines', i, d.mission.trigger, d.mission.guid)
    BY <1>2, <1>3, <1>4, <1>5, <1>6, <1>8, <2>1, <2>2, LifecycleKept
  <2>4. Earned(lines', b, i)
    BY <1>2, <1>3, <1>4, <1>5, <1>8, <2>1, OneMoreEarned
  <2>5. b \in DOMAIN Read'[f] /\ Read'[f] = lines' /\ Read[f] = lines
    BY <1>2, <1>4, <1>8, <2>2
  <2> QED
    BY <1>5, <2>3, <2>4, <2>5 DEF IsFromItsLog
<1> QED
  BY <1>7, <1>8

(* A line that exports no drop earned none, while times run forward.       *)
LEMMA QuietLineKeepsDrops ==
  ASSUME ExportTypes, DequeInv, FilesInOrder, NEW l \in Line, Reads(l),
         DropsOf(Read, blueprints), blueprints' = blueprints,
         l.kind = "blueprint" =>
            l.ts \in Time /\ correlate_blueprint(recent_lifecycle, l.ts) = None
  PROVE  DropsOf(Read', blueprints')
<1>1. PICK h : h = Head(todo)
  OBVIOUS
<1>2. /\ h \in File /\ Read[h] = lines /\ Read'[h] = lines'
      /\ \A f \in File : f # h => Read'[f] = Read[f]
  BY <1>1, ScanReads
<1>3. lines \in Seq(Line) /\ lines' = Append(lines, l)
  BY DEF DequeInv, ReplayInv, Reads
<1>4. PICK n \in Nat : n = Len(lines) /\ DOMAIN lines = 1..n
  BY <1>3
<1>5. \A k \in DOMAIN blueprints : IsFromItsLog(Read', blueprints[k])
  <2>1. \A k \in DOMAIN blueprints : blueprints[k] \in Drop
    BY DEF ExportTypes
  <2> QED
    BY <2>1, FromItsLogKept DEF DropsOf
<1>6. ASSUME \A f \in File : InOrder(Read'[f])
      PROVE  /\ \A f \in File : InOrder(Read[f])
             /\ EarnedDrops(Read') = EarnedDrops(Read)
  <2>1. InOrder(lines')
    BY <1>2, <1>6
  <2>2. InOrder(lines)
    BY <1>3, <1>4, <2>1, OneMoreInOrder
  <2>3. ASSUME NEW i \in 1..n, Earned(lines', n + 1, i)
        PROVE  FALSE
    <3>1. /\ l.kind = "blueprint" /\ AnyLifecycleAt(lines, i)
          /\ l.ts - lines[i].ts \in 0..WINDOW
      BY <1>3, <1>4, <2>3, OneMoreEarned
    <3>2. \A j \in DOMAIN lines : Timed(lines, j) => lines[j].ts <= l.ts
      BY <1>3, <1>4, <2>1, <3>1, OneMoreInOrder
    <3>3. PICK e : e = correlate_blueprint(recent_lifecycle, l.ts)
      OBVIOUS
    <3>4. e # None
      BY <1>4, <2>2, <3>1, <3>2, <3>3, DequeAnswersLast
    <3> QED
      BY <3>1, <3>3, <3>4
  <2>4. EarnedDrops(Read') = EarnedDrops(Read)
    BY <1>1, <1>4, <2>3, EarnedGrows
  <2> QED
    BY <1>2, <1>6, <2>2, <2>4
<1> QED
  BY <1>5, <1>6 DEF DropsOf

(* A drop exported is put down to what the deque answered, a line of this  *)
(* log.                                                                    *)
LEMMA CorrelatedKeepsDrops ==
  ASSUME ExportTypes, DequeInv, FilesInOrder, NEW l \in BlueprintLine, Reads(l),
         DropsOf(Read, blueprints),
         NEW corr, corr = correlate_blueprint(recent_lifecycle, l.ts), corr # None,
         NEW d \in Drop, d = [ts |-> l.ts, mission |-> corr],
         blueprints' = Append(blueprints, d)
  PROVE  DropsOf(Read', blueprints')
<1>0. l \in Line /\ l.kind = "blueprint" /\ l.ts \in Time /\ d.ts = l.ts /\ d.mission = corr
  BY DEF Line, BlueprintLine
<1>1. PICK h : h = Head(todo)
  OBVIOUS
<1>2. /\ h \in File /\ Read[h] = lines /\ Read'[h] = lines'
      /\ \A f \in File : f # h => Read'[f] = Read[f]
  BY <1>0, <1>1, ScanReads
<1>3. lines \in Seq(Line) /\ lines' = Append(lines, l)
  BY DEF DequeInv, ReplayInv, Reads
<1>4. PICK n \in Nat : /\ n = Len(lines) /\ DOMAIN lines = 1..n /\ DOMAIN lines' = 1..(n + 1)
                       /\ lines'[n + 1] = l
  BY <1>3
<1>5. PICK i \in 1..n :
        /\ LifecycleAt(lines, i, corr.trigger, corr.guid)
        /\ AnyLifecycleAt(lines, i)
        /\ lines[i].ts = corr.ts
        /\ l.ts - lines[i].ts \in 0..WINDOW
        /\ corr \in LifecycleEvent
  BY <1>0, <1>4, DequeAnswersHappened
<1>6. Earned(lines', n + 1, i)
  BY <1>0, <1>3, <1>4, <1>5, OneMoreEarned
<1>7. IsFromItsLog(Read', d)
  <2>1. corr.guid \in Guid
    BY <1>5 DEF LifecycleEvent
  <2>2. LifecycleAt(lines', i, corr.trigger, corr.guid) /\ lines'[i] = lines[i]
    BY <1>0, <1>3, <1>4, <1>5, <2>1, LifecycleKept
  <2>3. PICK b : b = n + 1 /\ b - 1 = n /\ b \in 1..(n + 1)
    OBVIOUS
  <2>4. h \in File /\ b \in DOMAIN Read'[h] /\ i \in 1..(b - 1)
    BY <1>2, <1>4, <2>3
  <2>5. /\ Earned(Read'[h], b, i)
        /\ LifecycleAt(Read'[h], i, d.mission.trigger, d.mission.guid)
        /\ d.ts = Read'[h][b].ts /\ d.mission.ts = Read'[h][i].ts
    BY <1>0, <1>2, <1>4, <1>5, <1>6, <2>2, <2>3
  <2> QED
    BY <2>4, <2>5 DEF IsFromItsLog
<1>8. PICK c \in Nat : c = Len(blueprints)
  BY DEF ExportTypes
<1>9. /\ DOMAIN blueprints = 1..c /\ DOMAIN blueprints' = 1..(c + 1)
      /\ blueprints'[c + 1] = d /\ \A k \in 1..c : blueprints'[k] = blueprints[k]
      /\ \A k \in 1..c : blueprints[k] \in Drop
      /\ Len(blueprints') = c + 1
  BY <1>8 DEF ExportTypes
<1>10. ASSUME NEW k \in DOMAIN blueprints'
       PROVE  IsFromItsLog(Read', blueprints'[k])
  <2>1. CASE k \in 1..c
    <3>1. IsFromItsLog(Read, blueprints[k])
      BY <1>9, <2>1 DEF DropsOf
    <3> QED
      BY <1>0, <1>9, <2>1, <3>1, FromItsLogKept
  <2>2. CASE k = c + 1
    BY <1>7, <1>9, <2>2
  <2>3. \A j \in 1..(c + 1) : j \in 1..c \/ j = c + 1
    BY <1>8
  <2> QED
    BY <1>9, <2>1, <2>2, <2>3
<1>11. ASSUME \A f \in File : InOrder(Read'[f])
       PROVE  /\ IsFiniteSet(EarnedDrops(Read'))
              /\ Len(blueprints') = Cardinality(EarnedDrops(Read'))
  <2>1. InOrder(lines)
    BY <1>0, <1>2, <1>3, <1>4, <1>11, OneMoreInOrder
  <2>2. \A f \in File : InOrder(Read[f])
    BY <1>2, <1>11, <2>1
  <2>3. IsFiniteSet(EarnedDrops(Read)) /\ c = Cardinality(EarnedDrops(Read))
    BY <1>8, <2>2 DEF DropsOf
  <2>4. /\ <<h, n + 1>> \notin EarnedDrops(Read)
        /\ EarnedDrops(Read') = EarnedDrops(Read) \cup {<<h, n + 1>>}
    BY <1>0, <1>1, <1>4, <1>6, EarnedGrows
  <2>5. /\ IsFiniteSet(EarnedDrops(Read) \cup {<<h, n + 1>>})
        /\ Cardinality(EarnedDrops(Read) \cup {<<h, n + 1>>}) = c + 1
    BY <2>3, <2>4, FS_AddElement
  <2> QED
    BY <1>9, <2>4, <2>5
<1> QED
  BY <1>10, <1>11 DEF DropsOf

-----------------------------------------------------------------------------
(* Every line keeps what is said of the records.                           *)
LEMMA ScanKeepsRecords ==
  ASSUME ExportTypes, DequeInv, FilesInOrder, Scan,
         MissionsOf(Read, missions), DropsOf(Read, blueprints)
  PROVE  MissionsOf(Read', missions') /\ DropsOf(Read', blueprints')
<1>1. ASSUME NEW l \in MarkerLine, ScanMarker(l)
      PROVE  MissionsOf(Read', missions') /\ DropsOf(Read', blueprints')
  <2>1. l \in Line /\ l.kind = "marker"
    BY DEF Line, MarkerLine
  <2>2. Reads(l) /\ missions' = missions /\ blueprints' = blueprints
    BY <1>1 DEF ScanMarker, exportVars
  <2> QED
    BY <2>1, <2>2, QuietLineKeepsMissions, QuietLineKeepsDrops
<1>2. ASSUME NEW l \in AcceptedLine, ScanAccepted(l)
      PROVE  MissionsOf(Read', missions') /\ DropsOf(Read', blueprints')
  <2>1. l \in Line /\ l.kind = "accepted"
    BY DEF Line, AcceptedLine
  <2>2. Reads(l) /\ missions' = missions /\ blueprints' = blueprints
    BY <1>2 DEF ScanAccepted, exportVars
  <2> QED
    BY <2>1, <2>2, QuietLineKeepsMissions, QuietLineKeepsDrops
<1>3. ASSUME NEW l \in EndLine, ScanEnd(l)
      PROVE  MissionsOf(Read', missions') /\ DropsOf(Read', blueprints')
  <2>1. l \in Line /\ l.kind = "end" /\ l.guid \in Guid /\ l.ts \in Time
    BY DEF Line, EndLine
  <2>2. Reads(l) /\ blueprints' = blueprints
    BY <1>3 DEF ScanEnd
  <2>3. DropsOf(Read', blueprints')
    BY <2>1, <2>2, QuietLineKeepsDrops
  <2>4. CASE l.completion = "Complete" /\ active[l.guid] # None
    <3>1. PICK g \in Guid : g = l.guid
      BY <2>1
    <3>2. PICK m : m = [guid |-> g, debugName |-> active[g].debug_name,
                        generator |-> active[g].generator,
                        startTs |-> active[g].start_ts, endTs |-> l.ts]
      OBVIOUS
    <3>3. active[g] \in ActiveMission
      BY <2>4, <3>1 DEF DequeInv, ReplayInv, TypeOK
    <3>4. m \in Mission
      BY <2>1, <3>2, <3>3 DEF ActiveMission, Mission
    <3>5. missions' = Append(missions, m)
      BY <1>3, <2>4, <3>1, <3>2 DEF ScanEnd
    <3>6. MissionsOf(Read', missions')
      BY <2>2, <2>4, <3>1, <3>2, <3>4, <3>5, CompletionKeepsMissions
    <3> QED
      BY <2>3, <3>6
  <2>5. CASE ~(l.completion = "Complete" /\ active[l.guid] # None)
    <3>1. missions' = missions
      BY <1>3, <2>5 DEF ScanEnd
    <3>2. MissionsOf(Read', missions')
      BY <2>1, <2>2, <2>5, <3>1, QuietLineKeepsMissions
    <3> QED
      BY <2>3, <3>2
  <2> QED
    BY <2>4, <2>5
<1>4. ASSUME NEW l \in BlueprintLine, ScanBlueprint(l)
      PROVE  MissionsOf(Read', missions') /\ DropsOf(Read', blueprints')
  <2>1. l \in Line /\ l.kind = "blueprint" /\ l.ts \in Time
    BY DEF Line, BlueprintLine
  <2>2. PICK corr : corr = correlate_blueprint(recent_lifecycle, l.ts)
    OBVIOUS
  <2>3. /\ Reads(l) /\ missions' = missions
        /\ blueprints' = IF corr = None THEN blueprints
                         ELSE Append(blueprints, [ts |-> l.ts, mission |-> corr])
    BY <1>4, <2>2 DEF ScanBlueprint
  <2>4. MissionsOf(Read', missions')
    BY <2>1, <2>3, QuietLineKeepsMissions
  <2>5. CASE corr = None
    BY <2>1, <2>2, <2>3, <2>4, <2>5, QuietLineKeepsDrops
  <2>6. CASE corr # None
    <3>1. corr \in LifecycleEvent
      BY <2>1, <2>2, <2>6, CorrelationTyped DEF DequeInv, ReplayInv
    <3>2. PICK d : d = [ts |-> l.ts, mission |-> corr]
      OBVIOUS
    <3>3. d \in Drop /\ blueprints' = Append(blueprints, d)
      BY <2>1, <2>3, <2>6, <3>1, <3>2 DEF Drop
    <3>4. DropsOf(Read', blueprints')
      BY <2>2, <2>3, <2>6, <3>2, <3>3, CorrelatedKeepsDrops
    <3> QED
      BY <2>4, <3>4
  <2> QED
    BY <2>5, <2>6
<1> QED
  BY <1>1, <1>2, <1>3, <1>4 DEF Scan

(* What is written is what the logs say.                                   *)
LEMMA WriteExports ==
  ASSUME ExportTypes, DequeInv, Write,
         MissionsOf(Read, missions), DropsOf(Read, blueprints)
  PROVE  ExportsFirstCompletions' /\ BlueprintsFromTheirLog'
<1>1. /\ pc = "write" /\ logs' = logs
      /\ written'.missions = dedupe_missions_by_guid(missions)
      /\ written'.blueprints = blueprints
  BY DEF Write, export_payload
<1>2. logs \in [File -> Seq(Line)] /\ missions \in Seq(Mission)
  BY DEF ExportTypes
<1>3. Read = logs
  BY <1>1, <1>2 DEF Read
<1>4. PICK kept : kept = dedupe_missions_by_guid(missions)
  OBVIOUS
<1>5. PICK N \in Nat : N = Len(missions) /\ DOMAIN missions = 1..N
  BY <1>2
<1>a. KeptOf(missions, N, kept)
  BY <1>2, <1>4, <1>5, DedupeKeepsFirst
<1>6. /\ kept \in Seq(Mission)
      /\ \A k \in DOMAIN kept : \E j \in 1..N :
           kept[k] = missions[j] /\ \A i \in 1..(j - 1) : missions[i].guid # missions[j].guid
      /\ \A j \in 1..N : \E k \in DOMAIN kept : kept[k].guid = missions[j].guid
      /\ \A k, l \in DOMAIN kept : kept[k].guid = kept[l].guid => k = l
  BY <1>a DEF KeptOf
<1>7. \A k \in DOMAIN kept : IsFirstCompletion(logs, kept[k])
  <2> SUFFICES ASSUME NEW k \in DOMAIN kept
               PROVE  IsFirstCompletion(logs, kept[k])
    OBVIOUS
  <2>1. PICK j \in 1..N : kept[k] = missions[j] /\
                          \A i \in 1..(j - 1) : missions[i].guid # missions[j].guid
    BY <1>6
  <2> QED
    BY <1>3, <1>5, <2>1 DEF MissionsOf
<1> DEFINE S == {g \in Guid : \E f \in File : CompletedIn(logs[f], g)}
<1>8. \A k \in DOMAIN kept : kept[k].guid \in S
  <2> SUFFICES ASSUME NEW k \in DOMAIN kept
               PROVE  kept[k].guid \in S
    OBVIOUS
  <2>1. \E f \in File : CompletedIn(logs[f], kept[k].guid)
    BY <1>7 DEF IsFirstCompletion, CompletedIn
  <2>2. kept[k] \in Mission
    BY <1>6
  <2> QED
    BY <2>1, <2>2 DEF Mission
<1>9. \A g \in S : \E k \in DOMAIN kept : kept[k].guid = g
  <2> SUFFICES ASSUME NEW g \in S
               PROVE  \E k \in DOMAIN kept : kept[k].guid = g
    OBVIOUS
  <2>1. PICK j \in 1..N : missions[j].guid = g
    BY <1>3, <1>5 DEF MissionsOf
  <2> QED
    BY <1>6, <2>1
<1>10. Len(kept) = Cardinality(S)
  <2> HIDE DEF S
  <2> QED
    BY <1>6, <1>8, <1>9, KeptCount
<1>11. ExportsFirstCompletions'
  BY <1>1, <1>4, <1>7, <1>10 DEF ExportsFirstCompletions
<1>12. BlueprintsFromTheirLog'
  <2>1. \A k \in DOMAIN written'.blueprints : IsFromItsLog(logs', written'.blueprints[k])
    BY <1>1, <1>3 DEF DropsOf
  <2>2. ASSUME \A f \in File : InOrder(logs'[f])
        PROVE  /\ Cardinality(CompletedDrops(logs')) <= Len(written'.blueprints)
               /\ Len(written'.blueprints) <= Cardinality(EarnedDrops(logs'))
    <3>1. /\ IsFiniteSet(EarnedDrops(logs'))
          /\ Len(written'.blueprints) = Cardinality(EarnedDrops(logs'))
      BY <1>1, <1>3, <2>2 DEF DropsOf
    <3>2. CompletedDrops(logs') \subseteq EarnedDrops(logs')
      BY DEF CompletedDrops
    <3>3. /\ Cardinality(CompletedDrops(logs')) <= Cardinality(EarnedDrops(logs'))
          /\ Cardinality(EarnedDrops(logs')) \in Nat
      BY <3>1, <3>2, FS_Subset, FS_CardinalityType
    <3> QED
      BY <3>1, <3>3
  <2> QED
    BY <2>1, <2>2 DEF BlueprintsFromTheirLog
<1> QED
  BY <1>11, <1>12

LEMMA ImportInvInductive ==
  ASSUME ImportInv, [ImportNext]_vars
  PROVE  ImportInv'
<1>1. ExportTypes' /\ DequeInv' /\ FilesInOrder'
  BY ImportKeepsTypes, ImportKeepsDeque, FilesStayInOrder DEF ImportInv
<1>2. ASSUME pc' # "done"
      PROVE  MissionsOf(Read', missions') /\ DropsOf(Read', blueprints')
  <2>1. pc # "done"
    BY <1>2 DEF ImportNext, Collect, Aborts, OpenFails, Opens, EndOfFile, Write, vars,
       Scan, ScanMarker, ScanAccepted, ScanEnd, ScanBlueprint, Reads
  <2>2. CASE Scan
    BY <2>1, <2>2, ScanKeepsRecords DEF ImportInv
  <2>3. CASE ~Scan
    <3>1. Read' = Read /\ missions' = missions /\ blueprints' = blueprints
      BY <1>2, <2>3, ReadKept DEF ImportInv
    <3> QED
      BY <2>1, <3>1 DEF ImportInv
  <2> QED
    BY <2>2, <2>3
<1>3. CASE Write
  <2>1. pc # "done" /\ pc' = "done"
    BY <1>3 DEF Write
  <2>2. ExportsFirstCompletions' /\ BlueprintsFromTheirLog'
    BY <1>3, <2>1, WriteExports DEF ImportInv
  <2> QED
    BY <1>1, <2>1, <2>2 DEF ImportInv
<1>4. CASE ~Write
  <2>1. written' = written
    BY <1>4 DEF ImportNext, Collect, Aborts, OpenFails, Opens, EndOfFile, vars,
       Scan, ScanMarker, ScanAccepted, ScanEnd, ScanBlueprint, Reads
  <2>2. CASE written = None
    BY <1>1, <1>2, <2>1, <2>2 DEF ImportInv, ExportsFirstCompletions, BlueprintsFromTheirLog
  <2>3. CASE written # None
    <3>1. pc = "done"
      BY <2>3 DEF ImportInv
    <3>2. logs' = logs /\ pc' = pc
      BY <1>4, <3>1 DEF ImportNext, Collect, Aborts, OpenFails, Opens, EndOfFile, vars,
         Scan, ScanMarker, ScanAccepted, ScanEnd, ScanBlueprint, Reads
    <3> QED
      BY <1>1, <1>2, <2>1, <3>1, <3>2 DEF ImportInv, ExportsFirstCompletions, BlueprintsFromTheirLog
  <2> QED
    BY <2>2, <2>3
<1> QED
  BY <1>3, <1>4

LEMMA ImportInvBegins == ImportInit => ImportInv
<1> SUFFICES ASSUME ImportInit
             PROVE  ImportInv
  OBVIOUS
<1>1. /\ pc = "collect" /\ todo = <<>> /\ logs = [f \in File |-> <<>>]
      /\ missions = <<>> /\ blueprints = <<>> /\ written = None
  BY DEF ImportInit
<1>2. ExportTypes /\ DequeInv
  BY ImportBegins
<1>3. FilesInOrder
  BY <1>1 DEF FilesInOrder
<1>4. \A f \in File : Read[f] = <<>> /\ DOMAIN Read[f] = {}
  BY <1>1 DEF Read
<1>5. MissionsOf(Read, missions)
  BY <1>1, <1>4 DEF MissionsOf, CompletedIn
<1>6. EarnedDrops(Read) = {}
  BY <1>4, EarnedDropsRead
<1>7. DropsOf(Read, blueprints)
  BY <1>1, <1>6, FS_EmptySet DEF DropsOf
<1>8. ExportsFirstCompletions /\ BlueprintsFromTheirLog
  BY <1>1 DEF ExportsFirstCompletions, BlueprintsFromTheirLog
<1> QED
  BY <1>1, <1>2, <1>3, <1>5, <1>7, <1>8 DEF ImportInv

LEMMA ImportInvHolds == ImportSpec => []ImportInv
<1>1. ImportInv /\ [ImportNext]_vars => ImportInv'
  BY ImportInvInductive
<1> QED
  BY <1>1, ImportInvBegins, PTL DEF ImportSpec

(* Whatever the number and the length of the logs, the export holds every  *)
(* mission completed in a log that was read, once, as its first completion *)
(* in the order of the logs has it, and no other (import_service.py:22-74, *)
(* 84-95, watcher.py:373-390).                                             *)
THEOREM ExportCorrect == ImportSpec => []ExportsFirstCompletions
<1>1. ImportInv => ExportsFirstCompletions
  BY DEF ImportInv
<1> QED
  BY <1>1, ImportInvHolds, PTL

(* Whatever the number and the length of the logs, and the bound of the    *)
(* deque, every exported blueprint is put down to an accept or completion  *)
(* of its own log; and while the logs' times run forward there are at      *)
(* least as many as came after a completion, and at most as many as came   *)
(* after either (import_service.py:24, 60-72).                             *)
THEOREM DropsCorrect == ImportSpec => []BlueprintsFromTheirLog
<1>1. ImportInv => BlueprintsFromTheirLog
  BY DEF ImportInv
<1> QED
  BY <1>1, ImportInvHolds, PTL
=============================================================================
