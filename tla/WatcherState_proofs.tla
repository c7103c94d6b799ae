------------------------- MODULE WatcherState_proofs -------------------------
(***************************************************************************)
(* Proofs about WatcherState, for every value of its constants.            *)
(***************************************************************************)
EXTENDS CorrelationLoop, SequenceTheorems, WellFoundedInduction, TLAPS

(* The deque keeps its type and its bound, its newest event is the one     *)
(* appended, and the others keep their order: all of them, or all but the  *)
(* oldest.                                                                 *)
Evicted(d) == IF Len(d) < MAXLEN THEN 0 ELSE 1

LEMMA DequeAppendKeepsOrder ==
  ASSUME NEW S, NEW d \in Seq(S), NEW e \in S, Len(d) <= MAXLEN
  PROVE  LET D == DequeAppend(d, e)
         IN  /\ D \in Seq(S)
             /\ Len(D) <= MAXLEN
             /\ Len(D) >= 1
             /\ D[Len(D)] = e
             /\ Len(D) = Len(d) + 1 - Evicted(d)
             /\ \A i \in 1..(Len(D) - 1) : D[i] = d[i + Evicted(d)]
<1> DEFINE D == DequeAppend(d, e)
<1>1. CASE Len(d) < MAXLEN
  <2>1. D = Append(d, e)
    BY <1>1 DEF DequeAppend
  <2>2. /\ D \in Seq(S)
        /\ Len(D) = Len(d) + 1
        /\ D[Len(D)] = e
        /\ \A i \in 1..Len(d) : D[i] = d[i]
    BY <2>1
  <2>3. Len(d) \in Nat
    OBVIOUS
  <2> QED
    BY <2>2, <2>3, <1>1, MaxLenAssumption DEF Evicted
<1>2. CASE ~(Len(d) < MAXLEN)
  <2>1. D = Append(Tail(d), e)
    BY <1>2 DEF DequeAppend
  <2>2. Len(d) \in Nat /\ Len(d) = MAXLEN /\ d # <<>>
    BY <1>2, MaxLenAssumption
  <2>3. /\ Tail(d) \in Seq(S)
        /\ Len(Tail(d)) = Len(d) - 1
        /\ \A i \in 1..(Len(d) - 1) : Tail(d)[i] = d[i + 1]
    BY <2>2
  <2>4. /\ D \in Seq(S)
        /\ Len(D) = Len(d)
        /\ D[Len(D)] = e
        /\ \A i \in 1..(Len(d) - 1) : D[i] = Tail(d)[i]
    BY <2>1, <2>2, <2>3
  <2> QED
    BY <1>2, <2>2, <2>3, <2>4, MaxLenAssumption DEF Evicted
<1> QED
  BY <1>1, <1>2

-----------------------------------------------------------------------------
(* Types.                                                                  *)

LEMMA InitTyped == Init => TypeOK
<1> SUFFICES ASSUME Init
             PROVE  TypeOK
  OBVIOUS
<1>1. /\ guid_map \in [Guid -> MissionEntry \cup {None}]
      /\ active \in [Guid -> ActiveMission \cup {None}]
      /\ out \in Event \cup {None}
  BY DEF Init
<1>2. recent_lifecycle \in Seq(LifecycleEvent) /\ Len(recent_lifecycle) = 0
  BY DEF Init
<1> QED
  BY <1>1, <1>2, MaxLenAssumption DEF TypeOK

(* A set of naturals that is not empty has a least element.                *)
LEMMA NaturalsHaveLeast ==
  ASSUME NEW T, T \subseteq Nat, T # {}
  PROVE  \E x \in T : \A y \in T : x <= y
<1> DEFINE R == {p \in Nat \X Nat : p[1] < p[2]}
<1>0. IsWellFoundedOn(R, Nat)
  BY NatLessThanWellFounded DEF OpToRel
<1>2. \A x, y \in Nat : <<y, x>> \in R <=> y < x
  OBVIOUS
<1> HIDE DEF R
<1>1. \E x \in T : \A y \in T : ~ (<<y, x>> \in R)
  BY <1>0, WFMin
<1>3. PICK x \in T : \A y \in T : ~ (<<y, x>> \in R)
  BY <1>1
<1>4. ASSUME NEW y \in T
      PROVE  x <= y
  <2>1. x \in Nat /\ y \in Nat
    OBVIOUS
  <2>2. ~ (y < x)
    BY <1>2, <1>3, <2>1
  <2> QED
    BY <2>1, <2>2
<1> QED
  BY <1>4

(* Induction up to a bound, by the least number that is left out.          *)
LEMMA CountingUp ==
  ASSUME NEW N \in Nat, NEW T, 0 \in T,
         \A n \in 1..N : n - 1 \in T => n \in T
  PROVE  \A n \in 0..N : n \in T
<1> DEFINE Left == {n \in 0..N : n \notin T}
<1>1. CASE Left = {}
  BY <1>1
<1>2. CASE Left # {}
  <2>1. Left \subseteq Nat
    OBVIOUS
  <2>2. PICK x \in Left : \A y \in Left : x <= y
    <3> HIDE DEF Left
    <3> QED
      BY <1>2, <2>1, NaturalsHaveLeast
  <2>3. x \in 1..N /\ x \notin T
    BY <2>2
  <2>4. x - 1 \in 0..N /\ x - 1 \notin T
    BY <2>3
  <2>5. x <= x - 1
    BY <2>2, <2>4
  <2> QED
    BY <2>3, <2>5
<1> QED
  BY <1>1, <1>2

(* A loop of N turns, each a step from what the turn before left, has its  *)
(* run: the function that recursion over the turns defines exists.         *)
IsLoop(N, V, base, turn) ==
  N \in Nat /\ base \in V /\ turn \in [1..N -> [V -> V]]

IsRun(run, n, V, base, turn) ==
  /\ run \in [0..n -> V]
  /\ run[0] = base
  /\ \A k \in 1..n : run[k] = turn[k][run[k - 1]]

LEMMA LoopHasRun ==
  ASSUME NEW N, NEW V, NEW base, NEW turn, IsLoop(N, V, base, turn)
  PROVE  \E run : IsRun(run, N, V, base, turn)
<1> USE DEF IsLoop
<1> DEFINE T == {n \in 0..N : \E f : IsRun(f, n, V, base, turn)}
<1>1. 0 \in T
  <2>1. PICK f : f = [k \in 0..0 |-> base]
    OBVIOUS
  <2>2. IsRun(f, 0, V, base, turn)
    BY <2>1 DEF IsRun
  <2>3. 0 \in 0..N
    OBVIOUS
  <2> QED
    BY <2>2, <2>3
<1>2. ASSUME NEW n \in 1..N, n - 1 \in T
      PROVE  n \in T
  <2>1. PICK f : IsRun(f, n - 1, V, base, turn)
    BY <1>2
  <2>a. /\ f \in [0..(n - 1) -> V]
        /\ f[0] = base
        /\ \A k \in 1..(n - 1) : f[k] = turn[k][f[k - 1]]
    BY <2>1 DEF IsRun
  <2>2. n \in Nat /\ n - 1 \in 0..(n - 1) /\ n \in 0..n /\ 0 \in 0..n
    OBVIOUS
  <2>3. PICK g : g = [k \in 0..n |-> IF k = n THEN turn[n][f[n - 1]] ELSE f[k]]
    OBVIOUS
  <2>4. turn[n][f[n - 1]] \in V
    BY <2>a, <2>2
  <2>5. \A k \in 0..n : k = n \/ k \in 0..(n - 1)
    OBVIOUS
  <2>6. g[n] = turn[n][f[n - 1]] /\ \A k \in 0..(n - 1) : g[k] = f[k]
    BY <2>3
  <2>7. \A k \in 0..n : g[k] \in V
    BY <2>a, <2>4, <2>5, <2>6
  <2>8. g \in [0..n -> V]
    BY <2>3, <2>7
  <2>9. g[0] = base
    BY <2>a, <2>6
  <2>10. ASSUME NEW k \in 1..n
         PROVE  g[k] = turn[k][g[k - 1]]
    <3>1. k - 1 \in 0..(n - 1) /\ g[k - 1] = f[k - 1]
      BY <2>6
    <3>2. CASE k = n
      BY <2>6, <3>1, <3>2
    <3>3. CASE k # n
      <4>1. k \in 1..(n - 1) /\ k \in 0..(n - 1)
        BY <3>3
      <4> QED
        BY <2>a, <2>6, <3>1, <4>1
    <3> QED
      BY <3>2, <3>3
  <2>11. IsRun(g, n, V, base, turn)
    BY <2>8, <2>9, <2>10 DEF IsRun
  <2> QED
    BY <2>11
<1>3. N \in T
  <2>1. \A n \in 1..N : n - 1 \in T => n \in T
    BY <1>2
  <2> HIDE DEF T
  <2>2. \A n \in 0..N : n \in T
    BY <1>1, <2>1, CountingUp
  <2> QED
    BY <2>2
<1> QED
  BY <1>3

(* A window that is not empty has a closest event, the earliest of those   *)
(* equally close.                                                          *)
LEMMA ClosestExists ==
  ASSUME NEW d \in Seq(LifecycleEvent), NEW ts \in Time, InWindow(d, ts) # {}
  PROVE  \E i \in InWindow(d, ts) : \A j \in InWindow(d, ts) :
            \/ d[j].ts < d[i].ts
            \/ d[j].ts = d[i].ts /\ i <= j
<1> DEFINE W == InWindow(d, ts)
           delta(i) == ts - d[i].ts
           Deltas == {delta(i) : i \in W}
<1>1. \A i \in W : i \in Nat /\ d[i].ts \in Int /\ delta(i) \in Nat
  <2> SUFFICES ASSUME NEW i \in W
               PROVE  i \in Nat /\ d[i].ts \in Int /\ delta(i) \in Nat
    OBVIOUS
  <2>1. i \in 1..Len(d) /\ delta(i) \in 0..WINDOW
    BY DEF InWindow
  <2>2. d[i] \in LifecycleEvent
    BY <2>1
  <2>3. d[i].ts \in Int
    BY <2>2, TimeAssumption DEF LifecycleEvent
  <2> QED
    BY <2>1, <2>3, WindowAssumption
<1>2. ts \in Int
  BY TimeAssumption
<1>3. PICK m \in Deltas : \A n \in Deltas : m <= n
  <2>1. Deltas \subseteq Nat /\ Deltas # {}
    BY <1>1
  <2> HIDE DEF Deltas
  <2> QED
    BY <2>1, NaturalsHaveLeast
<1> DEFINE Closest == {i \in W : delta(i) = m}
<1>4. PICK i \in Closest : \A j \in Closest : i <= j
  <2>1. Closest \subseteq Nat /\ Closest # {}
    BY <1>1
  <2> HIDE DEF Closest
  <2> QED
    BY <2>1, NaturalsHaveLeast
<1>5. ASSUME NEW j \in W
      PROVE  \/ d[j].ts < d[i].ts
             \/ d[j].ts = d[i].ts /\ i <= j
  <2>0. i \in W
    OBVIOUS
  <2>1. delta(i) <= delta(j)
    BY <1>3
  <2>2. CASE delta(j) = delta(i)
    <3>1. i <= j
      BY <1>4, <2>2
    <3> QED
      BY <3>1, <2>2, <1>1, <1>2
  <2>3. CASE delta(j) # delta(i)
    <3>1. /\ d[i].ts \in Int /\ d[j].ts \in Int
          /\ ts - d[i].ts <= ts - d[j].ts
          /\ ts - d[i].ts # ts - d[j].ts
      BY <2>0, <2>1, <2>3, <1>1
    <3> QED
      BY <3>1, <1>2
  <2> QED
    BY <2>2, <2>3
<1> QED
  BY <1>5

(* What the window answers is an event of the deque.                       *)
LEMMA CorrelationTyped ==
  ASSUME TypeOK, NEW ts \in Time
  PROVE  correlate_blueprint(recent_lifecycle, ts) \in LifecycleEvent \cup {None}
<1> DEFINE W == InWindow(recent_lifecycle, ts)
           delta(i) == ts - recent_lifecycle[i].ts
<1>1. CASE W = {}
  BY <1>1 DEF correlate_blueprint
<1>2. CASE W # {}
  <2>1. \A i \in W : i \in DOMAIN recent_lifecycle
    BY DEF InWindow
  <2>2. \E i \in W : \A j \in W :
          \/ recent_lifecycle[j].ts < recent_lifecycle[i].ts
          \/ recent_lifecycle[j].ts = recent_lifecycle[i].ts /\ i <= j
    BY <1>2, ClosestExists DEF TypeOK
  <2>3. correlate_blueprint(recent_lifecycle, ts) \in
          {recent_lifecycle[i] : i \in W}
    BY <1>2, <2>2 DEF correlate_blueprint
  <2> QED
    BY <2>1, <2>3, ElementOfSeq DEF TypeOK
<1> QED
  BY <1>1, <1>2

(* The name of an ended mission is one a marker carried, or the default.   *)
LEMMA NameTyped ==
  ASSUME TypeOK, NEW g \in Guid, NEW x
  PROVE  EndedName(g, x) \in Contract \cup {x}
BY DEF TypeOK, EndedName, ActiveMission, MissionEntry

(* Every line, and the reset, keeps the types.                             *)
LEMMA StepKeepsTypes ==
  ASSUME TypeOK, Next
  PROVE  TypeOK'
<1>1. ASSUME NEW l \in MarkerLine, Marker(l)
      PROVE  TypeOK'
  <2>1. [debug_name |-> l.contract, generator |-> l.generator] \in MissionEntry
    BY DEF MarkerLine, MissionEntry
  <2> QED
    BY <1>1, <2>1 DEF TypeOK, Marker
<1>2. ASSUME NEW l \in AcceptedLine, AcceptedUnknown(l)
      PROVE  TypeOK'
  BY <1>2 DEF TypeOK, AcceptedUnknown, domainVars
<1>3. ASSUME NEW l \in AcceptedLine, AcceptedKnown(l)
      PROVE  TypeOK'
  <2> DEFINE entry == guid_map[l.guid]
             m == [debug_name |-> entry.debug_name, generator |-> entry.generator,
                   start_ts |-> l.ts]
             e == [trigger |-> "accept", guid |-> l.guid,
                   debug_name |-> entry.debug_name, ts |-> l.ts]
  <2>1. l.guid \in Guid /\ l.ts \in Time
    BY DEF AcceptedLine
  <2>2. entry \in MissionEntry
    BY <1>3, <2>1 DEF TypeOK, AcceptedKnown
  <2>3. m \in ActiveMission /\ e \in LifecycleEvent
    BY <2>1, <2>2 DEF ActiveMission, LifecycleEvent, MissionEntry
  <2>4. active' = [active EXCEPT ![l.guid] = m]
    BY <1>3 DEF AcceptedKnown
  <2>5. active' \in [Guid -> ActiveMission \cup {None}] /\ active'[l.guid] = m
    BY <2>1, <2>3, <2>4 DEF TypeOK
  <2>6. out' \in Event
    BY <1>3, <2>1, <2>3, <2>5 DEF AcceptedKnown, Event
  <2>7. recent_lifecycle' = DequeAppend(recent_lifecycle, e)
    BY <1>3 DEF AcceptedKnown
  <2>8. recent_lifecycle' \in Seq(LifecycleEvent) /\ Len(recent_lifecycle') <= MAXLEN
    BY <2>3, <2>7, DequeAppendKeepsOrder DEF TypeOK
  <2>9. guid_map' = guid_map
    BY <1>3 DEF AcceptedKnown
  <2> QED
    BY <2>5, <2>6, <2>8, <2>9 DEF TypeOK
<1>4. ASSUME NEW l \in EndLine, EndMission(l)
      PROVE  TypeOK'
  <2> DEFINE e == [trigger |-> "complete", guid |-> l.guid,
                   debug_name |-> EndedName(l.guid, "?"), ts |-> l.ts]
  <2>1. l.guid \in Guid /\ l.ts \in Time /\ l.completion \in Completion
    BY DEF EndLine
  <2>2. /\ EndedName(l.guid, "?") \in Contract \cup {"?"}
        /\ EndedName(l.guid, None) \in Contract \cup {None}
    BY <2>1, NameTyped
  <2>3. active' \in [Guid -> ActiveMission \cup {None}]
    BY <1>4 DEF EndMission, TypeOK
  <2>4. out' \in Event
    BY <1>4, <2>1, <2>2 DEF EndMission, Event
  <2>5. e \in LifecycleEvent
    BY <2>1, <2>2 DEF LifecycleEvent
  <2>6. \/ recent_lifecycle' = recent_lifecycle
        \/ recent_lifecycle' = DequeAppend(recent_lifecycle, e)
    BY <1>4 DEF EndMission
  <2> HIDE DEF e
  <2>7. recent_lifecycle' \in Seq(LifecycleEvent) /\ Len(recent_lifecycle') <= MAXLEN
    <3>1. CASE recent_lifecycle' = recent_lifecycle
      BY <3>1 DEF TypeOK
    <3>2. CASE recent_lifecycle' = DequeAppend(recent_lifecycle, e)
      BY <3>2, <2>5, DequeAppendKeepsOrder DEF TypeOK
    <3> QED
      BY <2>6, <3>1, <3>2
  <2> QED
    BY <1>4, <2>3, <2>4, <2>7 DEF EndMission, TypeOK
<1>5. ASSUME NEW l \in BlueprintLine, Blueprint(l)
      PROVE  TypeOK'
  <2>1. l.ts \in Time
    BY DEF BlueprintLine
  <2>2. correlate_blueprint(recent_lifecycle, l.ts) \in LifecycleEvent \cup {None}
    BY <2>1, CorrelationTyped
  <2>3. out' \in Event
    BY <1>5, <2>1, <2>2 DEF Blueprint, Event
  <2> QED
    BY <1>5, <2>3 DEF Blueprint, TypeOK, domainVars
<1>6. ASSUME Reset
      PROVE  TypeOK'
  <2>1. recent_lifecycle' \in Seq(LifecycleEvent) /\ Len(recent_lifecycle') = 0
    BY <1>6 DEF Reset
  <2>2. out' \in Event
    BY <1>6 DEF Reset, Event
  <2> QED
    BY <1>6, <2>1, <2>2, MaxLenAssumption DEF Reset, TypeOK
<1> QED
  BY <1>1, <1>2, <1>3, <1>4, <1>5, <1>6 DEF Next, process_line

(* The containers always hold what the data classes declare, and the deque *)
(* stays within its bound.                                                 *)
THEOREM TypeCorrect == Spec => []TypeOK
<1>1. TypeOK /\ UNCHANGED stateVars => TypeOK'
  BY DEF TypeOK, stateVars
<1>2. TypeOK /\ [Next]_stateVars => TypeOK'
  BY <1>1, StepKeepsTypes
<1> QED
  BY InitTyped, <1>2, PTL DEF Spec

-----------------------------------------------------------------------------
(* Names.  The two invariants lean on each other: the name an end line     *)
(* takes from an active mission is its marker's, and the "?" is only taken *)
(* when neither is there, in which case no accept of the mission can be in *)
(* the deque.                                                              *)
NamesInv == TypeOK /\ ActiveMatchesMarkers /\ LifecycleNamesAgree

(* What LifecycleNamesAgree says of one event of the deque d, when the     *)
(* markers are M.                                                          *)
GoodEvent(d, i, M) ==
  /\ d[i].trigger = "accept" => M[d[i].guid] # None
  /\ d[i].debug_name # "?" => /\ M[d[i].guid] # None
                              /\ d[i].debug_name = M[d[i].guid].debug_name
  /\ d[i].debug_name = "?" =>
       /\ d[i].trigger = "complete"
       /\ \A j \in 1..(i - 1) : ~ (d[j].trigger = "accept" /\ d[j].guid = d[i].guid)

LEMMA GoodEvents ==
  LifecycleNamesAgree <=>
    \A i \in DOMAIN recent_lifecycle : GoodEvent(recent_lifecycle, i, guid_map)
BY DEF LifecycleNamesAgree, GoodEvent

(* Appending an event that is good after those there keeps all good,       *)
(* whether or not the oldest is evicted.                                   *)
LEMMA AppendKeepsGood ==
  ASSUME NEW d \in Seq(LifecycleEvent), Len(d) <= MAXLEN,
         NEW e \in LifecycleEvent, NEW M,
         \A i \in DOMAIN d : GoodEvent(d, i, M),
         e.trigger = "accept" => M[e.guid] # None,
         e.debug_name # "?" => M[e.guid] # None /\ e.debug_name = M[e.guid].debug_name,
         e.debug_name = "?" => e.trigger = "complete" /\ M[e.guid] = None
  PROVE  LET D == DequeAppend(d, e)
         IN  \A i \in DOMAIN D : GoodEvent(D, i, M)
<1> DEFINE D == DequeAppend(d, e)
<1>1. /\ D \in Seq(LifecycleEvent)
      /\ Len(D) \in Nat
      /\ D[Len(D)] = e
  BY DequeAppendKeepsOrder
<1> DEFINE k == Evicted(d)
<1>2. /\ Len(D) = Len(d) + 1 - k
      /\ k \in {0, 1}
      /\ \A i \in 1..(Len(D) - 1) : D[i] = d[i + k]
  <2>1. k \in {0, 1}
    BY DEF Evicted
  <2>2. Len(D) = Len(d) + 1 - k
    BY DequeAppendKeepsOrder
  <2>3. \A i \in 1..(Len(D) - 1) : D[i] = d[i + k]
    BY DequeAppendKeepsOrder
  <2> QED
    BY <2>1, <2>2, <2>3
<1> HIDE DEF D, k
<1>3. Len(d) \in Nat
  OBVIOUS
<1>4. \A i \in 1..(Len(D) - 1) : D[i] = d[i + k] /\ i + k \in 1..Len(d)
  BY <1>1, <1>2, <1>3
<1>5. ASSUME NEW i \in 1..(Len(D) - 1)
      PROVE  GoodEvent(D, i, M)
  <2>1. GoodEvent(d, i + k, M) /\ D[i] = d[i + k]
    BY <1>4
  <2>2. \A j \in 1..(i - 1) : D[j] = d[j + k] /\ j + k \in 1..((i + k) - 1)
    BY <1>1, <1>2
  <2>3. ASSUME NEW j \in 1..(i - 1), D[i].debug_name = "?"
        PROVE  ~ (D[j].trigger = "accept" /\ D[j].guid = D[i].guid)
    <3>1. D[j] = d[j + k] /\ j + k \in 1..((i + k) - 1)
      BY <2>2
    <3>2. d[i + k].debug_name = "?"
      BY <2>1, <2>3
    <3>3. \A n \in 1..((i + k) - 1) :
            ~ (d[n].trigger = "accept" /\ d[n].guid = d[i + k].guid)
      BY <2>1, <3>2, Zenon DEF GoodEvent
    <3>4. ~ (d[j + k].trigger = "accept" /\ d[j + k].guid = d[i + k].guid)
      BY <3>1, <3>3
    <3> QED
      BY <2>1, <3>1, <3>4
  <2>4. /\ D[i].trigger = "accept" => M[D[i].guid] # None
        /\ D[i].debug_name # "?" => /\ M[D[i].guid] # None
                                    /\ D[i].debug_name = M[D[i].guid].debug_name
        /\ D[i].debug_name = "?" => D[i].trigger = "complete"
    BY <2>1 DEF GoodEvent
  <2> QED
    BY <2>3, <2>4 DEF GoodEvent
<1>6. GoodEvent(D, Len(D), M)
  <2>1. ASSUME NEW j \in 1..(Len(D) - 1), e.debug_name = "?"
        PROVE  ~ (D[j].trigger = "accept" /\ D[j].guid = e.guid)
    <3>1. GoodEvent(d, j + k, M) /\ D[j] = d[j + k]
      BY <1>4
    <3> QED
      BY <3>1, <2>1 DEF GoodEvent
  <2> QED
    BY <1>1, <2>1 DEF GoodEvent
<1>7. DOMAIN D = 1..Len(D)
  BY <1>1
<1>8. \A i \in DOMAIN D : i = Len(D) \/ i \in 1..(Len(D) - 1)
  BY <1>1, <1>7
<1> QED
  BY <1>5, <1>6, <1>8 DEF D

LEMMA StepKeepsNames ==
  ASSUME NamesInv, Next
  PROVE  NamesInv'
<1> USE DEF NamesInv
<1>0. TypeOK'
  BY StepKeepsTypes
<1> DEFINE d == recent_lifecycle
<1>1. \A i \in DOMAIN d : GoodEvent(d, i, guid_map)
  BY GoodEvents
<1>2. d \in Seq(LifecycleEvent) /\ Len(d) <= MAXLEN
  BY DEF TypeOK
<1>3. \A i \in DOMAIN d : d[i].guid \in Guid
  <2>1. \A i \in DOMAIN d : d[i] \in LifecycleEvent
    BY <1>2, ElementOfSeq
  <2> QED
    BY <2>1 DEF LifecycleEvent
<1>4. ASSUME NEW l \in MarkerLine, Marker(l)
      PROVE  NamesInv'
  <2>1. \A g \in Guid : guid_map[g] # None => guid_map'[g] = guid_map[g]
    BY <1>4 DEF Marker, TypeOK, MarkerLine
  <2>2. active' = active /\ d' = d
    BY <1>4 DEF Marker
  <2>3. ActiveMatchesMarkers'
    BY <2>1, <2>2 DEF ActiveMatchesMarkers
  <2>4. \A i \in DOMAIN d : GoodEvent(d, i, guid_map')
    BY <1>1, <1>3, <2>1 DEF GoodEvent
  <2>5. LifecycleNamesAgree'
    BY <2>2, <2>4 DEF LifecycleNamesAgree, GoodEvent
  <2> QED
    BY <1>0, <2>3, <2>5
<1>5. ASSUME NEW l \in AcceptedLine, AcceptedUnknown(l)
      PROVE  NamesInv'
  BY <1>0, <1>5 DEF AcceptedUnknown, domainVars, ActiveMatchesMarkers, LifecycleNamesAgree
<1>6. ASSUME NEW l \in AcceptedLine, AcceptedKnown(l)
      PROVE  NamesInv'
  <2> DEFINE entry == guid_map[l.guid]
             e == [trigger |-> "accept", guid |-> l.guid,
                   debug_name |-> entry.debug_name, ts |-> l.ts]
  <2>1. l.guid \in Guid /\ l.ts \in Time
    BY DEF AcceptedLine
  <2>2. entry # None /\ entry \in MissionEntry
    BY <1>6, <2>1 DEF AcceptedKnown, TypeOK
  <2>3. entry.debug_name # "?" /\ e \in LifecycleEvent
    BY <2>1, <2>2, UnknownNameAssumption DEF MissionEntry, LifecycleEvent
  <2>4. d' = DequeAppend(d, e) /\ guid_map' = guid_map
    BY <1>6 DEF AcceptedKnown
  <2>5. \A i \in DOMAIN d' : GoodEvent(d', i, guid_map)
    BY <1>1, <1>2, <2>2, <2>3, <2>4, AppendKeepsGood
  <2>6. LifecycleNamesAgree'
    BY <2>4, <2>5 DEF LifecycleNamesAgree, GoodEvent
  <2>7. active' = [active EXCEPT ![l.guid] = [debug_name |-> entry.debug_name,
                                             generator |-> entry.generator,
                                             start_ts |-> l.ts]]
    BY <1>6 DEF AcceptedKnown
  <2>8. ActiveMatchesMarkers'
    BY <2>1, <2>2, <2>4, <2>7 DEF ActiveMatchesMarkers, TypeOK
  <2> QED
    BY <1>0, <2>6, <2>8
<1>7. ASSUME NEW l \in EndLine, EndMission(l)
      PROVE  NamesInv'
  <2> DEFINE e == [trigger |-> "complete", guid |-> l.guid,
                   debug_name |-> EndedName(l.guid, "?"), ts |-> l.ts]
  <2>1. l.guid \in Guid /\ l.ts \in Time
    BY DEF EndLine
  <2>2. guid_map' = guid_map /\ active' = [active EXCEPT ![l.guid] = None]
    BY <1>7 DEF EndMission
  <2>3. ActiveMatchesMarkers'
    BY <2>1, <2>2 DEF ActiveMatchesMarkers, TypeOK
  <2>4. e \in LifecycleEvent
    BY <2>1, NameTyped DEF LifecycleEvent
  <2>5. /\ guid_map[l.guid] = None => EndedName(l.guid, "?") = "?"
        /\ guid_map[l.guid] # None =>
             /\ EndedName(l.guid, "?") = guid_map[l.guid].debug_name
             /\ EndedName(l.guid, "?") # "?"
    <3>1. guid_map[l.guid] # None => guid_map[l.guid].debug_name # "?"
      BY <2>1, UnknownNameAssumption DEF TypeOK, MissionEntry
    <3> QED
      BY <2>1, <3>1 DEF EndedName, ActiveMatchesMarkers
  <2>6. \/ d' = d
        \/ d' = DequeAppend(d, e)
    BY <1>7 DEF EndMission
  <2>7. \A i \in DOMAIN d' : GoodEvent(d', i, guid_map)
    <3>1. CASE d' = d
      BY <1>1, <3>1
    <3>2. CASE d' = DequeAppend(d, e)
      BY <1>1, <1>2, <2>4, <2>5, <3>2, AppendKeepsGood
    <3> QED
      BY <2>6, <3>1, <3>2
  <2>8. LifecycleNamesAgree'
    BY <2>2, <2>7 DEF LifecycleNamesAgree, GoodEvent
  <2> QED
    BY <1>0, <2>3, <2>8
<1>8. ASSUME NEW l \in BlueprintLine, Blueprint(l)
      PROVE  NamesInv'
  BY <1>0, <1>8 DEF Blueprint, domainVars, ActiveMatchesMarkers, LifecycleNamesAgree
<1>9. ASSUME Reset
      PROVE  NamesInv'
  <2>1. ActiveMatchesMarkers'
    BY <1>9 DEF Reset, ActiveMatchesMarkers
  <2>2. LifecycleNamesAgree'
    BY <1>9 DEF Reset, LifecycleNamesAgree
  <2> QED
    BY <1>0, <2>1, <2>2
<1> QED
  BY <1>4, <1>5, <1>6, <1>7, <1>8, <1>9 DEF Next, process_line

LEMMA NamesInvariant == Spec => []NamesInv
<1>1. Init => NamesInv
  <2>1. Init => ActiveMatchesMarkers /\ LifecycleNamesAgree
    BY DEF Init, ActiveMatchesMarkers, LifecycleNamesAgree
  <2> QED
    BY <2>1, InitTyped DEF NamesInv
<1>2. NamesInv /\ UNCHANGED stateVars => NamesInv'
  BY DEF NamesInv, TypeOK, ActiveMatchesMarkers, LifecycleNamesAgree, stateVars
<1>3. NamesInv /\ [Next]_stateVars => NamesInv'
  BY <1>2, StepKeepsNames
<1> QED
  BY <1>1, <1>3, PTL DEF Spec

(* An active mission always shows the names of its first marker.           *)
THEOREM ActiveNamesCorrect == Spec => []ActiveMatchesMarkers
<1>1. NamesInv => ActiveMatchesMarkers
  BY DEF NamesInv
<1> QED
  BY <1>1, NamesInvariant, PTL

(* The deque always names missions as their markers do, and never lost the *)
(* name of an accepted one.                                                *)
THEOREM LifecycleNamesCorrect == Spec => []LifecycleNamesAgree
<1>1. NamesInv => LifecycleNamesAgree
  BY DEF NamesInv
<1> QED
  BY <1>1, NamesInvariant, PTL

-----------------------------------------------------------------------------
(* The loop of correlate_blueprint.                                        *)

(* After n events the loop holds the closest of them in the window, the    *)
(* earliest of those equally close; nothing, and a distance no event of    *)
(* the window reaches, when there is none.                                 *)
BestAfter(d, ts, n, best) ==
  \/ /\ best = [event |-> None, delta |-> WINDOW + 1]
     /\ \A j \in InWindow(d, ts) : j > n
  \/ \E i \in InWindow(d, ts) :
       /\ i <= n
       /\ best = [event |-> d[i], delta |-> ts - d[i].ts]
       /\ \A j \in InWindow(d, ts) : j <= n =>
            d[j].ts < d[i].ts \/ (d[j].ts = d[i].ts /\ i <= j)

LEMMA TurnKeepsBest ==
  ASSUME NEW d \in Seq(LifecycleEvent), NEW ts \in Time,
         NEW n \in 1..Len(d), NEW best, BestAfter(d, ts, n - 1, best)
  PROVE  BestAfter(d, ts, n, Closer(best, d[n], ts))
<1> DEFINE W == InWindow(d, ts)
           delta == ts - d[n].ts
<1>1. ts \in Int /\ \A j \in DOMAIN d : d[j].ts \in Int
  <2>1. \A j \in DOMAIN d : d[j] \in LifecycleEvent
    BY ElementOfSeq
  <2> QED
    BY <2>1, TimeAssumption DEF LifecycleEvent
<1>2. /\ \A j \in W : j \in 1..Len(d) /\ ts - d[j].ts \in 0..WINDOW
      /\ \A j \in 1..Len(d) : ts - d[j].ts \in 0..WINDOW => j \in W
  BY DEF InWindow
<1>3. n \in DOMAIN d /\ delta \in Int
  BY <1>1
<1>4. CASE n \notin W
  <2>1. ~(0 <= delta /\ delta <= WINDOW)
    BY <1>2, <1>3, <1>4, WindowAssumption
  <2>2. Closer(best, d[n], ts) = best
    BY <2>1 DEF Closer
  <2>3. \A j \in W : /\ j > n - 1 => j > n
                     /\ j <= n => j <= n - 1
    BY <1>2, <1>4
  <2>4. n - 1 <= n /\ \A i \in W : i <= n - 1 => i <= n
    BY <1>2
  <2> HIDE DEF W
  <2> QED
    BY <2>2, <2>3, <2>4 DEF BestAfter, W
<1>5. CASE n \in W
  <2>1. delta \in 0..WINDOW /\ 0 <= delta /\ delta <= WINDOW
    BY <1>2, <1>5
  <2>2. \A j \in W : j <= n => j = n \/ j <= n - 1
    BY <1>2
  <2>3. CASE /\ best = [event |-> None, delta |-> WINDOW + 1]
             /\ \A j \in W : j > n - 1
    <3>1. delta < best.delta
      BY <2>1, <2>3, WindowAssumption
    <3>2. Closer(best, d[n], ts) = [event |-> d[n], delta |-> delta]
      BY <2>1, <3>1 DEF Closer
    <3>3. \A j \in W : j <= n => j = n
      BY <1>2, <2>2, <2>3
    <3> QED
      BY <1>5, <3>2, <3>3 DEF BestAfter
  <2>4. ASSUME NEW i \in W, i <= n - 1,
               best = [event |-> d[i], delta |-> ts - d[i].ts],
               \A j \in W : j <= n - 1 =>
                 d[j].ts < d[i].ts \/ (d[j].ts = d[i].ts /\ i <= j)
        PROVE  BestAfter(d, ts, n, Closer(best, d[n], ts))
    <3>1. i \in DOMAIN d /\ d[i].ts \in Int /\ d[n].ts \in Int /\ i <= n
      BY <1>1, <1>2, <1>3, <2>4
    <3>2. CASE d[n].ts > d[i].ts
      <4>1. delta < best.delta
        BY <1>1, <2>4, <3>1, <3>2
      <4>2. Closer(best, d[n], ts) = [event |-> d[n], delta |-> delta]
        BY <2>1, <4>1 DEF Closer
      <4>3. ASSUME NEW j \in W, j <= n
            PROVE  d[j].ts < d[n].ts \/ (d[j].ts = d[n].ts /\ n <= j)
        <5>1. CASE j = n
          BY <1>2, <5>1
        <5>2. CASE j <= n - 1
          <6>1. d[j].ts < d[i].ts \/ d[j].ts = d[i].ts
            BY <2>4, <4>3, <5>2
          <6>2. d[j].ts \in Int
            BY <1>1, <1>2, <4>3
          <6> QED
            BY <3>1, <3>2, <6>1, <6>2
        <5> QED
          BY <2>2, <4>3, <5>1, <5>2
      <4> QED
        BY <1>5, <4>2, <4>3 DEF BestAfter
    <3>3. CASE d[n].ts <= d[i].ts
      <4>1. ~(delta < best.delta)
        BY <1>1, <2>4, <3>1, <3>3
      <4>2. Closer(best, d[n], ts) = best
        BY <4>1 DEF Closer
      <4>3. d[n].ts < d[i].ts \/ (d[n].ts = d[i].ts /\ i <= n)
        BY <3>1, <3>3
      <4>4. \A j \in W : j <= n =>
              d[j].ts < d[i].ts \/ (d[j].ts = d[i].ts /\ i <= j)
        BY <2>2, <2>4, <4>3
      <4> QED
        BY <2>4, <3>1, <4>2, <4>4 DEF BestAfter
    <3> QED
      BY <3>1, <3>2, <3>3
  <2> QED
    BY <2>3, <2>4 DEF BestAfter
<1> QED
  BY <1>4, <1>5

(* The loop runs: what the recursive definition names exists.              *)
LEMMA LoopRuns ==
  ASSUME NEW d \in Seq(LifecycleEvent), NEW ts \in Time
  PROVE  \E best :
           /\ best[0] = [event |-> None, delta |-> WINDOW + 1]
           /\ \A k \in 1..Len(d) : best[k] = Closer(best[k - 1], d[k], ts)
           /\ correlate_loop(d, ts) = best[Len(d)].event
<1> DEFINE N == Len(d)
           V == [event : LifecycleEvent \cup {None}, delta : Int]
           base == [event |-> None, delta |-> WINDOW + 1]
           turn == [n \in 1..N |-> [b \in V |-> Closer(b, d[n], ts)]]
           Def(f) == [n \in 0..N |-> IF n = 0 THEN base
                                     ELSE Closer(f[n - 1], d[n], ts)]
<1>1. N \in Nat /\ base \in V
  BY WindowAssumption
<1>2. ASSUME NEW b \in V, NEW n \in 1..N
      PROVE  Closer(b, d[n], ts) \in V
  <2>1. d[n] \in LifecycleEvent
    OBVIOUS
  <2>2. ts \in Int /\ d[n].ts \in Int
    BY <2>1, TimeAssumption DEF LifecycleEvent
  <2>3. ts - d[n].ts \in Int
    BY <2>2
  <2> QED
    BY <2>1, <2>3 DEF Closer
<1>3. turn \in [1..N -> [V -> V]]
  BY <1>2
<1>4. \A b \in V, n \in 1..N : turn[n][b] = Closer(b, d[n], ts)
  OBVIOUS
<1> HIDE DEF V, turn, base, N
<1>a. IsLoop(N, V, base, turn)
  BY <1>1, <1>3 DEF IsLoop
<1>b. PICK run : IsRun(run, N, V, base, turn)
  BY <1>a, LoopHasRun
<1>5. /\ run \in [0..N -> V]
      /\ run[0] = base
      /\ \A k \in 1..N : run[k] = turn[k][run[k - 1]]
  BY <1>b DEF IsRun
<1>6. \A k \in 1..N : run[k] = Closer(run[k - 1], d[k], ts)
  <2>1. \A k \in 1..N : k - 1 \in 0..N
    BY <1>1
  <2> QED
    BY <1>4, <1>5, <2>1
<1>7. run = Def(run)
  BY <1>5, <1>6
<1>8. PICK best : best = CHOOSE f : f = Def(f)
  OBVIOUS
<1>9. best = Def(best)
  BY <1>7, <1>8
<1>10. correlate_loop(d, ts) = best[N].event
  BY <1>8 DEF correlate_loop, base, N
<1>11. \A k \in 1..N : k \in 0..N /\ k # 0
  BY <1>1
<1>12. best[0] = base /\ \A k \in 1..N : best[k] = Closer(best[k - 1], d[k], ts)
  BY <1>1, <1>9, <1>11
<1> QED
  BY <1>10, <1>12 DEF base, N

LEMMA LoopIsClosest ==
  ASSUME NEW d \in Seq(LifecycleEvent), NEW ts \in Time
  PROVE  correlate_loop(d, ts) = correlate_blueprint(d, ts)
<1> DEFINE N == Len(d)
           W == InWindow(d, ts)
<1>1. PICK best :
        /\ best[0] = [event |-> None, delta |-> WINDOW + 1]
        /\ \A k \in 1..N : best[k] = Closer(best[k - 1], d[k], ts)
        /\ correlate_loop(d, ts) = best[N].event
  BY LoopRuns
<1> DEFINE T == {n \in 0..N : BestAfter(d, ts, n, best[n])}
<1>2. \A j \in W : j \in 1..N
  BY DEF InWindow
<1>3. 0 \in T
  BY <1>1, <1>2 DEF BestAfter
<1>4. ASSUME NEW n \in 1..N, n - 1 \in T
      PROVE  n \in T
  <2>1. BestAfter(d, ts, n - 1, best[n - 1])
    BY <1>4
  <2>2. BestAfter(d, ts, n, Closer(best[n - 1], d[n], ts))
    BY <2>1, TurnKeepsBest
  <2> QED
    BY <1>1, <2>2
<1>5. N \in T
  <2>1. N \in Nat
    OBVIOUS
  <2>2. \A n \in 1..N : n - 1 \in T => n \in T
    BY <1>4
  <2> HIDE DEF T, N
  <2>3. \A n \in 0..N : n \in T
    BY <1>3, <2>1, <2>2, CountingUp
  <2> QED
    BY <2>1, <2>3
<1>6. BestAfter(d, ts, N, best[N])
  BY <1>5
<1>7. CASE W = {}
  <2>1. best[N].event = None
    BY <1>6, <1>7 DEF BestAfter
  <2> QED
    BY <1>1, <1>7, <2>1 DEF correlate_blueprint
<1>8. CASE W # {}
  <2> DEFINE Best(i) == \A j \in W : d[j].ts < d[i].ts \/ (d[j].ts = d[i].ts /\ i <= j)
  <2>1. \A j \in W : j <= N /\ ~(j > N) /\ j \in Int /\ d[j].ts \in Int
    <3>1. \A j \in 1..N : d[j] \in LifecycleEvent
      OBVIOUS
    <3>2. \A j \in 1..N : d[j].ts \in Int
      BY <3>1, TimeAssumption DEF LifecycleEvent
    <3>3. \A j \in 1..N : j <= N /\ ~(j > N) /\ j \in Int
      OBVIOUS
    <3> HIDE DEF W
    <3> QED
      BY <1>2, <3>2, <3>3
  <2>a. ~ \A j \in W : j > N
    BY <1>8, <2>1
  <2>b. PICK i \in W :
          /\ best[N] = [event |-> d[i], delta |-> ts - d[i].ts]
          /\ \A j \in W : j <= N => d[j].ts < d[i].ts \/ (d[j].ts = d[i].ts /\ i <= j)
    BY <1>6, <2>a DEF BestAfter
  <2>2. i \in W /\ best[N].event = d[i] /\ Best(i)
    BY <2>1, <2>b
  <2>3. \A k \in W : Best(k) => k = i
    BY <2>1, <2>2
  <2>4. i = CHOOSE k \in W : Best(k)
    BY <2>2, <2>3
  <2> QED
    BY <1>1, <1>8, <2>2, <2>4 DEF correlate_blueprint
<1> QED
  BY <1>7, <1>8

(* For every length of the deque and every width of the window, the loop   *)
(* of the code ends with the closest event of the window, the earliest of  *)
(* those equally close, and with nothing only when the window is empty     *)
(* (domain.py:121-130).                                                    *)
THEOREM LoopCorrect == Spec => []LoopFindsClosest
<1>1. TypeOK => LoopFindsClosest
  BY LoopIsClosest DEF TypeOK, LoopFindsClosest
<1> QED
  BY <1>1, TypeCorrect, PTL
=============================================================================
