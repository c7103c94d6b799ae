--------------------------- MODULE LiveFeed_proofs ---------------------------
(***************************************************************************)
(* NoClientDiverges, for any number of clients, missions and lines and     *)
(* any queue size.                                                         *)
(***************************************************************************)
EXTENDS LiveFeed, WatcherState_proofs

(* The inductive invariant.  NoClientDiverges speaks of clients that have  *)
(* a snapshot; for the snapshot to be good when it is taken, what is on    *)
(* its way to a mere subscriber must already end in the active missions    *)
(* (ComingSettles), and for that the event being broadcast must tell the   *)
(* state as it is now (OutTellsState).                                     *)
Registered == \A c \in Conn : c \in subs <=> stage[c] # "idle"

OutTellsState ==
  phase # "parse" =>
    /\ out \in Event
    /\ \A g \in Guid : Touches(out, g) => After(out) = active[g]

TargetsOnlyInPut == phase # "put" => targets = {}

ComingSettles ==
  \A c \in subs : ~lost[c] =>
    \A g \in Guid : SettlesAs(Coming(c), g, active[g]) \/ Untouched(Coming(c), g)

FeedInv ==
  /\ FeedTypeOK
  /\ Registered
  /\ OutTellsState
  /\ TargetsOnlyInPut
  /\ ComingSettles
  /\ NoClientDiverges

-----------------------------------------------------------------------------
(* Queues of events.                                                       *)

(* An appended event decides about the missions it touches, and leaves the *)
(* others as they were.                                                    *)
LEMMA AppendDecides ==
  ASSUME NEW S, NEW s \in Seq(S), NEW e \in S, NEW g, NEW v
  PROVE  /\ Touches(e, g) => SettlesAs(Append(s, e), g, After(e))
         /\ ~Touches(e, g) /\ SettlesAs(s, g, v) => SettlesAs(Append(s, e), g, v)
         /\ ~Touches(e, g) /\ Untouched(s, g) => Untouched(Append(s, e), g)
<1> DEFINE t == Append(s, e)
           n == Len(s)
<1>1. /\ n \in Nat
      /\ Len(t) = n + 1
      /\ DOMAIN s = 1..n /\ DOMAIN t = 1..(n + 1)
      /\ t[n + 1] = e
      /\ \A i \in 1..n : t[i] = s[i]
  OBVIOUS
<1> HIDE DEF t, n
<1>2. ASSUME Touches(e, g)
      PROVE  SettlesAs(t, g, After(e))
  <2>1. n + 1 \in DOMAIN t /\ (n + 1 + 1)..Len(t) = {}
    BY <1>1
  <2> QED
    BY <1>1, <1>2, <2>1 DEF SettlesAs
<1>3. ASSUME ~Touches(e, g), SettlesAs(s, g, v)
      PROVE  SettlesAs(t, g, v)
  <2>1. PICK i \in 1..n : /\ Touches(s[i], g)
                          /\ After(s[i]) = v
                          /\ \A j \in (i + 1)..n : ~Touches(s[j], g)
    BY <1>1, <1>3 DEF SettlesAs, n
  <2>2. \A j \in (i + 1)..(n + 1) : ~Touches(t[j], g)
    BY <1>1, <1>3, <2>1
  <2> QED
    BY <1>1, <2>1, <2>2 DEF SettlesAs
<1>4. ASSUME ~Touches(e, g), Untouched(s, g)
      PROVE  Untouched(t, g)
  BY <1>1, <1>4 DEF Untouched
<1> QED
  BY <1>2, <1>3, <1>4 DEF t

(* Taking the head off: either a later event still decides, or the head    *)
(* did, or nothing did.                                                    *)
LEMMA TailDecides ==
  ASSUME NEW S, NEW s \in Seq(S), s # <<>>, NEW g, NEW v
  PROVE  /\ SettlesAs(s, g, v) =>
              \/ SettlesAs(Tail(s), g, v)
              \/ Untouched(Tail(s), g) /\ Touches(Head(s), g) /\ After(Head(s)) = v
         /\ Untouched(s, g) => Untouched(Tail(s), g) /\ ~Touches(Head(s), g)
<1> DEFINE t == Tail(s)
           n == Len(s)
<1>1. /\ n \in Nat /\ n >= 1
      /\ Len(t) = n - 1
      /\ DOMAIN s = 1..n /\ DOMAIN t = 1..(n - 1)
      /\ Head(s) = s[1]
      /\ \A i \in 1..(n - 1) : t[i] = s[i + 1]
  OBVIOUS
<1> HIDE DEF t, n
<1>2. ASSUME SettlesAs(s, g, v)
      PROVE  \/ SettlesAs(t, g, v)
             \/ Untouched(t, g) /\ Touches(s[1], g) /\ After(s[1]) = v
  <2>1. PICK i \in 1..n : /\ Touches(s[i], g)
                          /\ After(s[i]) = v
                          /\ \A j \in (i + 1)..n : ~Touches(s[j], g)
    BY <1>1, <1>2 DEF SettlesAs, n
  <2>2. CASE i = 1
    BY <1>1, <2>1, <2>2 DEF Untouched
  <2>3. CASE i # 1
    <3>1. i - 1 \in 1..(n - 1) /\ t[i - 1] = s[i]
      BY <1>1, <2>3
    <3>2. \A j \in i..(n - 1) : ~Touches(t[j], g)
      BY <1>1, <2>1
    <3>3. (i - 1) + 1 = i
      OBVIOUS
    <3> QED
      BY <1>1, <2>1, <3>1, <3>2, <3>3 DEF SettlesAs
  <2> QED
    BY <2>2, <2>3
<1>3. ASSUME Untouched(s, g)
      PROVE  Untouched(t, g) /\ ~Touches(s[1], g)
  BY <1>1, <1>3 DEF Untouched
<1> QED
  BY <1>1, <1>2, <1>3 DEF t

-----------------------------------------------------------------------------
(* What a line tells.                                                      *)

(* A line that broadcasts nothing changes no mission, and one that does    *)
(* tells of every mission it changed, and tells it as it is now.           *)
LEMMA LineTellsChange ==
  ASSUME TypeOK, Next
  PROVE  \/ out' = None /\ active' = active
         \/ /\ out' \in Event
            /\ out' # None
            /\ \A g \in Guid : /\ Touches(out', g) => After(out') = active'[g]
                               /\ ~Touches(out', g) => active'[g] = active[g]
<1>1. TypeOK'
  BY StepKeepsTypes
<1>2. out' # None => out' \in Event
  BY <1>1 DEF TypeOK
<1>3. None \notin Event
  BY NoneAssumption
<1>4. ASSUME NEW l \in MarkerLine, Marker(l)
      PROVE  out' = None /\ active' = active
  BY <1>4 DEF Marker
<1>5. ASSUME NEW l \in AcceptedLine, AcceptedUnknown(l)
      PROVE  out' = None /\ active' = active
  BY <1>5 DEF AcceptedUnknown, domainVars
<1>6. ASSUME NEW l \in AcceptedLine, AcceptedKnown(l)
      PROVE  /\ out' # None
             /\ \A g \in Guid : /\ Touches(out', g) => After(out') = active'[g]
                                /\ ~Touches(out', g) => active'[g] = active[g]
  <2>1. l.guid \in Guid
    BY DEF AcceptedLine
  <2>2. out' = [type |-> "mission_start", guid |-> l.guid, mission |-> active'[l.guid]]
    BY <1>6 DEF AcceptedKnown
  <2>3. \A g \in Guid : g # l.guid => active'[g] = active[g]
    BY <1>6 DEF AcceptedKnown, TypeOK
  <2>4. active'[l.guid] \in ActiveMission
    <3>1. guid_map[l.guid] \in MissionEntry /\ l.ts \in Time
      BY <1>6, <2>1 DEF AcceptedKnown, TypeOK, AcceptedLine
    <3> QED
      BY <1>6, <2>1, <3>1 DEF AcceptedKnown, TypeOK, MissionEntry, ActiveMission
  <2>5. out' \in Event
    BY <2>1, <2>2, <2>4 DEF Event
  <2>6. \A g \in Guid : Touches(out', g) <=> g = l.guid
    BY <2>2 DEF Touches
  <2>7. After(out') = active'[l.guid]
    BY <2>2 DEF After
  <2> QED
    BY <1>3, <2>3, <2>5, <2>6, <2>7
<1>7. ASSUME NEW l \in EndLine, EndMission(l)
      PROVE  /\ out' # None
             /\ \A g \in Guid : /\ Touches(out', g) => After(out') = active'[g]
                                /\ ~Touches(out', g) => active'[g] = active[g]
  <2> DEFINE type == IF l.completion = "Complete"
                     THEN "mission_complete" ELSE "mission_ended"
  <2>1. l.guid \in Guid /\ l.ts \in Time /\ l.completion \in Completion
    BY DEF EndLine
  <2>2. out' = [type |-> type, guid |-> l.guid, debugName |-> EndedName(l.guid, None),
                completion |-> l.completion, endTs |-> l.ts]
    BY <1>7 DEF EndMission
  <2>3. active' = [active EXCEPT ![l.guid] = None]
    BY <1>7 DEF EndMission
  <2>4. EndedName(l.guid, None) \in Contract \cup {None}
    BY <2>1, NameTyped
  <2>5. out' \in Event
    BY <2>1, <2>2, <2>4 DEF Event
  <2>6. type \in {"mission_complete", "mission_ended"}
    OBVIOUS
  <2> HIDE DEF type
  <2>7. out'.type = type /\ out'.guid = l.guid
    BY <2>2
  <2>8. \A g \in Guid : Touches(out', g) <=> g = l.guid
    BY <2>6, <2>7 DEF Touches
  <2>9. After(out') = None
    BY <2>6, <2>7 DEF After
  <2> QED
    BY <1>3, <2>1, <2>3, <2>5, <2>8, <2>9 DEF TypeOK
<1>8. ASSUME NEW l \in BlueprintLine, Blueprint(l)
      PROVE  /\ out' # None
             /\ \A g \in Guid : /\ Touches(out', g) => After(out') = active'[g]
                                /\ ~Touches(out', g) => active'[g] = active[g]
  <2>1. l.ts \in Time
    BY DEF BlueprintLine
  <2>2. correlate_blueprint(recent_lifecycle, l.ts) \in LifecycleEvent \cup {None}
    BY <2>1, CorrelationTyped
  <2>3. out' = [type |-> "blueprint_received", ts |-> l.ts,
                mission |-> correlate_blueprint(recent_lifecycle, l.ts)]
    BY <1>8 DEF Blueprint
  <2>4. out' \in Event
    BY <2>1, <2>2, <2>3 DEF Event
  <2>5. \A g \in Guid : ~Touches(out', g)
    BY <2>3 DEF Touches
  <2> QED
    BY <1>3, <1>8, <2>4, <2>5 DEF Blueprint, domainVars
<1>9. ASSUME Reset
      PROVE  /\ out' # None
             /\ \A g \in Guid : /\ Touches(out', g) => After(out') = active'[g]
                                /\ ~Touches(out', g) => active'[g] = active[g]
  <2>1. out' = [type |-> "session_reset"]
    BY <1>9 DEF Reset
  <2>2. out' \in Event
    BY <2>1 DEF Event
  <2>3. \A g \in Guid : Touches(out', g)
    BY <2>1 DEF Touches
  <2>4. After(out') = None
    BY <2>1 DEF After
  <2> QED
    BY <1>3, <1>9, <2>2, <2>3, <2>4 DEF Reset
<1> QED
  BY <1>2, <1>4, <1>5, <1>6, <1>7, <1>8, <1>9 DEF Next, process_line

-----------------------------------------------------------------------------
(* Types.  OutTellsState is needed: only an event is ever put on a queue.  *)

LEMMA FeedStepKeepsTypes ==
  ASSUME FeedTypeOK, OutTellsState, FeedNext
  PROVE  FeedTypeOK'
<1> USE DEF FeedTypeOK
<1>1. CASE Parse
  <2>1. TypeOK'
    BY <1>1, StepKeepsTypes DEF Parse, Next
  <2>2. phase' \in {"parse", "copy", "put"}
    BY <1>1 DEF Parse
  <2> QED
    BY <1>1, <2>1, <2>2 DEF Parse
<1>2. CASE CopySubs
  <2>1. TypeOK'
    BY <1>2 DEF CopySubs, stateVars, TypeOK
  <2> QED
    BY <1>2, <2>1 DEF CopySubs, connVars
<1>3. ASSUME NEW c \in Conn, PutNoWait(c)
      PROVE  FeedTypeOK'
  <2>1. TypeOK'
    BY <1>3 DEF PutNoWait, stateVars, TypeOK
  <2>2. out \in Event
    BY <1>3 DEF PutNoWait, OutTellsState
  <2>3. queue[c] \in Seq(Event)
    OBVIOUS
  <2>4. /\ Append(queue[c], out) \in Seq(Event)
        /\ Len(Append(queue[c], out)) = Len(queue[c]) + 1
        /\ Len(queue[c]) \in Nat
    BY <2>2, <2>3
  <2>5. /\ queue' \in [Conn -> Seq(Event)]
        /\ \A k \in Conn : Len(queue'[k]) <= QMAX
        /\ lost' \in [Conn -> BOOLEAN]
    <3>1. CASE Len(queue[c]) < QMAX
      <4>1. queue' = [queue EXCEPT ![c] = Append(@, out)] /\ lost' = lost
        BY <1>3, <3>1 DEF PutNoWait
      <4> QED
        BY <2>4, <3>1, <4>1, QMaxAssumption
    <3>2. CASE ~(Len(queue[c]) < QMAX)
      BY <1>3, <3>2 DEF PutNoWait
    <3> QED
      BY <3>1, <3>2
  <2> QED
    BY <1>3, <2>1, <2>5 DEF PutNoWait, connVars
<1>4. CASE BroadcastDone
  <2>1. TypeOK'
    BY <1>4 DEF BroadcastDone, domainVars, TypeOK
  <2> QED
    BY <1>4, <2>1 DEF BroadcastDone, connVars
<1>5. ASSUME NEW c \in Conn, Subscribe(c)
      PROVE  FeedTypeOK'
  <2>1. TypeOK'
    BY <1>5 DEF Subscribe, stateVars, TypeOK
  <2>2. \A k \in Conn : Len(queue'[k]) <= QMAX
    BY <1>5, QMaxAssumption DEF Subscribe
  <2>3. <<>> \in Seq(Event)
    OBVIOUS
  <2> QED
    BY <1>5, <2>1, <2>2, <2>3 DEF Subscribe, Goto, Stage, Link
<1>6. ASSUME NEW c \in Conn, TakeSnapshot(c)
      PROVE  FeedTypeOK'
  <2>1. TypeOK'
    BY <1>6 DEF TakeSnapshot, stateVars, TypeOK
  <2> QED
    BY <1>6, <2>1 DEF TakeSnapshot, Goto, Stage, TypeOK
<1>7. ASSUME NEW c \in Conn, BodyNotIterated(c)
      PROVE  FeedTypeOK'
  <2>1. TypeOK'
    BY <1>7 DEF BodyNotIterated, stateVars, TypeOK
  <2> QED
    BY <1>7, <2>1 DEF BodyNotIterated, Goto, Stage
<1>8. ASSUME NEW c \in Conn,
             \/ WriteSucceeds(c) /\ (UNCHANGED stage \/ Goto(c, "streaming"))
             \/ WriteFails(c) /\ Goto(c, "closing")
      PROVE  link' \in [Conn -> Link] /\ stage' \in [Conn -> Stage]
  BY <1>8 DEF WriteSucceeds, WriteFails, Goto, Stage, Link
<1>9. ASSUME NEW c \in Conn, SendSnapshot(c)
      PROVE  FeedTypeOK'
  <2>1. TypeOK'
    BY <1>9 DEF SendSnapshot, stateVars, TypeOK
  <2>2. link' \in [Conn -> Link] /\ stage' \in [Conn -> Stage]
    BY <1>8, <1>9 DEF SendSnapshot
  <2> QED
    BY <1>9, <2>1, <2>2 DEF SendSnapshot
<1>10. ASSUME NEW c \in Conn, Deliver(c)
       PROVE  FeedTypeOK'
  <2>1. TypeOK'
    BY <1>10 DEF Deliver, stateVars, TypeOK
  <2>2. link' \in [Conn -> Link] /\ stage' \in [Conn -> Stage]
    BY <1>8, <1>10 DEF Deliver
  <2>3. queue[c] \in Seq(Event) /\ queue[c] # <<>> /\ Len(queue[c]) <= QMAX
    BY <1>10 DEF Deliver
  <2>4. /\ Tail(queue[c]) \in Seq(Event)
        /\ Len(Tail(queue[c])) = Len(queue[c]) - 1
        /\ Len(queue[c]) \in Nat
        /\ Head(queue[c]) \in Event
    BY <2>3
  <2>5. queue' = [queue EXCEPT ![c] = Tail(@)]
    BY <1>10 DEF Deliver
  <2>6. /\ queue' \in [Conn -> Seq(Event)]
        /\ \A k \in Conn : Len(queue'[k]) <= QMAX
    BY <2>3, <2>4, <2>5, QMaxAssumption
  <2>7. After(Head(queue[c])) \in ActiveMission \cup {None}
    BY <2>4 DEF After, Event
  <2>8. Apply(view[c], Head(queue[c])) \in [Guid -> ActiveMission \cup {None}]
    BY <2>7 DEF Apply
  <2>9. view' = [view EXCEPT ![c] = Apply(@, Head(queue[c]))]
    BY <1>10 DEF Deliver
  <2> QED
    BY <1>10, <2>1, <2>2, <2>6, <2>8, <2>9 DEF Deliver
<1>11. ASSUME NEW c \in Conn, Heartbeat(c)
       PROVE  FeedTypeOK'
  <2>1. TypeOK'
    BY <1>11 DEF Heartbeat, stateVars, TypeOK
  <2>2. link' \in [Conn -> Link] /\ stage' \in [Conn -> Stage]
    BY <1>8, <1>11 DEF Heartbeat
  <2> QED
    BY <1>11, <2>1, <2>2 DEF Heartbeat
<1>12. ASSUME NEW c \in Conn, Unsubscribe(c)
       PROVE  FeedTypeOK'
  <2>1. TypeOK'
    BY <1>12 DEF Unsubscribe, stateVars, TypeOK
  <2> QED
    BY <1>12, <2>1 DEF Unsubscribe, Goto, Stage
<1>13. ASSUME NEW c \in Conn, ClientLeaves(c)
       PROVE  FeedTypeOK'
  <2>1. TypeOK'
    BY <1>13 DEF ClientLeaves, stateVars, TypeOK
  <2> QED
    BY <1>13, <2>1 DEF ClientLeaves, Link
<1> QED
  BY <1>1, <1>2, <1>3, <1>4, <1>5, <1>6, <1>7, <1>9, <1>10, <1>11, <1>12, <1>13
     DEF FeedNext, Tailer, Stream

-----------------------------------------------------------------------------
(* One client at a time: ComingSettles and NoClientDiverges say of every   *)
(* client what ClientGood says of one.                                     *)
ClientGood(c) ==
  ~lost[c] =>
    /\ c \in subs =>
         \A g \in Guid : SettlesAs(Coming(c), g, active[g]) \/ Untouched(Coming(c), g)
    /\ stage[c] \in {"ready", "streaming"} =>
         \A g \in Guid : \/ SettlesAs(Coming(c), g, active[g])
                         \/ Untouched(Coming(c), g) /\ view[c][g] = active[g]

LEMMA ClientByClient ==
  ASSUME subs \in SUBSET Conn
  PROVE  ComingSettles /\ NoClientDiverges <=> \A c \in Conn : ClientGood(c)
BY DEF ComingSettles, NoClientDiverges, ClientGood

(* A step that leaves the missions, and everything of a client, alone.     *)
LEMMA ClientUntouched ==
  ASSUME NEW c \in Conn, ClientGood(c),
         active' = active, Coming(c)' = Coming(c), view'[c] = view[c],
         stage'[c] = stage[c], lost'[c] = lost[c], c \in subs' => c \in subs
  PROVE  ClientGood(c)'
BY DEF ClientGood

(* The same for a step that moves the client to another stage at which it  *)
(* had, or does not need, a snapshot.                                      *)
LEMMA ClientMoves ==
  ASSUME NEW c \in Conn, ClientGood(c),
         active' = active, Coming(c)' = Coming(c), view'[c] = view[c],
         lost'[c] = lost[c], c \in subs' => c \in subs,
         stage'[c] \in {"ready", "streaming"} => stage[c] \in {"ready", "streaming"}
  PROVE  ClientGood(c)'
BY DEF ClientGood

(* The tailer parses a line: the state changes and the event that tells so *)
(* is on its way to every subscriber at once.                              *)
LEMMA ParseKeepsClients ==
  ASSUME FeedInv, Parse, NEW c \in Conn, ClientGood(c)
  PROVE  ClientGood(c)'
<1>1. TypeOK /\ Next /\ phase = "parse" /\ queue[c] \in Seq(Event)
  BY DEF FeedInv, FeedTypeOK, Parse, Next
<1>2. Coming(c) = queue[c]
  BY <1>1 DEF Coming, Owes
<1>3. UNCHANGED <<subs, queue, stage, view, lost>>
  BY DEF Parse
<1>4. CASE out' = None /\ active' = active
  <2>1. phase' = "parse"
    BY <1>4 DEF Parse
  <2>2. Coming(c)' = Coming(c)
    BY <1>2, <1>3, <2>1 DEF Coming, Owes
  <2> QED
    BY <1>3, <1>4, <2>2, ClientUntouched
<1>5. CASE /\ out' \in Event
           /\ out' # None
           /\ \A g \in Guid : /\ Touches(out', g) => After(out') = active'[g]
                              /\ ~Touches(out', g) => active'[g] = active[g]
  <2>1. phase' = "copy"
    BY <1>5 DEF Parse
  <2>2. CASE c \in subs
    <3>1. Coming(c)' = Append(queue[c], out')
      BY <1>3, <2>1, <2>2 DEF Coming, Owes
    <3>2. ASSUME ~lost[c], NEW g \in Guid
          PROVE  /\ \/ SettlesAs(Coming(c)', g, active'[g])
                    \/ Untouched(Coming(c)', g)
                 /\ stage[c] \in {"ready", "streaming"} =>
                      \/ SettlesAs(Coming(c)', g, active'[g])
                      \/ Untouched(Coming(c)', g) /\ view[c][g] = active'[g]
      <4>1. CASE Touches(out', g)
        BY <1>1, <1>5, <3>1, <4>1, AppendDecides
      <4>2. CASE ~Touches(out', g)
        <5>1. active'[g] = active[g]
          BY <1>5, <4>2
        <5>2. SettlesAs(queue[c], g, active[g]) \/ Untouched(queue[c], g)
          BY <1>2, <2>2, <3>2 DEF ClientGood
        <5>3. stage[c] \in {"ready", "streaming"} =>
                 \/ SettlesAs(queue[c], g, active[g])
                 \/ Untouched(queue[c], g) /\ view[c][g] = active[g]
          BY <1>2, <3>2 DEF ClientGood
        <5>4. /\ SettlesAs(queue[c], g, active[g]) => SettlesAs(Coming(c)', g, active[g])
              /\ Untouched(queue[c], g) => Untouched(Coming(c)', g)
          BY <1>1, <1>5, <3>1, <4>2, AppendDecides
        <5> QED
          BY <5>1, <5>2, <5>3, <5>4
      <4> QED
        BY <4>1, <4>2
    <3> QED
      BY <1>3, <3>2 DEF ClientGood
  <2>3. CASE c \notin subs
    <3>1. stage[c] = "idle"
      BY <2>3 DEF FeedInv, Registered
    <3> QED
      BY <1>3, <2>3, <3>1 DEF ClientGood
  <2> QED
    BY <2>2, <2>3
<1> QED
  BY <1>1, <1>4, <1>5, LineTellsChange

(* The event read from the queue is applied to what the client shows.      *)
LEMMA DeliverKeepsClient ==
  ASSUME FeedInv, NEW c \in Conn, Deliver(c), ClientGood(c)
  PROVE  ClientGood(c)'
<1> DEFINE s == Coming(c)
           h == Head(queue[c])
<1>1. /\ queue[c] \in Seq(Event) /\ queue[c] # <<>>
      /\ stage[c] = "streaming"
      /\ queue' = [queue EXCEPT ![c] = Tail(@)]
      /\ view' = [view EXCEPT ![c] = Apply(@, h)]
      /\ UNCHANGED <<active, out, phase, targets, subs, lost>>
  BY DEF FeedInv, FeedTypeOK, Deliver, stateVars
<1>2. queue'[c] = Tail(queue[c]) /\ view'[c] = Apply(view[c], h)
  BY <1>1 DEF FeedInv, FeedTypeOK
<1>3. Owes(c)' = Owes(c)
  BY <1>1 DEF Owes
<1>4. Owes(c) => out \in Event
  BY DEF FeedInv, OutTellsState, Owes
<1>5. /\ s \in Seq(Event) /\ s # <<>>
      /\ Head(s) = h
      /\ Coming(c)' = Tail(s)
  <2>1. CASE Owes(c)
    <3>1. s = Append(queue[c], out) /\ Coming(c)' = Append(Tail(queue[c]), out)
      BY <1>1, <1>2, <1>3, <2>1 DEF Coming
    <3> QED
      BY <1>1, <1>4, <2>1, <3>1, HeadTailAppend
  <2>2. CASE ~Owes(c)
    BY <1>1, <1>2, <1>3, <2>2 DEF Coming
  <2> QED
    BY <2>1, <2>2
<1> HIDE DEF s, h
<1>6. ASSUME ~lost[c], NEW g \in Guid
      PROVE  \/ SettlesAs(Tail(s), g, active[g])
             \/ Untouched(Tail(s), g) /\ view'[c][g] = active[g]
  <2>1. \/ SettlesAs(s, g, active[g])
        \/ Untouched(s, g) /\ view[c][g] = active[g]
    BY <1>1, <1>6 DEF ClientGood, s
  <2>2. view'[c][g] = IF Touches(h, g) THEN After(h) ELSE view[c][g]
    BY <1>2 DEF Apply
  <2> QED
    BY <1>5, <2>1, <2>2, TailDecides
<1> QED
  BY <1>1, <1>5, <1>6 DEF ClientGood

-----------------------------------------------------------------------------
(* The steps of the tailer and of a request keep the invariant.            *)

LEMMA StepKeepsRegistered ==
  ASSUME FeedInv, FeedNext
  PROVE  Registered'
<1> USE DEF FeedInv, FeedTypeOK, Registered, Goto
<1>1. ASSUME Parse \/ Tailer
      PROVE  Registered'
  BY <1>1 DEF Parse, Tailer, CopySubs, PutNoWait, BroadcastDone, connVars
<1>2. ASSUME NEW c \in Conn, Subscribe(c) \/ Unsubscribe(c)
      PROVE  Registered'
  BY <1>2 DEF Subscribe, Unsubscribe
<1>3. ASSUME NEW c \in Conn, TakeSnapshot(c) \/ BodyNotIterated(c) \/ ClientLeaves(c)
      PROVE  Registered'
  BY <1>3 DEF TakeSnapshot, BodyNotIterated, ClientLeaves
<1>4. ASSUME NEW c \in Conn, SendSnapshot(c) \/ Deliver(c) \/ Heartbeat(c)
      PROVE  Registered'
  BY <1>4 DEF SendSnapshot, Deliver, Heartbeat
<1> QED
  BY <1>1, <1>2, <1>3, <1>4 DEF FeedNext, Stream

LEMMA StepKeepsOut ==
  ASSUME FeedInv, FeedNext
  PROVE  OutTellsState' /\ TargetsOnlyInPut'
<1>1. CASE Parse
  <2>1. TypeOK /\ Next /\ phase = "parse" /\ targets' = targets
    BY <1>1 DEF FeedInv, FeedTypeOK, Parse, Next
  <2>2. phase' # "put" /\ (phase' # "parse" => out' # None)
    BY <1>1 DEF Parse
  <2>3. OutTellsState'
    BY <2>1, <2>2, LineTellsChange DEF OutTellsState
  <2> QED
    BY <2>1, <2>2, <2>3 DEF FeedInv, TargetsOnlyInPut
<1>2. CASE CopySubs
  BY <1>2 DEF FeedInv, CopySubs, stateVars, OutTellsState, TargetsOnlyInPut
<1>3. CASE \E c \in Conn : PutNoWait(c)
  BY <1>3 DEF FeedInv, PutNoWait, stateVars, OutTellsState, TargetsOnlyInPut
<1>4. CASE BroadcastDone
  BY <1>4 DEF BroadcastDone, OutTellsState, TargetsOnlyInPut
<1>5. ASSUME NEW c \in Conn,
             \/ Subscribe(c) \/ TakeSnapshot(c) \/ BodyNotIterated(c)
             \/ Stream(c) \/ ClientLeaves(c)
      PROVE  OutTellsState' /\ TargetsOnlyInPut'
  <2>1. UNCHANGED <<phase, targets, out, active>>
    BY <1>5 DEF Subscribe, TakeSnapshot, BodyNotIterated, ClientLeaves, Stream,
                SendSnapshot, Deliver, Heartbeat, Unsubscribe, stateVars
  <2> QED
    BY <2>1 DEF FeedInv, OutTellsState, TargetsOnlyInPut
<1> QED
  BY <1>1, <1>2, <1>3, <1>4, <1>5 DEF FeedNext, Tailer

(* The steps that change nothing of a client but leave what is on its way  *)
(* to be read off differently: copying the list of subscribers, putting on *)
(* one queue, returning from broadcast.                                    *)
LEMMA TailerKeepsClients ==
  ASSUME FeedInv, Tailer, NEW c \in Conn, ClientGood(c)
  PROVE  ClientGood(c)'
<1> USE DEF FeedInv, FeedTypeOK
<1>1. CASE CopySubs
  <2>1. UNCHANGED <<active, out, subs, queue, stage, view, lost>>
    BY <1>1 DEF CopySubs, stateVars, connVars
  <2>2. Owes(c)' <=> Owes(c)
    BY <1>1 DEF CopySubs, Owes
  <2>3. Coming(c)' = Coming(c)
    BY <2>1, <2>2 DEF Coming
  <2> QED
    BY <2>1, <2>3, ClientUntouched
<1>2. ASSUME NEW k \in Conn, PutNoWait(k)
      PROVE  ClientGood(c)'
  <2>1. UNCHANGED <<active, out, phase, subs, stage, view>>
    BY <1>2 DEF PutNoWait, stateVars, connVars
  <2>2. CASE k = c /\ Len(queue[c]) < QMAX
    <3>1. Owes(c) /\ ~Owes(c)' /\ lost' = lost
      BY <1>2, <2>2 DEF PutNoWait, Owes
    <3>2. queue'[c] = Append(queue[c], out)
      BY <1>2, <2>2 DEF PutNoWait
    <3>3. Coming(c)' = Coming(c)
      BY <3>1, <3>2 DEF Coming
    <3> QED
      BY <2>1, <3>1, <3>3, ClientUntouched
  <2>3. CASE k = c /\ ~(Len(queue[c]) < QMAX)
    BY <1>2, <2>3 DEF PutNoWait, ClientGood
  <2>4. CASE k # c
    <3>1. queue'[c] = queue[c] /\ lost'[c] = lost[c] /\ (Owes(c)' <=> Owes(c))
      BY <1>2, <2>4 DEF PutNoWait, Owes
    <3>2. Coming(c)' = Coming(c)
      BY <2>1, <3>1 DEF Coming
    <3> QED
      BY <2>1, <3>1, <3>2, ClientUntouched
  <2> QED
    BY <2>2, <2>3, <2>4
<1>3. CASE BroadcastDone
  <2>1. UNCHANGED <<active, subs, queue, stage, view, lost>>
    BY <1>3 DEF BroadcastDone, domainVars, connVars
  <2>2. ~Owes(c) /\ ~Owes(c)'
    BY <1>3 DEF BroadcastDone, Owes
  <2>3. Coming(c)' = Coming(c)
    BY <2>1, <2>2 DEF Coming
  <2> QED
    BY <2>1, <2>3, ClientUntouched
<1> QED
  BY <1>1, <1>2, <1>3 DEF Tailer

(* A request's own step leaves every other client alone.                   *)
LEMMA OthersUntouched ==
  ASSUME FeedInv, NEW k \in Conn, NEW c \in Conn, c # k, ClientGood(c),
         \/ Subscribe(k) \/ TakeSnapshot(k) \/ BodyNotIterated(k)
         \/ Stream(k) \/ ClientLeaves(k)
  PROVE  ClientGood(c)'
<1> USE DEF FeedInv, FeedTypeOK
<1>1. UNCHANGED <<active, out, phase, targets>>
  BY DEF Subscribe, TakeSnapshot, BodyNotIterated, ClientLeaves, Stream,
         SendSnapshot, Deliver, Heartbeat, Unsubscribe, stateVars
<1>2. /\ queue'[c] = queue[c] /\ view'[c] = view[c] /\ stage'[c] = stage[c]
      /\ lost'[c] = lost[c] /\ (c \in subs' <=> c \in subs)
  BY DEF Subscribe, TakeSnapshot, BodyNotIterated, ClientLeaves, Stream,
         SendSnapshot, Deliver, Heartbeat, Unsubscribe, Goto
<1>3. Coming(c)' = Coming(c)
  BY <1>1, <1>2 DEF Coming, Owes
<1> QED
  BY <1>1, <1>2, <1>3, ClientUntouched

(* A request's step and its own client.                                    *)
LEMMA RequestKeepsClient ==
  ASSUME FeedInv, NEW c \in Conn, ClientGood(c),
         \/ Subscribe(c) \/ TakeSnapshot(c) \/ BodyNotIterated(c)
         \/ Stream(c) \/ ClientLeaves(c)
  PROVE  ClientGood(c)'
<1> USE DEF FeedInv, FeedTypeOK
<1>1. CASE Subscribe(c)
  <2>1. /\ stage'[c] = "subscribed" /\ queue'[c] = <<>>
        /\ c \notin targets' /\ UNCHANGED <<active, out, phase>>
    BY <1>1 DEF Subscribe, Goto, stateVars
  <2>2. \A g \in Guid : \/ SettlesAs(Coming(c)', g, active'[g])
                       \/ Untouched(Coming(c)', g)
    <3>1. CASE phase = "copy"
      <4>1. Coming(c)' = Append(<<>>, out) /\ out \in Event
        BY <1>1, <2>1, <3>1 DEF Coming, Owes, Subscribe, OutTellsState
      <4>2. \A g \in Guid : Touches(out, g) => After(out) = active[g]
        BY <3>1 DEF OutTellsState
      <4>3. <<>> \in Seq(Event) /\ \A g \in Guid : Untouched(<<>>, g)
        BY DEF Untouched
      <4>4. ASSUME NEW g \in Guid
            PROVE  \/ SettlesAs(Coming(c)', g, active'[g])
                   \/ Untouched(Coming(c)', g)
        <5>1. /\ Touches(out, g) => SettlesAs(Append(<<>>, out), g, After(out))
              /\ ~Touches(out, g) => Untouched(Append(<<>>, out), g)
          BY <4>1, <4>3, AppendDecides
        <5> QED
          BY <2>1, <4>1, <4>2, <5>1
      <4> QED
        BY <4>4
    <3>2. CASE phase # "copy"
      <4>1. Coming(c)' = <<>>
        BY <2>1, <3>2 DEF Coming, Owes
      <4> QED
        BY <4>1 DEF Untouched
    <3> QED
      BY <3>1, <3>2
  <2> QED
    BY <2>1, <2>2 DEF ClientGood
<1>2. CASE TakeSnapshot(c)
  <2>1. /\ view'[c] = active /\ c \in subs
        /\ UNCHANGED <<active, out, phase, targets, subs, queue, lost>>
    BY <1>2 DEF TakeSnapshot, stateVars, Registered
  <2>2. Coming(c)' = Coming(c)
    BY <2>1 DEF Coming, Owes
  <2> QED
    BY <2>1, <2>2 DEF ClientGood
<1>3. CASE BodyNotIterated(c) \/ ClientLeaves(c)
  <2>1. UNCHANGED <<active, out, phase, targets, subs, queue, view, lost>>
    BY <1>3 DEF BodyNotIterated, ClientLeaves, stateVars
  <2>2. Coming(c)' = Coming(c)
    BY <2>1 DEF Coming, Owes
  <2>3. stage'[c] \in {"ready", "streaming"} => stage[c] \in {"ready", "streaming"}
    BY <1>3 DEF BodyNotIterated, ClientLeaves, Goto
  <2> QED
    BY <2>1, <2>2, <2>3, ClientMoves
<1>4. CASE SendSnapshot(c) \/ Heartbeat(c)
  <2>1. UNCHANGED <<active, out, phase, targets, subs, queue, view, lost>>
    BY <1>4 DEF SendSnapshot, Heartbeat, stateVars
  <2>2. Coming(c)' = Coming(c)
    BY <2>1 DEF Coming, Owes
  <2>3. stage[c] \in {"ready", "streaming"}
    BY <1>4 DEF SendSnapshot, Heartbeat
  <2> QED
    BY <2>1, <2>2, <2>3, ClientMoves
<1>5. CASE Deliver(c)
  BY <1>5, DeliverKeepsClient
<1>6. CASE Unsubscribe(c)
  BY <1>6 DEF Unsubscribe, Goto, ClientGood
<1> QED
  BY <1>1, <1>2, <1>3, <1>4, <1>5, <1>6 DEF Stream

-----------------------------------------------------------------------------
LEMMA FeedInitGood == FeedInit => FeedInv
<1> SUFFICES ASSUME FeedInit
             PROVE  FeedInv
  OBVIOUS
<1> USE DEF FeedInit
<1>1. FeedTypeOK
  <2>1. TypeOK
    BY InitTyped
  <2>2. <<>> \in Seq(Event) /\ Len(<<>>) = 0
    OBVIOUS
  <2> QED
    BY <2>1, <2>2, QMaxAssumption DEF FeedTypeOK, Stage, Link
<1>2. Registered /\ OutTellsState /\ TargetsOnlyInPut /\ ComingSettles /\ NoClientDiverges
  BY DEF Registered, OutTellsState, TargetsOnlyInPut, ComingSettles, NoClientDiverges
<1> QED
  BY <1>1, <1>2 DEF FeedInv

LEMMA FeedStepGood ==
  ASSUME FeedInv, FeedNext
  PROVE  FeedInv'
<1>1. FeedTypeOK'
  BY FeedStepKeepsTypes DEF FeedInv
<1>2. Registered' /\ OutTellsState' /\ TargetsOnlyInPut'
  BY StepKeepsRegistered, StepKeepsOut
<1>3. \A c \in Conn : ClientGood(c)
  BY ClientByClient DEF FeedInv, FeedTypeOK
<1>4. ASSUME NEW c \in Conn
      PROVE  ClientGood(c)'
  <2>1. CASE Parse
    BY <1>3, <2>1, ParseKeepsClients
  <2>2. CASE Tailer
    BY <1>3, <2>2, TailerKeepsClients
  <2>3. ASSUME NEW k \in Conn,
               \/ Subscribe(k) \/ TakeSnapshot(k) \/ BodyNotIterated(k)
               \/ Stream(k) \/ ClientLeaves(k)
        PROVE  ClientGood(c)'
    <3>1. CASE k = c
      BY <1>3, <2>3, <3>1, RequestKeepsClient
    <3>2. CASE k # c
      BY <1>3, <2>3, <3>2, OthersUntouched
    <3> QED
      BY <3>1, <3>2
  <2> QED
    BY <2>1, <2>2, <2>3 DEF FeedNext
<1>5. ComingSettles' /\ NoClientDiverges'
  BY <1>1, <1>4 DEF FeedTypeOK, ComingSettles, NoClientDiverges, ClientGood
<1> QED
  BY <1>1, <1>2, <1>5 DEF FeedInv

LEMMA FeedInvariant == FeedSpec => []FeedInv
<1>1. FeedInv /\ UNCHANGED vars => FeedInv'
  BY DEF FeedInv, FeedTypeOK, TypeOK, Registered, OutTellsState, TargetsOnlyInPut,
         ComingSettles, NoClientDiverges, Coming, Owes, vars
<1>2. FeedInv /\ [FeedNext]_vars => FeedInv'
  BY <1>1, FeedStepGood
<1> QED
  BY FeedInitGood, <1>2, PTL DEF FeedSpec

(* The queues never exceed their bound and hold events only.               *)
THEOREM FeedTypeCorrect == FeedSpec => []FeedTypeOK
<1>1. FeedInv => FeedTypeOK
  BY DEF FeedInv
<1> QED
  BY <1>1, FeedInvariant, PTL

(* However a request falls between the steps of a broadcast, a client that *)
(* lost no event will show exactly the active missions.                    *)
THEOREM ClientsConverge == FeedSpec => []NoClientDiverges
<1>1. FeedInv => NoClientDiverges
  BY DEF FeedInv
<1> QED
  BY <1>1, FeedInvariant, PTL
=============================================================================
