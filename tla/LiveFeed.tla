------------------------------ MODULE LiveFeed ------------------------------
(***************************************************************************)
(* From the log to the browser: the tailer thread that parses lines and    *)
(* broadcasts, the EventBus, and one server thread per GET /events request *)
(* (python/scmdb_watcher/server.py, over the WatcherState of domain.py).   *)
(*                                                                         *)
(* The tailer changes the state under the state's lock, then copies the    *)
(* list of subscribers under the bus's lock, then puts the event on the    *)
(* queues one by one with no lock.  A request subscribes, then reads the   *)
(* state, then streams.  These are the steps below; everything else        *)
(* interleaves between them.                                               *)
(*                                                                         *)
(* An element of Conn is one subscription.  It is used again for a later   *)
(* request only when nothing refers to the old queue any more.             *)
(***************************************************************************)
EXTENDS WatcherState

CONSTANTS
  Conn,  \* concurrent /events requests
  QMAX   \* SUBSCRIBER_QUEUE_MAXSIZE

ASSUME QMaxAssumption == QMAX \in Nat \ {0}

VARIABLES
  phase,    \* the tailer: "parse", "copy" (about to copy subs) or "put"
  targets,  \* the copied subscribers the event is still to be put to
  subs,     \* EventBus._subs
  queue,    \* the queue of each subscription
  stage,    \* where the thread of each request is
  view,     \* the snapshot, once taken, and what was written to the stream applied to it
  link,     \* the TCP connection: "open", "closed" by the peer, "reset" by a late write
  lost      \* whether an event was dropped for this subscription

feedVars == <<phase, targets, subs, queue, stage, view, link, lost>>
connVars == <<stage, view, link>>
vars == <<guid_map, active, recent_lifecycle, out,
          phase, targets, subs, queue, stage, view, link, lost>>

Stage == {"idle", "subscribed", "ready", "streaming", "closing", "abandoned"}
Link == {"open", "closed", "reset"}

-----------------------------------------------------------------------------
FeedInit ==
  /\ Init
  /\ phase = "parse"
  /\ targets = {}
  /\ subs = {}
  /\ queue = [c \in Conn |-> <<>>]
  /\ stage = [c \in Conn |-> "idle"]
  /\ view = [c \in Conn |-> [g \in Guid |-> None]]
  /\ link = [c \in Conn |-> "open"]
  /\ lost = [c \in Conn |-> FALSE]

-----------------------------------------------------------------------------
(* The tailer thread.                                                      *)

(* A line is processed, or the state reset, up to the call of broadcast.   *)
Parse ==
  /\ phase = "parse"
  /\ process_line \/ Reset
  /\ phase' = IF out' = None THEN "parse" ELSE "copy"
  /\ UNCHANGED <<targets, subs, queue, stage, view, link, lost>>

(* Seeded faults, as in WatcherState, are named <definition>_<change>.      *)
CopySubs_OnlyStreaming ==
  /\ phase = "copy"
  /\ targets' = {c \in subs : stage[c] = "streaming"}
  /\ phase' = "put"
  /\ UNCHANGED <<stateVars, subs, queue, connVars, lost>>

(* broadcast: the list of subscribers is copied under the lock.            *)
CopySubs ==
  /\ phase = "copy"
  /\ targets' = subs
  /\ phase' = "put"
  /\ UNCHANGED <<stateVars, subs, queue, connVars, lost>>

PutNoWait_Unbounded(c) ==
  /\ phase = "put"
  /\ c \in targets
  /\ targets' = targets \ {c}
  /\ queue' = [queue EXCEPT ![c] = Append(@, out)]
  /\ UNCHANGED <<stateVars, phase, subs, connVars, lost>>

PutNoWait_Waits(c) ==
  /\ phase = "put"
  /\ c \in targets
  /\ Len(queue[c]) < QMAX
  /\ targets' = targets \ {c}
  /\ queue' = [queue EXCEPT ![c] = Append(@, out)]
  /\ UNCHANGED <<stateVars, phase, subs, connVars, lost>>

(* put_nowait on one queue of the copy; a full queue drops the new event.  *)
PutNoWait(c) ==
  /\ phase = "put"
  /\ c \in targets
  /\ targets' = targets \ {c}
  /\ IF Len(queue[c]) < QMAX
     THEN queue' = [queue EXCEPT ![c] = Append(@, out)] /\ UNCHANGED lost
     ELSE lost' = [lost EXCEPT ![c] = TRUE] /\ UNCHANGED queue
  /\ UNCHANGED <<stateVars, phase, subs, connVars>>

(* broadcast returns.                                                      *)
BroadcastDone ==
  /\ phase = "put"
  /\ targets = {}
  /\ phase' = "parse"
  /\ out' = None
  /\ UNCHANGED <<domainVars, targets, subs, queue, connVars, lost>>

Tailer == CopySubs \/ (\E c \in Conn : PutNoWait(c)) \/ BroadcastDone

-----------------------------------------------------------------------------
(* The thread of a request.                                                *)

Goto(c, s) == stage' = [stage EXCEPT ![c] = s]

(* Handing bytes to a connection the peer has left: the first write after  *)
(* the peer closed may still succeed, and is answered by a reset.          *)
WriteSucceeds(c) ==
  /\ link[c] # "reset"
  /\ link' = [link EXCEPT ![c] = IF @ = "closed" THEN "reset" ELSE @]

WriteFails(c) == link[c] # "open" /\ UNCHANGED link

Subscribe(c) ==
  /\ stage[c] = "idle"
  /\ c \notin targets
  /\ subs' = subs \cup {c}
  /\ queue' = [queue EXCEPT ![c] = <<>>]
  /\ lost' = [lost EXCEPT ![c] = FALSE]
  /\ link' = [link EXCEPT ![c] = "open"]
  /\ Goto(c, "subscribed")
  /\ UNCHANGED <<stateVars, phase, targets, view>>

(* snapshot_active, under the state's lock, after the subscription.        *)
TakeSnapshot(c) ==
  /\ stage[c] = "subscribed"
  /\ view' = [view EXCEPT ![c] = active]
  /\ Goto(c, "ready")
  /\ UNCHANGED <<stateVars, phase, targets, subs, queue, link, lost>>

(* The server never iterates the body, as for a HEAD request: the          *)
(* generator does not start and its finally clause never runs.             *)
BodyNotIterated(c) ==
  /\ stage[c] = "ready"
  /\ Goto(c, "abandoned")
  /\ UNCHANGED <<stateVars, phase, targets, subs, queue, view, link, lost>>

SendSnapshot_WithEvent(c) ==
  /\ stage[c] = "ready"
  /\ queue[c] # <<>>
  /\ \/ WriteSucceeds(c) /\ Goto(c, "streaming")
     \/ WriteFails(c) /\ Goto(c, "closing")
  /\ UNCHANGED <<stateVars, phase, targets, subs, queue, view, lost>>

(* The generator starts and yields the snapshot.                           *)
SendSnapshot(c) ==
  /\ stage[c] = "ready"
  /\ \/ WriteSucceeds(c) /\ Goto(c, "streaming")
     \/ WriteFails(c) /\ Goto(c, "closing")
  /\ UNCHANGED <<stateVars, phase, targets, subs, queue, view, lost>>

(* What the page does with an event: it keeps the active missions.         *)
Touches(e, g) ==
  \/ e.type = "session_reset"
  \/ e.type \in {"mission_start", "mission_complete", "mission_ended"} /\ e.guid = g

After(e) == IF e.type = "mission_start" THEN e.mission ELSE None

Apply(v, e) == [g \in Guid |-> IF Touches(e, g) THEN After(e) ELSE v[g]]

(* q.get answers and the event is yielded.                                 *)
Deliver(c) ==
  /\ stage[c] = "streaming"
  /\ queue[c] # <<>>
  /\ queue' = [queue EXCEPT ![c] = Tail(@)]
  /\ view' = [view EXCEPT ![c] = Apply(@, Head(queue[c]))]
  /\ \/ WriteSucceeds(c) /\ UNCHANGED stage
     \/ WriteFails(c) /\ Goto(c, "closing")
  /\ UNCHANGED <<stateVars, phase, targets, subs, lost>>

Heartbeat_NotWritten(c) ==
  /\ stage[c] = "streaming"
  /\ queue[c] = <<>>
  /\ UNCHANGED vars

(* q.get times out on an empty queue and a heartbeat is yielded.           *)
Heartbeat(c) ==
  /\ stage[c] = "streaming"
  /\ queue[c] = <<>>
  /\ \/ WriteSucceeds(c) /\ UNCHANGED stage
     \/ WriteFails(c) /\ Goto(c, "closing")
  /\ UNCHANGED <<stateVars, phase, targets, subs, queue, view, lost>>

(* GeneratorExit: the finally clause of the stream.                        *)
Unsubscribe(c) ==
  /\ stage[c] = "closing"
  /\ subs' = subs \ {c}
  /\ Goto(c, "idle")
  /\ UNCHANGED <<stateVars, phase, targets, queue, view, link, lost>>

Stream(c) == SendSnapshot(c) \/ Deliver(c) \/ Heartbeat(c) \/ Unsubscribe(c)

(* The browser closes the page or reconnects.                              *)
ClientLeaves(c) ==
  /\ stage[c] \notin {"idle", "abandoned"}
  /\ link[c] = "open"
  /\ link' = [link EXCEPT ![c] = "closed"]
  /\ UNCHANGED <<stateVars, phase, targets, subs, queue, stage, view, lost>>

-----------------------------------------------------------------------------
FeedNext ==
  \/ Parse
  \/ Tailer
  \/ \E c \in Conn : \/ Subscribe(c) \/ TakeSnapshot(c) \/ BodyNotIterated(c)
                     \/ Stream(c) \/ ClientLeaves(c)

FeedSpec == FeedInit /\ [][FeedNext]_vars

(* The tailer finishes the broadcast it began, for nothing it does there   *)
(* waits; each request's thread runs, for q.get has a timeout and a client *)
(* that is there reads.  Neither new lines nor new requests nor a client's *)
(* leaving is promised.                                                    *)
Fairness ==
  /\ WF_vars(Tailer)
  /\ \A c \in Conn : WF_vars(TakeSnapshot(c)) /\ WF_vars(Stream(c))

FairSpec == FeedSpec /\ Fairness

-----------------------------------------------------------------------------
FeedTypeOK ==
  /\ TypeOK
  /\ phase \in {"parse", "copy", "put"}
  /\ targets \in SUBSET Conn
  /\ subs \in SUBSET Conn
  /\ queue \in [Conn -> Seq(Event)]
  /\ \A c \in Conn : Len(queue[c]) <= QMAX
  /\ stage \in [Conn -> Stage]
  /\ view \in [Conn -> [Guid -> ActiveMission \cup {None}]]
  /\ link \in [Conn -> Link]
  /\ lost \in [Conn -> BOOLEAN]

(* Whether the event being broadcast is still to reach the queue of c.     *)
Owes(c) == (phase = "copy" /\ c \in subs) \/ (phase = "put" /\ c \in targets)

(* What is on its way to c, oldest first.                                  *)
Coming(c) == IF Owes(c) THEN Append(queue[c], out) ELSE queue[c]

(* The last event of s about g leaves it as v.                             *)
SettlesAs(s, g, v) ==
  \E i \in DOMAIN s : /\ Touches(s[i], g)
                      /\ After(s[i]) = v
                      /\ \A j \in (i + 1)..Len(s) : ~Touches(s[j], g)

Untouched(s, g) == \A i \in DOMAIN s : ~Touches(s[i], g)

(* A client that lost no event will show exactly the active missions once  *)
(* it has received what is on its way, wherever its request fell between   *)
(* the steps of a broadcast (server.py:70-73 subscribe before snapshot,    *)
(* 37-47 copy then put, domain.py:149-185 change before broadcast).        *)
NoClientDiverges ==
  \A c \in Conn : stage[c] \in {"ready", "streaming"} /\ ~lost[c] =>
     \A g \in Guid :
        \/ SettlesAs(Coming(c), g, active[g])
        \/ Untouched(Coming(c), g) /\ view[c][g] = active[g]

(* A client that left, or one whose queue nobody reads, does not hold up   *)
(* the tailer (server.py:41-47 put_nowait).                                *)
BroadcastEnds == phase # "parse" ~> phase = "parse"

(* The queue of a client that left is taken off the bus, although the      *)
(* server only notices at a write (server.py:79-88).                       *)
DeadClientReleased ==
  \A c \in Conn :
    (stage[c] \in {"ready", "streaming"} /\ link[c] # "open")
       ~> (c \notin subs \/ stage[c] = "abandoned")

(* Once the log falls silent, every page that is there comes to show the   *)
(* active missions, also one that connects only then: it is sent the       *)
(* snapshot and what its queue holds without waiting for another event.    *)
(* Excepted is a page that a full queue cost an event, and one whose       *)
(* response the server never iterates (server.py:70-88).                   *)
QuietLogConverges ==
  \A c \in Conn :
     <>[][phase' # "copy"]_vars =>
       (stage[c] \in {"subscribed", "ready", "streaming"} /\ link[c] = "open"
          ~> \/ stage[c] = "streaming" /\ view[c] = active
             \/ link[c] # "open" \/ stage[c] = "abandoned" \/ lost[c])
=============================================================================
