---------------------------- MODULE LiveRuntime ----------------------------
(***************************************************************************)
(* The process that watches: run_live of python/watcher.py with the        *)
(* helpers of live_runtime_service.py and runtime_service.py.              *)
(*                                                                         *)
(* Threads: the main thread (pc), the tailer thread, the parent watchdog,  *)
(* and one thread for every shutdown that was requested.  All but the main *)
(* one are daemons, so nothing of them is left when the main thread ends.  *)
(* A shutdown may be requested by a signal, whose handler runs on the main *)
(* thread between any two of its steps, by the watchdog, or by Ctrl-C when *)
(* its handler could not be registered.                                    *)
(***************************************************************************)
EXTENDS Naturals

CONSTANTS
  SignalId   \* the signals that may arrive: the bound on their number

ASSUME SignalAssumption == "watchdog" \notin SignalId /\ "interrupt" \notin SignalId

(* Who may request a shutdown.  Each does so at most once.                 *)
Request == SignalId \cup {"watchdog", "interrupt"}

VARIABLES
  pc,            \* where the main thread is in run_live
  code,          \* how the process ended: "ok" is 0, "no_port" is 2
  watched,       \* a --parent-pid was given
  tail,          \* the tailer thread
  tailerStop,    \* LogTailer._stop
  port,          \* "free", "taken" by another program, or "ours"
  handlers,      \* "none", "all", or "no_int": SIGINT could not be registered
  watchdog,      \* the parent-watchdog thread
  watchdogStop,  \* its stop_event
  thread,        \* the thread running server.shutdown for each request
  shutdownFlag,  \* the server's request flag
  isShutDown,    \* the server's event that its loop is not running
  parent         \* the parent's process number: alive, gone, or reused

mainVars == <<pc, code, watched>>
tailVars == <<tail, tailerStop>>
dogVars == <<watchdog, watchdogStop>>
serverVars == <<port, shutdownFlag, isShutDown>>
vars == <<mainVars, tailVars, dogVars, serverVars, handlers, thread, parent>>

-----------------------------------------------------------------------------
Init ==
  /\ pc = "tailer" /\ code = "running"
  /\ watched \in BOOLEAN
  /\ tail = "none" /\ tailerStop = FALSE
  /\ port \in {"free", "taken"}
  /\ handlers = "none"
  /\ watchdog = "none" /\ watchdogStop = FALSE
  /\ thread = [r \in Request |-> "none"]
  /\ shutdownFlag = FALSE /\ isShutDown = FALSE
  /\ parent = "alive"

Running == pc # "gone"

Exit(c) == pc' = "gone" /\ code' = c /\ UNCHANGED watched

Goto(step) == pc' = step /\ UNCHANGED <<code, watched>>

(* request_shutdown: a thread of its own runs server.shutdown.             *)
Spawn(r) == thread[r] = "none" /\ thread' = [thread EXCEPT ![r] = "spawned"]

-----------------------------------------------------------------------------
(* The main thread, in the order of run_live.                              *)

StartTailer ==
  /\ pc = "tailer"
  /\ tail' = "running"
  /\ Goto("bind")
  /\ UNCHANGED <<tailerStop, dogVars, serverVars, handlers, thread, parent>>

(* create_server_with_fallback with max_attempts = 1: one try, at the port *)
(* asked for.                                                              *)
BindSucceeds ==
  /\ pc = "bind"
  /\ port = "free"
  /\ port' = "ours"
  /\ Goto("signals")
  /\ UNCHANGED <<tailVars, dogVars, shutdownFlag, isShutDown, handlers, thread, parent>>

(* Every OSError of the bind leaves run_live with 2, the tailer unstopped. *)
BindFails ==
  /\ pc = "bind"
  /\ port = "taken"
  /\ Exit("no_port")
  /\ UNCHANGED <<tailVars, dogVars, serverVars, handlers, thread, parent>>

(* register_shutdown_signals goes on when a signal cannot be registered.   *)
RegisterSignals ==
  /\ pc = "signals"
  /\ handlers' \in {"all", "no_int"}
  /\ Goto("watchdog")
  /\ UNCHANGED <<tailVars, dogVars, serverVars, thread, parent>>

StartWatchdog ==
  /\ pc = "watchdog"
  /\ watchdog' = IF watched THEN "waiting" ELSE "none"
  /\ Goto("serve")
  /\ UNCHANGED <<tailVars, watchdogStop, serverVars, handlers, thread, parent>>

(* serve_forever begins; it does not look back at what the flag was.       *)
EnterLoop ==
  /\ pc = "serve"
  /\ isShutDown' = FALSE
  /\ Goto("loop")
  /\ UNCHANGED <<tailVars, dogVars, port, shutdownFlag, handlers, thread, parent>>

(* Its loop ends when it finds the flag, clears it and says it is done.    *)
LeaveLoop ==
  /\ pc = "loop"
  /\ shutdownFlag
  /\ shutdownFlag' = FALSE
  /\ isShutDown' = TRUE
  /\ Goto("finally")
  /\ UNCHANGED <<tailVars, dogVars, port, handlers, thread, parent>>

(* Ctrl-C without a handler: the loop is left by KeyboardInterrupt.        *)
Interrupted ==
  /\ pc = "loop"
  /\ handlers = "no_int"
  /\ shutdownFlag' = FALSE
  /\ isShutDown' = TRUE
  /\ Goto("interrupted")
  /\ UNCHANGED <<tailVars, dogVars, port, handlers, thread, parent>>

(* except KeyboardInterrupt: request_shutdown().                           *)
AfterInterrupt ==
  /\ pc = "interrupted"
  /\ Spawn("interrupt")
  /\ Goto("finally")
  /\ UNCHANGED <<tailVars, dogVars, serverVars, handlers, parent>>

(* finally: the watchdog is told to stop.                                  *)
ReleaseWatchdog ==
  /\ pc = "finally"
  /\ watchdogStop' = TRUE
  /\ Goto("close")
  /\ UNCHANGED <<tailVars, watchdog, serverVars, handlers, thread, parent>>

(* stop_live_runtime: server_close, tailer.stop, join with a timeout.      *)
CloseServer ==
  /\ pc = "close"
  /\ port' = "free"
  /\ Goto("stop")
  /\ UNCHANGED <<tailVars, dogVars, shutdownFlag, isShutDown, handlers, thread, parent>>

StopTailer ==
  /\ pc = "stop"
  /\ tailerStop' = TRUE
  /\ Goto("join")
  /\ UNCHANGED <<tail, dogVars, serverVars, handlers, thread, parent>>

Join_NoTimeout ==
  /\ pc = "join"
  /\ tail # "running"
  /\ Exit("ok")
  /\ UNCHANGED <<tailVars, dogVars, serverVars, handlers, thread, parent>>

(* The join returns when the thread has ended, or after two seconds.       *)
Join ==
  /\ pc = "join"
  /\ Exit("ok")
  /\ UNCHANGED <<tailVars, dogVars, serverVars, handlers, thread, parent>>

Main ==
  \/ StartTailer \/ BindSucceeds \/ BindFails \/ RegisterSignals \/ StartWatchdog
  \/ EnterLoop \/ LeaveLoop \/ AfterInterrupt
  \/ ReleaseWatchdog \/ CloseServer \/ StopTailer \/ Join

-----------------------------------------------------------------------------
(* The other threads.                                                      *)

TailerSeesStop ==
  /\ Running
  /\ tail = "running" /\ tailerStop
  /\ tail' = "ended"
  /\ UNCHANGED <<mainVars, tailerStop, dogVars, serverVars, handlers, thread, parent>>

(* An error the loop does not catch (seek, tell or close of the log) ends  *)
(* the thread; nobody is told.                                             *)
TailerDies ==
  /\ Running
  /\ tail = "running"
  /\ tail' = "died"
  /\ UNCHANGED <<mainVars, tailerStop, dogVars, serverVars, handlers, thread, parent>>

(* _is_process_alive of the parent's number.                               *)
LooksAlive == parent # "gone"

WatchdogLooks_Once ==
  /\ Running
  /\ watchdog = "waiting" /\ ~watchdogStop
  /\ watchdog' = IF LooksAlive THEN "ended" ELSE "asking"
  /\ UNCHANGED <<mainVars, tailVars, watchdogStop, serverVars, handlers, thread, parent>>

WatchdogLooks_Anyone ==
  /\ Running
  /\ watchdog = "waiting" /\ ~watchdogStop
  /\ watchdog' = "asking"
  /\ UNCHANGED <<mainVars, tailVars, watchdogStop, serverVars, handlers, thread, parent>>

(* One second has gone by: the parent is looked for.                       *)
WatchdogLooks ==
  /\ Running
  /\ watchdog = "waiting" /\ ~watchdogStop /\ ~LooksAlive
  /\ watchdog' = "asking"
  /\ UNCHANGED <<mainVars, tailVars, watchdogStop, serverVars, handlers, thread, parent>>

WatchdogAsks ==
  /\ Running
  /\ watchdog = "asking"
  /\ Spawn("watchdog")
  /\ watchdog' = "ended"
  /\ UNCHANGED <<mainVars, tailVars, watchdogStop, serverVars, handlers, parent>>

WatchdogReleased ==
  /\ Running
  /\ watchdog = "waiting" /\ watchdogStop
  /\ watchdog' = "ended"
  /\ UNCHANGED <<mainVars, tailVars, watchdogStop, serverVars, handlers, thread, parent>>

(* server.shutdown sets the flag and waits for the loop to be done.        *)
ShutdownSets(r) ==
  /\ Running
  /\ thread[r] = "spawned"
  /\ thread' = [thread EXCEPT ![r] = "waiting"]
  /\ shutdownFlag' = TRUE
  /\ UNCHANGED <<mainVars, tailVars, dogVars, port, isShutDown, handlers, parent>>

ShutdownReturns(r) ==
  /\ Running
  /\ thread[r] = "waiting" /\ isShutDown
  /\ thread' = [thread EXCEPT ![r] = "returned"]
  /\ UNCHANGED <<mainVars, tailVars, dogVars, serverVars, handlers, parent>>

-----------------------------------------------------------------------------
(* What comes from outside.                                                *)

Signal_Inline ==
  /\ Running
  /\ handlers # "none"
  /\ shutdownFlag' = TRUE
  /\ IF isShutDown THEN Goto(pc) ELSE Goto("blocked")
  /\ UNCHANGED <<tailVars, dogVars, port, isShutDown, handlers, thread, parent>>

(* A signal with a handler: request_shutdown on the main thread, which     *)
(* then goes on.                                                           *)
Signal ==
  /\ Running
  /\ handlers # "none"
  /\ \E s \in SignalId : Spawn(s)
  /\ UNCHANGED <<mainVars, tailVars, dogVars, serverVars, handlers, parent>>

(* A signal before there are handlers, or the window's terminate.          *)
Killed ==
  /\ Running
  /\ Exit("killed")
  /\ UNCHANGED <<tailVars, dogVars, serverVars, handlers, thread, parent>>

ParentDies ==
  /\ Running
  /\ parent = "alive"
  /\ parent' = "gone"
  /\ UNCHANGED <<mainVars, tailVars, dogVars, serverVars, handlers, thread>>

NumberReused ==
  /\ Running
  /\ parent = "gone"
  /\ parent' = "reused"
  /\ UNCHANGED <<mainVars, tailVars, dogVars, serverVars, handlers, thread>>

Next ==
  \/ Main \/ Interrupted
  \/ TailerSeesStop \/ TailerDies
  \/ WatchdogLooks \/ WatchdogAsks \/ WatchdogReleased
  \/ \E r \in Request : ShutdownSets(r) \/ ShutdownReturns(r)
  \/ Signal \/ Killed \/ ParentDies \/ NumberReused

Spec == Init /\ [][Next]_vars

(* Threads run; nothing of them waits but server.shutdown, for the loop.   *)
(* Nothing is promised of signals, of the parent or of the tailer.         *)
Fairness ==
  /\ WF_vars(Main)
  /\ WF_vars(WatchdogLooks) /\ WF_vars(WatchdogAsks)
  /\ \A r \in Request : WF_vars(ShutdownSets(r))

FairSpec == Spec /\ Fairness

-----------------------------------------------------------------------------
Step == {"tailer", "bind", "signals", "watchdog", "serve", "loop", "interrupted",
         "finally", "close", "stop", "join", "gone"}

TypeOK ==
  /\ pc \in Step
  /\ code \in {"running", "ok", "no_port", "killed"}
  /\ watched \in BOOLEAN
  /\ tail \in {"none", "running", "ended", "died"}
  /\ tailerStop \in BOOLEAN
  /\ port \in {"free", "taken", "ours"}
  /\ handlers \in {"none", "all", "no_int"}
  /\ watchdog \in {"none", "waiting", "asking", "ended"}
  /\ watchdogStop \in BOOLEAN
  /\ thread \in [Request -> {"none", "spawned", "waiting", "returned"}]
  /\ shutdownFlag \in BOOLEAN
  /\ isShutDown \in BOOLEAN
  /\ parent \in {"alive", "gone", "reused"}

Requested == \E r \in Request : thread[r] # "none"

(* A watcher ends by itself only when it was asked to, and its own         *)
(* watchdog asks only for a parent that has died: a window that is there   *)
(* is never left without its watcher by the watcher (watcher.py:230-251,   *)
(* live_runtime_service.py:57-71, over three threads).                     *)
EndsOnlyWhenAsked ==
  /\ code = "ok" => Requested
  /\ thread["watchdog"] # "none" => watched /\ parent # "alive"

(* Whoever asks, before the loop began, in it or after it, and whatever    *)
(* the tailer is doing: the process ends.  server.shutdown on the main     *)
(* thread, or a join without a time, would hang it                         *)
(* (live_runtime_service.py:58-60 and 74-78).                              *)
ShutdownHonoured == Requested ~> pc = "gone"

(* What the window sees of this process.  With no --parent-pid there is no *)
(* parent to die.                                                          *)
Stage ==
  CASE pc = "gone" -> "gone"
    [] pc \in {"tailer", "bind"} -> "starting"
    [] pc \in {"stop", "join"} -> "closing"
    [] OTHER -> "serving"

Core == INSTANCE CoreProcess
          WITH stage <- Stage, parent <- IF watched THEN parent ELSE "alive"

(* This process is one the window can rely on: it comes out of its         *)
(* start-up, and the death of the window's process is the end of it unless *)
(* another process got its number first (watcher.py:205-251).              *)
ImplementsCore == Core!CoreSpec
=============================================================================
