-------------------------- MODULE LiveRuntime_proofs --------------------------
(***************************************************************************)
(* For any number of signals: the watcher ends by itself only when asked,  *)
(* and what the window sees of it is a step of CoreProcess or nothing.     *)
(***************************************************************************)
EXTENDS LiveRuntime, TLAPS

(* Every way into the closing steps is a request: the loop is left by the  *)
(* flag, which only a requested shutdown sets, or by an interrupt, which   *)
(* then requests one.                                                      *)
FlagWasAsked == shutdownFlag => Requested

ClosingWasAsked == pc \in {"finally", "close", "stop", "join"} => Requested

(* The watchdog asks for a watched parent that is gone, and a parent that  *)
(* is gone does not come back.                                             *)
DogAsksForTheDead ==
  /\ watchdog # "none" => watched
  /\ watchdog = "asking" => parent # "alive"

RuntimeInv ==
  /\ TypeOK
  /\ FlagWasAsked
  /\ ClosingWasAsked
  /\ DogAsksForTheDead
  /\ EndsOnlyWhenAsked

USE DEF Step

-----------------------------------------------------------------------------
LEMMA InitHolds == Init => RuntimeInv
BY SignalAssumption DEF Init, RuntimeInv, TypeOK, FlagWasAsked, ClosingWasAsked,
   DogAsksForTheDead, EndsOnlyWhenAsked, Request

(* A request stays one.                                                    *)
LEMMA SpawnRequests ==
  ASSUME TypeOK, NEW r \in Request, Spawn(r)
  PROVE  /\ thread' \in [Request -> {"none", "spawned", "waiting", "returned"}]
         /\ Requested'
         /\ \A q \in Request : q # r => thread'[q] = thread[q]
BY DEF TypeOK, Spawn, Requested

LEMMA StepKeepsTypes == TypeOK /\ [Next]_vars => TypeOK'
<1> SUFFICES ASSUME TypeOK, [Next]_vars
             PROVE  TypeOK'
  OBVIOUS
<1> USE DEF TypeOK
<1>1. CASE Main \/ Interrupted
  <2>1. CASE AfterInterrupt
    BY <2>1, SpawnRequests DEF AfterInterrupt, Goto, tailVars, dogVars, serverVars, Request
  <2>2. CASE Interrupted \/ BindFails \/ Join
    BY <2>2 DEF Interrupted, BindFails, Join, Exit, Goto, tailVars, dogVars, serverVars
  <2>3. CASE StartTailer \/ BindSucceeds \/ RegisterSignals \/ StartWatchdog
    BY <2>3 DEF StartTailer, BindSucceeds, RegisterSignals, StartWatchdog, Goto,
       tailVars, dogVars, serverVars
  <2>4. CASE EnterLoop \/ LeaveLoop \/ ReleaseWatchdog \/ CloseServer \/ StopTailer
    BY <2>4 DEF EnterLoop, LeaveLoop, ReleaseWatchdog, CloseServer, StopTailer, Goto,
       tailVars, dogVars, serverVars
  <2> QED
    BY <1>1, <2>1, <2>2, <2>3, <2>4 DEF Main
<1>2. CASE TailerSeesStop \/ TailerDies
  BY <1>2 DEF TailerSeesStop, TailerDies, mainVars, dogVars, serverVars
<1>3. CASE WatchdogLooks \/ WatchdogReleased
  BY <1>3 DEF WatchdogLooks, WatchdogReleased, mainVars, tailVars, serverVars
<1>4. CASE WatchdogAsks
  BY <1>4, SpawnRequests DEF WatchdogAsks, mainVars, tailVars, serverVars, Request
<1>5. ASSUME NEW r \in Request, ShutdownSets(r) \/ ShutdownReturns(r)
      PROVE  TypeOK'
  BY <1>5 DEF ShutdownSets, ShutdownReturns, mainVars, tailVars, dogVars, serverVars
<1>6. CASE Signal
  BY <1>6, SpawnRequests DEF Signal, mainVars, tailVars, dogVars, serverVars, Request
<1>7. CASE Killed \/ ParentDies \/ NumberReused
  BY <1>7 DEF Killed, ParentDies, NumberReused, Exit, mainVars, tailVars, dogVars, serverVars
<1>8. CASE UNCHANGED vars
  BY <1>8 DEF vars, mainVars, tailVars, dogVars, serverVars
<1> QED
  BY <1>1, <1>2, <1>3, <1>4, <1>5, <1>6, <1>7, <1>8 DEF Next

-----------------------------------------------------------------------------
LEMMA StepKeepsInv == RuntimeInv /\ [Next]_vars => RuntimeInv'
<1> SUFFICES ASSUME RuntimeInv, [Next]_vars
             PROVE  RuntimeInv'
  OBVIOUS
<1>1. TypeOK /\ TypeOK'
  BY StepKeepsTypes DEF RuntimeInv
<1> DEFINE Rest == FlagWasAsked /\ ClosingWasAsked /\ DogAsksForTheDead /\ EndsOnlyWhenAsked
<1>2. "watchdog" \in Request /\ "interrupt" \in Request /\ "watchdog" \notin SignalId
  BY SignalAssumption DEF Request
<1> SUFFICES Rest'
  BY <1>1 DEF RuntimeInv
<1>3. ASSUME UNCHANGED <<thread, watchdog, watched, parent>>,
             shutdownFlag' => shutdownFlag,
             pc' \in {"finally", "close", "stop", "join"} =>
               pc \in {"finally", "close", "stop", "join"} \/ Requested,
             code' = "ok" => code = "ok" \/ pc = "join"
      PROVE  Rest'
  BY <1>3 DEF RuntimeInv, FlagWasAsked, ClosingWasAsked, DogAsksForTheDead,
     EndsOnlyWhenAsked, Requested
<1>4. CASE Main \/ Interrupted
  <2>1. CASE AfterInterrupt
    <3>1. Spawn("interrupt") /\ UNCHANGED <<watchdog, watched, parent, code>>
      BY <2>1 DEF AfterInterrupt, Goto, dogVars
    <3>2. Requested' /\ thread'["watchdog"] = thread["watchdog"]
      BY <1>1, <1>2, <3>1, SpawnRequests
    <3> QED
      BY <3>1, <3>2 DEF RuntimeInv, FlagWasAsked, ClosingWasAsked, DogAsksForTheDead,
         EndsOnlyWhenAsked
  <2>2. CASE StartWatchdog
    <3>1. /\ watchdog' = IF watched THEN "waiting" ELSE "none"
          /\ pc' = "serve"
          /\ UNCHANGED <<thread, shutdownFlag, watched, parent, code>>
      BY <2>2 DEF StartWatchdog, Goto, serverVars
    <3> QED
      BY <3>1 DEF RuntimeInv, FlagWasAsked, ClosingWasAsked, DogAsksForTheDead,
         EndsOnlyWhenAsked, Requested
  <2>3. CASE LeaveLoop
    <3>1. Requested
      BY <2>3 DEF LeaveLoop, RuntimeInv, FlagWasAsked
    <3> QED
      BY <1>3, <2>3, <3>1 DEF LeaveLoop, Goto, tailVars, dogVars
  <2>4. CASE BindFails \/ Join
    BY <1>3, <2>4 DEF BindFails, Join, Exit, dogVars, serverVars
  <2>5. CASE Interrupted \/ StartTailer \/ BindSucceeds \/ RegisterSignals \/ EnterLoop
    BY <1>3, <2>5 DEF Interrupted, StartTailer, BindSucceeds, RegisterSignals, EnterLoop,
       Goto, dogVars, serverVars
  <2>6. CASE ReleaseWatchdog \/ CloseServer \/ StopTailer
    BY <1>3, <2>6 DEF ReleaseWatchdog, CloseServer, StopTailer, Goto, dogVars, serverVars
  <2> QED
    BY <1>4, <2>1, <2>2, <2>3, <2>4, <2>5, <2>6 DEF Main
<1>5. CASE TailerSeesStop \/ TailerDies
  BY <1>3, <1>5 DEF TailerSeesStop, TailerDies, mainVars, dogVars, serverVars
<1>6. CASE WatchdogLooks \/ WatchdogReleased
  <2>1. /\ watchdog # "none"
        /\ watchdog' = "asking" => parent # "alive"
        /\ UNCHANGED <<thread, shutdownFlag, watched, parent, pc, code>>
    BY <1>1, <1>6 DEF WatchdogLooks, WatchdogReleased, LooksAlive, mainVars, serverVars
  <2> QED
    BY <2>1 DEF RuntimeInv, FlagWasAsked, ClosingWasAsked, DogAsksForTheDead,
       EndsOnlyWhenAsked, Requested
<1>7. CASE WatchdogAsks
  <2>1. /\ Spawn("watchdog")
        /\ watchdog = "asking" /\ watchdog' = "ended"
        /\ UNCHANGED <<shutdownFlag, watched, parent, pc, code>>
    BY <1>7 DEF WatchdogAsks, mainVars, serverVars
  <2>2. Requested'
    BY <1>1, <1>2, <2>1, SpawnRequests
  <2> QED
    BY <2>1, <2>2 DEF RuntimeInv, FlagWasAsked, ClosingWasAsked, DogAsksForTheDead,
       EndsOnlyWhenAsked
<1>8. ASSUME NEW r \in Request, ShutdownSets(r) \/ ShutdownReturns(r)
      PROVE  Rest'
  <2>1. /\ thread[r] # "none" /\ thread'[r] # "none"
        /\ \A q \in Request : q # r => thread'[q] = thread[q]
        /\ UNCHANGED <<watchdog, watched, parent, pc, code>>
    BY <1>1, <1>8 DEF ShutdownSets, ShutdownReturns, mainVars, dogVars, TypeOK
  <2>2. Requested'
    BY <2>1 DEF Requested
  <2>3. thread'["watchdog"] # "none" => thread["watchdog"] # "none"
    BY <1>2, <2>1
  <2> QED
    BY <2>1, <2>2, <2>3 DEF RuntimeInv, FlagWasAsked, ClosingWasAsked,
       DogAsksForTheDead, EndsOnlyWhenAsked
<1>9. CASE Signal
  <2>1. PICK s \in SignalId : Spawn(s)
    BY <1>9 DEF Signal
  <2>2. UNCHANGED <<watchdog, shutdownFlag, watched, parent, pc, code>>
    BY <1>9 DEF Signal, mainVars, dogVars, serverVars
  <2>3. Requested' /\ thread'["watchdog"] = thread["watchdog"]
    BY <1>1, <1>2, <2>1, SpawnRequests DEF Request
  <2> QED
    BY <2>2, <2>3 DEF RuntimeInv, FlagWasAsked, ClosingWasAsked, DogAsksForTheDead,
       EndsOnlyWhenAsked
<1>10. CASE Killed
  BY <1>3, <1>10 DEF Killed, Exit, dogVars, serverVars
<1>11. CASE ParentDies \/ NumberReused
  <2>1. /\ parent' # "alive"
        /\ UNCHANGED <<thread, shutdownFlag, watched, watchdog, pc, code>>
    BY <1>11 DEF ParentDies, NumberReused, mainVars, dogVars, serverVars
  <2> QED
    BY <2>1 DEF RuntimeInv, FlagWasAsked, ClosingWasAsked, DogAsksForTheDead,
       EndsOnlyWhenAsked, Requested
<1>12. CASE UNCHANGED vars
  BY <1>3, <1>12 DEF vars, mainVars, dogVars, serverVars
<1> QED
  BY <1>4, <1>5, <1>6, <1>7, <1>8, <1>9, <1>10, <1>11, <1>12 DEF Next

-----------------------------------------------------------------------------
(* The types are right in every reachable state.                           *)
THEOREM RuntimeTypeCorrect == Spec => []TypeOK
<1>1. Init => TypeOK
  BY InitHolds DEF RuntimeInv
<1> QED
  BY <1>1, StepKeepsTypes, PTL DEF Spec

(* The watcher ends by itself only when asked to, and its watchdog asks    *)
(* only for a parent that has died, whatever number of signals arrives and *)
(* when (watcher.py:230-251, live_runtime_service.py:57-71).               *)
THEOREM EndsOnlyWhenAskedCorrect == Spec => []EndsOnlyWhenAsked
<1>1. RuntimeInv => EndsOnlyWhenAsked
  BY DEF RuntimeInv
<1> QED
  BY <1>1, InitHolds, StepKeepsInv, PTL DEF Spec

-----------------------------------------------------------------------------
(* A step of this process is one of CoreProcess, or the window sees        *)
(* nothing of it.                                                          *)
LEMMA InitIsCoreInit == Init => Core!CoreInit
BY DEF Init, Core!CoreInit, Stage

LEMMA StepIsCoreStep ==
  ASSUME TypeOK, [Next]_vars
  PROVE  [Core!CoreNext]_Core!coreVars
<1> USE DEF Core!coreVars
<1>1. ASSUME UNCHANGED <<watched, parent>>, Stage' = Stage
      PROVE  UNCHANGED Core!coreVars
  BY <1>1
<1>2. ASSUME UNCHANGED <<watched, parent>>, Stage # "gone", Stage' = "gone"
      PROVE  Core!CoreNext
  BY <1>2 DEF Core!CoreNext, Core!Goes
<1>3. CASE Main \/ Interrupted
  <2>1. CASE BindSucceeds
    BY <2>1 DEF BindSucceeds, Goto, Stage, Core!CoreNext, Core!Serves
  <2>2. CASE CloseServer
    BY <2>2 DEF CloseServer, Goto, Stage, Core!CoreNext, Core!Closes
  <2>3. CASE BindFails \/ Join
    BY <1>2, <2>3 DEF BindFails, Join, Exit, Stage
  <2>4. CASE StartTailer \/ RegisterSignals \/ StartWatchdog \/ EnterLoop
    BY <1>1, <2>4 DEF StartTailer, RegisterSignals, StartWatchdog, EnterLoop, Goto, Stage
  <2>5. CASE LeaveLoop \/ Interrupted \/ AfterInterrupt \/ ReleaseWatchdog \/ StopTailer
    BY <1>1, <2>5 DEF LeaveLoop, Interrupted, AfterInterrupt, ReleaseWatchdog, StopTailer,
       Goto, Stage
  <2> QED
    BY <1>3, <2>1, <2>2, <2>3, <2>4, <2>5 DEF Main
<1>4. CASE UNCHANGED <<mainVars, parent>>
  BY <1>1, <1>4 DEF mainVars, Stage
<1>5. CASE TailerSeesStop \/ TailerDies \/ WatchdogLooks \/ WatchdogAsks \/ WatchdogReleased
  BY <1>4, <1>5 DEF TailerSeesStop, TailerDies, WatchdogLooks, WatchdogAsks, WatchdogReleased
<1>6. CASE Signal \/ \E r \in Request : ShutdownSets(r) \/ ShutdownReturns(r)
  BY <1>4, <1>6 DEF Signal, ShutdownSets, ShutdownReturns
<1>7. CASE Killed
  <2>1. Stage # "gone" /\ Stage' = "gone"
    BY <1>7 DEF Killed, Running, Exit, Stage, TypeOK
  <2> QED
    BY <1>2, <1>7, <2>1 DEF Killed, Exit
<1>8. CASE ParentDies \/ NumberReused
  <2>1. Stage' = Stage /\ UNCHANGED watched
    BY <1>8 DEF ParentDies, NumberReused, mainVars, Stage
  <2>2. CASE watched
    BY <1>8, <2>1, <2>2 DEF ParentDies, NumberReused, Core!CoreNext, Core!ParentGoes,
       Core!NumberReused
  <2>3. CASE ~watched
    BY <2>1, <2>3
  <2> QED
    BY <2>2, <2>3
<1>9. CASE UNCHANGED vars
  BY <1>4, <1>9 DEF vars
<1> QED
  BY <1>3, <1>5, <1>6, <1>7, <1>8, <1>9 DEF Next

(* run_live implements the safety part of the watcher process the window   *)
(* relies on, for every number of signals (watcher.py:296-341).            *)
THEOREM ImplementsCoreSafety == Spec => Core!CoreSafety
<1>1. TypeOK /\ [Next]_vars => [Core!CoreNext]_Core!coreVars
  BY StepIsCoreStep
<1> QED
  BY <1>1, InitIsCoreInit, RuntimeTypeCorrect, PTL DEF Spec, Core!CoreSafety
=============================================================================
