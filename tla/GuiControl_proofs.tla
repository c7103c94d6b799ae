--------------------------- MODULE GuiControl_proofs ---------------------------
(***************************************************************************)
(* For any number of watcher processes: the window keeps hold of the one   *)
(* it started, keeps exactly one poll going and stays reachable.           *)
(***************************************************************************)
EXTENDS GuiControl, TLAPS

(* While a start is under way the window has no watcher: it looked before  *)
(* the clean-up, and a process that has ended does not come back.          *)
StartsWithNone == pc \in {"cleanup", "launch"} => ~ProcAlive

DownIsIdle == gui = "down" => pc = "idle"

ClosingIsLeaving == pc = "closing" => leaving # "no"

(* _quit_application runs to its end in one handler; the X that calls it is *)
(* that of a window that is shown, and stays so.                           *)
LeavingIsExiting ==
  leaving # "no" => /\ exiting
                    /\ pc \in {"terminating", "closing"}
                    /\ leaving = "close" => window = "shown"

TerminatesOne == pc = "terminating" => proc # None

ControlInv ==
  /\ TypeOK
  /\ TerminatesOne
  /\ StartsWithNone
  /\ DownIsIdle
  /\ ClosingIsLeaving
  /\ LeavingIsExiting
  /\ NoForgottenChild
  /\ ExactlyOnePoll
  /\ AlwaysReachable

(* What a step may touch, said once for each part of the invariant.        *)

(* The processes are left alone, or killed: the hold on the window's own   *)
(* is kept.                                                                *)
LEMMA HoldKept ==
  ASSUME ControlInv, UNCHANGED <<core, parent, proc>>, doomed \subseteq doomed'
  PROVE  NoForgottenChild' /\ (ProcAlive' <=> ProcAlive)
BY DEF ControlInv, NoForgottenChild, Mine, ProcAlive, Live

(* The types, in two parts: the window's and the processes'.               *)
WindowTypes ==
  /\ gui \in {"up", "down"}
  /\ pc \in {"idle", "cleanup", "launch", "terminating", "closing", "polling"}
  /\ leaving \in {"no", "close", "exit"}
  /\ window \in {"shown", "tray", "closed"}
  /\ grace \in {"none", "fresh", "old"}
  /\ status \in {"stopped", "starting", "ok", "wait_conn"}
  /\ buttons \in {"both", "running", "stopped"}
  /\ polls \in 0..1
  /\ frozen \in BOOLEAN /\ tray \in BOOLEAN /\ exiting \in BOOLEAN
  /\ running \in BOOLEAN /\ dialog \in BOOLEAN /\ other \in BOOLEAN

CoreTypes ==
  /\ proc \in Core \cup {None}
  /\ core \in [Core -> {"none", "starting", "serving", "closing", "gone"}]
  /\ parent \in [Core -> {"none", "alive", "gone", "reused"}]
  /\ doomed \in SUBSET Core

LEMMA TypesInParts ==
  /\ TypeOK <=> WindowTypes /\ CoreTypes
  /\ TypeOK' <=> WindowTypes' /\ CoreTypes'
BY DEF TypeOK, WindowTypes, CoreTypes

(* The parts of the invariant that speak of the window alone.              *)
WindowInv ==
  /\ WindowTypes
  /\ DownIsIdle
  /\ ClosingIsLeaving
  /\ LeavingIsExiting
  /\ ExactlyOnePoll
  /\ AlwaysReachable

LEMMA InvInParts ==
  /\ ControlInv <=> WindowInv /\ CoreTypes /\ StartsWithNone /\ TerminatesOne /\ NoForgottenChild
  /\ ControlInv' <=> /\ WindowInv' /\ CoreTypes' /\ StartsWithNone' /\ TerminatesOne'
                     /\ NoForgottenChild'
BY TypesInParts DEF ControlInv, WindowInv

LEMMA InitHolds ==
  ASSUME Init
  PROVE  ControlInv
<1>1. window = "shown" /\ status = "stopped" /\ buttons = "both" /\ polls = 1
  BY DEF Init, NewWindow
<1>2. WindowTypes
  <2>1. /\ frozen \in BOOLEAN /\ tray \in BOOLEAN /\ exiting \in BOOLEAN
        /\ running \in BOOLEAN /\ dialog \in BOOLEAN /\ other \in BOOLEAN
    BY Zenon DEF Init
  <2>2. gui = "up" /\ pc = "idle" /\ grace = "none" /\ leaving = "no"
    BY DEF Init
  <2> QED
    BY <1>1, <2>1, <2>2 DEF WindowTypes
<1>3. CoreTypes /\ NoForgottenChild
  BY DEF Init, CoreTypes, NoForgottenChild, Mine, Live
<1>4. DownIsIdle /\ ClosingIsLeaving /\ LeavingIsExiting /\ StartsWithNone /\ TerminatesOne
  BY DEF Init, DownIsIdle, ClosingIsLeaving, LeavingIsExiting, StartsWithNone, TerminatesOne
<1>5. ExactlyOnePoll /\ AlwaysReachable
  BY <1>1 DEF Init, ExactlyOnePoll, AlwaysReachable
<1> QED
  BY <1>2, <1>3, <1>4, <1>5, InvInParts DEF WindowInv

-----------------------------------------------------------------------------
LEMMA StartSteps ==
  ASSUME ControlInv,
         PressStart \/ Cleanup \/ LaunchFails \/ Launch
  PROVE  ControlInv'
<1> USE InvInParts
<1>1. CASE PressStart
  <2>1. NoForgottenChild' /\ (ProcAlive' <=> ProcAlive) /\ ~ProcAlive
    BY <1>1, HoldKept DEF PressStart, coreVars
  <2>2. WindowInv' /\ CoreTypes'
    BY <1>1 DEF PressStart, Idle, coreVars, viewVars, lookVars, fixedVars, exitVars, WindowInv,
       WindowTypes, CoreTypes, DownIsIdle, ClosingIsLeaving, LeavingIsExiting,
       ExactlyOnePoll, AlwaysReachable
  <2> QED
    BY <1>1, <2>1, <2>2 DEF PressStart, StartsWithNone, TerminatesOne
<1>2. CASE Cleanup
  <2>1. NoForgottenChild' /\ (ProcAlive' <=> ProcAlive)
    BY <1>2, HoldKept DEF Cleanup
  <2>2. WindowInv' /\ CoreTypes'
    BY <1>2 DEF Cleanup, viewVars, lookVars, fixedVars, exitVars, WindowInv,
       WindowTypes, CoreTypes, DownIsIdle, ClosingIsLeaving, LeavingIsExiting,
       ExactlyOnePoll, AlwaysReachable
  <2> QED
    BY <1>2, <2>1, <2>2 DEF Cleanup, StartsWithNone, TerminatesOne
<1>3. CASE LaunchFails
  <2>1. NoForgottenChild'
    BY <1>3, HoldKept DEF LaunchFails, coreVars
  <2>2. WindowInv' /\ CoreTypes'
    BY <1>3 DEF LaunchFails, coreVars, viewVars, lookVars, fixedVars, exitVars, WindowInv,
       WindowTypes, CoreTypes, DownIsIdle, ClosingIsLeaving, LeavingIsExiting,
       ExactlyOnePoll, AlwaysReachable
  <2> QED
    BY <1>3, <2>1, <2>2 DEF LaunchFails, StartsWithNone, TerminatesOne
<1>4. CASE Launch
  <2>1. PICK c \in Core : Spawned(c, "alive") /\ proc' = c
    BY <1>4 DEF Launch
  <2>2. WindowInv'
    BY <1>4 DEF Launch, Toggle, viewVars, fixedVars, exitVars, WindowInv,
       WindowTypes, DownIsIdle, ClosingIsLeaving, LeavingIsExiting,
       ExactlyOnePoll, AlwaysReachable
  <2>3. CoreTypes'
    BY <2>1 DEF Spawned, CoreTypes
  <2>4. ~ProcAlive
    BY <1>4 DEF Launch, StartsWithNone, TerminatesOne
  <2>5. ASSUME NEW d \in Core, Mine(d)', d # c
        PROVE  d \in doomed'
    <3>1. Mine(d)
      BY <2>1, <2>5 DEF Spawned, CoreTypes, Mine, Live
    <3>2. d # proc
      BY <2>4, <3>1, NoneAssumption DEF ProcAlive, Mine
    <3> QED
      BY <2>1, <2>5, <3>1, <3>2 DEF NoForgottenChild, Spawned
  <2> QED
    BY <1>4, <2>1, <2>2, <2>3, <2>5 DEF Launch, StartsWithNone, TerminatesOne, NoForgottenChild
<1> QED
  BY <1>1, <1>2, <1>3, <1>4

(* _quit_application and stop_watcher up to its wait.                      *)
LEMMA StopBeginsIn ==
  ASSUME ControlInv, Idle, StopBegins,
         \/ UNCHANGED exitVars
         \/ exiting' /\ leaving' \in {"close", "exit"} /\ (leaving' = "close" => window = "shown"),
         UNCHANGED <<gui, proc, grace, running, polls, viewVars, coreVars, fixedVars>>
  PROVE  ControlInv'
<1>1. NoForgottenChild'
  BY HoldKept DEF coreVars
<1>2. /\ pc' \in {"terminating", "idle", "closing"}
      /\ pc' = "closing" => leaving' # "no"
      /\ leaving' # "no" => pc' # "idle"
      /\ pc' = "terminating" => ProcAlive
  <2>1. CASE ProcAlive
    <3>1. pc' = "terminating"
      BY <2>1 DEF StopBegins
    <3> QED
      BY <2>1, <3>1
  <2>2. CASE ~ProcAlive
    <3>1. pc' = IF leaving' # "no" THEN "closing" ELSE "idle"
      BY <2>2 DEF StopBegins, AfterStop
    <3>2. CASE leaving' # "no"
      BY <3>1, <3>2
    <3>3. CASE ~(leaving' # "no")
      BY <3>1, <3>3
    <3> QED
      BY <3>2, <3>3
  <2> QED
    BY <2>1, <2>2
<1>3. status' \in {status, "stopped"} /\ buttons' \in {buttons, "stopped"}
  BY DEF StopBegins, Toggle, lookVars
<1>4. /\ exiting' \in BOOLEAN /\ (exiting => exiting')
      /\ leaving' \in {"no", "close", "exit"}
  BY InvInParts DEF exitVars, WindowInv, WindowTypes
<1>5. WindowTypes'
  BY <1>2, <1>3, <1>4, InvInParts DEF viewVars, fixedVars, exitVars, WindowInv, WindowTypes
<1>6. DownIsIdle' /\ ClosingIsLeaving' /\ LeavingIsExiting'
  <2>1. leaving' # "no" => exiting' /\ (leaving' = "close" => window' = "shown")
    BY InvInParts DEF Idle, exitVars, viewVars, WindowInv, LeavingIsExiting
  <2> QED
    BY <1>2, <2>1 DEF Idle, DownIsIdle, ClosingIsLeaving, LeavingIsExiting
<1>7. ExactlyOnePoll' /\ AlwaysReachable'
  BY <1>2, <1>4, InvInParts DEF Idle, viewVars, WindowInv, ExactlyOnePoll, AlwaysReachable
<1>8. CoreTypes'
  BY InvInParts DEF coreVars, CoreTypes
<1>9. StartsWithNone' /\ TerminatesOne'
  BY <1>2 DEF StartsWithNone, TerminatesOne, ProcAlive
<1> QED
  BY <1>1, <1>5, <1>6, <1>7, <1>8, <1>9, InvInParts DEF WindowInv

LEMMA StopSteps ==
  ASSUME ControlInv,
         PressStop \/ StopReturns \/ PressClose \/ PressExit \/ CloseWindow
  PROVE  ControlInv'
<1> USE InvInParts
<1>1. CASE PressStop
  BY <1>1, StopBeginsIn DEF PressStop, exitVars
<1>2. CASE StopReturns
  <2>1. NoForgottenChild'
    BY <1>2, HoldKept DEF StopReturns
  <2>2. WindowInv'
    BY <1>2 DEF StopReturns, AfterStop, Toggle, viewVars, fixedVars, exitVars, WindowInv,
       WindowTypes, DownIsIdle, ClosingIsLeaving, LeavingIsExiting,
       ExactlyOnePoll, AlwaysReachable
  <2>3. CoreTypes'
    BY <1>2 DEF StopReturns, CoreTypes, TerminatesOne
  <2> QED
    BY <1>2, <2>1, <2>2, <2>3 DEF StopReturns, AfterStop, StartsWithNone, TerminatesOne
<1>3. CASE PressClose \/ PressExit
  <2>1. ASSUME NEW caller \in {"close", "exit"}, Quit(caller), Idle,
               caller = "close" => window = "shown"
        PROVE  ControlInv'
    BY <2>1, StopBeginsIn DEF Quit
  <2>2. CASE /\ Idle
             /\ \/ ~exiting /\ tray /\ window' = "tray"
                \/ exiting /\ window' = "closed"
             /\ UNCHANGED <<gui, pc, exitVars, proc, grace, running, polls, tray, dialog,
                            lookVars, coreVars, fixedVars>>
    <3>1. NoForgottenChild'
      BY <2>2, HoldKept DEF coreVars
    <3>2. WindowTypes' /\ CoreTypes'
      BY <2>2 DEF coreVars, lookVars, fixedVars, exitVars, WindowInv, WindowTypes, CoreTypes
    <3>3. DownIsIdle' /\ ClosingIsLeaving' /\ LeavingIsExiting'
      BY <2>2 DEF Idle, exitVars, WindowInv, DownIsIdle, ClosingIsLeaving, LeavingIsExiting
    <3>4. ExactlyOnePoll' /\ AlwaysReachable'
      BY <2>2 DEF Idle, exitVars, WindowInv, ExactlyOnePoll, AlwaysReachable
    <3> QED
      BY <2>2, <3>1, <3>2, <3>3, <3>4 DEF Idle, WindowInv, StartsWithNone, TerminatesOne
  <2> QED
    BY <1>3, <2>1, <2>2 DEF PressClose, PressExit
<1>4. CASE CloseWindow
  <2>1. NoForgottenChild'
    BY <1>4, HoldKept DEF CloseWindow, coreVars
  <2>2. leaving \in {"close", "exit"} /\ exiting /\ (leaving = "close" => window = "shown")
    BY <1>4 DEF CloseWindow, WindowInv, WindowTypes, ClosingIsLeaving, LeavingIsExiting
  <2>3. window' = (IF leaving = "exit" THEN "closed" ELSE window) /\ exiting' = exiting
    BY <1>4 DEF CloseWindow
  <2>4. WindowTypes' /\ CoreTypes'
    <3>1. window' \in {"shown", "tray", "closed"}
      BY <2>3 DEF WindowInv, WindowTypes
    <3>2. pc' = "idle" /\ leaving' = "no" /\ tray' = FALSE
      BY <1>4 DEF CloseWindow
    <3>3. UNCHANGED <<gui, exiting, proc, grace, running, polls, dialog, lookVars, coreVars,
                      fixedVars>>
      BY <1>4 DEF CloseWindow
    <3>4. /\ frozen \in BOOLEAN /\ exiting \in BOOLEAN /\ running \in BOOLEAN
          /\ dialog \in BOOLEAN /\ other \in BOOLEAN
      BY DEF WindowInv, WindowTypes
    <3>5. /\ frozen' \in BOOLEAN /\ tray' \in BOOLEAN /\ exiting' \in BOOLEAN
          /\ running' \in BOOLEAN /\ dialog' \in BOOLEAN /\ other' \in BOOLEAN
      BY <3>2, <3>3, <3>4, Zenon DEF fixedVars
    <3>6. WindowTypes'
      BY <3>1, <3>2, <3>3, <3>5 DEF lookVars, WindowInv, WindowTypes
    <3>7. CoreTypes'
      BY <3>3 DEF coreVars, CoreTypes
    <3> QED
      BY <3>6, <3>7
  <2>5. DownIsIdle' /\ ClosingIsLeaving' /\ LeavingIsExiting' /\ ExactlyOnePoll'
    BY <1>4, <2>2, <2>3 DEF CloseWindow, DownIsIdle, ClosingIsLeaving, LeavingIsExiting,
       ExactlyOnePoll
  <2>6. AlwaysReachable'
    BY <2>2, <2>3 DEF AlwaysReachable
  <2> QED
    BY <1>4, <2>1, <2>4, <2>5, <2>6 DEF CloseWindow, WindowInv, StartsWithNone, TerminatesOne
<1> QED
  BY <1>1, <1>2, <1>3, <1>4

LEMMA PollSteps ==
  ASSUME ControlInv,
         PollFires \/ PollShows \/ PollRaises
  PROVE  ControlInv'
<1> USE InvInParts
<1>1. NoForgottenChild'
  BY HoldKept DEF PollFires, PollShows, PollRaises, coreVars
<1>2. CoreTypes'
  BY DEF PollFires, PollShows, PollRaises, CoreTypes, coreVars
<1>3. pc' \in {"idle", "polling"}
  BY DEF PollFires, PollShows, PollRaises, Idle
<1>4. WindowInv'
  <2> USE DEF viewVars, lookVars, fixedVars, exitVars, Toggle, Rearm, WindowInv, WindowTypes, DownIsIdle,
       ClosingIsLeaving, LeavingIsExiting,
       ExactlyOnePoll, AlwaysReachable
  <2>1. CASE PollFires
    <3>1. running' \in BOOLEAN
      BY <2>1 DEF PollFires, ProcAlive
    <3> QED
      BY <2>1, <3>1 DEF PollFires, Idle
  <2>2. CASE PollShows
    <3>1. Decision(running, Serving) \in {"stopped", "starting", "ok", "wait_conn"}
      BY DEF Decision
    <3> QED
      BY <2>2, <3>1 DEF PollShows
  <2>3. CASE PollRaises
    BY <2>3 DEF PollRaises
  <2> QED
    BY <2>1, <2>2, <2>3
<1> QED
  BY <1>1, <1>2, <1>3, <1>4 DEF StartsWithNone, TerminatesOne

LEMMA OtherWindowSteps ==
  ASSUME ControlInv,
         ShowFromTray \/ ToggleDialog \/ GraceEnds \/ LaunchWindow
  PROVE  ControlInv'
<1> USE InvInParts
<1>1. NoForgottenChild' /\ (ProcAlive' <=> ProcAlive)
  BY HoldKept DEF ShowFromTray, ToggleDialog, GraceEnds, LaunchWindow, coreVars
<1>2. CoreTypes' /\ pc' = pc /\ proc' = proc
  BY DEF ShowFromTray, ToggleDialog, GraceEnds, LaunchWindow, CoreTypes, coreVars
<1>3. WindowInv'
  <2> USE DEF viewVars, lookVars, fixedVars, exitVars, WindowInv, DownIsIdle, ClosingIsLeaving,
       LeavingIsExiting, ExactlyOnePoll, AlwaysReachable
  <2>1. CASE ShowFromTray
    BY <2>1 DEF ShowFromTray, Idle, WindowTypes
  <2>2. CASE ToggleDialog
    <3>1. dialog' \in BOOLEAN
      BY <2>2 DEF ToggleDialog
    <3> QED
      BY <2>2, <3>1 DEF ToggleDialog, WindowTypes
  <2>3. CASE GraceEnds
    BY <2>3 DEF GraceEnds, WindowTypes
  <2>4. CASE LaunchWindow
    <3>1. /\ window' = "shown" /\ status' = "stopped" /\ buttons' = "both" /\ polls' = 1
          /\ gui' = "up" /\ tray' \in BOOLEAN /\ pc = "idle"
          /\ UNCHANGED <<pc, exitVars, grace, running, dialog, fixedVars>>
      BY <2>4 DEF LaunchWindow, NewWindow, MutexFree
    <3>2. WindowTypes'
      BY <3>1 DEF WindowTypes
    <3> QED
      BY <3>1, <3>2
  <2> QED
    BY <2>1, <2>2, <2>3, <2>4
<1> QED
  BY <1>1, <1>2, <1>3 DEF StartsWithNone, TerminatesOne

(* With the window its children are nobody's.                              *)
LEMMA WindowGoneSteps ==
  ASSUME ControlInv,
         CleanupKillsWindow \/ Crash
  PROVE  ControlInv'
<1> USE InvInParts
<1>1. WindowGone /\ doomed' \in SUBSET Core
  BY DEF CleanupKillsWindow, Crash, CoreTypes
<1>2. CoreTypes' /\ NoForgottenChild'
  BY <1>1 DEF WindowGone, CoreTypes, NoForgottenChild, Mine
<1>0. frozen \in BOOLEAN /\ other \in BOOLEAN
  BY DEF WindowInv, WindowTypes
<1>3. WindowTypes'
  <2>1. /\ frozen' \in BOOLEAN /\ tray' \in BOOLEAN /\ exiting' \in BOOLEAN
        /\ running' \in BOOLEAN /\ dialog' \in BOOLEAN /\ other' \in BOOLEAN
    BY <1>0, <1>1, Zenon DEF WindowGone, fixedVars, exitVars
  <2>2. /\ gui' = "down" /\ pc' = "idle" /\ window' = "closed" /\ grace' = "none"
        /\ status' = "stopped" /\ buttons' = "stopped" /\ polls' = 0 /\ leaving' = "no"
    BY <1>1 DEF WindowGone
  <2> QED
    BY <2>1, <2>2 DEF WindowTypes
<1>4. DownIsIdle' /\ ClosingIsLeaving' /\ LeavingIsExiting' /\ ExactlyOnePoll' /\ AlwaysReachable'
  BY <1>1 DEF WindowGone, DownIsIdle, ClosingIsLeaving, LeavingIsExiting,
     ExactlyOnePoll, AlwaysReachable
<1> QED
  BY <1>1, <1>2, <1>3, <1>4 DEF WindowGone, WindowInv, StartsWithNone, TerminatesOne

LEMMA CoreSteps ==
  ASSUME ControlInv, NEW c \in Core,
         StartedByHand(c) \/ CoreMoves(c) \/ CoreGoes(c) \/ NumberReused(c)
  PROVE  ControlInv'
<1> USE InvInParts
<1>1. WindowInv' /\ pc' = pc /\ proc' = proc
  BY DEF StartedByHand, CoreMoves, CoreGoes, NumberReused, appVars, viewVars, lookVars, fixedVars, exitVars,
     WindowInv, WindowTypes, DownIsIdle, ClosingIsLeaving, LeavingIsExiting,
     ExactlyOnePoll, AlwaysReachable
<1>2. CoreTypes'
  BY DEF StartedByHand, Spawned, CoreMoves, CoreGoes, NumberReused, appVars, CoreTypes
<1>3. ASSUME NEW d \in Core, Live(d)', StartedByHand(c) => d # c
      PROVE  Live(d)
  BY <1>3 DEF StartedByHand, Spawned, CoreMoves, CoreGoes, NumberReused, appVars, CoreTypes, Live
<1>4. ASSUME NEW d \in Core, Mine(d)'
      PROVE  d # proc => d \in doomed'
  <2>1. Mine(d) /\ (d \in doomed => d \in doomed')
    BY <1>3, <1>4 DEF StartedByHand, Spawned, CoreMoves, CoreGoes, NumberReused, appVars,
       CoreTypes, Mine
  <2> QED
    BY <2>1 DEF NoForgottenChild
<1>5. ProcAlive' => ProcAlive
  BY <1>1, <1>3, NoneAssumption DEF StartedByHand, Spawned, Unused, CoreTypes, ProcAlive
<1> QED
  BY <1>1, <1>2, <1>4, <1>5 DEF StartsWithNone, TerminatesOne, NoForgottenChild

LEMMA StepKeepsInv == ControlInv /\ [Next]_vars => ControlInv'
<1> SUFFICES ASSUME ControlInv, [Next]_vars
             PROVE  ControlInv'
  OBVIOUS
<1>1. CASE Next
  BY <1>1, StartSteps, StopSteps, PollSteps, OtherWindowSteps, WindowGoneSteps, CoreSteps
     DEF Next, Thread, User
<1>2. CASE UNCHANGED vars
  BY <1>2 DEF vars, viewVars, lookVars, coreVars, fixedVars, exitVars, ControlInv, TypeOK,
     StartsWithNone, TerminatesOne, DownIsIdle, ClosingIsLeaving, LeavingIsExiting,
     NoForgottenChild, ExactlyOnePoll, AlwaysReachable, Mine, ProcAlive, Live
<1> QED
  BY <1>1, <1>2

-----------------------------------------------------------------------------
LEMMA ControlInvHolds == Spec => []ControlInv
BY InitHolds, StepKeepsInv, PTL DEF Spec

(* The types are right; in particular there are never two polls.           *)
THEOREM ControlTypeCorrect == Spec => []TypeOK
<1>1. ControlInv => TypeOK
  BY DEF ControlInv
<1> QED
  BY <1>1, ControlInvHolds, PTL

(* The window never loses hold of a watcher it started, with any number of *)
(* orphans and of watchers started by hand (watcher_gui.py:1033-1083).     *)
THEOREM NoForgottenChildCorrect == Spec => []NoForgottenChild
<1>1. ControlInv => NoForgottenChild
  BY DEF ControlInv
<1> QED
  BY <1>1, ControlInvHolds, PTL

(* A window in use polls, once at a time, whatever was started, stopped,   *)
(* raised or hidden (watcher_gui.py:1095-1131).                            *)
THEOREM OnePollCorrect == Spec => []ExactlyOnePoll
<1>1. ControlInv => ExactlyOnePoll
  BY DEF ControlInv
<1> QED
  BY <1>1, ControlInvHolds, PTL

(* A window that is up is shown, or hidden behind an icon that is there,   *)
(* or closed by a user who left (watcher_gui.py:1258-1289).                *)
THEOREM AlwaysReachableCorrect == Spec => []AlwaysReachable
<1>1. ControlInv => AlwaysReachable
  BY DEF ControlInv
<1> QED
  BY <1>1, ControlInvHolds, PTL

-----------------------------------------------------------------------------
(* What LiveRuntime implements is what this window drives.                 *)
Process(c) == INSTANCE CoreProcess WITH stage <- core[c], parent <- parent[c]

StartsProcess(c) == ~Live(c) /\ core'[c] = "starting"

FollowsCoreProcess(c) ==
  StartsProcess(c) \/ Process(c)!CoreNext \/ UNCHANGED <<core[c], parent[c]>>

LEMMA StepFollowsCore ==
  ASSUME TypeOK, [Next]_vars, NEW c \in Core
  PROVE  FollowsCoreProcess(c)
<1> USE DEF FollowsCoreProcess, TypeOK
<1>1. CASE UNCHANGED <<core, parent>>
  BY <1>1
<1>2. CASE WindowGone
  <2>1. core' = core /\ parent'[c] = (IF parent[c] = "alive" THEN "gone" ELSE parent[c])
    BY <1>2 DEF WindowGone
  <2> QED
    BY <2>1 DEF Process!CoreNext, Process!ParentGoes
<1>3. ASSUME NEW d \in Core, NEW p \in {"alive", "none"}, Spawned(d, p)
      PROVE  FollowsCoreProcess(c)
  BY <1>3 DEF Spawned, Unused, StartsProcess
<1>4. ASSUME NEW d \in Core, CoreMoves(d) \/ CoreGoes(d) \/ NumberReused(d)
      PROVE  FollowsCoreProcess(c)
  BY <1>4 DEF CoreMoves, CoreGoes, NumberReused, Live, appVars, Process!CoreNext,
     Process!Serves, Process!Closes, Process!Goes, Process!NumberReused
<1>5. CASE Launch \/ \E d \in Core : StartedByHand(d)
  BY <1>3, <1>5 DEF Launch, StartedByHand
<1>6. CASE Cleanup \/ StopReturns
  BY <1>1, <1>6 DEF Cleanup, StopReturns
<1>7. CASE CleanupKillsWindow \/ Crash
  BY <1>2, <1>7 DEF CleanupKillsWindow, Crash
<1>8. CASE UNCHANGED coreVars
  BY <1>1, <1>8 DEF coreVars
<1>9. CASE UNCHANGED vars
  BY <1>8, <1>9 DEF vars
<1>10. ASSUME \/ LaunchFails \/ CloseWindow \/ PollShows \/ PollRaises \/ PollFires
              \/ GraceEnds \/ User \/ LaunchWindow
       PROVE  UNCHANGED coreVars
  BY <1>10 DEF LaunchFails, CloseWindow, PollShows, PollRaises, PollFires, GraceEnds, User,
     LaunchWindow, PressStart, PressStop, PressClose, PressExit, Quit, ShowFromTray,
     ToggleDialog
<1> QED
  BY <1>4, <1>5, <1>6, <1>7, <1>8, <1>9, <1>10 DEF Next, Thread

(* Every step of the window and of its surroundings is, for each watcher   *)
(* process, its start, a step of CoreProcess, or nothing: the window is    *)
(* checked against all the moves that LiveRuntime is proved to have.       *)
THEOREM DrivesCoreProcesses == Spec => [][\A c \in Core : FollowsCoreProcess(c)]_vars
<1>1. TypeOK /\ [Next]_vars => [\A c \in Core : FollowsCoreProcess(c)]_vars
  BY StepFollowsCore
<1> QED
  BY <1>1, ControlTypeCorrect, PTL DEF Spec
=============================================================================
