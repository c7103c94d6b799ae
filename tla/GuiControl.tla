----------------------------- MODULE GuiControl -----------------------------
(***************************************************************************)
(* The window and the watcher processes it starts, stops, polls and leaves *)
(* behind: main, WatcherGui and SingleInstanceLock of watcher_gui.py with  *)
(* gui_controller.py, process_service.py and gui_status.py.                *)
(*                                                                         *)
(* The window has one thread, Qt's; pc says where in a handler it is.  A   *)
(* handler that waits (the clean-up's PowerShell, terminate, the ping) is  *)
(* cut there, for the processes go on meanwhile.  A modal message box runs *)
(* the event loop, so it is the same as "idle".                            *)
(*                                                                         *)
(* A watcher process moves as CoreProcess says.  An element of Core is one *)
(* process; it is used again when that process is gone and forgotten.      *)
(***************************************************************************)
EXTENDS Naturals

CONSTANTS
  Core,    \* watcher processes that may exist at one time: a bound
  Crashes, \* whether the window's process may crash
  None

ASSUME NoneAssumption == None \notin Core
ASSUME CrashesAssumption == Crashes \in BOOLEAN

VARIABLES
  gui,      \* the window's process, and with it the single-instance mutex
  pc,       \* where its thread is
  frozen,   \* it runs from SCMDB-Watcher.exe, not from the source
  window,   \* "shown", "tray" or "closed"
  tray,     \* a system tray is available and its icon shown
  exiting,  \* _exiting
  leaving,  \* _quit_application is under way, called from on_close ("close") or
            \* from the tray's menu ("exit"); else "no"
  proc,     \* self.proc
  grace,    \* _watcher_start_time: "none", "fresh" (under 3 s) or "old"
  running,  \* the local of the poll in progress
  status, buttons,   \* what the window shows; buttons: as toggled last
  polls,    \* polls waiting in Qt's timer queue
  dialog,   \* the settings dialog is open
  core,     \* the stage of each watcher process
  parent,   \* the process in its --parent-pid; "none" for one started by hand
  doomed,   \* the processes a kill was issued for
  other     \* another program holds the port

viewVars == <<window, tray, dialog>>
exitVars == <<exiting, leaving>>
lookVars == <<status, buttons>>
coreVars == <<core, parent, doomed>>
fixedVars == <<frozen, other>>
vars == <<gui, pc, exitVars, proc, grace, running, polls, viewVars, lookVars,
          coreVars, fixedVars>>

Live(c) == core[c] \notin {"none", "gone"}
ProcAlive == proc # None /\ Live(proc)
Serving == \E c \in Core : core[c] = "serving"

-----------------------------------------------------------------------------
(* main and __init__: the mutex was free; both buttons are enabled, the    *)
(* first poll is armed.                                                    *)
NewWindow(t) ==
  [window |-> "shown", tray |-> t, status |-> "stopped", buttons |-> "both", polls |-> 1]

Init ==
  /\ gui = "up" /\ pc = "idle" /\ frozen \in BOOLEAN /\ other \in BOOLEAN
  /\ tray \in BOOLEAN
  /\ LET w == NewWindow(tray)
     IN  /\ window = w.window /\ status = w.status
         /\ buttons = w.buttons /\ polls = w.polls
  /\ exiting = FALSE /\ leaving = "no" /\ proc = None /\ grace = "none" /\ running = FALSE
  /\ dialog = FALSE
  /\ core = [c \in Core |-> "none"]
  /\ parent = [c \in Core |-> "none"]
  /\ doomed = {}

Idle == gui = "up" /\ pc = "idle"

Toggle(r) == buttons' = IF r THEN "running" ELSE "stopped"

-----------------------------------------------------------------------------
(* Starting.                                                               *)

(* start_watcher, when self.proc has not ended: ignored; else the clean-up *)
(* is waited for.                                                          *)
PressStart ==
  /\ Idle
  /\ window = "shown" /\ buttons # "running"
  /\ ~ProcAlive
  /\ pc' = "cleanup"
  /\ UNCHANGED <<gui, exitVars, proc, grace, running, polls, viewVars, lookVars,
                 coreVars, fixedVars>>

(* The window's process ends: what it knew is forgotten, its mutex freed,  *)
(* and it is no longer the parent of anything.                             *)
WindowGone ==
  /\ gui' = "down"
  /\ pc' = "idle" /\ exiting' = FALSE /\ leaving' = "no" /\ proc' = None
  /\ grace' = "none" /\ running' = FALSE /\ polls' = 0 /\ dialog' = FALSE
  /\ window' = "closed" /\ tray' = FALSE /\ status' = "stopped" /\ buttons' = "stopped"
  /\ parent' = [c \in Core |-> IF parent[c] = "alive" THEN "gone" ELSE parent[c]]
  /\ UNCHANGED <<core, fixedVars>>

(* force_cleanup_orphan_watchers: a kill for every watcher process, errors *)
(* ignored, so that any of them may escape it.                             *)
Cleanup ==
  /\ gui = "up" /\ pc = "cleanup"
  /\ frozen
  /\ \E killed \in SUBSET {c \in Core : Live(c)} : doomed' = doomed \cup killed
  /\ pc' = "launch"
  /\ UNCHANGED <<gui, exitVars, proc, grace, running, polls, viewVars, lookVars,
                 core, parent, fixedVars>>

(* Run from the source the window itself is a python.exe with launcher.py  *)
(* on its command line.                                                    *)
CleanupKillsWindow ==
  /\ gui = "up" /\ pc = "cleanup"
  /\ ~frozen
  /\ \E killed \in SUBSET {c \in Core : Live(c)} : doomed' = doomed \cup killed
  /\ WindowGone

(* No game directory, no runtime, or Popen raises.                         *)
LaunchFails ==
  /\ gui = "up" /\ pc = "launch"
  /\ pc' = "idle"
  /\ UNCHANGED <<gui, exitVars, proc, grace, running, polls, viewVars, lookVars,
                 coreVars, fixedVars>>

Unused(c) == ~Live(c) /\ proc # c

(* A new process, with the number of the one it is to watch in its command *)
(* line if the window started it.                                          *)
Spawned(c, p) ==
  /\ Unused(c)
  /\ core' = [core EXCEPT ![c] = "starting"]
  /\ parent' = [parent EXCEPT ![c] = p]
  /\ doomed' = doomed \ {c}

Launch ==
  /\ gui = "up" /\ pc = "launch"
  /\ \E c \in Core : Spawned(c, "alive") /\ proc' = c
  /\ grace' = "fresh"
  /\ status' = "starting" /\ Toggle(TRUE)
  /\ pc' = "idle"
  /\ UNCHANGED <<gui, exitVars, running, polls, viewVars, fixedVars>>

-----------------------------------------------------------------------------
(* Stopping and leaving.                                                   *)

AfterStop == IF leaving' # "no" THEN "closing" ELSE "idle"

(* stop_watcher, up to the wait for the process.                           *)
StopBegins ==
  IF ProcAlive
  THEN pc' = "terminating" /\ UNCHANGED lookVars
  ELSE pc' = AfterStop /\ status' = "stopped" /\ Toggle(FALSE)

(* The button, or Disconnect in the tray's menu.                           *)
PressStop ==
  /\ Idle
  /\ \/ window = "shown" /\ buttons # "stopped"
     \/ tray
  /\ UNCHANGED exitVars
  /\ StopBegins
  /\ UNCHANGED <<gui, proc, grace, running, polls, viewVars, coreVars, fixedVars>>

(* Seeded faults are named <definition>_<change>.                          *)
StopReturns_Forgets ==
  /\ gui = "up" /\ pc = "terminating"
  /\ proc' = None
  /\ grace' = "none" /\ status' = "stopped" /\ Toggle(FALSE)
  /\ UNCHANGED exitVars
  /\ pc' = AfterStop
  /\ UNCHANGED <<gui, running, polls, viewVars, coreVars, fixedVars>>

StopReturns_NoKill ==
  /\ gui = "up" /\ pc = "terminating"
  /\ grace' = "none" /\ status' = "stopped" /\ Toggle(FALSE)
  /\ UNCHANGED exitVars
  /\ pc' = AfterStop
  /\ UNCHANGED <<gui, proc, running, polls, viewVars, coreVars, fixedVars>>

(* terminate_watcher_process: the process ended within three seconds, or   *)
(* it is killed and not waited for.                                        *)
StopReturns ==
  /\ gui = "up" /\ pc = "terminating"
  /\ doomed' = IF Live(proc) THEN doomed \cup {proc} ELSE doomed
  /\ grace' = "none" /\ status' = "stopped" /\ Toggle(FALSE)
  /\ UNCHANGED exitVars
  /\ pc' = AfterStop
  /\ UNCHANGED <<gui, proc, running, polls, viewVars, core, parent, fixedVars>>

(* _quit_application, called by caller.                                    *)
Quit(caller) ==
  /\ ~exiting
  /\ exiting' = TRUE /\ leaving' = caller
  /\ StopBegins
  /\ UNCHANGED <<gui, proc, grace, running, polls, viewVars, coreVars, fixedVars>>

PressClose_AlwaysTray ==
  /\ Idle /\ window = "shown"
  /\ window' = "tray"
  /\ UNCHANGED <<gui, pc, exitVars, proc, grace, running, polls, tray, dialog,
                 lookVars, coreVars, fixedVars>>

(* on_close: with close_action "tray" and a tray the window is hidden, any *)
(* other first close leaves; once _exiting is set the close is accepted    *)
(* and nothing else is done.  The hint that is shown on the first hiding   *)
(* is taken as answered at once.                                           *)
PressClose ==
  /\ Idle /\ window = "shown"
  /\ \/ /\ ~exiting /\ tray
        /\ window' = "tray"
        /\ UNCHANGED <<gui, pc, exitVars, proc, grace, running, polls, tray, dialog,
                       lookVars, coreVars, fixedVars>>
     \/ Quit("close")
     \/ /\ exiting
        /\ window' = "closed"
        /\ UNCHANGED <<gui, pc, exitVars, proc, grace, running, polls, tray, dialog,
                       lookVars, coreVars, fixedVars>>

PressExit == Idle /\ tray /\ Quit("exit")

ShowFromTray ==
  /\ Idle /\ tray
  /\ window' = "shown"
  /\ UNCHANGED <<gui, pc, exitVars, proc, grace, running, polls, tray, dialog,
                 lookVars, coreVars, fixedVars>>

(* The icon is hidden and the window told to close.  Within the closeEvent *)
(* of that same window Qt ignores it, and as on_close then answers False,  *)
(* the X that called it leaves the window shown.  Qt's loop is told not to *)
(* end with its last window, and nothing else ends it.                     *)
CloseWindow ==
  /\ gui = "up" /\ pc = "closing"
  /\ tray' = FALSE
  /\ window' = IF leaving = "exit" THEN "closed" ELSE window
  /\ pc' = "idle" /\ leaving' = "no"
  /\ UNCHANGED <<gui, exiting, proc, grace, running, polls, dialog, lookVars,
                 coreVars, fixedVars>>

ToggleDialog ==
  /\ Idle /\ window = "shown"
  /\ dialog' = ~dialog
  /\ UNCHANGED <<gui, pc, exitVars, proc, grace, running, polls, window, tray,
                 lookVars, coreVars, fixedVars>>

-----------------------------------------------------------------------------
(* The poll.                                                               *)

(* finally: armed again unless leaving.                                    *)
Rearm(n) == polls' = IF exiting THEN n ELSE n + 1

PollFires_DialogReturns ==
  /\ Idle /\ polls > 0
  /\ polls' = polls - 1
  /\ running' = ProcAlive
  /\ IF dialog THEN Toggle(ProcAlive) /\ UNCHANGED pc
               ELSE pc' = "polling" /\ UNCHANGED buttons
  /\ UNCHANGED <<gui, exitVars, proc, grace, viewVars, status, coreVars, fixedVars>>

PollFires_ArmsFirst ==
  /\ Idle /\ polls > 0
  /\ running' = ProcAlive
  /\ Rearm(polls - 1)
  /\ IF dialog THEN Toggle(ProcAlive) /\ UNCHANGED pc
               ELSE pc' = "polling" /\ UNCHANGED buttons
  /\ UNCHANGED <<gui, exitVars, proc, grace, viewVars, status, coreVars, fixedVars>>

PollFires_NoToggle ==
  /\ Idle /\ polls > 0
  /\ running' = ProcAlive
  /\ IF dialog THEN Rearm(polls - 1) /\ UNCHANGED pc
               ELSE pc' = "polling" /\ polls' = polls - 1
  /\ UNCHANGED <<gui, exitVars, proc, grace, viewVars, lookVars, coreVars, fixedVars>>

(* _poll_status up to the ping; with the dialog open only the buttons      *)
(* follow.                                                                 *)
PollFires ==
  /\ Idle /\ polls > 0
  /\ running' = ProcAlive
  /\ IF dialog
     THEN Toggle(ProcAlive) /\ Rearm(polls - 1) /\ UNCHANGED pc
     ELSE pc' = "polling" /\ polls' = polls - 1 /\ UNCHANGED buttons
  /\ UNCHANGED <<gui, exitVars, proc, grace, viewVars, status, coreVars, fixedVars>>

(* decide_poll_status, after the grace of a watcher that just started.     *)
Decision(alive, answered) ==
  CASE alive /\ answered -> "ok"
    [] alive /\ ~answered -> IF grace = "fresh" THEN "starting" ELSE "wait_conn"
    [] OTHER -> "stopped"

(* The ping is answered by whatever watcher holds the port.                *)
PollShows ==
  /\ gui = "up" /\ pc = "polling"
  /\ status' = Decision(running, Serving)
  /\ grace' = IF running THEN grace ELSE "none"
  /\ Toggle(running)
  /\ Rearm(polls)
  /\ pc' = "idle"
  /\ UNCHANGED <<gui, exitVars, proc, running, viewVars, coreVars, fixedVars>>

(* What another program answered raises in ping_ok: logged, polled again.  *)
PollRaises ==
  /\ gui = "up" /\ pc = "polling"
  /\ other
  /\ Rearm(polls)
  /\ pc' = "idle"
  /\ UNCHANGED <<gui, exitVars, proc, grace, running, viewVars, lookVars, coreVars,
                 fixedVars>>

GraceEnds ==
  /\ grace = "fresh"
  /\ grace' = "old"
  /\ UNCHANGED <<gui, pc, exitVars, proc, running, polls, viewVars, lookVars,
                 coreVars, fixedVars>>

-----------------------------------------------------------------------------
(* The window's process, and the watcher processes.                        *)

Crash ==
  /\ Crashes /\ gui = "up"
  /\ WindowGone
  /\ UNCHANGED doomed

(* SingleInstanceLock: the mutex lives as long as the process that has it. *)
MutexFree == gui = "down"

(* A second instance finds the mutex and leaves at once; this is the       *)
(* launch that does not.                                                   *)
LaunchWindow ==
  /\ MutexFree
  /\ gui' = "up"
  /\ tray' \in BOOLEAN
  /\ LET w == NewWindow(tray')
     IN  /\ window' = w.window /\ status' = w.status
         /\ buttons' = w.buttons /\ polls' = w.polls
  /\ UNCHANGED <<pc, exitVars, proc, grace, running, dialog, coreVars, fixedVars>>

appVars == <<gui, pc, exitVars, proc, grace, running, polls, viewVars, lookVars,
             doomed, fixedVars>>

StartedByHand(c) ==
  /\ Spawned(c, "none")
  /\ UNCHANGED <<gui, pc, exitVars, proc, grace, running, polls, viewVars,
                 lookVars, fixedVars>>

(* CoreProcess!Serves and Closes, one of them at a time holding the port.  *)
CoreMoves(c) ==
  /\ \/ /\ core[c] = "starting" /\ ~other /\ ~Serving
        /\ core' = [core EXCEPT ![c] = "serving"]
     \/ core[c] = "serving" /\ core' = [core EXCEPT ![c] = "closing"]
  /\ UNCHANGED <<appVars, parent>>

(* CoreProcess!Goes.                                                       *)
CoreGoes(c) ==
  /\ Live(c)
  /\ core' = [core EXCEPT ![c] = "gone"]
  /\ UNCHANGED <<appVars, parent>>

NumberReused(c) ==
  /\ Live(c) /\ parent[c] = "gone"
  /\ parent' = [parent EXCEPT ![c] = "reused"]
  /\ UNCHANGED <<appVars, core>>

Thread ==
  \/ Cleanup \/ CleanupKillsWindow \/ LaunchFails \/ Launch
  \/ StopReturns \/ CloseWindow \/ PollShows

User == PressStart \/ PressStop \/ PressClose \/ PressExit \/ ShowFromTray \/ ToggleDialog

Next ==
  \/ Thread \/ PollRaises \/ PollFires \/ GraceEnds
  \/ User \/ Crash \/ LaunchWindow
  \/ \E c \in Core : StartedByHand(c) \/ CoreMoves(c) \/ CoreGoes(c) \/ NumberReused(c)

Spec == Init /\ [][Next]_vars

(* The window's thread runs and Qt fires a timer that is due, whatever     *)
(* else is in its queue; time passes; a killed process goes.  The user is  *)
(* free.                                                                   *)
Fairness ==
  /\ WF_vars(Thread) /\ SF_vars(PollFires) /\ WF_vars(GraceEnds)
  /\ \A c \in Core : WF_vars(c \in doomed /\ CoreGoes(c))

FairSpec == Spec /\ Fairness

-----------------------------------------------------------------------------
TypeOK ==
  /\ gui \in {"up", "down"}
  /\ pc \in {"idle", "cleanup", "launch", "terminating", "closing", "polling"}
  /\ leaving \in {"no", "close", "exit"}
  /\ window \in {"shown", "tray", "closed"}
  /\ proc \in Core \cup {None}
  /\ grace \in {"none", "fresh", "old"}
  /\ status \in {"stopped", "starting", "ok", "wait_conn"}
  /\ buttons \in {"both", "running", "stopped"}
  /\ polls \in 0..1
  /\ \A b \in {frozen, tray, exiting, running, dialog, other} : b \in BOOLEAN
  /\ core \in [Core -> {"none", "starting", "serving", "closing", "gone"}]
  /\ parent \in [Core -> {"none", "alive", "gone", "reused"}]
  /\ doomed \in SUBSET Core

Mine(c) == parent[c] = "alive" /\ Live(c)

(* The window never loses hold of a watcher it started: one that lives and *)
(* was not killed is the one Stop and Exit will end, and there are never   *)
(* two, whatever ended, was killed or timed out before                     *)
(* (watcher_gui.py:1033-1083, gui_controller.py:56-61).                    *)
NoForgottenChild == \A c \in Core : Mine(c) => proc = c \/ c \in doomed

(* A window in use polls: exactly one poll is armed or under way, through  *)
(* dialogs, errors and starts (watcher_gui.py:1095-1131).                  *)
ExactlyOnePoll ==
  gui = "up" /\ ~exiting => polls = IF pc = "polling" THEN 0 ELSE 1

(* There is a way to reach the window until it has closed for good: it is  *)
(* hidden only behind a tray icon that is there, and the icon goes only    *)
(* with a window that is shown or closes (watcher_gui.py:1258-1289).       *)
AlwaysReachable ==
  gui = "up" => \/ window = "shown"
                \/ window = "tray" /\ tray
                \/ window = "closed" /\ exiting

(* Once the processes and the dialog are left alone, the buttons agree     *)
(* with whether the window's watcher lives, and what is shown with whether *)
(* it lives and is answered for; whatever was pressed at which moment of a *)
(* poll (watcher_gui.py:1095-1131, gui_status.py:16-35).                   *)
StatusCatchesUp ==
  <>[][UNCHANGED <<gui, exiting, proc, dialog, core>>]_vars =>
    <>[](gui = "up" /\ ~exiting /\ ~other =>
           /\ buttons = IF ProcAlive THEN "running" ELSE "stopped"
           /\ dialog \/ status = Decision(ProcAlive, Serving))

(* Every watcher of this window that runs when the user leaves ends, also  *)
(* one that does not answer terminate.  One that is started after the X,   *)
(* in the window the X left shown, is not promised an end                  *)
(* (watcher_gui.py:1281-1289, gui_controller.py:56-61).                    *)
QuitStopsWatcher == \A c \in Core : leaving # "no" /\ Mine(c) ~> ~Mine(c)

(* With "When closing with X" set to "Exit program" the X ends the program *)
(* (lang/en-en.json:53-55), so that it can be started again.               *)
ExitEnds == leaving = "close" ~> gui = "down"

(* Starting a watcher closes orphan watchers, not the window that starts   *)
(* it (python/README.md:149-150).                                          *)
StartSparesWindow == [][pc = "cleanup" => gui' = "up"]_vars
=============================================================================
