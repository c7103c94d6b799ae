---------------------------- MODULE CoreProcess ----------------------------
(***************************************************************************)
(* What the window may expect of a watcher process it started: the process *)
(* starts, perhaps answers on its port, and at some time is gone for good. *)
(* It does not stay in its start-up or in its closing, and once the        *)
(* process that started it has died it goes too.  LiveRuntime implements   *)
(* this; GuiControl drives processes of this kind.                         *)
(***************************************************************************)

VARIABLES
  stage,   \* "starting", "serving" (it holds its port), "closing" or "gone"
  parent   \* "alive", "gone", or "reused": another process has its number

coreVars == <<stage, parent>>

CoreInit == stage = "starting" /\ parent = "alive"

(* The server is bound.                                                    *)
Serves == stage = "starting" /\ stage' = "serving" /\ UNCHANGED parent

(* The port is given back; the process is still there.                     *)
Closes == stage = "serving" /\ stage' = "closing" /\ UNCHANGED parent

(* Start-up fails, the process is killed, or it ends by itself.            *)
Goes == stage # "gone" /\ stage' = "gone" /\ UNCHANGED parent

(* The parent's end, and its number given to another process: the watcher  *)
(* has no part in either.                                                  *)
ParentGoes == parent = "alive" /\ parent' = "gone" /\ UNCHANGED stage

NumberReused == parent = "gone" /\ parent' = "reused" /\ UNCHANGED stage

CoreNext == Serves \/ Closes \/ Goes \/ ParentGoes \/ NumberReused

CoreSafety == CoreInit /\ [][CoreNext]_coreVars

StartsOrGoes == stage = "starting" ~> stage # "starting"

ClosesThenGoes == stage = "closing" ~> stage = "gone"

EndsWithParent == parent = "gone" ~> (stage = "gone" \/ parent = "reused")

CoreSpec == CoreSafety /\ StartsOrGoes /\ ClosesThenGoes /\ EndsWithParent
=============================================================================
