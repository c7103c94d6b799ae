---------------------------- MODULE GuiSettings ----------------------------
(***************************************************************************)
(* The settings of the window: the configuration file, the copy in memory, *)
(* the directory in the entry field, the path on the label; and what is    *)
(* started with them, a watcher or an import (watcher_gui.py, config.py).  *)
(*                                                                         *)
(* The file is written in place, and until it is written whole a reader    *)
(* finds no valid JSON in it.  The write may break off, with the window    *)
(* (a crash) or without it (an OSError).  Channel and language are left    *)
(* out: the channel is always LIVE.                                        *)
(***************************************************************************)
EXTENDS GamePaths, GuiTasks

CONSTANTS
  Dir,       \* directories the user may give
  ByHand,    \* configurations an editor may put into the file
  Torn,      \* a file that is no valid JSON
  Bases,     \* base_dirs: where a StarCitizen directory is looked for
  Fallback   \* DEFAULT_LOG_PATH_FALLBACK

(* The directories that are given, and what saving one makes of it.        *)
Given == (Dir \cup {c.game_install_dir : c \in ByHand}) \ {None}
GameDir == {None} \cup Given \cup {build_settings_save_result(d).game_dir : d \in Given}
Config == [game_install_dir : GameDir, log_path : {None} \cup {c.log_path : c \in ByHand},
           close_action : {"tray", "exit"}]

FolderName ==
  ToSet(STAR_CITIZEN_CHANNELS) \cup UNION {ToSet(d) : d \in Given \cup ToSet(Bases)}

(* A bound: a folder named as a channel is in one that is not.             *)
IsDirectory(d) ==
  /\ d \in Seq(FolderName) /\ d # <<>>
  /\ IsChannel(d) => Parent(d) # <<>> /\ ~IsChannel(Parent(d))

ASSUME DirAssumption == \A d \in Given : IsDirectory(d)
ASSUME BasesAssumption == Bases \in Seq(Seq(FolderName))
ASSUME NoneAssumption == None \notin Seq(FolderName)
ASSUME FileAssumption == ByHand \subseteq Config /\ Torn \notin Config

VARIABLES
  gui,      \* the window is "up" or "down"
  disk,     \* the configuration file: a configuration, or Torn
  mem,      \* config_data
  entry,    \* the directory in the entry field; None when blank
  label,    \* the log the window shows as followed
  saving,   \* what the write under way is for; "no" when none is
  launched  \* the log handed to a watcher by the step just made

settingsVars == <<gui, disk, mem, entry, label, saving>>
vars == <<settingsVars, launched, taskVars>>

Empty == [game_install_dir |-> None, log_path |-> None, close_action |-> "tray"]

(* load_config: a file that is absent or no valid JSON is the empty one.   *)
load_config(file) == IF file = Torn THEN Empty ELSE file

-----------------------------------------------------------------------------
(* _apply_config_to_inputs and _refresh_path_text.                         *)
Show(config) ==
  /\ entry' = config.game_install_dir
  /\ label' = configured_log_path(config)

Init ==
  /\ gui = "up"
  /\ disk = Empty /\ mem = Empty /\ entry = None /\ label = Nowhere
  /\ saving = "no" /\ launched = None
  /\ TasksInit

(* Browse, or a directory typed into the field; it may be blanked.         *)
Type ==
  /\ gui = "up" /\ saving = "no"
  /\ entry' \in Dir \cup {None}
  /\ entry' # entry
  /\ launched' = None
  /\ UNCHANGED <<gui, disk, mem, label, saving, taskVars>>

(* _save_inline_config with a directory that is not blank, up to the write *)
(* of the file: what is in memory is changed first.                        *)
SaveInline(for) ==
  /\ gui = "up" /\ saving = "no"
  /\ entry # None
  /\ mem' = [mem EXCEPT !.game_install_dir = build_settings_save_result(entry).game_dir,
                        !.log_path = None]
  /\ saving' = for /\ disk' = Torn
  /\ launched' = None
  /\ UNCHANGED <<gui, entry, label, taskVars>>

PressSave == SaveInline("settings")
PressStart == SaveInline("start")
PressImport == btn_import /\ SaveInline("import")

(* save_and_close of the settings dialog.                                  *)
SaveDialog ==
  /\ gui = "up" /\ saving = "no"
  /\ \E action \in {"tray", "exit"} : mem' = [mem EXCEPT !.close_action = action]
  /\ saving' = "dialog" /\ disk' = Torn
  /\ launched' = None
  /\ UNCHANGED <<gui, entry, label, taskVars>>

WriteFails_GoesOn ==
  /\ saving # "no"
  /\ disk' \in {Torn, disk}
  /\ saving' = "no"
  /\ IF saving = "dialog" THEN UNCHANGED <<entry, label>> ELSE Show(mem)
  /\ launched' = IF saving = "start" THEN configured_log_path(mem) ELSE None
  /\ UNCHANGED <<gui, mem, taskVars>>

(* An OSError from the write: the rest of the handler is skipped.          *)
WriteFails ==
  /\ saving # "no"
  /\ saving' = "no"
  /\ launched' = None
  /\ UNCHANGED <<gui, disk, mem, entry, label, taskVars>>

(* The file is whole, what the window shows is refreshed, and the handler  *)
(* goes on to what the save was for: start_watcher, run_import.            *)
WriteEnds ==
  /\ saving # "no"
  /\ disk' = mem
  /\ saving' = "no"
  /\ IF saving = "dialog" THEN UNCHANGED <<entry, label>> ELSE Show(mem)
  /\ \/ /\ saving = "start"
        /\ launched' \in {configured_log_path(mem), None}   \* there may be no runtime
        /\ UNCHANGED taskVars
     \/ saving = "import" /\ ImportAsked /\ launched' = None /\ UNCHANGED <<posted, testVars>>
     \/ saving \in {"settings", "dialog"} /\ launched' = None /\ UNCHANGED taskVars
  /\ UNCHANGED <<gui, mem>>

(* _reload_inline_config.                                                  *)
Reload ==
  /\ gui = "up" /\ saving = "no"
  /\ mem' = load_config(disk)
  /\ Show(mem')
  /\ launched' = None
  /\ UNCHANGED <<gui, disk, saving, taskVars>>

(* The user edits the file, as python/README.md:132 invites to.            *)
Edited ==
  /\ saving = "no"
  /\ disk' \in ByHand \cup {Torn}
  /\ launched' = None
  /\ UNCHANGED <<gui, mem, entry, label, saving, taskVars>>

Crash ==
  /\ gui = "up"
  /\ gui' = "down" /\ saving' = "no" /\ launched' = None
  /\ mem' = Empty /\ Show(Empty)
  /\ TasksGone
  /\ UNCHANGED disk

(* __init__.                                                               *)
Restart ==
  /\ gui = "down"
  /\ gui' = "up"
  /\ mem' = load_config(disk)
  /\ Show(mem')
  /\ launched' = None
  /\ UNCHANGED <<disk, saving, taskVars>>

(* Qt's thread runs no callback while it is in the write.                  *)
TaskStep(A) == gui = "up" /\ A /\ launched' = None /\ UNCHANGED settingsVars
AtRest(A) == saving = "no" /\ TaskStep(A)

User ==
  \/ Type \/ PressSave \/ PressStart \/ PressImport \/ SaveDialog \/ Reload
  \/ AtRest(PressTests) \/ Edited

Next ==
  \/ User \/ WriteFails \/ WriteEnds \/ Crash \/ Restart
  \/ AtRest(RunPosted) \/ TaskStep(ImportWorker) \/ TaskStep(TestWorker)

Spec == Init /\ [][Next]_vars

(* Every thread runs, and the processes the workers wait for end.          *)
FairSpec ==
  /\ Spec
  /\ WF_vars(WriteFails \/ WriteEnds) /\ SF_vars(AtRest(RunPosted))
  /\ WF_vars(TaskStep(ImportWorker)) /\ WF_vars(TaskStep(TestWorker))

-----------------------------------------------------------------------------
Log == {configured_log_path(c) : c \in Config}

TypeOK ==
  /\ gui \in {"up", "down"}
  /\ disk \in Config \cup {Torn}
  /\ mem \in Config
  /\ entry \in GameDir
  /\ label \in Log
  /\ saving \in {"no", "settings", "start", "import", "dialog"}
  /\ launched \in Log \cup {None}
  /\ TasksTypeOK

Channel == DOMAIN STAR_CITIZEN_CHANNELS
LookedAt == {Candidate(Bases[i], c) : i \in DOMAIN Bases, c \in Channel}
FileSystem == {fs \in [dirs : SUBSET LookedAt, logs : SUBSET LookedAt] : fs.logs \subseteq fs.dirs}

ByHandFollows(file, fs) == resolve_default_log_path(load_config(file), Bases, fs, Fallback)

Configured == resolve_log_path_from_config(load_config(disk)) # None

(* What is looked at under base i and channel c is in S, and nothing that  *)
(* is looked at before it.                                                 *)
Foremost(bases, S, i, c) ==
  /\ Candidate(bases[i], c) \in S
  /\ \A d \in 1..(c - 1) : Candidate(bases[i], d) \notin S
  /\ \A j \in 1..(i - 1), d \in Channel : Candidate(bases[j], d) \notin S

FirstOf(found, bases, S) ==
  \E i \in DOMAIN bases, c \in Channel :
    found = Candidate(bases[i], c) /\ Foremost(bases, S, i, c)

(* With no window up, and a file that names no log, is torn or was never   *)
(* written, a watcher started by hand follows a log that exists if there   *)
(* is one, else a directory that is there to hold one, and of several the  *)
(* one whose base comes first and LIVE before HOTFIX, however often a base *)
(* is listed; whatever is on the disks (paths.py:44-104, config.py:42-48). *)
SearchFindsLog ==
  gui = "down" /\ ~Configured => \A fs \in FileSystem :
    LET found == ByHandFollows(disk, fs)
    IN  IF fs.logs # {} THEN FirstOf(found, Bases, fs.logs)
        ELSE IF fs.dirs # {} THEN FirstOf(found, Bases, fs.dirs)
        ELSE found = Fallback

(* The StarCitizen directory is meant, whichever of its folders was given. *)
InstallRoot(dir) == IF IsChannel(dir) THEN Parent(dir) ELSE dir

(* A watcher is started only for a directory the user sees in the field,   *)
(* and its log is the LIVE one of that directory, the one the window then  *)
(* shows, the one the saved result names, and the one that a new window or *)
(* a watcher started by hand finds, whatever is on the disks               *)
(* (watcher_gui.py:1033-1066, gui_settings.py:63-98, paths.py:30-104).     *)
LaunchAgrees ==
  launched # None =>
    /\ entry # None
    /\ launched = label
    /\ launched = Append(InstallRoot(entry), "LIVE")
    /\ launched = build_settings_save_result(entry).log_path
    /\ launched = configured_log_path(load_config(disk))
    /\ \A fs \in FileSystem : launched = ByHandFollows(disk, fs)

(* An import or a run of the tests always gives its button back, while the *)
(* window lives: whatever failed, and whatever the user saved or reloaded  *)
(* in the meantime (watcher_gui.py:880-933, 1133-1188).                    *)
TasksReturn ==
  /\ ~btn_import ~> (btn_import \/ gui = "down")
  /\ tests_running ~> (~tests_running \/ gui = "down")
=============================================================================
