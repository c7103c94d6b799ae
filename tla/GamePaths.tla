----------------------------- MODULE GamePaths -----------------------------
(***************************************************************************)
(* Which Game.log is followed: the path operators of paths.py,             *)
(* validators.py and gui_settings.py.                                      *)
(*                                                                         *)
(* A directory is the sequence of the names on its path, in upper case     *)
(* where the code compares them so; a log is the directory that holds the  *)
(* Game.log.  A configuration has the fields that name the log, None for   *)
(* one that is absent or blank.                                            *)
(***************************************************************************)
EXTENDS SequencesExt

CONSTANT None

TRACKED_CHANNEL == "LIVE"
STAR_CITIZEN_CHANNELS == <<"LIVE", "HOTFIX">>

Name(dir) == Last(dir)
Parent(dir) == Front(dir)
IsChannel(dir) == Name(dir) \in ToSet(STAR_CITIZEN_CHANNELS)

-----------------------------------------------------------------------------
resolve_log_path_from_config(config) ==
  LET dir == config.game_install_dir
  IN  CASE dir = None -> config.log_path
        [] dir # None /\ Name(dir) = TRACKED_CHANNEL -> dir
        [] dir # None /\ IsChannel(dir) /\ Name(dir) # TRACKED_CHANNEL ->
             Append(Parent(dir), TRACKED_CHANNEL)
        [] OTHER -> Append(dir, TRACKED_CHANNEL)

(* configured_log_path: with nothing configured, a path relative to       *)
(* wherever the program was started.                                       *)
Nowhere == <<TRACKED_CHANNEL>>

configured_log_path(config) ==
  LET log == resolve_log_path_from_config(config)
  IN  IF log # None THEN log ELSE Nowhere

build_log_path(dir) == IF IsChannel(dir) THEN dir ELSE Append(dir, TRACKED_CHANNEL)

(* build_settings_save_result of a directory that is not blank.            *)
build_settings_save_result(dir) ==
  LET game_dir == IF Name(dir) = "HOTFIX" THEN Parent(dir) ELSE dir
  IN  [game_dir |-> game_dir, log_path |-> build_log_path(game_dir)]

-----------------------------------------------------------------------------
(* The search when nothing is configured.  A file system fs tells the      *)
(* directories that exist and those of them that hold a Game.log.          *)

AddUnseen(out, p) == IF Contains(out, p) THEN out ELSE Append(out, p)

unique_paths(paths) ==
  LET out[n \in 0..Len(paths)] ==
        IF n = 0 THEN <<>> ELSE AddUnseen(out[n - 1], paths[n])
  IN  out[Len(paths)]

Candidate(base, c) == Append(base, STAR_CITIZEN_CHANNELS[c])

(* Seeded faults are named <definition>_<change>.                          *)
Look_AnyDirectory(fs, so_far, candidate) ==
  IF so_far.found # None THEN so_far
  ELSE IF candidate \in fs.dirs THEN [so_far EXCEPT !.found = candidate]
  ELSE so_far

(* One turn of the inner loop, over the channels of a base.                *)
Look(fs, so_far, candidate) ==
  IF so_far.found # None THEN so_far
  ELSE IF candidate \in fs.logs THEN [so_far EXCEPT !.found = candidate]
  ELSE IF so_far.first_dir = None /\ candidate \in fs.dirs
       THEN [so_far EXCEPT !.first_dir = candidate]
  ELSE so_far

LookUnder(fs, so_far, base) ==
  Look(fs, Look(fs, so_far, Candidate(base, 1)), Candidate(base, 2))

Search(bases, fs) ==
  LET so_far[n \in 0..Len(bases)] ==
        IF n = 0 THEN [found |-> None, first_dir |-> None]
        ELSE LookUnder(fs, so_far[n - 1], bases[n])
  IN  so_far[Len(bases)]

(* resolve_default_log_path, without the override in the environment.      *)
resolve_default_log_path(config, bases, fs, fallback) ==
  LET configured == resolve_log_path_from_config(config)
      last == Search(unique_paths(bases), fs)
  IN  CASE configured # None -> configured
        [] configured = None /\ last.found # None -> last.found
        [] configured = None /\ last.found = None /\ last.first_dir # None -> last.first_dir
        [] OTHER -> fallback
=============================================================================
