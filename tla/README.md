# SCMDB Log Watcher in TLA+

The SCMDB Log Watcher follows the `Game.log` that Star Citizen writes, works
out which missions are active, and pushes every change to the pages of
scmdb.net over server-sent events. A Qt window starts and stops the watcher
process; a batch mode exports the missions of old logs. This directory models
both programs - log to state to page, the process around that, the import, and
the window with its settings and its threads - checks them with TLC on small
instances and proves their main invariants with TLAPS.

Line numbers are those of `src/python/`; `domain.py`, `server.py` and the other
short names are files of `scmdb_watcher/`; "README.md" is the program's own,
`src/python/README.md`.

## 1. The system

| Component | State it keeps | Operations | Hard behaviour | What makes it correct |
| --- | --- | --- | --- | --- |
| Domain (`domain.py`) | `guid_map`, `active`, `recent_lifecycle` (a deque of 32) | `record_marker`, `record_accepted`, `record_end`, `correlate_blueprint`, `reset`, all under one lock; `process_line` dispatches a line and broadcasts | repeated and missing lines, a deque that forgets, times that run backwards | the containers agree, and answer what the log says |
| EventBus and stream (`server.py`) | the subscribers, one queue of 200 each, a snapshot per request | `subscribe`, `unsubscribe`, `broadcast` (copy under the lock, put outside it), the generator of `/events` | a request falling between any two steps of a broadcast; full queues; clients that leave | a page shows the active missions; nobody holds up the tailer; dead clients are released |
| Tailer (`watcher.py:60-149`) | handle, inode, size, partial-line buffer, `first_open` | the poll loop: stat, rotation test, open, read; `stop` | the game replaces, removes or truncates the log between any two system calls | every byte once, whole lines, catching up, stopping |
| Live runtime (`live_runtime_service.py`, `runtime_service.py`, `watcher.py:205-341`) | tailer thread, server, watchdog, shutdown threads | start, bind, shutdown request, stop and join | shutdown asked for by signals, Ctrl-C and watchdog at any moment; a port taken after the tailer started | it ends when asked, only then, and with its parent |
| Import (`import_service.py`, `watcher.py:344-398`) | a fresh `WatcherState` per file, the export lists | collect, scan, dedupe, write | one file of several failing, a mission ending in two logs | an exported mission was accepted and completed, once |
| Window (`watcher_gui.py`, `gui_controller.py`, `process_service.py`, `gui_status.py`) | the child process, the poll timer, exit flag, tray, the single-instance mutex | start, stop, poll, close, exit | waits inside handlers; orphans; kills that time out; a timer that re-arms itself | one watcher at a time; the buttons match the process; leaving ends it |
| Window's threads (`watcher_gui.py:841-933, 1133-1188`) | import worker, test-group worker, callbacks posted to Qt's thread, flags of what is under way | import, run the groups, post, run a callback | results posted one by one and in between others; workers that fail on each path | buttons come back; results belong to their run |
| Settings and paths (`config.py`, `paths.py`, `gui_settings.py`, `validators.py`) | the configuration file, its copy in memory, the entry field | load, save, reload, resolve the log path, search | a file cut short, edited by hand, a save that fails | what is shown, saved and followed is the same log |
| Checklist, update check, logging, translation, widgets, installers | - | reads of the disk and presentation | - | - |
| C# prototype (`src/csharp`) | an archived port; its desktop program refers to a class that is missing | as the Python core | - | - |

Interaction: the **tailer** thread calls `process_line` for every line, which
changes the **domain** and calls `broadcast` of the **bus**; one thread per
`/events` request subscribes to the bus, reads the domain's snapshot and then
its queue. The **runtime** starts the tailer thread and the server and stops
both. The **window** starts the runtime as a process with its own number as
`--parent-pid`, terminates it, and learns how it is from a poll: whether the
process lives, and whether its port answers a ping. The **settings** decide
which log the runtime is told to follow. The **import** runs the domain over
old logs, in a process a worker thread of the window waits for.

## 2. Modules

| Module | Models |
| --- | --- |
| `WatcherState` | `domain.py`: one action per kind of line, and the reset |
| `CorrelationLoop` | the loop inside `correlate_blueprint`, a recursive function of its turns |
| `LogReplay` | `WatcherState` beside the history of its lines, and what that history says |
| `LiveFeed` | `server.py` over `WatcherState`: the tailer's broadcast, the requests, the connections |
| `LogTailer` | `LogTailer.run` against the game's file |
| `ImportScan` | `run_import` over `WatcherState`'s actions, one log after the other |
| `CoreProcess` | abstract: what the window may expect of a watcher process |
| `LiveRuntime` | `run_live` and its threads; implements `CoreProcess` |
| `GuiControl` | the window, its poll and the watcher processes, which move as `CoreProcess` says |
| `GamePaths` | the path operators: which log a configuration means, and the search |
| `GuiTasks` | the window's worker threads and the callbacks they post |
| `GuiSettings` | the settings over `GamePaths`, composed with `GuiTasks` |
| `MC...` | the instances TLC checks, with their `.cfg` files |
| `..._proofs` | the theorems, one module for each component |

`LogReplay`, `LiveFeed` and `ImportScan` build on `WatcherState` and reuse its
actions, so a line is handled by the same definitions everywhere. `LogReplay`
reads a log with operators that take it as a parameter; `ImportScan` extends it,
replays the file it has open and states what it exports with that reading of each
file. `LogTailer` stands alone: to it
the state is the sequence of lines it was given since the last reset, which is
all `WatcherState` is a function of. `LiveRuntime` and `GuiControl` meet in
`CoreProcess` (section 4). `GuiSettings` says with what the window starts a
watcher, `GuiControl` when.

### How the models correspond to the code

**WatcherState.** A Python dictionary is a function on `Guid` with `None` for
an absent key. Every method holds the lock throughout and only the tailer
thread writes, so one line is one step. A line is a record of its kind and of
the fields the code uses; the regular expressions, the product name and the
reason of an end are left out, since no property tells them apart. The
timestamp is any member of `Time`: a line with none takes the wall clock
(`domain.py:143`), so times need not run forward. `out` is what the line handed
to `broadcast`.

**LiveFeed.** The tailer goes through `phase`: `parse` (a line is processed,
the state changed), `copy` (about to copy the subscribers under the lock),
`put` (one `put_nowait` a step over the copy, in any order). A request goes
through `stage`: subscribed, snapshot taken (`ready`), streaming, closing. The
`finally` clause of the generator is its own step, as the server runs it only
when the generator is closed. `link` is the connection: the first write after
the peer has closed may still succeed. `view` is what the page shows when it
applies the snapshot and the events in order; that page is outside the
repository, so `Touches`, `After` and `Apply` are its reading of
README.md:280-287. `lost` records that a full queue dropped an event.

**LogTailer.** One step per system call: stat, open, read; between them the
game moves. A content is a generation and a length in cells, two cells to a
line, so that a read may end in the middle of one. `applied` is what the state
was built from since its last reset; `from`, `gap` and `outrun` are history the
properties use (`outrun`: a read through this handle brought other than the stat
before it had seen). Inode numbers are not used again and never zero. A `stat` that
fails with something other than file-not-found changes nothing and is the
tailer's not taking a step; a failing read is `ReadNothing`. A raise in `seek`,
`tell` or `close`, which ends the thread, is `TailerDies` of `LiveRuntime`.

**ImportScan.** `pc` follows `run_import`: collect, then for each file open,
lines, end of file; one write at the end. A file that cannot be opened is
skipped, and listed among the sources all the same; `stat`, a read of the open
file or the write of the output may raise and leave `run_import` (`Aborts`). Each file gets a new
`WatcherState` (`Opens`). Lines carry no wall clock here: the scan gives a line
without a timestamp the time 0. `lines` is what was read of the file that is
open, `logs` what was read of the files scanned to their end. The
output's name, a second of the clock, is left out.

**LiveRuntime.** `pc` is the main thread's place in `run_live`, one step for
each call that changes something another thread sees. `serve_forever` clears
the server's event and leaves its loop when it finds the flag, as Python's
`socketserver` does; `shutdown` sets the flag and waits for the event, in a
thread of its own for each request (`thread`). A signal's handler runs on the
main thread between two of its steps. `watched` is whether `--parent-pid` was
given. All threads but the main one are daemons: when `pc` is `gone`, nothing
else moves.

**GuiControl.** Handlers run to their end on Qt's thread, except where they
wait: the clean-up's PowerShell (`cleanup`), `terminate` with its time-out
(`terminating`), the ping (`polling`); there `pc` holds the handler and the
processes go on. The clean-up kills, without looking at errors, any of the
watcher processes, and from the source also the window, whose command line
matches. `grace` is the three seconds after a start. A `Core` is a process;
`parent` is what became of the number in its `--parent-pid`, `doomed` the
processes a kill was issued for. Watchers started by hand and orphans of a
window that crashed are `Core`s too; `other` is some other program on the port.
`leaving` is who called `_quit_application`: the X (`close`) or the tray's Exit
(`exit`). From the X its `window.close()` is nested in the closeEvent of that
same window, which Qt ignores, and `on_close` answers False: the window stays
shown with `_exiting` set, its buttons work, and a second X closes it with
nothing stopped. The message box of the first hiding is taken as answered.

**GuiTasks, GuiSettings.** `posted` is the queue of callbacks for Qt's thread
(`_MainThreadInvoker`). A worker's call, and a group of tests, are one step to
their start and one from their end. A message box runs the event loop, so it is
a callback like any other and those behind it may run while it is open. A save
is two steps: memory is changed and the file opened for writing (`disk = Torn`
from then on, no valid JSON), then the write ends (`WriteEnds`, with the rest of
the handler), fails (`WriteFails`, the rest skipped), or the window crashes.
`launched` is the log handed to a watcher by the step just made. The channel is
always LIVE (`watcher_gui.py` has no way to another), language and the
environment's override are left out.

**GamePaths.** A directory is the sequence of names on its path, a log the
directory that holds it; the configuration's fields that matter are the game
directory and the log path. The loops over the search
bases (`unique_paths`, `Search`) are recursive functions of their turns; the
inner one, over the two channels, is written out (`LookUnder`). `Look` is one
turn of it, over a file system given by which candidates exist and which hold a
log.

Definitions named `<definition>_<change>` are seeded faults: what the
definition would be after a plausible mistake. No action uses them; put in the
definition's place they make the property named in `PROJECT.json` fail, which
shows that the property looks at the code.

## 3. What TLC checks

| Run | Instance | Properties | What it shows |
| --- | --- | --- | --- |
| `log_replay` | every log of at most 5 lines, 2 missions, 2 names, deque of 2; 857,002 states | `TypeOK`, `ActiveMatchesMarkers`, `LifecycleNamesAgree`, `LoopFindsClosest`, `ActiveIsReplay`, `AttributionHappened`, `EvictionCostsNothing` | the containers agree and answer what the whole history says, although the deque forgets; the loop picks the earliest of the closest events in the window |
| `feed_safety` | 2 clients, 1 mission, queue of 1; 2.6 million states | `FeedTypeOK`, `NoClientDiverges` | no client that lost nothing diverges, wherever it connects or leaves |
| `feed_liveness` | 1 client, 1 mission, queue of 2; 67,000 states | `BroadcastEnds`, `DeadClientReleased`, `QuietLogConverges` | the tailer is never held up, dead clients go, and on a quiet log a connected client comes to show the active missions unless it leaves or has lost an event |
| `log_tailer` | 3 generations of 3 cells, replaced, removed and truncated; 463,523 states | `TypeOK`, `ConsumedExactly`, `LinesAreWhole`, `CatchesUp`, `TruncationNoticed`, `StopEnds` | while nothing was truncated, every byte once and in whole lines across rotations; the log is read to its end, also one truncated in place unless a read had outrun its stat; stop is obeyed |
| `tailer_gap` | 2 generations, removed | `SessionsNotMixed` is violated | finding 1 |
| `import_scan` | 2 logs of at most 3 lines, 2 missions, deque of 2; 1.7 million states | `ImportTypeOK`, `ExportsFirstCompletions`, `BlueprintsFromTheirLog` | an import that finishes exports each completed mission once, with its first completion, and no blueprint leaks from log to log, whichever files fail |
| `import_completed` | the same logs, 1 mission | `BlueprintsOfCompletedMissions` is violated | finding 2 |
| `live_runtime` | 2 signals, with and without a parent, port free or taken; 37,000 states | `TypeOK`, `EndsOnlyWhenAsked`, `ShutdownHonoured`, `ImplementsCore` | whoever asks, before, in or after the server's loop, the process ends, and only then; it is a `CoreProcess`, with liveness |
| `gui_control` | 2 watcher processes, crashes; 179,792 states | `TypeOK`, `NoForgottenChild`, `ExactlyOnePoll`, `AlwaysReachable`, `StatusCatchesUp`, `QuitStopsWatcher` | the window keeps hold of its watcher, keeps polling, can be reached, comes to show what is the case, and the watcher it runs when the user leaves ends |
| `gui_exit` | 1 watcher process | `ExitEnds` is violated | finding 3 |
| `gui_start` | 1 watcher process | `StartSparesWindow` is violated | finding 4 |
| `gui_settings` | 2 directories, 2 files by hand, 3 search bases (one listed twice), 2 test groups; 194,719 states | `TypeOK`, `SearchFindsLog`, `LaunchAgrees`, `TestsShowThisRun`, `TasksReturn` | a watcher follows the log the user sees; the search finds a log on any disks; imports and tests give their buttons back and show their own results |

**Bounds.** A deque of two is the smallest in which one event is evicted while
another stays, and five lines the fewest that make an accept, two more events
and a blueprint. Two missions are enough for one to be taken for the other;
two names for the first marker's to be told from a later one's. A queue of one
or two fills within one or two broadcasts. With two clients every order of the
puts of one broadcast occurs, and a subscription may be between copy and put
of another's. Three generations let a file be replaced twice, between stat and
open and again between open and read; three cells hold a line and a fragment.
Three lines are a marker, an accept and an end, so that a mission may be
completed in both logs of `import_scan`; there a line's time is the number of
its log, which tells the logs apart. Two signals and the watchdog are three
shutdown threads, one more than can be in the same place of `shutdown` with
something left over. Two processes are the window's own and one that is an
orphan or was started by hand. The two directories of `gui_settings` are given
by a HOTFIX folder and by a LIVE folder, the two cases in which what is saved or
followed is not the directory itself; the bases repeat one, so that removing
repetitions matters. In `log_replay` only completions end missions and in
`feed_safety` there is one mission: the theorems of section 5 remove both
bounds, and those on signals, processes, directories and test groups.
`MCLogReplay` stops at `MaxLines` lines, `MCImportScan` ends, the game of
`LogTailer` stops at `MaxGen` and `MaxSize`, a watcher process that has ended
takes no more steps and neither does a window that was left: those are checked
without deadlock; `LiveFeed` and `GuiSettings` never stop.

**Fairness.** In `LiveFeed` the tailer finishes a broadcast it began (nothing
in it waits: `put_nowait`, a lock held for a list copy), and each request's
thread goes on (`q.get` has a timeout of at most 15 s, so it answers or beats).
New lines, new requests and a client's leaving are not promised. A request
whose body the server never iterates is in the model and gets no fairness, as
nobody runs it. In `LogTailer` the thread runs, and of the opens and reads it
keeps trying some succeed (strong fairness): with a disk that fails for ever
nothing could be promised. The game promises nothing. In `LiveRuntime` the main
thread, the watchdog (which waits a second at a time) and each shutdown thread
go on; signals, the parent's death and the tailer's end are not promised, and
the join has a time-out, so nothing is assumed of the tailer. In `GuiControl`
Qt's thread goes on with the handler it is in, and a due timer fires although
other events keep arriving (strong fairness: Qt serves timers between events);
time passes; a process that was killed goes. Users, crashes and the ends of
other processes are free. In `GuiSettings` a write ends or fails, posted
callbacks run although the user may be in a save whenever one is looked at
(strong fairness), and the workers' waits end. That is an assumption: the
import's process reads the files there are and stops, and so does a group of
tests, but the code sets neither a time-out, and one that hung would keep its
button disabled.

**Symmetry** is used in safety runs only, on missions, names and clients,
which no definition singles out.

### Findings

1. `tailer_gap`. README.md:287 says a session reset is sent when a restart of
   the game is detected. A poll that finds the file missing drops the handle
   (`watcher.py:80-88`), and the rotation branch resets only when it closes a
   handle (`watcher.py:101`). So if the game's restart leaves the log missing
   for one poll, the new session is added to the old state: the old missions
   stay active and no reset is sent.
2. `import_completed`. README.md:232-236 says that only blueprint drops that
   can be correlated to a completed mission are exported, and those of
   abandoned, failed or disconnected runs are skipped. The scan exports every
   drop that `correlate_blueprint` puts down to something
   (`import_service.py:62-72`), and accepts are in the deque it searches
   (`domain.py:104-106`). A mission accepted and never completed has its
   blueprint exported. `BlueprintsFromTheirLog` therefore leaves open whether
   such drops belong in the export: it counts between the drops of completions
   and those of accepts and completions together.
3. `gui_exit`. With the X set to "Exit program" (`lang/en-en.json:53-55`) the
   first X stops the watcher and leaves the window shown (`GuiControl` in
   section 2), a second one closes it. Qt was told not to end its loop with the
   last window (`watcher_gui.py:235`) and nothing else ends it: the process
   stays, keeps the single-instance mutex, and the next launch leaves at once
   (README.md:138-139). Between the two X's Start still works, as
   `start_watcher` does not look at `_exiting` (1033), and the second X stops
   nothing (1273-1274): a watcher started then is left running. The model has
   these steps; `QuitStopsWatcher` speaks of the watcher that runs when the user
   leaves.
4. `gui_start`. README.md:149-150 says a start closes orphan watchers. The
   clean-up kills every Python whose command line names `launcher.py`
   (`process_service.py:42`), and `run-watcher.bat:12` starts the window so:
   from the source, Start ends the window.

Where the documents and the code differ in what no property here is about:
README.md:331-334 says the watcher reads the log from its start and recovers
active missions, and the first open seeks to the end (`watcher.py:114-116`),
which `COMPARACION_WATCHER_ORIGINAL.md:84-90` calls deliberate;
README.md:140 speaks of an auto-start, which is always off
(`watcher_gui.py:652, 1114`); README.md:260-268 of a log file for each session, kept for ever, while each
session overwrites `watcher.log` (`runtime_service.py:86, 101`); README.md:132 of
editing the configuration file, and the next save of a running window
overwrites what was edited.

## 4. Composition and refinement

`CoreProcess` is the contract between the two programs. A watcher process is
`starting`, `serving`, `closing` or `gone`; it comes out of its start-up and of
its closing, and goes once its parent is gone, unless the parent's number was
given to another process first, which the watchdog cannot tell.

- `LiveRuntime` implements it: `Core == INSTANCE CoreProcess WITH stage <- Stage,
  parent <- ...`, `Stage` read off `pc`. TLC checks the whole of `CoreSpec`, with
  its liveness (`ImplementsCore`); the safety part is proved for every number of
  signals (`ImplementsCoreSafety`).
- `GuiControl` uses it: its processes make the steps `CoreProcess` allows and no
  promise beyond them is used. That each step of `GuiControl` is, for each
  process, its start, a step of `CoreProcess`, or nothing, is proved for every
  number of processes (`DrivesCoreProcesses`).

So the window is checked against every move the runtime is proved to make.
`GuiControl` does not use `CoreProcess`'s liveness: that the window's watcher
ends on exit rests on the kill alone (`QuitStopsWatcher`).

## 5. What is proved

Every invariant that a run checks is a theorem. The theorems hold for every
value of the constants under the assumptions of the modules: times are integers,
the window is a natural number, deque and queues have at least one place, `"?"`
is no contract name, `None` is no value of another kind, the watchdog is no
signal, there is at least one test group, the files of an import are finitely
many and numbered in the order they are listed in. For `GuiSettings`: search
bases are paths, a folder named LIVE or HOTFIX is not directly in another such,
`Torn` is no configuration, and a file edited by hand is a configuration or torn.

Four loops of the program are recursive functions of their number of turns:
`correlate_loop`, `dedupe_missions_by_guid`, `unique_paths` and `Search`. The
library's induction principles cannot be used by the provers at hand, so
induction is done by the least counterexample: a set of naturals that is not
empty has a least element (`NaturalsHaveLeast`), hence what holds at 0 and
passes from each turn to the next holds at every turn (`CountingUp`). The same
lemma shows that the recursive definition has a solution (`LoopHasRun`), after
which a loop is reasoned about by its invariant. `GuiSettings_proofs` states these
three lemmas again: it cannot extend `WatcherState_proofs`, as both models
declare `Init`, `Next` and `None`.

| Theorem | Statement | Argument |
| --- | --- | --- |
| `TypeCorrect` | `WatcherState: Spec => []TypeOK` | inductive as it stands. The case that needs work is the blueprint: that the event chosen exists, since the deque is finite and a set of naturals has a least element (`ClosestExists`) |
| `ActiveNamesCorrect`, `LifecycleNamesCorrect` | `Spec => []ActiveMatchesMarkers`, `[]LifecycleNamesAgree` | one invariant: the type, the names of the active missions and of each event of the deque, with the order of `"?"` and accepts. An append keeps order whether or not it evicts (`DequeAppendKeepsOrder`) |
| `LoopCorrect` | `Spec => []LoopFindsClosest` | after n turns the loop holds the closest event among the first n that are in the window, the earliest of those equally close, or none; `ClosestExists` names the same event |
| `ActiveReplayCorrect` | `ReplaySpec => []ActiveIsReplay` | strengthened by `MarkersAreReplay`: what is known is what a marker named, by the first one's names. `OneMoreLine` says what one appended line changes in every statement about the history; then one lemma per kind of line |
| `AttributionCorrect`, `EvictionCorrect` | `ReplaySpec => []AttributionHappened`, `[]EvictionCostsNothing` | `DequeInv`: each event of the deque stems from a line, these lines stand in the order of the events, and any other line that put an event there is before them all and was evicted by a full deque (`StemsFrom`); a blueprint just read is the last line (`BlueprintIsLast`). Neither property says anything between two blueprints, so both rest on it; what was evicted is older than what is left, and so never closer while times run forward, which is all that `EvictionCostsNothing` speaks of. `AttributionHappened` is about the mission, the trigger and the time; the name is `LifecycleNamesCorrect`'s |
| `FeedTypeCorrect` | `FeedSpec => []FeedTypeOK` | with the type of the domain state, from `WatcherState_proofs` |
| `ClientsConverge` | `FeedSpec => []NoClientDiverges` | `FeedInv`: the types; a request is a subscriber exactly while it is not idle (`Registered`); the event being broadcast tells the state as it is now (`OutTellsState`); copies are owed only during the puts (`TargetsOnlyInPut`); and what is on its way to a client that has subscribed but has no snapshot yet already ends in the active missions (`ComingSettles`). `NoClientDiverges` alone is not inductive: of that last client it says nothing |
| `TailerTypeCorrect` | `LogTailer: Spec => []TypeOK` | `TailerInv` below; a handle's position is within its file's size |
| `ConsumedExactlyCorrect`, `LinesAreWholeCorrect` | `Spec => []ConsumedExactly`, `[]LinesAreWhole`, both about logs not truncated | `TailerInv`: the lines processed end with the end of a line, two neighbours among them follow one another, and what was read through the handle is the tail of what was consumed. Neither property is inductive alone: each needs that a handle's inode is one the game has used and that the processed lines end at a line's end, so that what the next file brings starts cleanly. That the last newline of a buffer exists is the least-element principle |
| `ImportTypeCorrect` | `ImportSpec => []ImportTypeOK` | with `DequeInv`, which holds of the file that is open (`ImportKeepsDeque`) |
| `ExportCorrect` | `ImportSpec => []ExportsFirstCompletions` | `ImportInv`: the first record of each mission is that of its first completion in what was read so far, and there is one for every mission completed (`MissionsOf`); files are taken in order (`FilesInOrder`), so that a later line completes no mission earlier (`FirstCompletionKept`). At the end `DedupeKeepsFirst` follows the loop of the deduplication, and `KeptCount` counts what it keeps |
| `DropsCorrect` | `ImportSpec => []BlueprintsFromTheirLog` | `ImportInv` again (`DropsOf`): each exported blueprint is put down to an accept or completion of its own file; while times run forward their number lies between that of the drops after a completion and that of the drops after either, by the theorems on the deque applied to the open file |
| `RuntimeTypeCorrect`, `EndsOnlyWhenAskedCorrect` | `LiveRuntime: Spec => []TypeOK`, `[]EndsOnlyWhenAsked` | `RuntimeInv`: a flag that is set, and a main thread past its loop, were asked for by someone; the watchdog asks for a dead parent only |
| `ImplementsCoreSafety` | `Spec => Core!CoreSafety` | by cases over the actions: initial states map to initial states, each step to a step of `CoreProcess` or to none |
| `ControlTypeCorrect`, `NoForgottenChildCorrect`, `OnePollCorrect`, `AlwaysReachableCorrect` | `GuiControl: Spec => []TypeOK`, `[]NoForgottenChild`, `[]ExactlyOnePoll`, `[]AlwaysReachable` | `ControlInv`: a window that is launching knows of no living watcher of its own (`StartsWithNone`); one that terminates was given one (`TerminatesOne`); a window that is down is in no handler (`DownIsIdle`); a window that is closing is being left, with `_exiting` set and, from the X, still shown (`ClosingIsLeaving`, `LeavingIsExiting`). That a second watcher is never launched beside the first needs the first of these, since the clean-up takes time in which the processes move |
| `DrivesCoreProcesses` | every step of `GuiControl` is, for each process, its start, a step of `CoreProcess`, or nothing | by cases over the actions |
| `SettingsTypeCorrect`, `LaunchAgreesCorrect` | `GuiSettings: Spec => []TypeOK`, `[]LaunchAgrees` | `SettingsInv`: while the file is written for a directory, the entry field still shows the one that is saved (`SavesTheEntry`), as no other handler runs; and lemmas on paths: saving a directory is idempotent and leaves no HOTFIX (`Saved`), after which each of the four ways the program computes the log gives the same one (`SavedLog`) |
| `SearchFindsLogCorrect` | `GuiSettings: Spec => []SearchFindsLog` | removing repetitions keeps the first occurrences in their order (`UniqueKeepsFirsts`); the search's loop holds the first log among what it has looked at, and while there is none the first directory (`SearchedTo`, `LookSearches`); the first under the bases without repetitions is the first under all (`RepetitionsDoNotMatter`). It holds in every state, whatever the file says that names no log |
| `TestsShowThisRunCorrect` | `Spec => []TestsShowThisRun` | `TasksInv`, kept by every step of `GuiTasks` and of what surrounds it: once the callbacks waiting have run, each group is shown as it came out (`VerdictsArrive`); the end of a run is posted last of it and tells how it went (`DoneIsLast`); with no run under way none of its callbacks wait (`NoRunNoCallbacks`); groups still to come have no verdict. The property says nothing while a run is under way, so it is far from inductive |

Only model-checked: the liveness properties, since fairness and `ENABLED` are out
of the provers' reach (`BroadcastEnds`, `DeadClientReleased`, `QuietLogConverges`,
`CatchesUp`, `TruncationNoticed`, `StopEnds`, `ShutdownHonoured`, the liveness of
`ImplementsCore`, `StatusCatchesUp`, `QuitStopsWatcher`, `TasksReturn`). The four
findings are counterexamples of TLC, and need no proof.

## 6. What could follow

- The safety part of the liveness properties: that a broadcast under way always
  has fewer puts to make after each, that a closing connection never streams
  again; invariants from which the liveness follows by fairness alone.
- A configuration written to a temporary file and renamed, should the program
  adopt it: `GuiSettings` would lose `Torn` and keep its properties.

## 7. Not modelled

Logging set-up, translations, widgets, installers and build scripts hold no
state another component depends on; the startup checklist and the update check
read the disk or the network and change nothing. `installer_gui.py` does not
compile (line 103). The C# programs are an archived prototype: the desktop one
refers to a `WatcherRuntimeHost` that is not there. The page itself, Flask,
werkzeug, Qt, PowerShell and the operating system appear only as the code uses
them. Of the hazards in `PROJECT.json`, those without a property carry a note on
why: most concern what the code does not promise (an event lost to a full queue,
a truncation the tailer cannot see).
