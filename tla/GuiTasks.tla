------------------------------ MODULE GuiTasks ------------------------------
(***************************************************************************)
(* The threads the window starts, the import's and the test groups', and   *)
(* what they hand back: a worker may not touch the window, so it posts     *)
(* callbacks that Qt's thread runs in the order posted (invoke_later).    *)
(*                                                                         *)
(* A modal box runs the event loop: the callbacks behind the one that      *)
(* opened it run, as if it had ended.                                      *)
(***************************************************************************)
EXTENDS Naturals, Sequences

CONSTANT Groups   \* how many test groups there are

ASSUME GroupsAssumption == Groups \in Nat \ {0}

VARIABLES
  posted,        \* callbacks waiting for Qt's thread
  importing,     \* the import worker: "none", "asked" or "running"
  btn_import,    \* the button is enabled
  tests_running, \* _tests_running; the tests' button is disabled as long
  group, busy,   \* the tests' worker: its group (0: no worker), whether it runs it
  group_status,  \* _group_status
  summary,       \* the test window's summary
  verdict        \* what the groups of the latest run came to: history

importVars == <<importing, btn_import>>
testVars == <<tests_running, group, busy, group_status, summary, verdict>>
taskVars == <<posted, importVars, testVars>>

NoTasks ==
  [posted |-> <<>>, importing |-> "none", btn_import |-> TRUE,
   tests_running |-> FALSE, group |-> 0, busy |-> FALSE,
   group_status |-> [g \in 1..Groups |-> "idle"], summary |-> "none",
   verdict |-> [g \in 1..Groups |-> "none"]]

TasksInit ==
  /\ posted = NoTasks.posted
  /\ importing = NoTasks.importing /\ btn_import = NoTasks.btn_import
  /\ tests_running = NoTasks.tests_running
  /\ group = NoTasks.group /\ busy = NoTasks.busy
  /\ group_status = NoTasks.group_status
  /\ summary = NoTasks.summary /\ verdict = NoTasks.verdict

(* The process ends and its threads with it.                               *)
TasksGone ==
  /\ posted' = NoTasks.posted
  /\ importing' = NoTasks.importing /\ btn_import' = NoTasks.btn_import
  /\ tests_running' = NoTasks.tests_running
  /\ group' = NoTasks.group /\ busy' = NoTasks.busy
  /\ group_status' = NoTasks.group_status
  /\ summary' = NoTasks.summary /\ verdict' = NoTasks.verdict

-----------------------------------------------------------------------------
(* Callbacks.                                                              *)
Box == [do |-> "box"]
Enable == [do |-> "enable"]
Status(g, s) == [do |-> "status", group |-> g, status |-> s]
Done(passed) == [do |-> "done", passed |-> passed]

invoke_later(callbacks) == posted' = posted \o callbacks

(* _MainThreadInvoker._run: the callback at the head of the queue.         *)
RunPosted ==
  /\ posted # <<>>
  /\ posted' = Tail(posted)
  /\ LET callback == Head(posted)
     IN  \/ /\ callback.do = "box"
            /\ UNCHANGED <<importVars, testVars>>
         \/ /\ callback.do = "enable"
            /\ btn_import' = TRUE
            /\ UNCHANGED <<importing, testVars>>
         \/ /\ callback.do = "status"
            /\ group_status' = [group_status EXCEPT ![callback.group] = callback.status]
            /\ UNCHANGED <<importVars, tests_running, group, busy, summary, verdict>>
         \/ /\ callback.do = "done"
            /\ summary' = IF callback.passed THEN "passed" ELSE "failed"
            /\ tests_running' = FALSE
            /\ UNCHANGED <<importVars, group, busy, group_status, verdict>>

-----------------------------------------------------------------------------
(* The import.                                                             *)

(* run_import once the settings are saved.                                 *)
ImportAsked ==
  /\ btn_import' = FALSE
  /\ importing' = "asked"

ImportCannotStart_NoEnable ==
  /\ importing = "asked"
  /\ importing' = "none"
  /\ invoke_later(<<Box>>)
  /\ UNCHANGED <<btn_import, testVars>>

(* No runtime to start it with.                                            *)
ImportCannotStart ==
  /\ importing = "asked"
  /\ importing' = "none"
  /\ invoke_later(<<Box, Enable>>)
  /\ UNCHANGED <<btn_import, testVars>>

(* The log is looked up and the process started.                           *)
ImportStarts ==
  /\ importing = "asked"
  /\ importing' = "running"
  /\ UNCHANGED <<posted, btn_import, testVars>>

(* It was exported, failed, could not be started or was killed: each has   *)
(* its box.                                                                *)
ImportEnds ==
  /\ importing = "running"
  /\ importing' = "none"
  /\ invoke_later(<<Box, Enable>>)
  /\ UNCHANGED <<btn_import, testVars>>

-----------------------------------------------------------------------------
(* The test groups, when the program runs from its source.                 *)

(* _run_grouped_tests_async.                                               *)
PressTests ==
  /\ ~tests_running
  /\ tests_running' = TRUE
  /\ summary' = "running"
  /\ group_status' = NoTasks.group_status
  /\ group' = 1 /\ busy' = FALSE
  /\ verdict' = NoTasks.verdict
  /\ UNCHANGED <<posted, importVars>>

GroupStarts_OneMore ==
  /\ group \in 1..Groups + 1 /\ ~busy
  /\ busy' = TRUE
  /\ invoke_later(<<Status(group, "running")>>)
  /\ UNCHANGED <<importVars, tests_running, group, group_status, summary, verdict>>

(* on_group_start, and the group's process.                                *)
GroupStarts ==
  /\ group \in 1..Groups /\ ~busy
  /\ busy' = TRUE
  /\ invoke_later(<<Status(group, "running")>>)
  /\ UNCHANGED <<importVars, tests_running, group, group_status, summary, verdict>>

GroupEnds ==
  /\ busy
  /\ \E result \in {"ok", "fail"} :
       /\ verdict' = [verdict EXCEPT ![group] = result]
       /\ invoke_later(<<Status(group, result)>>)
  /\ busy' = FALSE /\ group' = group + 1
  /\ UNCHANGED <<importVars, tests_running, group_status, summary>>

AllPassed == \A g \in 1..Groups : verdict[g] = "ok"

TestsReturn_FlagAtOnce ==
  /\ group = Groups + 1
  /\ group' = 0
  /\ tests_running' = FALSE
  /\ invoke_later(<<Done(AllPassed)>>)
  /\ UNCHANGED <<importVars, busy, group_status, summary, verdict>>

TestsReturn ==
  /\ group = Groups + 1
  /\ group' = 0
  /\ invoke_later(<<Done(AllPassed)>>)
  /\ UNCHANGED <<importVars, tests_running, busy, group_status, summary, verdict>>

(* The tests' process could not be run: no results, and its group is left  *)
(* as it was shown.                                                        *)
TestsRaise ==
  /\ busy
  /\ group' = 0 /\ busy' = FALSE
  /\ invoke_later(<<Done(FALSE)>>)
  /\ UNCHANGED <<importVars, tests_running, group_status, summary, verdict>>

ImportWorker == ImportCannotStart \/ ImportStarts \/ ImportEnds
TestWorker == GroupStarts \/ GroupEnds \/ TestsReturn \/ TestsRaise

-----------------------------------------------------------------------------
Callbacks ==
  {Box, Enable} \cup {Done(b) : b \in BOOLEAN}
    \cup {Status(g, s) : g \in 1..Groups, s \in {"running", "ok", "fail"}}

TasksTypeOK ==
  /\ posted \in Seq(Callbacks)
  /\ importing \in {"none", "asked", "running"}
  /\ btn_import \in BOOLEAN /\ tests_running \in BOOLEAN /\ busy \in BOOLEAN
  /\ group \in 0..Groups + 1
  /\ group_status \in [1..Groups -> {"idle", "running", "ok", "fail"}]
  /\ summary \in {"none", "running", "passed", "failed"}
  /\ verdict \in [1..Groups -> {"none", "ok", "fail"}]

(* When a run of the tests is over, what the window shows is what that run *)
(* found: no callback of an earlier run, of another group or of a run      *)
(* under way is mixed in (watcher_gui.py:880-933).                         *)
TestsShowThisRun ==
  ~tests_running =>
    /\ \A g \in 1..Groups : verdict[g] # "none" => group_status[g] = verdict[g]
    /\ summary = "passed" <=> AllPassed
=============================================================================
