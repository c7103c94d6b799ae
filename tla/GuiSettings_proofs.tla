-------------------------- MODULE GuiSettings_proofs --------------------------
(***************************************************************************)
(* For any directories, hand-edited files and test groups: what the window *)
(* shows of a run of the tests, and what it starts.                        *)
(***************************************************************************)
EXTENDS GuiSettings, SequenceTheorems, WellFoundedInduction, TLAPS

-----------------------------------------------------------------------------
(* A run of the tests: what the window shows when it is over is what that  *)
(* run found.                                                              *)

IsStatus(c, g) == c.do = "status" /\ c.group = g
IsTest(c) == c.do \in {"status", "done"}

(* Once the callbacks waiting have run, group g is shown as s.             *)
WillShow(g, s) ==
  \/ \E i \in 1..Len(posted) :
        /\ IsStatus(posted[i], g) /\ posted[i].status = s
        /\ \A j \in (i + 1)..Len(posted) : ~IsStatus(posted[j], g)
  \/ group_status[g] = s /\ \A j \in 1..Len(posted) : ~IsStatus(posted[j], g)

VerdictsArrive ==
  \A g \in 1..Groups : verdict[g] # "none" => WillShow(g, verdict[g])

(* The end of a run is posted behind all else of it, and tells how it went.*)
DoneIsLast ==
  \A i \in 1..Len(posted) : posted[i].do = "done" =>
     /\ group = 0 /\ posted[i].passed = AllPassed
     /\ \A j \in (i + 1)..Len(posted) : ~IsTest(posted[j])

NoRunNoCallbacks ==
  ~tests_running => /\ group = 0 /\ \A i \in 1..Len(posted) : ~IsTest(posted[i])
                    /\ summary = "passed" <=> AllPassed

(* The groups still to come have no verdict.                               *)
GroupsInOrder ==
  /\ group # 0 => \A g \in group..Groups : verdict[g] = "none"
  /\ busy => group \in 1..Groups

TasksInv ==
  /\ TasksTypeOK
  /\ VerdictsArrive
  /\ DoneIsLast
  /\ NoRunNoCallbacks
  /\ GroupsInOrder

LEMMA NoVerdictsNoPass ==
  ASSUME verdict = NoTasks.verdict
  PROVE  ~AllPassed
BY GroupsAssumption DEF NoTasks, AllPassed

LEMMA StartHolds ==
  ASSUME TasksInit
  PROVE  TasksInv
<1>1. /\ posted = <<>> /\ Len(posted) = 0 /\ group = 0 /\ ~busy /\ summary = "none"
      /\ importing = "none" /\ btn_import = TRUE /\ tests_running = FALSE
      /\ group_status = [g \in 1..Groups |-> "idle"] /\ verdict = [g \in 1..Groups |-> "none"]
  BY DEF TasksInit, NoTasks
<1>2. ~AllPassed
  BY <1>1, NoVerdictsNoPass DEF NoTasks
<1>3. TasksTypeOK
  <2>1. posted \in Seq(Callbacks) /\ group \in 0..Groups + 1
    BY <1>1, GroupsAssumption
  <2>2. btn_import \in BOOLEAN /\ tests_running \in BOOLEAN /\ busy \in BOOLEAN
    BY DEF TasksInit, NoTasks
  <2>3. /\ group_status \in [1..Groups -> {"idle", "running", "ok", "fail"}]
        /\ verdict \in [1..Groups -> {"none", "ok", "fail"}]
    BY <1>1
  <2> QED
    BY <1>1, <2>1, <2>2, <2>3 DEF TasksTypeOK
<1>4. VerdictsArrive /\ GroupsInOrder
  BY <1>1 DEF VerdictsArrive, GroupsInOrder
<1>5. DoneIsLast /\ NoRunNoCallbacks
  BY <1>1, <1>2 DEF DoneIsLast, NoRunNoCallbacks
<1> QED
  BY <1>3, <1>4, <1>5 DEF TasksInv

LEMMA GoneHolds ==
  ASSUME TasksGone
  PROVE  TasksInv'
<1>1. /\ posted' = <<>> /\ Len(posted') = 0 /\ group' = 0 /\ ~busy' /\ summary' = "none"
      /\ importing' = "none" /\ btn_import' = TRUE /\ tests_running' = FALSE
      /\ group_status' = [g \in 1..Groups |-> "idle"] /\ verdict' = [g \in 1..Groups |-> "none"]
  BY DEF TasksGone, NoTasks
<1>2. ~AllPassed'
  BY <1>1, GroupsAssumption DEF AllPassed
<1>3. TasksTypeOK'
  <2>1. posted' \in Seq(Callbacks) /\ group' \in 0..Groups + 1
    BY <1>1, GroupsAssumption
  <2>2. btn_import' \in BOOLEAN /\ tests_running' \in BOOLEAN /\ busy' \in BOOLEAN
    BY DEF TasksGone, NoTasks
  <2>3. /\ group_status' \in [1..Groups -> {"idle", "running", "ok", "fail"}]
        /\ verdict' \in [1..Groups -> {"none", "ok", "fail"}]
    BY <1>1
  <2> QED
    BY <1>1, <2>1, <2>2, <2>3 DEF TasksTypeOK
<1>4. VerdictsArrive' /\ GroupsInOrder'
  BY <1>1 DEF VerdictsArrive, GroupsInOrder
<1>5. DoneIsLast' /\ NoRunNoCallbacks'
  BY <1>1, <1>2 DEF DoneIsLast, NoRunNoCallbacks
<1> QED
  BY <1>3, <1>4, <1>5 DEF TasksInv

-----------------------------------------------------------------------------
(* Posting.                                                                *)

LEMMA Posted ==
  ASSUME posted \in Seq(Callbacks), NEW cs \in Seq(Callbacks), invoke_later(cs)
  PROVE  /\ posted' \in Seq(Callbacks) /\ Len(posted') = Len(posted) + Len(cs)
         /\ Len(posted) \in Nat /\ Len(cs) \in Nat
         /\ \A i \in 1..Len(posted) : posted'[i] = posted[i]
         /\ \A i \in (Len(posted) + 1)..Len(posted') :
               i - Len(posted) \in 1..Len(cs) /\ posted'[i] = cs[i - Len(posted)]
<1>1. posted' = posted \o cs
  BY DEF invoke_later
<1>2. /\ posted \o cs \in Seq(Callbacks) /\ Len(posted \o cs) = Len(posted) + Len(cs)
      /\ \A i \in 1..(Len(posted) + Len(cs)) :
           (posted \o cs)[i] = IF i <= Len(posted) THEN posted[i] ELSE cs[i - Len(posted)]
  BY ConcatProperties
<1>3. Len(posted) \in Nat /\ Len(cs) \in Nat
  OBVIOUS
<1> QED
  BY <1>1, <1>2, <1>3

LEMMA StillShows ==
  ASSUME posted \in Seq(Callbacks), NEW cs \in Seq(Callbacks), invoke_later(cs),
         group_status' = group_status, NEW g \in 1..Groups, NEW s, WillShow(g, s),
         \A k \in 1..Len(cs) : ~IsStatus(cs[k], g)
  PROVE  WillShow(g, s)'
<1>1. /\ Len(posted') = Len(posted) + Len(cs) /\ Len(posted) \in Nat /\ Len(cs) \in Nat
      /\ \A i \in 1..Len(posted) : posted'[i] = posted[i]
      /\ \A i \in (Len(posted) + 1)..Len(posted') : ~IsStatus(posted'[i], g)
  BY Posted
<1>2. ASSUME NEW k \in 0..Len(posted), \A j \in (k + 1)..Len(posted) : ~IsStatus(posted[j], g)
      PROVE  \A j \in (k + 1)..Len(posted') : ~IsStatus(posted'[j], g)
  <2> SUFFICES ASSUME NEW j \in (k + 1)..Len(posted')
               PROVE  ~IsStatus(posted'[j], g)
    OBVIOUS
  <2>1. CASE j <= Len(posted)
    <3>1. j \in 1..Len(posted) /\ j \in (k + 1)..Len(posted)
      BY <1>1, <2>1
    <3> QED
      BY <1>1, <1>2, <3>1
  <2>2. CASE ~(j <= Len(posted))
    BY <1>1, <2>2
  <2> QED
    BY <2>1, <2>2
<1>3. CASE \E i \in 1..Len(posted) :
             /\ IsStatus(posted[i], g) /\ posted[i].status = s
             /\ \A j \in (i + 1)..Len(posted) : ~IsStatus(posted[j], g)
  <2>1. PICK i \in 1..Len(posted) :
             /\ IsStatus(posted[i], g) /\ posted[i].status = s
             /\ \A j \in (i + 1)..Len(posted) : ~IsStatus(posted[j], g)
    BY <1>3
  <2>2. i \in 0..Len(posted) /\ i \in 1..Len(posted')
    BY <1>1
  <2>3. \A j \in (i + 1)..Len(posted') : ~IsStatus(posted'[j], g)
    BY <1>2, <2>1, <2>2
  <2>4. IsStatus(posted'[i], g) /\ posted'[i].status = s
    BY <1>1, <2>1
  <2> QED
    BY <2>2, <2>3, <2>4 DEF WillShow
<1>4. CASE group_status[g] = s /\ \A j \in 1..Len(posted) : ~IsStatus(posted[j], g)
  <2>1. 0 \in 0..Len(posted) /\ 0 + 1 = 1
    BY <1>1
  <2>2. \A j \in 1..Len(posted') : ~IsStatus(posted'[j], g)
    BY <1>2, <1>4, <2>1
  <2> QED
    BY <1>4, <2>2 DEF WillShow
<1> QED
  BY <1>3, <1>4 DEF WillShow

(* A callback that is no test's disturbs none of the tests.                *)
LEMMA QuietPost ==
  ASSUME TasksInv, NEW cs \in Seq(Callbacks), \A k \in 1..Len(cs) : ~IsTest(cs[k]),
         invoke_later(cs), UNCHANGED testVars
  PROVE  VerdictsArrive' /\ DoneIsLast' /\ NoRunNoCallbacks' /\ GroupsInOrder'
<1> USE DEF TasksInv
<1>1. /\ posted \in Seq(Callbacks)
      /\ UNCHANGED <<tests_running, group, busy, group_status, summary, verdict>>
  BY DEF TasksTypeOK, testVars
<1>2. /\ Len(posted') = Len(posted) + Len(cs) /\ Len(posted) \in Nat /\ Len(cs) \in Nat
      /\ \A i \in 1..Len(posted) : posted'[i] = posted[i]
      /\ \A i \in (Len(posted) + 1)..Len(posted') : ~IsTest(posted'[i])
  BY <1>1, Posted
<1>3. \A i \in 1..Len(posted') : i \in 1..Len(posted) \/ i \in (Len(posted) + 1)..Len(posted')
  BY <1>2
<1>4. VerdictsArrive'
  <2>1. ASSUME NEW g \in 1..Groups, verdict[g] # "none"
        PROVE  WillShow(g, verdict[g])'
    <3>1. \A k \in 1..Len(cs) : ~IsStatus(cs[k], g)
      BY DEF IsTest, IsStatus
    <3>2. WillShow(g, verdict[g])
      BY <2>1 DEF VerdictsArrive
    <3>3. ASSUME NEW s, WillShow(g, s)
          PROVE  WillShow(g, s)'
      BY <1>1, <3>1, <3>3, StillShows
    <3>4. PICK s : s = verdict[g]
      OBVIOUS
    <3>5. WillShow(g, s)'
      BY <3>2, <3>3, <3>4
    <3> QED
      BY <1>1, <3>4, <3>5 DEF WillShow
  <2> QED
    BY <1>1, <2>1 DEF VerdictsArrive
<1>5. AllPassed' <=> AllPassed
  BY <1>1 DEF AllPassed
<1>6. DoneIsLast'
  <2> SUFFICES ASSUME NEW i \in 1..Len(posted'), posted'[i].do = "done"
               PROVE  /\ group' = 0 /\ posted'[i].passed = AllPassed'
                      /\ \A j \in (i + 1)..Len(posted') : ~IsTest(posted'[j])
    BY DEF DoneIsLast
  <2>1. i \in 1..Len(posted) /\ posted'[i] = posted[i]
    BY <1>2, <1>3 DEF IsTest
  <2>2. /\ group = 0 /\ posted[i].passed = AllPassed
        /\ \A j \in (i + 1)..Len(posted) : ~IsTest(posted[j])
    BY <2>1 DEF DoneIsLast
  <2>3. ASSUME NEW j \in (i + 1)..Len(posted')
        PROVE  ~IsTest(posted'[j])
    <3>1. CASE j \in 1..Len(posted)
      <4>1. j \in (i + 1)..Len(posted)
        BY <1>2, <3>1
      <4> QED
        BY <1>2, <2>2, <3>1, <4>1
    <3> QED
      BY <1>2, <3>1
  <2>4. AllPassed' = AllPassed
    BY <1>1 DEF AllPassed
  <2> QED
    BY <1>1, <2>1, <2>2, <2>3, <2>4
<1>7. NoRunNoCallbacks' /\ GroupsInOrder'
  BY <1>1, <1>2, <1>3, <1>5 DEF NoRunNoCallbacks, GroupsInOrder
<1> QED
  BY <1>4, <1>6, <1>7

-----------------------------------------------------------------------------
(* Running the callback at the head.                                       *)

LEMMA HeadRuns ==
  ASSUME posted \in Seq(Callbacks), posted # <<>>, posted' = Tail(posted)
  PROVE  /\ posted' \in Seq(Callbacks) /\ Len(posted') = Len(posted) - 1
         /\ Len(posted) \in Nat /\ Len(posted) >= 1
         /\ \A i \in 1..Len(posted') : i + 1 \in 1..Len(posted) /\ posted'[i] = posted[i + 1]
         /\ Head(posted) = posted[1] /\ Head(posted) \in Callbacks
<1>1. Len(posted) \in Nat /\ Len(posted) >= 1
  BY EmptySeq
<1>2. /\ Tail(posted) \in Seq(Callbacks) /\ Len(Tail(posted)) = Len(posted) - 1
      /\ \A i \in 1..Len(Tail(posted)) : Tail(posted)[i] = posted[i + 1]
      /\ Head(posted) \in Callbacks
  BY HeadTailProperties
<1> QED
  BY <1>1, <1>2

(* The head's own effect is what it was bound to show.                     *)
LEMMA RunShows ==
  ASSUME posted \in Seq(Callbacks), posted # <<>>, posted' = Tail(posted),
         NEW g \in 1..Groups, NEW s, WillShow(g, s),
         IF IsStatus(Head(posted), g) THEN group_status'[g] = Head(posted).status
                                      ELSE group_status'[g] = group_status[g]
  PROVE  WillShow(g, s)'
<1>1. /\ Len(posted') = Len(posted) - 1 /\ Len(posted) \in Nat /\ Len(posted) >= 1
      /\ \A i \in 1..Len(posted') : i + 1 \in 1..Len(posted) /\ posted'[i] = posted[i + 1]
      /\ Head(posted) = posted[1]
  BY HeadRuns
<1>2. ASSUME NEW k \in 1..Len(posted), \A j \in (k + 1)..Len(posted) : ~IsStatus(posted[j], g)
      PROVE  \A j \in k..Len(posted') : ~IsStatus(posted'[j], g)
  <2> SUFFICES ASSUME NEW j \in k..Len(posted')
               PROVE  ~IsStatus(posted'[j], g)
    OBVIOUS
  <2>1. j \in 1..Len(posted') /\ j + 1 \in (k + 1)..Len(posted)
    BY <1>1
  <2> QED
    BY <1>1, <1>2, <2>1
<1>3. ASSUME NEW i \in 1..Len(posted), IsStatus(posted[i], g), posted[i].status = s,
             \A j \in (i + 1)..Len(posted) : ~IsStatus(posted[j], g)
      PROVE  WillShow(g, s)'
  <2>1. \A j \in i..Len(posted') : ~IsStatus(posted'[j], g)
    BY <1>2, <1>3
  <2>2. CASE i = 1
    <3>1. group_status'[g] = s
      BY <1>1, <1>3, <2>2
    <3> QED
      BY <2>1, <2>2, <3>1 DEF WillShow
  <2>3. CASE i # 1
    <3>1. i - 1 \in 1..Len(posted') /\ (i - 1) + 1 = i
      BY <1>1, <2>3
    <3>2. IsStatus(posted'[i - 1], g) /\ posted'[i - 1].status = s
      BY <1>1, <1>3, <3>1
    <3> QED
      BY <2>1, <3>1, <3>2 DEF WillShow
  <2> QED
    BY <2>2, <2>3
<1>4. ASSUME group_status[g] = s, \A j \in 1..Len(posted) : ~IsStatus(posted[j], g)
      PROVE  WillShow(g, s)'
  <2>1. 1 \in 1..Len(posted) /\ \A j \in (1 + 1)..Len(posted) : j \in 1..Len(posted)
    BY <1>1
  <2>2. \A j \in 1..Len(posted') : ~IsStatus(posted'[j], g)
    BY <1>2, <1>4, <2>1
  <2>3. ~IsStatus(Head(posted), g)
    BY <1>1, <1>4, <2>1
  <2> QED
    BY <1>4, <2>2, <2>3 DEF WillShow
<1> QED
  BY <1>3, <1>4 DEF WillShow

LEMMA RunPostedStep ==
  ASSUME TasksInv, RunPosted
  PROVE  TasksInv'
<1> USE DEF TasksInv
<1> DEFINE c == Head(posted)
<1>1. posted \in Seq(Callbacks) /\ posted # <<>> /\ posted' = Tail(posted)
  BY DEF TasksTypeOK, RunPosted
<1>2. /\ posted' \in Seq(Callbacks) /\ Len(posted') = Len(posted) - 1
      /\ Len(posted) \in Nat /\ Len(posted) >= 1
      /\ \A i \in 1..Len(posted') : i + 1 \in 1..Len(posted) /\ posted'[i] = posted[i + 1]
      /\ c = posted[1] /\ c \in Callbacks
  BY <1>1, HeadRuns
<1>3. UNCHANGED <<importing, group, busy, verdict>>
  BY DEF RunPosted, importVars, testVars
<1>4. /\ c.do = "status" => /\ c.group \in 1..Groups
                             /\ c.status \in {"running", "ok", "fail"}
      /\ c.do = "done" => c.passed \in BOOLEAN
  BY <1>2 DEF Callbacks, Box, Enable, Status, Done
<1>5. group_status' = IF c.do = "status" THEN [group_status EXCEPT ![c.group] = c.status]
                                         ELSE group_status
  BY DEF RunPosted, testVars
<1>6. /\ btn_import' \in {btn_import, TRUE}
      /\ c.do # "done" => tests_running' = tests_running /\ summary' = summary
      /\ c.do = "done" => /\ tests_running' = FALSE
                          /\ summary' = IF c.passed THEN "passed" ELSE "failed"
  BY DEF RunPosted, importVars, testVars
<1> HIDE DEF c
<1>7. TasksTypeOK'
  <2>1. group_status' \in [1..Groups -> {"idle", "running", "ok", "fail"}]
    BY <1>4, <1>5 DEF TasksTypeOK
  <2>2. tests_running' \in BOOLEAN /\ btn_import' \in BOOLEAN /\ busy' \in BOOLEAN
    BY <1>3, <1>6 DEF TasksTypeOK
  <2>3. summary' \in {"none", "running", "passed", "failed"}
    BY <1>6 DEF TasksTypeOK
  <2> QED
    BY <1>2, <1>3, <2>1, <2>2, <2>3 DEF TasksTypeOK
<1>8. VerdictsArrive'
  <2>1. ASSUME NEW g \in 1..Groups, verdict[g] # "none"
        PROVE  WillShow(g, verdict[g])'
    <3>1. IF IsStatus(c, g) THEN group_status'[g] = c.status
                            ELSE group_status'[g] = group_status[g]
      BY <1>4, <1>5 DEF IsStatus, TasksTypeOK
    <3>2. PICK s : s = verdict[g]
      OBVIOUS
    <3>3. WillShow(g, s)
      BY <2>1, <3>2 DEF VerdictsArrive
    <3>4. WillShow(g, s)'
      BY <1>1, <3>1, <3>3, RunShows DEF c
    <3> QED
      BY <1>3, <3>2, <3>4 DEF WillShow
  <2> QED
    BY <1>3, <2>1 DEF VerdictsArrive
<1>9. AllPassed' = AllPassed
  BY <1>3 DEF AllPassed
<1>10. DoneIsLast'
  <2> SUFFICES ASSUME NEW i \in 1..Len(posted'), posted'[i].do = "done"
               PROVE  /\ group' = 0 /\ posted'[i].passed = AllPassed'
                      /\ \A j \in (i + 1)..Len(posted') : ~IsTest(posted'[j])
    BY DEF DoneIsLast
  <2>1. /\ group = 0 /\ posted[i + 1].passed = AllPassed
        /\ \A j \in ((i + 1) + 1)..Len(posted) : ~IsTest(posted[j])
    BY <1>2 DEF DoneIsLast
  <2>2. ASSUME NEW j \in (i + 1)..Len(posted')
        PROVE  ~IsTest(posted'[j])
    <3>1. j \in 1..Len(posted') /\ j + 1 \in ((i + 1) + 1)..Len(posted)
      BY <1>2
    <3> QED
      BY <1>2, <2>1, <3>1
  <2> QED
    BY <1>2, <1>3, <1>9, <2>1, <2>2
<1>11. NoRunNoCallbacks'
  <2>1. CASE c.do = "done"
    <3>1. 1 \in 1..Len(posted)
      BY <1>2
    <3>2. /\ group = 0 /\ c.passed = AllPassed
          /\ \A j \in (1 + 1)..Len(posted) : ~IsTest(posted[j])
      BY <1>2, <2>1, <3>1 DEF DoneIsLast
    <3>3. \A i \in 1..Len(posted') : ~IsTest(posted'[i])
      <4> SUFFICES ASSUME NEW i \in 1..Len(posted')
                   PROVE  ~IsTest(posted'[i])
        OBVIOUS
      <4>1. i + 1 \in (1 + 1)..Len(posted)
        BY <1>2
      <4> QED
        BY <1>2, <3>2, <4>1
    <3>4. summary' = "passed" <=> AllPassed
      BY <1>6, <2>1, <3>2
    <3> QED
      BY <1>3, <1>9, <3>2, <3>3, <3>4 DEF NoRunNoCallbacks
  <2>2. CASE c.do # "done"
    BY <1>2, <1>3, <1>6, <1>9, <2>2 DEF NoRunNoCallbacks
  <2> QED
    BY <2>1, <2>2
<1>12. GroupsInOrder'
  BY <1>3 DEF GroupsInOrder
<1> QED
  BY <1>7, <1>8, <1>10, <1>11, <1>12

-----------------------------------------------------------------------------
(* The workers.                                                            *)

LEMMA ImportSteps ==
  ASSUME TasksInv, ImportWorker
  PROVE  TasksInv'
<1> USE DEF TasksInv
<1>1. /\ importing' \in {"none", "running"}
      /\ btn_import' = btn_import /\ UNCHANGED testVars
  BY DEF ImportWorker, ImportCannotStart, ImportStarts, ImportEnds
<1>2. UNCHANGED <<tests_running, group, busy, group_status, summary, verdict>>
  BY <1>1 DEF testVars
<1>3. ASSUME posted' \in Seq(Callbacks)
      PROVE  TasksTypeOK'
  <2>1. btn_import' \in BOOLEAN /\ tests_running' \in BOOLEAN /\ busy' \in BOOLEAN
    BY <1>1, <1>2 DEF TasksTypeOK
  <2> QED
    BY <1>1, <1>2, <1>3, <2>1 DEF TasksTypeOK
<1>4. CASE posted' = posted
  <2>1. TasksTypeOK'
    BY <1>3, <1>4 DEF TasksTypeOK
  <2>2. VerdictsArrive' /\ DoneIsLast'
    BY <1>2, <1>4 DEF VerdictsArrive, DoneIsLast, WillShow, AllPassed
  <2>3. NoRunNoCallbacks' /\ GroupsInOrder'
    BY <1>2, <1>4 DEF NoRunNoCallbacks, GroupsInOrder, AllPassed
  <2> QED
    BY <2>1, <2>2, <2>3
<1>5. CASE invoke_later(<<Box, Enable>>)
  <2> DEFINE cs == <<Box, Enable>>
  <2>1. cs \in Seq(Callbacks)
    BY DEF Callbacks
  <2>2. Len(cs) = 2 /\ cs[1] = Box /\ cs[2] = Enable
    OBVIOUS
  <2>3. \A k \in 1..Len(cs) : ~IsTest(cs[k])
    BY <2>2 DEF IsTest, Box, Enable
  <2> HIDE DEF cs
  <2>4. posted' \in Seq(Callbacks)
    BY <1>5, <2>1, Posted DEF TasksTypeOK, cs
  <2> QED
    BY <1>1, <1>3, <1>5, <2>1, <2>3, <2>4, QuietPost DEF cs
<1> QED
  BY <1>4, <1>5 DEF ImportWorker, ImportCannotStart, ImportStarts, ImportEnds

LEMMA PressTestsStep ==
  ASSUME TasksInv, PressTests
  PROVE  TasksInv'
<1> USE DEF TasksInv
<1>1. /\ ~tests_running /\ tests_running' = TRUE /\ summary' = "running"
      /\ group_status' = [g \in 1..Groups |-> "idle"] /\ group' = 1 /\ ~busy'
      /\ verdict' = [g \in 1..Groups |-> "none"]
      /\ UNCHANGED <<posted, importing, btn_import>>
  BY DEF PressTests, NoTasks, importVars
<1>2. \A i \in 1..Len(posted) : ~IsTest(posted[i])
  BY <1>1 DEF NoRunNoCallbacks
<1>3. TasksTypeOK'
  <2>1. btn_import' \in BOOLEAN /\ tests_running' \in BOOLEAN /\ busy' \in BOOLEAN
    BY <1>1 DEF PressTests, TasksTypeOK
  <2>2. /\ group_status' \in [1..Groups -> {"idle", "running", "ok", "fail"}]
        /\ verdict' \in [1..Groups -> {"none", "ok", "fail"}]
        /\ group' \in 0..Groups + 1
    BY <1>1, GroupsAssumption
  <2> QED
    BY <1>1, <2>1, <2>2 DEF TasksTypeOK
<1>4. VerdictsArrive' /\ GroupsInOrder' /\ NoRunNoCallbacks'
  BY <1>1 DEF VerdictsArrive, GroupsInOrder, NoRunNoCallbacks
<1>5. DoneIsLast'
  BY <1>1, <1>2 DEF DoneIsLast, IsTest
<1> QED
  BY <1>3, <1>4, <1>5

(* One test callback c is posted while a run is under way.                 *)
LEMMA TestPost ==
  ASSUME TasksInv, group # 0, UNCHANGED <<tests_running, group_status>>,
         NEW c \in Callbacks, invoke_later(<<c>>),
         c.do = "done" => group' = 0 /\ c.passed = AllPassed',
         NEW d \in 1..Groups,
         \A g \in 1..Groups : IsStatus(c, g) => g = d,
         \A g \in 1..Groups : g # d => verdict'[g] = verdict[g],
         verdict'[d] # "none" => \/ (IsStatus(c, d) /\ c.status = verdict'[d])
                                 \/ (~IsStatus(c, d) /\ verdict'[d] = verdict[d])
  PROVE  posted' \in Seq(Callbacks) /\ VerdictsArrive' /\ DoneIsLast' /\ NoRunNoCallbacks'
<1> USE DEF TasksInv
<1> DEFINE cs == <<c>>
<1>1. posted \in Seq(Callbacks) /\ cs \in Seq(Callbacks) /\ Len(cs) = 1 /\ cs[1] = c
  BY DEF TasksTypeOK
<1> HIDE DEF cs
<1>2. invoke_later(cs)
  BY DEF cs
<1>3. /\ posted' \in Seq(Callbacks) /\ Len(posted') = Len(posted) + 1 /\ Len(posted) \in Nat
      /\ \A i \in 1..Len(posted) : posted'[i] = posted[i]
      /\ posted'[Len(posted')] = c
  <2>1. /\ posted' \in Seq(Callbacks) /\ Len(posted') = Len(posted) + Len(cs)
        /\ Len(posted) \in Nat
        /\ \A i \in 1..Len(posted) : posted'[i] = posted[i]
        /\ \A i \in (Len(posted) + 1)..Len(posted') :
              i - Len(posted) \in 1..Len(cs) /\ posted'[i] = cs[i - Len(posted)]
    BY <1>1, <1>2, Posted
  <2>2. Len(posted') \in (Len(posted) + 1)..Len(posted') /\ Len(posted') - Len(posted) = 1
    BY <1>1, <2>1
  <2>3. posted'[Len(posted')] = cs[1]
    BY <2>1, <2>2
  <2> QED
    BY <1>1, <2>1, <2>3
<1>4. VerdictsArrive'
  <2>1. ASSUME NEW g \in 1..Groups, verdict'[g] # "none"
        PROVE  \E s : s = verdict'[g] /\ WillShow(g, s)'
    <3>1. CASE IsStatus(c, g)
      <4>1. g = d /\ c.status = verdict'[g]
        BY <2>1, <3>1
      <4>2. Len(posted') \in 1..Len(posted') /\ \A j \in (Len(posted') + 1)..Len(posted') : FALSE
        BY <1>3
      <4>3. PICK s : s = verdict'[g]
        OBVIOUS
      <4>4. WillShow(g, s)'
        BY <1>3, <3>1, <4>1, <4>2, <4>3 DEF WillShow
      <4> QED
        BY <4>3, <4>4
    <3>2. CASE ~IsStatus(c, g)
      <4>1. verdict'[g] = verdict[g]
        BY <2>1, <3>2
      <4>2. PICK s : s = verdict[g]
        OBVIOUS
      <4>3. WillShow(g, s)
        BY <2>1, <4>1, <4>2 DEF VerdictsArrive
      <4>4. \A k \in 1..Len(cs) : ~IsStatus(cs[k], g)
        BY <1>1, <3>2
      <4>5. WillShow(g, s)'
        BY <1>1, <1>2, <4>3, <4>4, StillShows
      <4> QED
        BY <4>1, <4>2, <4>5
    <3> QED
      BY <3>1, <3>2
  <2>2. ASSUME NEW g \in 1..Groups, verdict'[g] # "none"
        PROVE  WillShow(g, verdict[g])'
    <3>1. PICK s : s = verdict'[g] /\ WillShow(g, s)'
      BY <2>1, <2>2
    <3> QED
      BY <3>1 DEF WillShow
  <2> QED
    BY <2>2 DEF VerdictsArrive
<1>5. \A i \in 1..Len(posted) : posted[i].do # "done"
  BY DEF DoneIsLast
<1>6. DoneIsLast'
  <2> SUFFICES ASSUME NEW i \in 1..Len(posted'), posted'[i].do = "done"
               PROVE  /\ group' = 0 /\ posted'[i].passed = AllPassed'
                      /\ \A j \in (i + 1)..Len(posted') : ~IsTest(posted'[j])
    BY DEF DoneIsLast
  <2>1. i = Len(posted')
    <3>1. CASE i \in 1..Len(posted)
      BY <1>3, <1>5, <3>1
    <3> QED
      BY <1>3, <3>1
  <2> QED
    BY <1>3, <2>1
<1>7. NoRunNoCallbacks'
  BY DEF NoRunNoCallbacks
<1> QED
  BY <1>3, <1>4, <1>6, <1>7

LEMMA TestTypes ==
  ASSUME TasksInv, TestWorker, posted' \in Seq(Callbacks)
  PROVE  TasksTypeOK'
<1> USE DEF TasksInv
<1>1. /\ UNCHANGED <<importing, btn_import, tests_running, group_status, summary>>
      /\ group' = 0 \/ group' = group \/ (group' = group + 1 /\ group \in 1..Groups)
  <2>1. CASE GroupStarts
    BY <2>1 DEF GroupStarts, importVars
  <2>2. CASE GroupEnds
    <3>1. group \in 1..Groups
      BY <2>2 DEF GroupEnds, GroupsInOrder
    <3> QED
      BY <2>2, <3>1 DEF GroupEnds, importVars
  <2>3. CASE TestsReturn
    <3>1. group' = 0
      BY <2>3 DEF TestsReturn
    <3>2. UNCHANGED <<importing, btn_import, tests_running, group_status, summary>>
      BY <2>3 DEF TestsReturn, importVars
    <3> QED
      BY <3>1, <3>2
  <2>4. CASE TestsRaise
    <3>1. group' = 0
      BY <2>4 DEF TestsRaise
    <3>2. UNCHANGED <<importing, btn_import, tests_running, group_status, summary>>
      BY <2>4 DEF TestsRaise, importVars
    <3> QED
      BY <3>1, <3>2
  <2> QED
    BY <2>1, <2>2, <2>3, <2>4 DEF TestWorker
<1>2. group' \in 0..Groups + 1
  BY <1>1, GroupsAssumption DEF TasksTypeOK
<1>3. verdict' \in [1..Groups -> {"none", "ok", "fail"}]
  <2>1. verdict' = verdict \/ \E r \in {"ok", "fail"} : verdict' = [verdict EXCEPT ![group] = r]
    BY DEF TestWorker, GroupStarts, GroupEnds, TestsReturn, TestsRaise
  <2> QED
    BY <2>1 DEF TasksTypeOK
<1>4. btn_import' \in BOOLEAN /\ tests_running' \in BOOLEAN
  BY <1>1 DEF TasksTypeOK
<1>5. busy' \in BOOLEAN
  BY DEF TestWorker, GroupStarts, GroupEnds, TestsReturn, TestsRaise, TasksTypeOK
<1> QED
  BY <1>1, <1>2, <1>3, <1>4, <1>5 DEF TasksTypeOK

LEMMA TestSteps ==
  ASSUME TasksInv, TestWorker
  PROVE  TasksInv'
<1> USE DEF TasksInv
<1> DEFINE Kept == posted' \in Seq(Callbacks) /\ VerdictsArrive' /\ DoneIsLast' /\ NoRunNoCallbacks'
<1>1. /\ group \in 0..Groups + 1 /\ Groups \in Nat /\ 1 \in 1..Groups
      /\ verdict \in [1..Groups -> {"none", "ok", "fail"}]
  BY GroupsAssumption DEF TasksTypeOK
<1>2. UNCHANGED <<tests_running, group_status>>
  BY DEF TestWorker, GroupStarts, GroupEnds, TestsReturn, TestsRaise
<1>3. CASE GroupStarts
  <2> DEFINE c == Status(group, "running")
  <2>1. /\ group \in 1..Groups /\ verdict' = verdict /\ group' = group
        /\ invoke_later(<<c>>)
    BY <1>3 DEF GroupStarts
  <2>2. /\ c \in Callbacks /\ c.do = "status" /\ c.group = group
        /\ verdict[group] = "none"
    BY <1>1, <2>1 DEF Callbacks, Status, GroupsInOrder
  <2> HIDE DEF c
  <2>3. Kept
    BY <1>1, <1>2, <2>1, <2>2, TestPost DEF IsStatus
  <2>4. GroupsInOrder'
    BY <2>1 DEF GroupsInOrder
  <2> QED
    BY <2>3, <2>4, TestTypes
<1>4. CASE GroupEnds
  <2>1. PICK result \in {"ok", "fail"} :
          /\ verdict' = [verdict EXCEPT ![group] = result]
          /\ invoke_later(<<Status(group, result)>>)
    BY <1>4 DEF GroupEnds
  <2>2. group \in 1..Groups /\ group' = group + 1 /\ ~busy'
    BY <1>4 DEF GroupEnds, GroupsInOrder
  <2> DEFINE c == Status(group, result)
  <2>3. c \in Callbacks /\ c.do = "status" /\ c.group = group /\ c.status = result
    BY <2>2 DEF Callbacks, Status
  <2>4. invoke_later(<<c>>)
    BY <2>1
  <2> HIDE DEF c
  <2>5. verdict'[group] = result /\ \A g \in 1..Groups : g # group => verdict'[g] = verdict[g]
    BY <1>1, <2>1, <2>2
  <2>6. Kept
    <3>1. IsStatus(c, group) /\ c.status = verdict'[group] /\ c.do # "done"
      BY <2>3, <2>5 DEF IsStatus
    <3>2. \A g \in 1..Groups : IsStatus(c, g) => g = group
      BY <2>3 DEF IsStatus
    <3>3. group # 0
      BY <2>2
    <3> QED
      BY <1>2, <2>2, <2>3, <2>4, <2>5, <3>1, <3>2, <3>3, TestPost
  <2>7. GroupsInOrder'
    BY <1>1, <2>2, <2>5 DEF GroupsInOrder
  <2> QED
    BY <2>6, <2>7, TestTypes
<1>5. ASSUME NEW passed \in BOOLEAN, group # 0, group' = 0, ~busy', verdict' = verdict,
             invoke_later(<<Done(passed)>>), passed = AllPassed
      PROVE  Kept /\ GroupsInOrder'
  <2> DEFINE c == Done(passed)
  <2>1. c \in Callbacks /\ c.do = "done" /\ c.passed = passed
    BY DEF Callbacks, Done
  <2>2. AllPassed' = AllPassed
    BY <1>5 DEF AllPassed
  <2>3. invoke_later(<<c>>)
    BY <1>5
  <2> HIDE DEF c
  <2>4. \A g \in 1..Groups : ~IsStatus(c, g)
    BY <2>1 DEF IsStatus
  <2>5. Kept
    BY <1>1, <1>2, <1>5, <2>1, <2>2, <2>3, <2>4, TestPost
  <2> QED
    BY <1>5, <2>5 DEF GroupsInOrder
<1>6. CASE TestsReturn
  <2>1. AllPassed \in BOOLEAN
    BY DEF AllPassed
  <2>2. group # 0 /\ ~busy
    BY <1>1, <1>6 DEF TestsReturn, GroupsInOrder
  <2>3. Kept /\ GroupsInOrder'
    BY <1>5, <1>6, <2>1, <2>2 DEF TestsReturn
  <2> QED
    BY <1>6, <2>3, TestTypes
<1>7. CASE TestsRaise
  <2>1. group \in 1..Groups /\ verdict[group] = "none"
    BY <1>1, <1>7 DEF TestsRaise, GroupsInOrder
  <2>2. FALSE = AllPassed
    BY <2>1 DEF AllPassed
  <2>3. /\ group # 0 /\ group' = 0 /\ ~busy' /\ verdict' = verdict
        /\ invoke_later(<<Done(FALSE)>>)
    BY <1>7, <2>1 DEF TestsRaise
  <2>4. FALSE \in BOOLEAN
    OBVIOUS
  <2>5. Kept /\ GroupsInOrder'
    BY <1>5, <2>2, <2>3, <2>4
  <2> QED
    BY <1>7, <2>5, TestTypes
<1> QED
  BY <1>3, <1>4, <1>6, <1>7 DEF TestWorker

LEMMA NoTaskStep ==
  ASSUME TasksInv, UNCHANGED taskVars
  PROVE  TasksInv'
<1>1. /\ UNCHANGED <<posted, importing, btn_import, tests_running, group, busy>>
      /\ UNCHANGED <<group_status, summary, verdict>>
  BY DEF taskVars, importVars, testVars
<1>2. TasksTypeOK'
  BY <1>1, Zenon DEF TasksInv, TasksTypeOK
<1>3. VerdictsArrive' /\ DoneIsLast'
  BY <1>1 DEF TasksInv, VerdictsArrive, DoneIsLast, WillShow, AllPassed
<1>4. NoRunNoCallbacks' /\ GroupsInOrder'
  BY <1>1 DEF TasksInv, NoRunNoCallbacks, GroupsInOrder, AllPassed
<1> QED
  BY <1>2, <1>3, <1>4 DEF TasksInv

(* run_import, asked for by the window.                                    *)
LEMMA ImportAskedStep ==
  ASSUME TasksInv, ImportAsked, UNCHANGED <<posted, testVars>>
  PROVE  TasksInv'
<1>1. /\ UNCHANGED <<posted, tests_running, group, busy, group_status, summary, verdict>>
      /\ btn_import' = FALSE /\ importing' = "asked"
  BY DEF ImportAsked, testVars
<1>2. btn_import' \in BOOLEAN /\ tests_running' \in BOOLEAN /\ busy' \in BOOLEAN
  BY <1>1 DEF TasksInv, TasksTypeOK
<1>3. TasksTypeOK'
  BY <1>1, <1>2 DEF TasksInv, TasksTypeOK
<1>4. VerdictsArrive' /\ DoneIsLast'
  BY <1>1 DEF TasksInv, VerdictsArrive, DoneIsLast, WillShow, AllPassed
<1>5. NoRunNoCallbacks' /\ GroupsInOrder'
  BY <1>1 DEF TasksInv, NoRunNoCallbacks, GroupsInOrder, AllPassed
<1> QED
  BY <1>3, <1>4, <1>5 DEF TasksInv

(* What is shown when nothing waits and no run is under way is the         *)
(* verdict of the run before.                                              *)
LEMMA RestShowsVerdicts ==
  ASSUME TasksInv
  PROVE  TestsShowThisRun
<1> SUFFICES ASSUME ~tests_running
             PROVE  /\ \A g \in 1..Groups : verdict[g] # "none" => group_status[g] = verdict[g]
                    /\ summary = "passed" <=> AllPassed
  BY DEF TestsShowThisRun
<1>1. \A i \in 1..Len(posted) : ~IsTest(posted[i])
  BY DEF TasksInv, NoRunNoCallbacks
<1>2. \A g \in 1..Groups : \A i \in 1..Len(posted) : ~IsStatus(posted[i], g)
  BY <1>1 DEF IsTest, IsStatus
<1>3. \A g \in 1..Groups : verdict[g] # "none" => group_status[g] = verdict[g]
  BY <1>2 DEF TasksInv, VerdictsArrive, WillShow
<1>4. summary = "passed" <=> AllPassed
  BY DEF TasksInv, NoRunNoCallbacks
<1> QED
  BY <1>3, <1>4

-----------------------------------------------------------------------------
(* The settings.                                                           *)

(* The invariant of the tasks holds of the window they run beside.         *)
LEMMA TasksKept ==
  ASSUME TasksInv, [Next]_vars
  PROVE  TasksInv'
<1> USE DEF SaveInline
<1>1. CASE Type \/ PressSave \/ PressStart \/ PressImport \/ SaveDialog \/ Reload
  BY <1>1, NoTaskStep DEF Type, PressSave, PressStart, PressImport, SaveDialog, Reload
<1>2. CASE WriteFails \/ Edited \/ Restart
  BY <1>2, NoTaskStep DEF WriteFails, Edited, Restart
<1>3. CASE WriteEnds
  BY <1>3, NoTaskStep, ImportAskedStep DEF WriteEnds
<1>4. CASE Crash
  BY <1>4, GoneHolds DEF Crash
<1>5. CASE AtRest(PressTests)
  BY <1>5, PressTestsStep DEF AtRest, TaskStep
<1>6. CASE AtRest(RunPosted)
  BY <1>6, RunPostedStep DEF AtRest, TaskStep
<1>7. CASE TaskStep(ImportWorker)
  BY <1>7, ImportSteps DEF TaskStep
<1>8. CASE TaskStep(TestWorker)
  BY <1>8, TestSteps DEF TaskStep
<1>9. CASE UNCHANGED vars
  BY <1>9, NoTaskStep DEF vars
<1> QED
  BY <1>1, <1>2, <1>3, <1>4, <1>5, <1>6, <1>7, <1>8, <1>9 DEF Next, User

-----------------------------------------------------------------------------
(* Paths.                                                                  *)

LEMMA Channels ==
  /\ ToSet(STAR_CITIZEN_CHANNELS) = {"LIVE", "HOTFIX"}
  /\ \A dir : IsChannel(dir) <=> Name(dir) \in {"LIVE", "HOTFIX"}
<1>1. ToSet(STAR_CITIZEN_CHANNELS) = {"LIVE", "HOTFIX"}
  BY DEF ToSet, STAR_CITIZEN_CHANNELS
<1> QED
  BY <1>1 DEF IsChannel

LEMMA Folders ==
  ASSUME NEW d \in Seq(FolderName), d # <<>>
  PROVE  /\ Parent(d) \in Seq(FolderName)
         /\ Append(Parent(d), Name(d)) = d
         /\ Append(d, "LIVE") \in Seq(FolderName)
         /\ Name(Append(d, "LIVE")) = "LIVE" /\ Parent(Append(d, "LIVE")) = d
<1>1. Len(d) \in Nat \ {0}
  BY EmptySeq
<1>2. /\ Parent(d) \in Seq(FolderName) /\ Len(Parent(d)) = Len(d) - 1
      /\ \A i \in 1..(Len(d) - 1) : Parent(d)[i] = d[i]
  <2> DEFINE n == Len(d) - 1
  <2>1. Parent(d) = SubSeq(d, 1, n)
    BY DEF Parent, Front
  <2>2. n \in Nat /\ \A i \in 1..n : d[i] \in FolderName
    BY <1>1
  <2> HIDE DEF n
  <2>3. /\ SubSeq(d, 1, n) \in Seq(FolderName) /\ Len(SubSeq(d, 1, n)) = n
        /\ \A i \in 1..n : SubSeq(d, 1, n)[i] = d[i]
    <3>1. /\ SubSeq(d, 1, n) \in Seq(FolderName)
          /\ Len(SubSeq(d, 1, n)) = IF 1 <= n THEN n - 1 + 1 ELSE 0
          /\ \A i \in 1..n - 1 + 1 : SubSeq(d, 1, n)[i] = d[1 + i - 1]
      BY <2>2, SubSeqProperties
    <3> QED
      BY <2>2, <3>1
  <2> QED
    BY <2>1, <2>3 DEF n
<1>3. Append(Parent(d), Name(d)) = d
  BY <1>1, <1>2 DEF Name, Last
<1> DEFINE folder == Append(d, "LIVE")
<1>4. /\ folder \in Seq(FolderName) /\ Len(folder) = Len(d) + 1
      /\ folder[Len(d) + 1] = "LIVE" /\ \A i \in 1..Len(d) : folder[i] = d[i]
  <2>1. "LIVE" \in FolderName
    BY Channels DEF FolderName
  <2>2. folder \in Seq(FolderName)
    BY <2>1
  <2>3. Len(folder) = Len(d) + 1 /\ folder[Len(d) + 1] = "LIVE"
    BY <1>1
  <2>4. \A i \in 1..Len(d) : folder[i] = d[i]
    BY <1>1
  <2> QED
    BY <2>2, <2>3, <2>4
<1> HIDE DEF folder
<1>5. Name(folder) = "LIVE"
  BY <1>4 DEF Name, Last
<1>6. Parent(folder) = d
  <2>1. Parent(folder) = SubSeq(folder, 1, Len(d)) /\ \A i \in 1..Len(d) : folder[i] \in FolderName
    BY <1>1, <1>4 DEF Parent, Front
  <2>2. /\ Parent(folder) \in Seq(FolderName) /\ Len(Parent(folder)) = Len(d)
        /\ \A i \in 1..Len(d) : Parent(folder)[i] = d[i]
    BY <1>1, <1>4, <2>1, SubSeqProperties
  <2> QED
    BY <2>2
<1> QED
  BY <1>2, <1>3, <1>4, <1>5, <1>6 DEF folder

(* What saving a directory leaves of it is a directory and no channel but  *)
(* LIVE; saving that again changes nothing.                                *)
LEMMA Saved ==
  ASSUME NEW d, IsDirectory(d), NEW g, g = build_settings_save_result(d).game_dir
  PROVE  /\ IsDirectory(g) /\ Name(g) # "HOTFIX"
         /\ build_settings_save_result(g).game_dir = g
<1>1. g = IF Name(d) = "HOTFIX" THEN Parent(d) ELSE d
  BY DEF build_settings_save_result
<1>2. IsDirectory(g) /\ Name(g) # "HOTFIX"
  BY <1>1, Channels, Folders DEF IsDirectory
<1> QED
  BY <1>2 DEF build_settings_save_result

(* The log of a saved directory is the LIVE one under its root, by every   *)
(* path the program computes it on.                                        *)
LEMMA SavedLog ==
  ASSUME NEW g, IsDirectory(g), Name(g) # "HOTFIX",
         NEW config, config.game_install_dir = g
  PROVE  /\ g # None
         /\ resolve_log_path_from_config(config) = Append(InstallRoot(g), "LIVE")
         /\ configured_log_path(config) = Append(InstallRoot(g), "LIVE")
         /\ build_settings_save_result(g).log_path = Append(InstallRoot(g), "LIVE")
         /\ \A bases, fs, fallback :
              resolve_default_log_path(config, bases, fs, fallback)
                = Append(InstallRoot(g), "LIVE")
<1>1. g \in Seq(FolderName) /\ g # <<>> /\ g # None
  BY NoneAssumption DEF IsDirectory
<1>2. build_settings_save_result(g).log_path = build_log_path(g)
  BY DEF build_settings_save_result
<1>3. CASE IsChannel(g)
  <2>1. Name(g) = "LIVE" /\ InstallRoot(g) = Parent(g)
    BY <1>3, Channels DEF InstallRoot
  <2>2. Append(InstallRoot(g), "LIVE") = g
    BY <1>1, <2>1, Folders
  <2>3. resolve_log_path_from_config(config) = g
    BY <1>1, <2>1 DEF resolve_log_path_from_config, TRACKED_CHANNEL
  <2>4. build_log_path(g) = g
    BY <1>3 DEF build_log_path
  <2> QED
    BY <1>1, <1>2, <2>2, <2>3, <2>4 DEF configured_log_path, resolve_default_log_path
<1>4. CASE ~IsChannel(g)
  <2>1. Name(g) # "LIVE" /\ InstallRoot(g) = g
    BY <1>4, Channels DEF InstallRoot
  <2>2. resolve_log_path_from_config(config) = Append(g, "LIVE")
    BY <1>1, <1>4, <2>1 DEF resolve_log_path_from_config, TRACKED_CHANNEL
  <2>3. build_log_path(g) = Append(g, "LIVE")
    BY <1>4 DEF build_log_path, TRACKED_CHANNEL
  <2>4. Append(g, "LIVE") # None
    BY <1>1, Folders, NoneAssumption
  <2> QED
    BY <1>1, <1>2, <2>1, <2>2, <2>3, <2>4 DEF configured_log_path, resolve_default_log_path
<1> QED
  BY <1>3, <1>4

-----------------------------------------------------------------------------
(* Loops.                                                                  *)

(* A set of naturals that is not empty has a least element.                *)
LEMMA NaturalsHaveLeast ==
  ASSUME NEW T, T \subseteq Nat, T # {}
  PROVE  \E x \in T : \A y \in T : x <= y
<1> DEFINE R == {p \in Nat \X Nat : p[1] < p[2]}
<1>0. IsWellFoundedOn(R, Nat)
  BY NatLessThanWellFounded DEF OpToRel
<1>2. \A x, y \in Nat : <<y, x>> \in R <=> y < x
  OBVIOUS
<1> HIDE DEF R
<1>1. \E x \in T : \A y \in T : ~ (<<y, x>> \in R)
  BY <1>0, WFMin
<1>3. PICK x \in T : \A y \in T : ~ (<<y, x>> \in R)
  BY <1>1
<1>4. ASSUME NEW y \in T
      PROVE  x <= y
  <2>1. x \in Nat /\ y \in Nat
    OBVIOUS
  <2>2. ~ (y < x)
    BY <1>2, <1>3, <2>1
  <2> QED
    BY <2>1, <2>2
<1> QED
  BY <1>4

(* Induction up to a bound, by the least number that is left out.          *)
LEMMA CountingUp ==
  ASSUME NEW N \in Nat, NEW T, 0 \in T,
         \A n \in 1..N : n - 1 \in T => n \in T
  PROVE  \A n \in 0..N : n \in T
<1> DEFINE Left == {n \in 0..N : n \notin T}
<1>1. CASE Left = {}
  BY <1>1
<1>2. CASE Left # {}
  <2>1. Left \subseteq Nat
    OBVIOUS
  <2>2. PICK x \in Left : \A y \in Left : x <= y
    <3> HIDE DEF Left
    <3> QED
      BY <1>2, <2>1, NaturalsHaveLeast
  <2>3. x \in 1..N /\ x \notin T
    BY <2>2
  <2>4. x - 1 \in 0..N /\ x - 1 \notin T
    BY <2>3
  <2>5. x <= x - 1
    BY <2>2, <2>4
  <2> QED
    BY <2>3, <2>5
<1> QED
  BY <1>1, <1>2

(* A loop of N turns, each a step from what the turn before left, has its  *)
(* run: the function that recursion over the turns defines exists.         *)
IsLoop(N, V, base, turn) ==
  N \in Nat /\ base \in V /\ turn \in [1..N -> [V -> V]]

IsRun(run, n, V, base, turn) ==
  /\ run \in [0..n -> V]
  /\ run[0] = base
  /\ \A k \in 1..n : run[k] = turn[k][run[k - 1]]

LEMMA LoopHasRun ==
  ASSUME NEW N, NEW V, NEW base, NEW turn, IsLoop(N, V, base, turn)
  PROVE  \E run : IsRun(run, N, V, base, turn)
<1> USE DEF IsLoop
<1> DEFINE T == {n \in 0..N : \E f : IsRun(f, n, V, base, turn)}
<1>1. 0 \in T
  <2>1. PICK f : f = [k \in 0..0 |-> base]
    OBVIOUS
  <2>2. IsRun(f, 0, V, base, turn)
    BY <2>1 DEF IsRun
  <2>3. 0 \in 0..N
    OBVIOUS
  <2> QED
    BY <2>2, <2>3
<1>2. ASSUME NEW n \in 1..N, n - 1 \in T
      PROVE  n \in T
  <2>1. PICK f : IsRun(f, n - 1, V, base, turn)
    BY <1>2
  <2>a. /\ f \in [0..(n - 1) -> V]
        /\ f[0] = base
        /\ \A k \in 1..(n - 1) : f[k] = turn[k][f[k - 1]]
    BY <2>1 DEF IsRun
  <2>2. n \in Nat /\ n - 1 \in 0..(n - 1) /\ n \in 0..n /\ 0 \in 0..n
    OBVIOUS
  <2>3. PICK g : g = [k \in 0..n |-> IF k = n THEN turn[n][f[n - 1]] ELSE f[k]]
    OBVIOUS
  <2>4. turn[n][f[n - 1]] \in V
    BY <2>a, <2>2
  <2>5. \A k \in 0..n : k = n \/ k \in 0..(n - 1)
    OBVIOUS
  <2>6. g[n] = turn[n][f[n - 1]] /\ \A k \in 0..(n - 1) : g[k] = f[k]
    BY <2>3
  <2>7. \A k \in 0..n : g[k] \in V
    BY <2>a, <2>4, <2>5, <2>6
  <2>8. g \in [0..n -> V]
    BY <2>3, <2>7
  <2>9. g[0] = base
    BY <2>a, <2>6
  <2>10. ASSUME NEW k \in 1..n
         PROVE  g[k] = turn[k][g[k - 1]]
    <3>1. k - 1 \in 0..(n - 1) /\ g[k - 1] = f[k - 1]
      BY <2>6
    <3>2. CASE k = n
      BY <2>6, <3>1, <3>2
    <3>3. CASE k # n
      <4>1. k \in 1..(n - 1) /\ k \in 0..(n - 1)
        BY <3>3
      <4> QED
        BY <2>a, <2>6, <3>1, <4>1
    <3> QED
      BY <3>2, <3>3
  <2>11. IsRun(g, n, V, base, turn)
    BY <2>8, <2>9, <2>10 DEF IsRun
  <2> QED
    BY <2>11
<1>3. N \in T
  <2>1. \A n \in 1..N : n - 1 \in T => n \in T
    BY <1>2
  <2> HIDE DEF T
  <2>2. \A n \in 0..N : n \in T
    BY <1>1, <2>1, CountingUp
  <2> QED
    BY <2>2
<1> QED
  BY <1>3

-----------------------------------------------------------------------------
(* The search: removing repetitions.                                       *)

(* out holds what is in the first n paths, in the order of their first     *)
(* occurrences.                                                            *)
FirstsOf(paths, n, out) ==
  /\ out \in Seq(Seq(FolderName))
  /\ \A k \in 1..Len(out) : \E j \in 1..n :
       /\ out[k] = paths[j]
       /\ \A i \in 1..(j - 1) : \E l \in 1..(k - 1) : out[l] = paths[i]
  /\ \A j \in 1..n : \E k \in 1..Len(out) : out[k] = paths[j]

LEMMA AddKeepsFirsts ==
  ASSUME NEW paths \in Seq(Seq(FolderName)), NEW n \in 1..Len(paths),
         NEW out, FirstsOf(paths, n - 1, out)
  PROVE  FirstsOf(paths, n, AddUnseen(out, paths[n]))
<1>1. /\ out \in Seq(Seq(FolderName))
      /\ \A k \in 1..Len(out) : \E j \in 1..(n - 1) :
           /\ out[k] = paths[j]
           /\ \A i \in 1..(j - 1) : \E l \in 1..(k - 1) : out[l] = paths[i]
      /\ \A j \in 1..(n - 1) : \E k \in 1..Len(out) : out[k] = paths[j]
  BY DEF FirstsOf
<1>2. n \in 1..n /\ \A j \in 1..n : j = n \/ j \in 1..(n - 1)
  OBVIOUS
<1>3. \A j \in 1..(n - 1) : j \in 1..n
  OBVIOUS
<1>4. PICK c \in Nat : c = Len(out)
  BY <1>1
<1>5. CASE \E k \in 1..Len(out) : out[k] = paths[n]
  <2>1. AddUnseen(out, paths[n]) = out
    BY <1>5 DEF AddUnseen, Contains
  <2>2. \A j \in 1..n : \E k \in 1..Len(out) : out[k] = paths[j]
    BY <1>1, <1>2, <1>5
  <2>3. \A k \in 1..Len(out) : \E j \in 1..n :
          /\ out[k] = paths[j]
          /\ \A i \in 1..(j - 1) : \E l \in 1..(k - 1) : out[l] = paths[i]
    BY <1>1, <1>3
  <2> QED
    BY <1>1, <2>1, <2>2, <2>3 DEF FirstsOf
<1>6. CASE ~ \E k \in 1..Len(out) : out[k] = paths[n]
  <2>1. PICK p \in Seq(FolderName) : p = paths[n]
    OBVIOUS
  <2>2. PICK new : new = Append(out, p)
    OBVIOUS
  <2>3. AddUnseen(out, paths[n]) = new
    BY <1>6, <2>1, <2>2 DEF AddUnseen, Contains
  <2>4. /\ new \in Seq(Seq(FolderName)) /\ Len(new) = c + 1 /\ new[c + 1] = p
        /\ \A k \in 1..c : new[k] = out[k]
    BY <1>1, <1>4, <2>2
  <2>5. /\ c + 1 \in 1..(c + 1)
        /\ \A k \in 1..c : k \in 1..(c + 1) /\ \A l \in 1..(k - 1) : l \in 1..c
        /\ \A k \in 1..(c + 1) : k = c + 1 \/ k \in 1..c
        /\ \A l \in 1..c : l \in 1..((c + 1) - 1)
    BY <1>4
  <2>6. ASSUME NEW k \in 1..(c + 1)
        PROVE  \E j \in 1..n :
                 /\ new[k] = paths[j]
                 /\ \A i \in 1..(j - 1) : \E l \in 1..(k - 1) : new[l] = paths[i]
    <3>1. CASE k = c + 1
      <4>1. \A i \in 1..(n - 1) : \E l \in 1..(k - 1) : new[l] = paths[i]
        BY <1>1, <1>4, <2>4, <2>5, <3>1
      <4> QED
        BY <1>2, <2>1, <2>4, <3>1, <4>1
    <3>2. CASE k \in 1..c
      <4>1. PICK j \in 1..(n - 1) :
              /\ out[k] = paths[j]
              /\ \A i \in 1..(j - 1) : \E l \in 1..(k - 1) : out[l] = paths[i]
        BY <1>1, <1>4, <3>2
      <4>2. \A i \in 1..(j - 1) : \E l \in 1..(k - 1) : new[l] = paths[i]
        BY <2>4, <2>5, <3>2, <4>1
      <4>3. j \in 1..n /\ new[k] = paths[j]
        BY <1>3, <2>4, <3>2, <4>1
      <4> QED
        BY <4>2, <4>3
    <3> QED
      BY <2>5, <3>1, <3>2
  <2>7. \A j \in 1..n : \E k \in 1..(c + 1) : new[k] = paths[j]
    <3> SUFFICES ASSUME NEW j \in 1..n
                 PROVE  \E k \in 1..(c + 1) : new[k] = paths[j]
      OBVIOUS
    <3>1. CASE j = n
      BY <2>1, <2>4, <2>5, <3>1
    <3>2. CASE j \in 1..(n - 1)
      <4>1. PICK k \in 1..c : out[k] = paths[j]
        BY <1>1, <1>4, <3>2
      <4> QED
        BY <2>4, <2>5, <4>1
    <3> QED
      BY <1>2, <3>1, <3>2
  <2> QED
    BY <2>3, <2>4, <2>6, <2>7 DEF FirstsOf
<1> QED
  BY <1>5, <1>6

(* The loop of unique_paths, and what it leaves.                           *)
LEMMA UniqueRuns ==
  ASSUME NEW paths \in Seq(Seq(FolderName))
  PROVE  \E out : /\ out[0] = <<>>
                  /\ \A k \in 1..Len(paths) : out[k] = AddUnseen(out[k - 1], paths[k])
                  /\ unique_paths(paths) = out[Len(paths)]
<1> DEFINE N == Len(paths)
           V == Seq(Seq(FolderName))
           turn == [n \in 1..N |-> [b \in V |-> AddUnseen(b, paths[n])]]
           Def(f) == [n \in 0..N |-> IF n = 0 THEN <<>> ELSE AddUnseen(f[n - 1], paths[n])]
<1>1. N \in Nat /\ <<>> \in V
  OBVIOUS
<1>2. ASSUME NEW b \in V, NEW n \in 1..N
      PROVE  AddUnseen(b, paths[n]) \in V
  BY DEF AddUnseen
<1>3. turn \in [1..N -> [V -> V]]
  BY <1>2
<1>4. \A b \in V, n \in 1..N : turn[n][b] = AddUnseen(b, paths[n])
  OBVIOUS
<1> HIDE DEF V, turn, N
<1>a. IsLoop(N, V, <<>>, turn)
  BY <1>1, <1>3 DEF IsLoop
<1>b. PICK run : IsRun(run, N, V, <<>>, turn)
  BY <1>a, LoopHasRun
<1>5. /\ run \in [0..N -> V]
      /\ run[0] = <<>>
      /\ \A k \in 1..N : run[k] = turn[k][run[k - 1]]
  BY <1>b DEF IsRun
<1>6. \A k \in 1..N : run[k] = AddUnseen(run[k - 1], paths[k])
  <2>1. \A k \in 1..N : k - 1 \in 0..N
    BY <1>1
  <2> QED
    BY <1>4, <1>5, <2>1
<1>7. run = Def(run)
  BY <1>5, <1>6
<1>8. PICK out : out = CHOOSE f : f = Def(f)
  OBVIOUS
<1>9. out = Def(out)
  BY <1>7, <1>8
<1>10. unique_paths(paths) = out[N]
  BY <1>8 DEF unique_paths, N
<1>11. \A k \in 1..N : k \in 0..N /\ k # 0
  BY <1>1
<1>12. out[0] = <<>> /\ \A k \in 1..N : out[k] = AddUnseen(out[k - 1], paths[k])
  BY <1>1, <1>9, <1>11
<1> QED
  BY <1>10, <1>12 DEF N

LEMMA UniqueKeepsFirsts ==
  ASSUME NEW paths \in Seq(Seq(FolderName))
  PROVE  FirstsOf(paths, Len(paths), unique_paths(paths))
<1>1. PICK out : /\ out[0] = <<>>
                 /\ \A k \in 1..Len(paths) : out[k] = AddUnseen(out[k - 1], paths[k])
                 /\ unique_paths(paths) = out[Len(paths)]
  BY UniqueRuns
<1> DEFINE N == Len(paths)
           T == {n \in 0..N : FirstsOf(paths, n, out[n])}
<1>2. 0 \in T
  <2>1. FirstsOf(paths, 0, <<>>)
    BY DEF FirstsOf
  <2> QED
    BY <1>1, <2>1
<1>3. \A n \in 1..N : n - 1 \in T => n \in T
  <2> SUFFICES ASSUME NEW n \in 1..N, n - 1 \in T
               PROVE  n \in T
    OBVIOUS
  <2>1. FirstsOf(paths, n - 1, out[n - 1]) /\ n \in 0..N
    OBVIOUS
  <2>2. FirstsOf(paths, n, AddUnseen(out[n - 1], paths[n]))
    BY <2>1, AddKeepsFirsts
  <2> QED
    BY <1>1, <2>1, <2>2
<1>4. N \in Nat
  OBVIOUS
<1>5. \A n \in 0..N : n \in T
  <2> HIDE DEF T, N
  <2> QED
    BY <1>2, <1>3, <1>4, CountingUp
<1> QED
  BY <1>1, <1>4, <1>5

-----------------------------------------------------------------------------
(* The search: its loops.                                                  *)

(* What the search has looked at after channel c of base i.                *)
Seen(i, c, j, d) == j < i \/ (j = i /\ d <= c)

NoneSeen(bases, S, i, c) ==
  \A j \in 1..i, d \in Channel : Seen(i, c, j, d) => Candidate(bases[j], d) \notin S

FirstSeen(found, bases, S, i, c) ==
  \E j \in 1..i, d \in Channel :
    Seen(i, c, j, d) /\ found = Candidate(bases[j], d) /\ Foremost(bases, S, j, d)

SearchState == [found : Seq(FolderName) \cup {None}, first_dir : Seq(FolderName) \cup {None}]

(* What the loop has in hand by then.                                      *)
SearchedTo(bases, fs, i, c, r) ==
  /\ r \in SearchState
  /\ r.found # None => FirstSeen(r.found, bases, fs.logs, i, c)
  /\ r.found = None => NoneSeen(bases, fs.logs, i, c)
  /\ r.found = None /\ r.first_dir # None => FirstSeen(r.first_dir, bases, fs.dirs, i, c)
  /\ r.found = None /\ r.first_dir = None => NoneSeen(bases, fs.dirs, i, c)

LEMMA TwoChannels == Channel = 1..2
BY DEF Channel, STAR_CITIZEN_CHANNELS

LEMMA CandidateIsPath ==
  ASSUME NEW base \in Seq(FolderName), NEW c \in Channel
  PROVE  Candidate(base, c) \in Seq(FolderName) /\ Candidate(base, c) # None
<1>1. STAR_CITIZEN_CHANNELS[c] \in FolderName
  BY Channels, TwoChannels DEF FolderName, STAR_CITIZEN_CHANNELS
<1>2. Candidate(base, c) \in Seq(FolderName)
  BY <1>1 DEF Candidate
<1> QED
  BY <1>2, NoneAssumption

(* One more candidate is in S, and then the first if none was before; or   *)
(* it is not.                                                              *)
LEMMA OneMoreSeen ==
  ASSUME NEW bases, NEW S, NEW i \in Nat, i >= 1, NEW c \in Channel
  PROVE  /\ \A found : FirstSeen(found, bases, S, i, c - 1) => FirstSeen(found, bases, S, i, c)
         /\ NoneSeen(bases, S, i, c - 1) /\ Candidate(bases[i], c) \in S
              => FirstSeen(Candidate(bases[i], c), bases, S, i, c)
         /\ NoneSeen(bases, S, i, c - 1) /\ Candidate(bases[i], c) \notin S
              => NoneSeen(bases, S, i, c)
<1>1. i \in 1..i /\ Seen(i, c, i, c) /\ Channel = 1..2
  BY TwoChannels DEF Seen
<1>2. ASSUME NEW j \in 1..i, NEW d \in Channel
      PROVE  /\ Seen(i, c - 1, j, d) => Seen(i, c, j, d)
             /\ Seen(i, c, j, d) => Seen(i, c - 1, j, d) \/ (j = i /\ d = c)
  BY TwoChannels DEF Seen
<1>3. \A found : FirstSeen(found, bases, S, i, c - 1) => FirstSeen(found, bases, S, i, c)
  BY <1>2 DEF FirstSeen
<1>4. ASSUME NoneSeen(bases, S, i, c - 1), Candidate(bases[i], c) \in S
      PROVE  FirstSeen(Candidate(bases[i], c), bases, S, i, c)
  <2>1. \A d \in 1..(c - 1) : d \in Channel /\ Seen(i, c - 1, i, d)
    BY TwoChannels DEF Seen
  <2>2. \A j \in 1..(i - 1), d \in Channel : j \in 1..i /\ Seen(i, c - 1, j, d)
    BY DEF Seen
  <2>3. Foremost(bases, S, i, c)
    BY <1>1, <1>4, <2>1, <2>2 DEF NoneSeen, Foremost
  <2> QED
    BY <1>1, <2>3 DEF FirstSeen
<1>5. ASSUME NoneSeen(bases, S, i, c - 1), Candidate(bases[i], c) \notin S
      PROVE  NoneSeen(bases, S, i, c)
  BY <1>2, <1>5 DEF NoneSeen
<1> QED
  BY <1>3, <1>4, <1>5

LEMMA LookSearches ==
  ASSUME NEW bases \in Seq(Seq(FolderName)), NEW fs, fs.logs \subseteq fs.dirs,
         NEW i \in 1..Len(bases), NEW c \in Channel,
         NEW r, SearchedTo(bases, fs, i, c - 1, r)
  PROVE  SearchedTo(bases, fs, i, c, Look(fs, r, Candidate(bases[i], c)))
<1>1. PICK x : x = Candidate(bases[i], c)
  OBVIOUS
<1>2. x \in Seq(FolderName) /\ x # None
  BY <1>1, CandidateIsPath
<1>3. i \in Nat /\ i >= 1
  OBVIOUS
<1>4. /\ \A found : FirstSeen(found, bases, fs.logs, i, c - 1)
                      => FirstSeen(found, bases, fs.logs, i, c)
      /\ NoneSeen(bases, fs.logs, i, c - 1) /\ x \in fs.logs
           => FirstSeen(x, bases, fs.logs, i, c)
      /\ NoneSeen(bases, fs.logs, i, c - 1) /\ x \notin fs.logs => NoneSeen(bases, fs.logs, i, c)
  BY <1>1, <1>3, OneMoreSeen
<1>5. /\ \A found : FirstSeen(found, bases, fs.dirs, i, c - 1)
                      => FirstSeen(found, bases, fs.dirs, i, c)
      /\ NoneSeen(bases, fs.dirs, i, c - 1) /\ x \in fs.dirs
           => FirstSeen(x, bases, fs.dirs, i, c)
      /\ NoneSeen(bases, fs.dirs, i, c - 1) /\ x \notin fs.dirs => NoneSeen(bases, fs.dirs, i, c)
  BY <1>1, <1>3, OneMoreSeen
<1>6. PICK new : new = Look(fs, r, x)
  OBVIOUS
<1>7. /\ r \in SearchState
      /\ r.found # None => FirstSeen(r.found, bases, fs.logs, i, c - 1)
      /\ r.found = None => NoneSeen(bases, fs.logs, i, c - 1)
      /\ r.found = None /\ r.first_dir # None => FirstSeen(r.first_dir, bases, fs.dirs, i, c - 1)
      /\ r.found = None /\ r.first_dir = None => NoneSeen(bases, fs.dirs, i, c - 1)
  BY DEF SearchedTo
<1>8. CASE r.found # None
  <2>1. new = r
    BY <1>6, <1>8 DEF Look
  <2> QED
    BY <1>1, <1>4, <1>6, <1>7, <1>8, <2>1 DEF SearchedTo
<1>9. CASE r.found = None /\ x \in fs.logs
  <2>1. new = [r EXCEPT !.found = x]
    BY <1>6, <1>9 DEF Look
  <2>2. new \in SearchState /\ new.found = x
    BY <1>2, <1>7, <2>1 DEF SearchState
  <2> QED
    BY <1>1, <1>2, <1>4, <1>6, <1>7, <1>9, <2>2 DEF SearchedTo
<1>10. CASE r.found = None /\ x \notin fs.logs /\ r.first_dir = None /\ x \in fs.dirs
  <2>1. new = [r EXCEPT !.first_dir = x]
    BY <1>6, <1>10 DEF Look
  <2>2. new \in SearchState /\ new.found = None /\ new.first_dir = x
    BY <1>2, <1>7, <1>10, <2>1 DEF SearchState
  <2> QED
    BY <1>1, <1>2, <1>4, <1>5, <1>6, <1>7, <1>10, <2>2 DEF SearchedTo
<1>11. CASE r.found = None /\ x \notin fs.logs /\ ~(r.first_dir = None /\ x \in fs.dirs)
  <2>1. new = r
    BY <1>6, <1>11 DEF Look
  <2> QED
    BY <1>1, <1>4, <1>5, <1>6, <1>7, <1>11, <2>1 DEF SearchedTo
<1> QED
  BY <1>8, <1>9, <1>10, <1>11

LEMMA LookUnderSearches ==
  ASSUME NEW bases \in Seq(Seq(FolderName)), NEW fs, fs.logs \subseteq fs.dirs,
         NEW n \in 1..Len(bases), NEW r, SearchedTo(bases, fs, n - 1, 2, r)
  PROVE  SearchedTo(bases, fs, n, 2, LookUnder(fs, r, bases[n]))
<1>1. SearchedTo(bases, fs, n, 0, r)
  <2>1. /\ \A j \in 1..n, d \in Channel : Seen(n, 0, j, d) => j \in 1..(n - 1)
        /\ \A j \in 1..(n - 1), d \in Channel :
             j \in 1..n /\ Seen(n, 0, j, d) /\ Seen(n - 1, 2, j, d)
    BY TwoChannels DEF Seen
  <2>2. \A S : NoneSeen(bases, S, n - 1, 2) => NoneSeen(bases, S, n, 0)
    BY <2>1 DEF NoneSeen
  <2>3. \A S, x : FirstSeen(x, bases, S, n - 1, 2) => FirstSeen(x, bases, S, n, 0)
    BY <2>1 DEF FirstSeen
  <2> QED
    BY <2>2, <2>3 DEF SearchedTo
<1>2. 1 \in Channel /\ 2 \in Channel /\ 1 - 1 = 0 /\ 2 - 1 = 1
  BY TwoChannels
<1>3. PICK half : half = Look(fs, r, Candidate(bases[n], 1))
  OBVIOUS
<1>4. SearchedTo(bases, fs, n, 1, half)
  BY <1>1, <1>2, <1>3, LookSearches
<1>5. SearchedTo(bases, fs, n, 2, Look(fs, half, Candidate(bases[n], 2)))
  BY <1>2, <1>4, LookSearches
<1> QED
  BY <1>3, <1>5 DEF LookUnder

LEMMA SearchRuns ==
  ASSUME NEW bases \in Seq(Seq(FolderName)), NEW fs
  PROVE  \E so_far :
           /\ so_far[0] = [found |-> None, first_dir |-> None]
           /\ \A k \in 1..Len(bases) : so_far[k] = LookUnder(fs, so_far[k - 1], bases[k])
           /\ Search(bases, fs) = so_far[Len(bases)]
<1> DEFINE N == Len(bases)
           V == SearchState
           none == [found |-> None, first_dir |-> None]
           turn == [n \in 1..N |-> [b \in V |-> LookUnder(fs, b, bases[n])]]
           Def(f) == [n \in 0..N |-> IF n = 0 THEN none ELSE LookUnder(fs, f[n - 1], bases[n])]
<1>1. N \in Nat /\ none \in V
  BY DEF SearchState
<1>2. ASSUME NEW b \in V, NEW x \in Seq(FolderName)
      PROVE  Look(fs, b, x) \in V
  BY DEF Look, SearchState
<1>3. ASSUME NEW b \in V, NEW n \in 1..N
      PROVE  LookUnder(fs, b, bases[n]) \in V
  <2>1. bases[n] \in Seq(FolderName) /\ 1 \in Channel /\ 2 \in Channel
    BY TwoChannels
  <2>2. Candidate(bases[n], 1) \in Seq(FolderName) /\ Candidate(bases[n], 2) \in Seq(FolderName)
    BY <2>1, CandidateIsPath
  <2> QED
    BY <1>2, <2>2 DEF LookUnder
<1>4. turn \in [1..N -> [V -> V]]
  BY <1>3
<1>5. \A b \in V, n \in 1..N : turn[n][b] = LookUnder(fs, b, bases[n])
  OBVIOUS
<1> HIDE DEF V, turn, N, none
<1>a. IsLoop(N, V, none, turn)
  BY <1>1, <1>4 DEF IsLoop
<1>b. PICK run : IsRun(run, N, V, none, turn)
  BY <1>a, LoopHasRun
<1>6. /\ run \in [0..N -> V]
      /\ run[0] = none
      /\ \A k \in 1..N : run[k] = turn[k][run[k - 1]]
  BY <1>b DEF IsRun
<1>7. \A k \in 1..N : run[k] = LookUnder(fs, run[k - 1], bases[k])
  <2>1. \A k \in 1..N : k - 1 \in 0..N
    BY <1>1
  <2> QED
    BY <1>5, <1>6, <2>1
<1>8. run = Def(run)
  BY <1>6, <1>7
<1>9. PICK so_far : so_far = CHOOSE f : f = Def(f)
  OBVIOUS
<1>10. so_far = Def(so_far)
  BY <1>8, <1>9
<1>11. Search(bases, fs) = so_far[N]
  BY <1>9 DEF Search, N, none
<1>12. \A k \in 1..N : k \in 0..N /\ k # 0
  BY <1>1
<1>13. /\ so_far[0] = none
       /\ \A k \in 1..N : so_far[k] = LookUnder(fs, so_far[k - 1], bases[k])
  BY <1>1, <1>10, <1>12
<1> QED
  BY <1>11, <1>13 DEF N, none

LEMMA SearchLooksAtAll ==
  ASSUME NEW bases \in Seq(Seq(FolderName)), NEW fs, fs.logs \subseteq fs.dirs
  PROVE  SearchedTo(bases, fs, Len(bases), 2, Search(bases, fs))
<1>1. PICK so_far :
        /\ so_far[0] = [found |-> None, first_dir |-> None]
        /\ \A k \in 1..Len(bases) : so_far[k] = LookUnder(fs, so_far[k - 1], bases[k])
        /\ Search(bases, fs) = so_far[Len(bases)]
  BY SearchRuns
<1> DEFINE N == Len(bases)
           T == {n \in 0..N : SearchedTo(bases, fs, n, 2, so_far[n])}
<1>2. 0 \in T
  <2>1. SearchedTo(bases, fs, 0, 2, so_far[0])
    BY <1>1 DEF SearchedTo, SearchState, NoneSeen
  <2> QED
    BY <2>1
<1>3. \A n \in 1..N : n - 1 \in T => n \in T
  <2> SUFFICES ASSUME NEW n \in 1..N, n - 1 \in T
               PROVE  n \in T
    OBVIOUS
  <2>1. SearchedTo(bases, fs, n - 1, 2, so_far[n - 1]) /\ n \in 0..N
    OBVIOUS
  <2>2. SearchedTo(bases, fs, n, 2, LookUnder(fs, so_far[n - 1], bases[n]))
    BY <2>1, LookUnderSearches
  <2> QED
    BY <1>1, <2>1, <2>2
<1>4. N \in Nat
  OBVIOUS
<1>5. \A n \in 0..N : n \in T
  <2> HIDE DEF T, N
  <2> QED
    BY <1>2, <1>3, <1>4, CountingUp
<1> QED
  BY <1>1, <1>4, <1>5

(* The first of the bases without their repetitions is the first of them   *)
(* all, and where nothing is there is nothing.                             *)
LEMMA RepetitionsDoNotMatter ==
  ASSUME NEW paths \in Seq(Seq(FolderName)), NEW S,
         NEW bases, bases = unique_paths(paths)
  PROVE  /\ bases \in Seq(Seq(FolderName))
         /\ \A found : FirstSeen(found, bases, S, Len(bases), 2) => FirstOf(found, paths, S)
         /\ NoneSeen(bases, S, Len(bases), 2)
              => \A i \in DOMAIN paths, c \in Channel : Candidate(paths[i], c) \notin S
<1>1. /\ bases \in Seq(Seq(FolderName))
      /\ \A k \in 1..Len(bases) : \E j \in 1..Len(paths) :
           /\ bases[k] = paths[j]
           /\ \A i \in 1..(j - 1) : \E l \in 1..(k - 1) : bases[l] = paths[i]
      /\ \A j \in 1..Len(paths) : \E k \in 1..Len(bases) : bases[k] = paths[j]
  <2>1. FirstsOf(paths, Len(paths), bases)
    BY UniqueKeepsFirsts
  <2> QED
    BY <2>1 DEF FirstsOf
<1>2. ASSUME NEW found, FirstSeen(found, bases, S, Len(bases), 2)
      PROVE  FirstOf(found, paths, S)
  <2>1. PICK k \in 1..Len(bases), d \in Channel :
          found = Candidate(bases[k], d) /\ Foremost(bases, S, k, d)
    BY <1>2 DEF FirstSeen
  <2>2. PICK j \in 1..Len(paths) :
          /\ bases[k] = paths[j]
          /\ \A i \in 1..(j - 1) : \E l \in 1..(k - 1) : bases[l] = paths[i]
    BY <1>1
  <2>3. /\ Candidate(bases[k], d) \in S
        /\ \A e \in 1..(d - 1) : Candidate(bases[k], e) \notin S
        /\ \A l \in 1..(k - 1), e \in Channel : Candidate(bases[l], e) \notin S
    BY <2>1 DEF Foremost
  <2>4. ASSUME NEW i \in 1..(j - 1), NEW e \in Channel
        PROVE  Candidate(paths[i], e) \notin S
    <3>1. PICK l \in 1..(k - 1) : bases[l] = paths[i]
      BY <2>2
    <3>2. Candidate(bases[l], e) \notin S
      BY <2>3
    <3> QED
      BY <3>1, <3>2
  <2>5. Foremost(paths, S, j, d) /\ found = Candidate(paths[j], d)
    BY <2>1, <2>2, <2>3, <2>4 DEF Foremost
  <2>6. j \in DOMAIN paths
    OBVIOUS
  <2> QED
    BY <2>5, <2>6 DEF FirstOf
<1>3. ASSUME NoneSeen(bases, S, Len(bases), 2), NEW i \in DOMAIN paths, NEW c \in Channel
      PROVE  Candidate(paths[i], c) \notin S
  <2>0. i \in 1..Len(paths)
    OBVIOUS
  <2>1. PICK k \in 1..Len(bases) : bases[k] = paths[i]
    BY <1>1, <2>0
  <2>2. Seen(Len(bases), 2, k, c)
    BY <1>1, TwoChannels DEF Seen
  <2>3. Candidate(bases[k], c) \notin S
    BY <1>3, <2>2 DEF NoneSeen
  <2> QED
    BY <2>1, <2>3
<1> QED
  BY <1>1, <1>2, <1>3

(* What is found does not depend on the run: in every state, whatever the  *)
(* disks hold.                                                             *)
LEMMA SearchFinds == SearchFindsLog
<1> SUFFICES ASSUME ~Configured, NEW fs \in FileSystem, NEW found, found = ByHandFollows(disk, fs)
             PROVE  /\ fs.logs # {} => FirstOf(found, Bases, fs.logs)
                    /\ fs.logs = {} /\ fs.dirs # {} => FirstOf(found, Bases, fs.dirs)
                    /\ fs.logs = {} /\ fs.dirs = {} => found = Fallback
  BY DEF SearchFindsLog
<1>1. /\ fs.logs \subseteq fs.dirs
      /\ \A S : S = fs.logs \/ S = fs.dirs => \A x \in S :
           \E i \in DOMAIN Bases, c \in Channel : x = Candidate(Bases[i], c)
  BY DEF FileSystem, LookedAt
<1>2. PICK bases : bases = unique_paths(Bases)
  OBVIOUS
<1>3. PICK r : r = Search(bases, fs)
  OBVIOUS
<1>4. bases \in Seq(Seq(FolderName))
  BY <1>2, BasesAssumption, RepetitionsDoNotMatter
<1>5. SearchedTo(bases, fs, Len(bases), 2, r)
  BY <1>1, <1>3, <1>4, SearchLooksAtAll
<1>6. ASSUME NEW S, S = fs.logs \/ S = fs.dirs
      PROVE  /\ \A x : FirstSeen(x, bases, S, Len(bases), 2) => FirstOf(x, Bases, S)
             /\ NoneSeen(bases, S, Len(bases), 2) => S = {}
  <2>1. /\ \A x : FirstSeen(x, bases, S, Len(bases), 2) => FirstOf(x, Bases, S)
        /\ NoneSeen(bases, S, Len(bases), 2)
             => \A i \in DOMAIN Bases, c \in Channel : Candidate(Bases[i], c) \notin S
    BY <1>2, BasesAssumption, RepetitionsDoNotMatter
  <2>2. \A x \in S : \E i \in DOMAIN Bases, c \in Channel : x = Candidate(Bases[i], c)
    BY <1>1, <1>6
  <2> QED
    BY <2>1, <2>2
<1>7. /\ r.found # None => FirstOf(r.found, Bases, fs.logs)
      /\ r.found = None => fs.logs = {}
      /\ r.found = None /\ r.first_dir # None => FirstOf(r.first_dir, Bases, fs.dirs)
      /\ r.found = None /\ r.first_dir = None => fs.dirs = {}
  <2>1. /\ r.found # None => FirstSeen(r.found, bases, fs.logs, Len(bases), 2)
        /\ r.found = None => NoneSeen(bases, fs.logs, Len(bases), 2)
        /\ r.found = None /\ r.first_dir # None
             => FirstSeen(r.first_dir, bases, fs.dirs, Len(bases), 2)
        /\ r.found = None /\ r.first_dir = None => NoneSeen(bases, fs.dirs, Len(bases), 2)
    BY <1>5 DEF SearchedTo
  <2> QED
    BY <1>6, <2>1
<1>8. found = IF r.found # None THEN r.found
              ELSE IF r.first_dir # None THEN r.first_dir ELSE Fallback
  BY <1>2, <1>3 DEF Configured, ByHandFollows, resolve_default_log_path
<1>9. r.found # None => fs.logs # {}
  BY <1>7 DEF FirstOf, Foremost
<1>10. r.first_dir # None /\ r.found = None => fs.dirs # {}
  BY <1>7 DEF FirstOf, Foremost
<1> QED
  BY <1>7, <1>8, <1>9, <1>10

-----------------------------------------------------------------------------
(* The settings.                                                           *)

SettingsTypeOK ==
  /\ gui \in {"up", "down"}
  /\ disk \in Config \cup {Torn}
  /\ mem \in Config
  /\ entry \in GameDir
  /\ label \in Log
  /\ saving \in {"no", "settings", "start", "import", "dialog"}
  /\ launched \in Log \cup {None}
  /\ gui = "down" => saving = "no"

(* While the file is written for a directory, the entry field still shows  *)
(* the one that is saved: no callback and no other handler runs.           *)
SavesTheEntry ==
  saving \in {"settings", "start", "import"} =>
    /\ entry # None
    /\ mem.game_install_dir = build_settings_save_result(entry).game_dir

SettingsInv == SettingsTypeOK /\ SavesTheEntry /\ LaunchAgrees

LEMMA EntryIsDirectory ==
  ASSUME NEW e \in GameDir, e # None
  PROVE  /\ IsDirectory(e)
         /\ build_settings_save_result(e).game_dir \in GameDir
<1>1. CASE e \in Given
  BY <1>1, DirAssumption DEF GameDir
<1>2. CASE \E d \in Given : e = build_settings_save_result(d).game_dir
  BY <1>2, DirAssumption, Saved
<1> QED
  BY <1>1, <1>2 DEF GameDir

LEMMA ConfigFields ==
  ASSUME NEW c \in Config
  PROVE  c.game_install_dir \in GameDir /\ configured_log_path(c) \in Log
BY DEF Config, Log

LEMMA EmptyIsConfig == Empty \in Config /\ configured_log_path(Empty) = Nowhere
<1>1. Empty \in Config
  BY DEF Empty, Config, GameDir
<1>2. configured_log_path(Empty) = Nowhere
  BY DEF Empty, configured_log_path, resolve_log_path_from_config
<1> QED
  BY <1>1, <1>2

LEMMA LoadIsConfig ==
  ASSUME NEW file \in Config \cup {Torn}
  PROVE  load_config(file) \in Config
BY EmptyIsConfig DEF load_config

(* A step that starts no watcher and is not under way in a write keeps the *)
(* promises about both.                                                    *)
LEMMA NothingLaunched ==
  ASSUME launched' = None, saving' \notin {"settings", "start", "import"}
  PROVE  SavesTheEntry' /\ LaunchAgrees'
BY DEF SavesTheEntry, LaunchAgrees

LEMMA SaveKeeps ==
  ASSUME SettingsInv, NEW for \in {"settings", "start", "import"}, SaveInline(for)
  PROVE  SettingsInv'
<1> DEFINE g == build_settings_save_result(entry).game_dir
<1>1. /\ gui = "up" /\ entry # None /\ saving' = for /\ disk' = Torn /\ launched' = None
      /\ mem' = [mem EXCEPT !.game_install_dir = g, !.log_path = None]
      /\ UNCHANGED <<gui, entry, label>>
  BY DEF SaveInline
<1>2. g \in GameDir
  BY <1>1, EntryIsDirectory DEF SettingsInv, SettingsTypeOK
<1> HIDE DEF g
<1>3. mem' \in Config /\ mem'.game_install_dir = g
  BY <1>1, <1>2 DEF SettingsInv, SettingsTypeOK, Config
<1>4. SettingsTypeOK'
  BY <1>1, <1>3 DEF SettingsInv, SettingsTypeOK
<1>5. SavesTheEntry' /\ LaunchAgrees'
  BY <1>1, <1>3 DEF SavesTheEntry, LaunchAgrees, g
<1> QED
  BY <1>4, <1>5 DEF SettingsInv

LEMMA WriteKeeps ==
  ASSUME SettingsInv, WriteEnds
  PROVE  SettingsInv'
<1>1. /\ disk' = mem /\ saving' = "no" /\ UNCHANGED <<gui, mem>> /\ mem \in Config
      /\ launched' = None \/ (saving = "start" /\ launched' = configured_log_path(mem))
      /\ (entry' = entry /\ label' = label)
           \/ (entry' = mem.game_install_dir /\ label' = configured_log_path(mem))
      /\ saving = "start" => entry' = mem.game_install_dir /\ label' = configured_log_path(mem)
  BY DEF WriteEnds, Show, SettingsInv, SettingsTypeOK
<1>2. SettingsTypeOK'
  BY <1>1, ConfigFields DEF SettingsInv, SettingsTypeOK
<1>3. LaunchAgrees'
  <2>1. CASE launched' = None
    BY <2>1 DEF LaunchAgrees
  <2>2. CASE launched' # None
    <3>1. /\ saving = "start" /\ launched' = configured_log_path(mem)
          /\ entry' = mem.game_install_dir /\ label' = configured_log_path(mem)
      BY <1>1, <2>2
    <3>2. /\ entry \in GameDir /\ entry # None
          /\ entry' = build_settings_save_result(entry).game_dir
      BY <3>1 DEF SettingsInv, SettingsTypeOK, SavesTheEntry
    <3>3. IsDirectory(entry') /\ Name(entry') # "HOTFIX"
      BY <3>2, EntryIsDirectory, Saved
    <3>4. /\ entry' # None
          /\ configured_log_path(mem) = Append(InstallRoot(entry'), "LIVE")
          /\ build_settings_save_result(entry').log_path = Append(InstallRoot(entry'), "LIVE")
          /\ \A fs : resolve_default_log_path(mem, Bases, fs, Fallback)
                       = Append(InstallRoot(entry'), "LIVE")
      BY <3>1, <3>3, SavedLog
    <3>5. load_config(disk') = mem
      BY <1>1, FileAssumption DEF load_config
    <3> QED
      BY <3>1, <3>4, <3>5 DEF LaunchAgrees, ByHandFollows
  <2> QED
    BY <2>1, <2>2
<1> QED
  BY <1>1, <1>2, <1>3 DEF SettingsInv, SavesTheEntry

LEMMA SettingsUnchanged ==
  ASSUME SettingsInv, UNCHANGED settingsVars, launched' \in {None, launched}
  PROVE  SettingsInv'
<1>1. UNCHANGED <<gui, disk, mem, entry, label, saving>>
  BY DEF settingsVars
<1>2. SettingsTypeOK' /\ SavesTheEntry'
  BY <1>1 DEF SettingsInv, SettingsTypeOK, SavesTheEntry
<1>3. LaunchAgrees'
  BY <1>1 DEF SettingsInv, LaunchAgrees, ByHandFollows
<1> QED
  BY <1>2, <1>3 DEF SettingsInv

LEMMA SettingsKept ==
  ASSUME SettingsInv, [Next]_vars
  PROVE  SettingsInv'
<1>1. CASE Type
  <2>1. /\ saving = "no" /\ entry' \in Dir \cup {None} /\ launched' = None
        /\ UNCHANGED <<gui, disk, mem, label, saving>>
    BY <1>1 DEF Type
  <2>2. entry' \in GameDir
    BY <2>1 DEF GameDir, Given
  <2>3. SettingsTypeOK'
    BY <2>1, <2>2 DEF SettingsInv, SettingsTypeOK
  <2> QED
    BY <2>1, <2>3, NothingLaunched DEF SettingsInv
<1>2. CASE PressSave \/ PressStart \/ PressImport
  BY <1>2, SaveKeeps DEF PressSave, PressStart, PressImport
<1>3. CASE SaveDialog
  <2>1. PICK action \in {"tray", "exit"} : mem' = [mem EXCEPT !.close_action = action]
    BY <1>3 DEF SaveDialog
  <2>2. /\ gui = "up" /\ saving' = "dialog" /\ disk' = Torn /\ launched' = None
        /\ UNCHANGED <<gui, entry, label>>
    BY <1>3 DEF SaveDialog
  <2>3. mem' \in Config
    BY <2>1 DEF SettingsInv, SettingsTypeOK, Config
  <2>4. SettingsTypeOK'
    BY <2>2, <2>3 DEF SettingsInv, SettingsTypeOK
  <2> QED
    BY <2>2, <2>4, NothingLaunched DEF SettingsInv
<1>4. CASE WriteFails
  <2>1. saving' = "no" /\ launched' = None /\ UNCHANGED <<gui, disk, mem, entry, label>>
    BY <1>4 DEF WriteFails
  <2>2. SettingsTypeOK'
    BY <2>1 DEF SettingsInv, SettingsTypeOK
  <2> QED
    BY <2>1, <2>2, NothingLaunched DEF SettingsInv
<1>5. CASE WriteEnds
  BY <1>5, WriteKeeps
<1>6. CASE Reload \/ Restart
  <2>1. /\ mem' = load_config(disk) /\ disk' = disk /\ gui' = "up" /\ launched' = None
        /\ entry' = mem'.game_install_dir /\ label' = configured_log_path(mem')
        /\ UNCHANGED saving
    BY <1>6 DEF Reload, Restart, Show
  <2>2. mem' \in Config /\ entry' \in GameDir /\ label' \in Log
    BY <2>1, LoadIsConfig, ConfigFields DEF SettingsInv, SettingsTypeOK
  <2>3. saving = "no"
    BY <1>6 DEF Reload, Restart, SettingsInv, SettingsTypeOK
  <2>4. SettingsTypeOK'
    BY <2>1, <2>2 DEF SettingsInv, SettingsTypeOK
  <2> QED
    BY <2>1, <2>3, <2>4, NothingLaunched DEF SettingsInv
<1>7. CASE Edited
  <2>1. /\ disk' \in Config \cup {Torn} /\ saving = "no" /\ launched' = None
        /\ UNCHANGED <<gui, mem, entry, label, saving>>
    BY <1>7, FileAssumption DEF Edited
  <2>2. SettingsTypeOK'
    BY <2>1 DEF SettingsInv, SettingsTypeOK
  <2> QED
    BY <2>1, <2>2, NothingLaunched DEF SettingsInv
<1>8. CASE Crash
  <2>1. /\ gui' = "down" /\ saving' = "no" /\ launched' = None /\ mem' = Empty /\ disk' = disk
        /\ entry' = Empty.game_install_dir /\ label' = configured_log_path(Empty)
    BY <1>8 DEF Crash, Show
  <2>2. SettingsTypeOK'
    BY <2>1, EmptyIsConfig, ConfigFields DEF SettingsInv, SettingsTypeOK
  <2> QED
    BY <2>1, <2>2, NothingLaunched DEF SettingsInv
<1>9. CASE AtRest(PressTests) \/ AtRest(RunPosted) \/ TaskStep(ImportWorker) \/ TaskStep(TestWorker)
  BY <1>9, SettingsUnchanged DEF AtRest, TaskStep
<1>10. CASE UNCHANGED vars
  BY <1>10, SettingsUnchanged DEF vars
<1> QED
  BY <1>1, <1>2, <1>3, <1>4, <1>5, <1>6, <1>7, <1>8, <1>9, <1>10 DEF Next, User

LEMMA SettingsHold == Spec => [](SettingsInv /\ TasksInv)
<1>1. Init => SettingsInv /\ TasksInv
  <2> SUFFICES ASSUME Init
               PROVE  SettingsInv /\ TasksInv
    OBVIOUS
  <2>1. SettingsTypeOK
    BY EmptyIsConfig, ConfigFields DEF Init, SettingsTypeOK, GameDir
  <2>2. SavesTheEntry /\ LaunchAgrees
    BY DEF Init, SavesTheEntry, LaunchAgrees
  <2>3. TasksInv
    BY StartHolds DEF Init
  <2> QED
    BY <2>1, <2>2, <2>3 DEF SettingsInv
<1>2. (SettingsInv /\ TasksInv) /\ [Next]_vars => (SettingsInv /\ TasksInv)'
  BY SettingsKept, TasksKept
<1> QED
  BY <1>1, <1>2, PTL DEF Spec

(* Every variable of the window and of its threads keeps its type, however *)
(* writes, crashes, edits of the file and callbacks interleave.            *)
THEOREM SettingsTypeCorrect == Spec => []TypeOK
<1>1. SettingsInv /\ TasksInv => TypeOK
  BY DEF SettingsInv, SettingsTypeOK, TasksInv, TypeOK
<1> QED
  BY <1>1, SettingsHold, PTL

(* A watcher is started only for the directory the user sees, with the log *)
(* that the window shows, that the saved result names and that a watcher   *)
(* started by hand would find: for any directories, search bases, files    *)
(* written by hand and disks (watcher_gui.py:1033-1066, paths.py:30-104).  *)
THEOREM LaunchAgreesCorrect == Spec => []LaunchAgrees
<1>1. SettingsInv /\ TasksInv => LaunchAgrees
  BY DEF SettingsInv
<1> QED
  BY <1>1, SettingsHold, PTL

(* A watcher started by hand without a configuration finds the first log,  *)
(* else the first directory for one, of any list of bases with any         *)
(* repetitions, whatever is on the disks (paths.py:44-104).                *)
THEOREM SearchFindsLogCorrect == Spec => []SearchFindsLog
<1>1. SettingsInv /\ TasksInv => SearchFindsLog
  BY SearchFinds
<1> QED
  BY <1>1, SettingsHold, PTL

(* When no run of the tests is under way the window shows, for each group  *)
(* that ran, what it came to, and a pass only when all passed: whatever    *)
(* the import posts in between, and whatever crashes or is reloaded        *)
(* (watcher_gui.py:880-933).                                               *)
THEOREM TestsShowThisRunCorrect == Spec => []TestsShowThisRun
<1>1. SettingsInv /\ TasksInv => TestsShowThisRun
  BY RestShowsVerdicts
<1> QED
  BY <1>1, SettingsHold, PTL
=============================================================================
