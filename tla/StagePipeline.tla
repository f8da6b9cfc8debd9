--------------------------- MODULE StagePipeline ---------------------------
(***************************************************************************)
(* One run of the default (single-shot) flow: run_workflow of workflow.py  *)
(* over the six stages it records in the ledger, interrupted at any step   *)
(* and resumed from what is on disk.                                       *)
(*                                                                         *)
(* The repository is the set of files committed (head) and the set of      *)
(* files changed since (dirty).  A worker call may write any of the files  *)
(* its stage is about, or none (its failures are masked), and may commit   *)
(* by itself.  A review loop that approves and a gate loop that passes are *)
(* one step each, which may contain repairs; how they decide is the        *)
(* subject of ReviewLoop.  What a worker call may not do to protected      *)
(* files is the subject of ProtectedWork.                                  *)
(*                                                                         *)
(* Between two attempts a fresh run may work in the same workspace, on a   *)
(* branch of its own.  Its git switch -c takes along what this run has not *)
(* committed, its commits (git add -A) may put that on its own branch,     *)
(* where this run does not find it again, and it may leave files of its    *)
(* own in the tree.  Attempts that overlap in time are the subject of      *)
(* RunLifecycle.                                                           *)
(***************************************************************************)
EXTENDS Integers, FiniteSets

CONSTANTS
  NTests,    \* number of test files the test author may write
  NTasks,    \* number of task lines in plan.md
  NoFile,    \* a state file that does not exist
  MaxStops   \* bound on aborts and deaths of the attempt

ASSUME CountsAssumption == NTests \in Nat /\ NTasks \in Nat \ {0}
ASSUME MaxStopsAssumption == MaxStops \in Nat

SpecFile == <<"spec", 0>>
PlanFile == <<"plan", 0>>
TestFiles == {<<"test", i>> : i \in 1..NTests}
CodeFiles == {<<"code", i>> : i \in 1..NTasks}
OtherTest == <<"other", 0>>
SpecDir == {SpecFile, PlanFile}
Files == SpecDir \union TestFiles \union CodeFiles \union {OtherTest}

ASSUME NoFileAssumption ==
  /\ \A n \in 0..NTasks : NoFile # n
  /\ \A F, G \in SUBSET Files : NoFile # F /\ NoFile # <<F, G>>

StageNames == {"write-spec", "commit-spec", "write-implementation-plan",
               "write-acceptance-tests", "write-code",
               "final-review-and-fixes"}

\* Steps at which an attempt is inside a stage body, after the stage's name.
SpecSteps == {"spec", "specReview", "specGate", "specEnd"}
CommitSteps == {"commit", "commitEnd"}
PlanSteps == {"plan", "planReview", "planGate", "planCommit", "planEnd"}
TestSteps == {"tests", "testsWork", "testsReview", "testsCommit", "testsBase",
              "testsList", "testsEnd"}
CodeSteps == {"code", "task", "taskGate", "taskCommit", "taskPop", "taskMark",
              "codeGate", "codeReview", "codeCommit", "codeEnd"}
FinalSteps == {"final", "finalGate", "finalReview", "finalCommit", "finalEnd"}
Steps == {"down", "start", "activate", "finish", "done"} \union StageNames
         \union SpecSteps \union CommitSteps \union PlanSteps \union TestSteps
         \union CodeSteps \union FinalSteps

\* Steps at which product code is written or repaired.
Implementing == CodeSteps \union FinalSteps

VARIABLES
  pc,        \* the next step of the attempt; "down": no attempt is alive
  ledger,    \* ledger.json: the stages recorded complete
  queue,     \* tasks-remaining: number of its lines, or NoFile
  runBase,   \* run-base: the commit the run started on
  accBase,   \* acceptance-test-base: the commit the test stage started on
  protList,  \* protected-tests.txt
  protBase,  \* protected-base.sha
  head,      \* files (as last written) in the HEAD commit
  dirty,     \* files changed in the working tree since HEAD
  active,    \* memory: the protected controls, <<list, base>> or NoFile
  written,   \* history: files written by worker calls of this run
  carried,   \* history: of these, the ones whose changes another run has
             \* carried to its branch and that were not written again since
  approved,  \* history: stages whose review loop has approved
  settled,   \* history: tasks whose call, build gate and commit all went by
  disturbed, \* history: a fresh run has started in the same workspace
  stops      \* number of aborts and deaths so far

state == <<ledger, queue, runBase, accBase>>
controls == <<protList, protBase>>
git == <<head, dirty>>
hist == <<written, carried, approved, settled, disturbed, stops>>
vars == <<pc, state, controls, git, active, hist>>

-----------------------------------------------------------------------------
\* A fresh run: init_live_state has removed the controls of earlier runs.
Init ==
  /\ pc = "start"
  /\ ledger = {} /\ queue = NoFile /\ runBase = NoFile /\ accBase = NoFile
  /\ protList = NoFile /\ protBase = NoFile
  /\ head = {} /\ dirty = {}
  /\ active = NoFile
  /\ written = {} /\ carried = {} /\ approved = {} /\ settled = {}
  /\ disturbed = FALSE /\ stops = 0

\* Mutation: the base is taken anew by every attempt.
RecordAlways(file) == head

\* restore_or_record_base: an existing record is never replaced.
RecordOnce(file) == IF file = NoFile THEN head ELSE file

\* restore_or_record_base(state, "run-base") before the first stage.
Start ==
  /\ pc = "start"
  /\ runBase' = RecordOnce(runBase)
  /\ pc' = "write-spec"
  /\ UNCHANGED <<ledger, queue, accBase, controls, git, active, hist>>

\* begin_stage: a recorded stage is skipped if its artifacts still exist, and
\* the attempt gives up if they do not.
ArtifactsExist(stage) ==
  CASE stage = "write-spec" -> SpecFile \in head \union dirty
    [] stage = "write-implementation-plan" -> PlanFile \in head \union dirty
    [] stage = "write-acceptance-tests" -> protList # NoFile /\ protBase # NoFile
    [] OTHER -> TRUE

Begin(stage, body, after) ==
  /\ pc = stage
  /\ \/ stage \notin ledger /\ pc' = body /\ active' = active
     \/ stage \in ledger /\ ArtifactsExist(stage) /\ pc' = after /\ active' = active
     \/ stage \in ledger /\ ~ArtifactsExist(stage) /\ pc' = "down" /\ active' = NoFile
  /\ UNCHANGED <<state, controls, git, hist>>

\* end_stage: the last step of every stage body.
End(from, stage, to) ==
  /\ pc = from
  /\ ledger' = ledger \union {stage}
  /\ pc' = to
  /\ UNCHANGED <<queue, runBase, accBase, controls, git, active, hist>>

\* Files of F change in the working tree, and the agent may commit everything.
Write(F) ==
  \E changed \in SUBSET F, commits \in BOOLEAN :
    /\ dirty' = IF commits THEN {} ELSE dirty \union changed
    /\ head' = IF commits THEN head \union dirty \union changed ELSE head
    /\ written' = written \union changed
    /\ carried' = carried \ changed

\* work(), and a gate_loop that passes after any number of repairs by work().
Produce(from, to, F) ==
  /\ pc = from
  /\ Write(F)
  /\ pc' = to
  /\ UNCHANGED <<state, controls, active, approved, settled, disturbed, stops>>

\* review_loop: rounds of findings and fixes that end in an approval.
Review(from, to, F, stage) ==
  /\ pc = from
  /\ Write(F)
  /\ approved' = approved \union {stage}
  /\ pc' = to
  /\ UNCHANGED <<state, controls, active, settled, disturbed, stops>>

\* human_gate_spec and human_gate_plan: the human may edit the file and says y.
HumanGate(from, to, file) ==
  /\ pc = from
  /\ \E edited \in SUBSET {file} : dirty' = dirty \union edited
  /\ pc' = to
  /\ UNCHANGED <<state, controls, head, active, hist>>

\* commit_work: the agent is asked to commit, which is a call like any other,
\* and ensure_committed commits what the agent left.
WriteAndCommit(F) ==
  \E changed \in SUBSET F :
    /\ head' = head \union dirty \union changed
    /\ dirty' = {}
    /\ written' = written \union changed
    /\ carried' = carried \ changed

\* Mutation: no ensure_committed after the agent's call.
CommitByAgentOnly(from, to, F) ==
  /\ pc = from
  /\ Write(F)
  /\ pc' = to
  /\ UNCHANGED <<state, controls, active, approved, settled, disturbed, stops>>

Commit(from, to, F) ==
  /\ pc = from
  /\ WriteAndCommit(F)
  /\ pc' = to
  /\ UNCHANGED <<state, controls, active, approved, settled, disturbed, stops>>

\* commit_if_dirty: no call at all when the tree is clean.
CommitIfDirty(from, to, F) ==
  \/ dirty # {} /\ Commit(from, to, F)
  \/ /\ dirty = {} /\ pc = from
     /\ pc' = to
     /\ UNCHANGED <<state, controls, git, active, hist>>

-----------------------------------------------------------------------------
\* Stage write-acceptance-tests.
TestsBase ==
  /\ pc = "tests"
  /\ accBase' = RecordOnce(accBase)
  /\ pc' = "testsWork"
  /\ UNCHANGED <<ledger, queue, runBase, controls, git, active, hist>>

\* record_protected_tests: the base first, then the list, each atomically; the
\* list is what git diff names between the acceptance base and HEAD.
WriteProtectedBase ==
  /\ pc = "testsBase"
  /\ protBase' = head
  /\ pc' = "testsList"
  /\ UNCHANGED <<state, protList, git, active, hist>>

WriteProtectedList ==
  /\ pc = "testsList"
  /\ protList' = (head \ accBase) \ SpecDir
  /\ pc' = "testsEnd"
  /\ UNCHANGED <<state, protBase, git, active, hist>>

\* activate_protected_controls: also after a skipped test stage; a missing file
\* cannot be read and aborts.
Activate ==
  /\ pc = "activate"
  /\ IF protList # NoFile /\ protBase # NoFile
       THEN active' = <<protList, protBase>> /\ pc' = "write-code"
       ELSE active' = NoFile /\ pc' = "down"
  /\ UNCHANGED <<state, controls, git, hist>>

-----------------------------------------------------------------------------
\* Stage write-code: the queue on disk, not plan.md, says what is left to do.
EnsureQueue ==
  /\ pc = "code"
  /\ queue' = IF queue = NoFile THEN NTasks ELSE queue
  /\ pc' = "task"
  /\ UNCHANGED <<ledger, runBase, accBase, controls, git, active, hist>>

FirstTask == NTasks - queue + 1

\* Mutation: one task more than there are.
DoTaskPastEnd ==
  /\ pc = "task"
  /\ Write({<<"code", FirstTask>>})
  /\ pc' = "taskGate"
  /\ UNCHANGED <<state, controls, active, approved, settled, disturbed, stops>>

DoTask ==
  /\ pc = "task" /\ queue > 0
  /\ Write({<<"code", FirstTask>>})
  /\ pc' = "taskGate"
  /\ UNCHANGED <<state, controls, active, approved, settled, disturbed, stops>>

\* Mutation: the task is popped before it is committed.
BuildGateThenPop == Produce("taskGate", "taskPop", CodeFiles)

BuildGate == Produce("taskGate", "taskCommit", CodeFiles)

CommitTask ==
  /\ pc = "taskCommit"
  /\ WriteAndCommit({<<"code", FirstTask>>})
  /\ settled' = settled \union {FirstTask}
  /\ pc' = "taskPop"
  /\ UNCHANGED <<state, controls, active, approved, disturbed, stops>>

PopTask ==
  /\ pc = "taskPop"
  /\ queue' = queue - 1
  /\ pc' = "taskMark"
  /\ UNCHANGED <<ledger, runBase, accBase, controls, git, active, hist>>

\* mark_plan_task_done ticks the task in plan.md, after the commit, if the file
\* is there and has such a line.
MarkTask ==
  /\ pc = "taskMark"
  /\ \E ticked \in SUBSET ({PlanFile} \intersect (head \union dirty)) :
       dirty' = dirty \union ticked
  /\ pc' = "task"
  /\ UNCHANGED <<state, controls, head, active, hist>>

TasksDone ==
  /\ pc = "task" /\ queue = 0
  /\ pc' = "codeGate"
  /\ UNCHANGED <<state, controls, git, active, hist>>

-----------------------------------------------------------------------------
\* finish() delivers the branch and mark_completed ends the run.
Finish ==
  /\ pc = "finish"
  /\ pc' = "done"
  /\ UNCHANGED <<state, controls, git, active, hist>>

\* An abort, or the death of the process: everything but the disk is lost.
Stop ==
  /\ pc \notin {"down", "done"}
  /\ stops < MaxStops
  /\ stops' = stops + 1
  /\ pc' = "down"
  /\ active' = NoFile
  /\ UNCHANGED <<state, controls, git, written, carried, approved, settled,
                 disturbed>>

\* Mutation: init_live_state clears a resumed run like a fresh one.
ResumeClears ==
  /\ pc = "down"
  /\ protList' = NoFile /\ protBase' = NoFile
  /\ pc' = "start"
  /\ UNCHANGED <<state, git, active, hist>>

\* RESUME_RUN: run_workflow starts over and skips what the ledger holds.
Resume ==
  /\ pc = "down"
  /\ pc' = "start"
  /\ UNCHANGED <<state, controls, git, active, hist>>

\* When this run is resumed on its branch, it finds of its uncommitted changes
\* those that the other run left alone, and what that run did not commit itself.
CarryOff(changes) ==
  /\ \E foreign \in SUBSET {OtherTest} : dirty' = (dirty \ changes) \union foreign
  /\ carried' = carried \union (changes \intersect written)

\* A fresh run in the same workspace, on a branch of its own: it removes the
\* shared controls at its start, ...
OtherRunStarts ==
  /\ pc = "down"
  /\ disturbed' = TRUE
  /\ protList' = NoFile /\ protBase' = NoFile
  /\ \E changes \in SUBSET dirty : CarryOff(changes)
  /\ UNCHANGED <<pc, state, head, active, written, approved, settled, stops>>

\* ... and writes its own after its test stage, when it has committed all there was.
OtherRunProtects ==
  /\ pc = "down" /\ disturbed /\ protList = NoFile
  /\ protList' = {OtherTest} /\ protBase' = {OtherTest}
  /\ CarryOff(dirty)
  /\ UNCHANGED <<pc, state, head, active, written, approved, settled,
                 disturbed, stops>>

-----------------------------------------------------------------------------
SpecStage ==
  \/ Begin("write-spec", "spec", "commit-spec")
  \/ Produce("spec", "specReview", {SpecFile})
  \/ Review("specReview", "specGate", {SpecFile}, "write-spec")
  \/ HumanGate("specGate", "specEnd", SpecFile)
  \/ End("specEnd", "write-spec", "commit-spec")
  \/ Begin("commit-spec", "commit", "write-implementation-plan")
  \/ Commit("commit", "commitEnd", {SpecFile})
  \/ End("commitEnd", "commit-spec", "write-implementation-plan")

PlanStage ==
  \/ Begin("write-implementation-plan", "plan", "write-acceptance-tests")
  \/ Produce("plan", "planReview", {PlanFile})
  \/ Review("planReview", "planGate", {PlanFile}, "write-implementation-plan")
  \/ HumanGate("planGate", "planCommit", PlanFile)
  \/ Commit("planCommit", "planEnd", {PlanFile})
  \/ End("planEnd", "write-implementation-plan", "write-acceptance-tests")

\* Mutation: the guard is armed in the stage body, not after it.
BeginTestsArmsInside == Begin("write-acceptance-tests", "tests", "write-code")

BeginTests == Begin("write-acceptance-tests", "tests", "activate")

TestStage ==
  \/ BeginTests
  \/ TestsBase
  \/ Produce("testsWork", "testsReview", TestFiles)
  \/ Review("testsReview", "testsCommit", TestFiles, "write-acceptance-tests")
  \/ Commit("testsCommit", "testsBase", TestFiles)
  \/ WriteProtectedBase
  \/ WriteProtectedList
  \/ End("testsEnd", "write-acceptance-tests", "activate")
  \/ Activate

CodeStage ==
  \/ Begin("write-code", "code", "final-review-and-fixes")
  \/ EnsureQueue \/ DoTask \/ BuildGate \/ CommitTask \/ PopTask \/ MarkTask
  \/ TasksDone
  \/ Produce("codeGate", "codeReview", CodeFiles)
  \/ Review("codeReview", "codeCommit", CodeFiles, "write-code")
  \/ CommitIfDirty("codeCommit", "codeEnd", CodeFiles)
  \/ End("codeEnd", "write-code", "final-review-and-fixes")

FinalStage ==
  \/ Begin("final-review-and-fixes", "final", "finish")
  \/ Produce("final", "finalGate", CodeFiles)
  \/ Produce("finalGate", "finalReview", CodeFiles)
  \/ Review("finalReview", "finalCommit", CodeFiles, "final-review-and-fixes")
  \/ CommitIfDirty("finalCommit", "finalEnd", CodeFiles)
  \/ End("finalEnd", "final-review-and-fixes", "finish")

Work ==
  Start \/ SpecStage \/ PlanStage \/ TestStage \/ CodeStage \/ FinalStage \/ Finish

Next == Work \/ Stop \/ Resume \/ OtherRunStarts \/ OtherRunProtects

Spec == Init /\ [][Next]_vars

\* The attempt runs, and the operator resumes a run that is not finished.
FairSpec == Spec /\ WF_vars(Work) /\ WF_vars(Resume)

-----------------------------------------------------------------------------
TypeOK ==
  /\ pc \in Steps
  /\ ledger \subseteq StageNames
  /\ queue \in {NoFile} \union 0..NTasks
  /\ runBase \in {NoFile} \union SUBSET Files
  /\ accBase \in {NoFile} \union SUBSET Files
  /\ protList \in {NoFile} \union SUBSET Files
  /\ protBase \in {NoFile} \union SUBSET Files
  /\ head \subseteq Files /\ dirty \subseteq Files
  /\ active \in {NoFile} \union ((SUBSET Files) \X (SUBSET Files))
  /\ written \subseteq Files /\ carried \subseteq Files
  /\ approved \subseteq StageNames
  /\ settled \subseteq 1..NTasks
  /\ disturbed \in BOOLEAN
  /\ stops \in 0..MaxStops

Tests == written \intersect TestFiles

\* What the run's agents wrote, but for what another run has carried off.
Kept == written \ carried

\* What a stage that is in the ledger has achieved, for good.
Achieved(stage) ==
  CASE stage = "write-spec" -> stage \in approved
    [] stage = "commit-spec" -> SpecFile \in Kept => SpecFile \in head
    [] stage = "write-implementation-plan" ->
         stage \in approved /\ (PlanFile \in Kept => PlanFile \in head)
    [] stage = "write-acceptance-tests" ->
         /\ stage \in approved /\ Tests \intersect Kept \subseteq head
         /\ ~disturbed =>
              /\ protList # NoFile /\ protBase # NoFile
              /\ Tests \subseteq protList /\ protList \subseteq protBase
    [] stage = "write-code" ->
         stage \in approved /\ queue = 0 /\ settled = 1..NTasks
    [] stage = "final-review-and-fixes" -> stage \in approved

\* "Finished work is never skipped incorrectly": whatever was interrupted and
\* resumed, a stage that a resume skips has done all that later stages rely on.
\* Another run in the workspace takes the control files away, and may carry off
\* what a stopped attempt had not committed.
\* And the whole-branch reviews diff from the commit before the run's first
\* write, also after resumes: nothing recorded hides behind their base.
RecordedStagesHold ==
  /\ \A stage \in ledger : Achieved(stage)
  /\ runBase # NoFile => written \intersect runBase = {}

\* Product code is only written while the guard is armed in memory with the
\* controls on disk, and they name every test the author wrote in any attempt.
\* The second half is lost to a fresh run started in the same workspace, whose
\* controls a resumed attempt takes for its own.
ArmedWhileImplementing ==
  pc \in Implementing =>
    /\ active = <<protList, protBase>>
    /\ Tests \subseteq active[1] \/ disturbed

\* The queue never drops a task whose call, build gate and commit did not all
\* go by, in this attempt or in an earlier one.
PoppedTasksSettled == queue \in Nat => 1..(NTasks - queue) \subseteq settled

\* What finish() pushes holds everything the run's agents wrote and that another
\* run in the workspace did not carry off between two attempts, and the tree it
\* leaves is clean but for files of such a run.
DeliveredWhole ==
  pc \in {"finish", "done"} =>
    /\ Kept \subseteq head
    /\ dirty \subseteq {OtherTest} /\ (dirty = {} \/ disturbed)

\* The worker never wrote the artifact of a stage that is recorded, or another run
\* carried it off, so every resume is refused.
Blocked ==
  \E stage \in ledger \intersect {"write-spec", "write-implementation-plan"} :
    ~ArtifactsExist(stage)

\* However often it is stopped, a run that is resumed reaches its end, unless
\* it was recorded past a spec or a plan that was never written or another run
\* took its controls: what later stages need is there again after every resume.
RunFinishes == <>(pc = "done" \/ Blocked \/ disturbed)
=============================================================================
