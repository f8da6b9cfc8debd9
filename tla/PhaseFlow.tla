----------------------------- MODULE PhaseFlow -----------------------------
(***************************************************************************)
(* Phased ATDD (PHASES=1): the plan's structure check and run_phased_stages *)
(* of phaseflow.py, interrupted at any step and resumed from disk.         *)
(*                                                                         *)
(* Every phase has a stage that writes its tests, under review and red     *)
(* check, and one that implements it; the list of protected tests grows    *)
(* phase by phase.  One file stands for the tests of a phase.  Other files *)
(* are left out, also the new ones that tests are renamed to: whether they *)
(* are dirty is open where it is asked.                                    *)
(*                                                                         *)
(* A worker's call goes through work() and its check of protected tests    *)
(* (ProtectedWork): it returns when the check finds none of them changed,  *)
(* after recovery calls if need be, or it ends the attempt.  The check     *)
(* does not see a test renamed with git (gitops.py).  A review or gate     *)
(* loop that gives up (ReviewLoop) is one of the attempt's ends too, see   *)
(* Stop.                                                                   *)
(***************************************************************************)
EXTENDS Integers, FiniteSets

CONSTANTS
  NPhases,          \* number of phases of the plan
  NTasks,           \* number of tasks of each phase
  RegressionGuards, \* phases marked "(regression-guard)"
  NoFile,           \* a state file that does not exist
  MaxRounds         \* MAX_ROUNDS

ASSUME CountsAssumption == NPhases \in Nat \ {0} /\ NTasks \in Nat \ {0}
ASSUME RoundsAssumption == MaxRounds \in Nat \ {0}
ASSUME GuardsAssumption == RegressionGuards \subseteq 1..NPhases
ASSUME NoFileAssumption ==
  (\A n \in 0..NTasks : NoFile # n) /\ (\A F \in SUBSET (1..NPhases) : NoFile # F)

Phases == 1..NPhases
\* The tests of a phase go by its number.
Tests == Phases
\* Names of stages: the plan's, and two of every phase.
Stages == {<<0, "plan">>} \union (Phases \X {"tests", "implement"})

PlanSteps == {"plan", "structure", "structureRepair", "planCommit", "planEnd"}
AuthorSteps == {"tests", "review", "verdict", "red", "redRepair", "commitTests"}
ImplementSteps == {"queue", "task", "taskGate", "taskCommit", "taskPop",
                   "taskMark", "phaseGate", "gateCommit", "phaseBase",
                   "phaseReview", "phaseVerdict", "reviewCommit", "implementEnd"}
Ends == {"down", "planError", "done"}
Steps == {"start", "phases", "begin", "testBase", "record1", "record2",
          "checkpoint", "testsEnd", "activate", "implement"}
         \union PlanSteps \union AuthorSteps \union ImplementSteps \union Ends

VARIABLES
  pc,        \* the next step of the attempt; "down": none is alive
  phase,     \* memory: the phase at hand
  attempt,   \* memory: attempt of the structure check or the red check
  rounds,    \* memory: attempt of reviewed_red_check
  repaired,  \* memory: the red check has had the tests repaired
  armed,     \* memory: the paths of protected_controls, or NoFile
  gated,     \* PHASE_GATE_CMD or GATE_CMD is set
  valid,     \* plan.md parses as a phased plan
  saved,     \* phases.json exists
  ledger,    \* stages recorded complete
  testBase,  \* testBase[n]: phase-n-test-base, the tests in that commit
  recorded,  \* phases with a controls-recorded checkpoint
  list,      \* protected-tests.txt
  based,     \* protected-base.sha exists
  changed,   \* tests that differ from the commit in protected-base.sha
  hidden,    \* those of them that were renamed, in a commit or the index
  queue,     \* queue[n]: lines of the task queue of that name, or NoFile
  head,      \* tests in the HEAD commit, under their own name
  dirty,     \* tests changed since HEAD
  reviewed,  \* history: the tests at hand are as the last review left them
  red,       \* history: the red check has passed on them
  altered,   \* history: the call that commits them has changed them
  tampered,  \* history: tests changed by anyone after their checkpoint
  torn,      \* history: phases stopped between their list and their checkpoint
  settled    \* history: <<phase, task>> that were called, gated and committed

locals == <<attempt, rounds, repaired>>
checks == <<reviewed, red, altered>>
memory == <<phase, locals, checks, armed>>
plan == <<valid, saved>>
state == <<ledger, testBase, recorded, queue>>
controls == <<list, based>>
files == <<changed, hidden, head, dirty>>
hist == <<tampered, torn, settled>>
vars == <<pc, memory, gated, plan, state, controls, files, hist>>

-----------------------------------------------------------------------------
Init ==
  /\ pc = "start"
  /\ phase = 1 /\ attempt = 1 /\ rounds = 1 /\ repaired = FALSE
  /\ armed = NoFile
  /\ gated \in BOOLEAN
  /\ valid = FALSE /\ saved = FALSE
  /\ ledger = {} /\ recorded = {}
  /\ testBase = [n \in Phases |-> NoFile] /\ queue = [n \in Phases |-> NoFile]
  /\ list = NoFile /\ based = FALSE
  /\ changed = {} /\ hidden = {} /\ head = {} /\ dirty = {}
  /\ reviewed = FALSE /\ red = FALSE /\ altered = FALSE
  /\ tampered = {} /\ torn = {} /\ settled = {}

\* A variable of a function that has returned is as the next call sets it.
FreshLocals == attempt' = 1 /\ rounds' = 1 /\ repaired' = FALSE
FreshChecks == reviewed' = FALSE /\ red' = FALSE /\ altered' = FALSE

\* The attempt is over and its memory with it.
EndIn(end) ==
  pc' = end /\ phase' = 1 /\ FreshLocals /\ FreshChecks /\ armed' = NoFile

Down == EndIn("down")

\* A step of the control flow that touches no file.
Goto(from, to) ==
  /\ pc = from /\ pc' = to
  /\ UNCHANGED <<memory, gated, plan, state, controls, files, hist>>

Protected == IF armed = NoFile THEN {} ELSE armed

\* protected_violations: git diff --name-only pairs the old with the new name
\* of a renamed file and prints the new one, so a hidden test is not named.
Named(differ, unseen) == (differ \ unseen) \intersect Protected

\* Files F change on disk, some of the protected ones by a rename; the agent may
\* commit all there is to commit.
Change(F, renamed, commits) ==
  /\ hidden' = (hidden \ F) \union renamed
  /\ dirty' = IF commits THEN {} ELSE dirty \union F
  /\ head' = IF commits THEN (head \union dirty \union F) \ hidden' ELSE head
  /\ tampered' = tampered \union (F \intersect recorded)

\* What differs from the base when F has changed.
Differs(F) == IF based THEN changed \union F ELSE changed

\* The tests of the phase at hand are no longer those that were looked at.
Touch(F, own) ==
  /\ reviewed' = (reviewed /\ F \intersect own = {})
  /\ red' = (red /\ F \intersect own = {})
  /\ altered' = (altered \/ (pc = "commitTests" /\ F \intersect own # {}))

\* work(): a call whose business is with the tests in own and that may change
\* protected ones as well.  What it or an unguarded call before it has changed
\* of those is put back if it is named, or the attempt ends; it also ends when
\* the call raises.
CallOnly(from, to, own) ==
  /\ pc = from
  /\ \E F \in SUBSET (own \union Protected), commits \in BOOLEAN :
     \E renamed \in SUBSET (F \intersect Protected) :
       \/ /\ LET back == Named(Differs(F), (hidden \ F) \union renamed)
             IN /\ Change(F \union back, renamed, commits)
                /\ changed' = Differs(F) \ back
                /\ Touch(F \union back, own)
          /\ pc' = to /\ UNCHANGED <<phase, locals, armed>>
       \/ /\ Change(F, renamed, commits)
          /\ changed' = Differs(F)
          /\ Down
  /\ UNCHANGED <<gated, plan, state, controls, torn>>

Call(from, to, own) == CallOnly(from, to, own) /\ UNCHANGED settled

\* A loop whose repairs are worker's calls: there may be some or none.
Repairs(from, to, own) == Call(from, to, own) \/ Goto(from, to)

\* A reviewer's last call, which nothing guards, and its approval.
Approve(from, to, own) ==
  /\ pc = from /\ pc' = to
  /\ \E F \in SUBSET (own \union Protected), commits \in BOOLEAN :
     \E renamed \in SUBSET (F \intersect Protected) :
       Change(F, renamed, commits) /\ changed' = Differs(F)
  /\ reviewed' = (own # {}) /\ red' = FALSE /\ altered' = FALSE
  /\ UNCHANGED <<phase, locals, armed, gated, plan, state, controls, torn,
                 settled>>

\* Mutation: the agent is asked to commit in a call of no work().
CommitUnguarded(from, to, own) ==
  /\ pc = from /\ pc' = to
  /\ \E F \in SUBSET (own \union Protected) :
       Change(F, {}, TRUE) /\ changed' = Differs(F) /\ Touch(F, own)
  /\ UNCHANGED <<phase, locals, armed, gated, plan, state, controls, torn,
                 settled>>

\* commit_work: the agent is asked to commit; ensure_committed sees to it.
CommitWork(from, to, own) ==
  /\ Call(from, to, own)
  /\ pc' = to => dirty' = {}

\* commit_if_dirty; with no test dirty another file may be.
CommitIfDirty(from, to) ==
  \/ CommitWork(from, to, {})
  \/ dirty = {} /\ Goto(from, to)

\* end_stage.
EndStage(from, to, stage) ==
  /\ pc = from /\ pc' = to
  /\ ledger' = ledger \union {stage}
  /\ UNCHANGED <<memory, gated, plan, testBase, recorded, queue, controls,
                 files, hist>>

-----------------------------------------------------------------------------
\* The plan stage, from its worker's call on (its review is in ReviewLoop).  A
\* recorded stage whose plan.md is missing is in StagePipeline.
Start == Goto("start", IF <<0, "plan">> \in ledger THEN "phases" ELSE "plan")

\* A worker's call that may write plan.md.
PlanCall(from, to) ==
  /\ pc = from /\ pc' = to
  /\ valid' \in BOOLEAN
  /\ UNCHANGED <<memory, gated, saved, state, controls, files, hist>>

\* phased_plan_structure_check: repairs by the owner until MAX_ROUNDS.
StructureHolds ==
  /\ pc = "structure" /\ valid
  /\ pc' = "planCommit" /\ FreshLocals
  /\ UNCHANGED <<phase, checks, armed, gated, plan, state, controls, files, hist>>

\* Mutation: one attempt more.
StructureFailsOnceMore ==
  /\ pc = "structure" /\ ~valid
  /\ IF attempt > MaxRounds
       THEN Down
       ELSE /\ attempt' = attempt + 1 /\ pc' = "structureRepair"
            /\ UNCHANGED <<phase, rounds, repaired, checks, armed>>
  /\ UNCHANGED <<gated, plan, state, controls, files, hist>>

StructureFails ==
  /\ pc = "structure" /\ ~valid
  /\ IF attempt >= MaxRounds
       THEN Down
       ELSE /\ attempt' = attempt + 1 /\ pc' = "structureRepair"
            /\ UNCHANGED <<phase, rounds, repaired, checks, armed>>
  /\ UNCHANGED <<gated, plan, state, controls, files, hist>>

\* Mutation: plan.md is parsed by every attempt.
PhasesKnownAnew == valid

\* ensure_phases: phases.json, once there, and not plan.md is followed.
PhasesKnown == saved \/ valid

\* A plan that the stage's commit call has spoilt ends the process here, by an
\* error that main does not handle.
EnsurePhases ==
  /\ pc = "phases"
  /\ IF PhasesKnown
       THEN saved' = TRUE /\ pc' = "begin" /\ UNCHANGED memory
       ELSE saved' = saved /\ EndIn("planError")
  /\ UNCHANGED <<gated, valid, state, controls, files, hist>>

PlanStage ==
  \/ Start
  \/ PlanCall("plan", "structure")
  \/ StructureHolds
  \/ StructureFails
  \/ PlanCall("structureRepair", "structure")
  \/ PlanCall("planCommit", "planEnd")
  \/ EndStage("planEnd", "phases", <<0, "plan">>)
  \/ EnsurePhases

-----------------------------------------------------------------------------
\* Stage phase-NN-write-tests: a recorded one is skipped if the controls are
\* there, and one that has its checkpoint only has to be recorded.

\* Mutation: controls are activated by the stage that records them only.
AfterSkipArmedInside == "implement"

AfterSkip == "activate"

SkipTests ==
  /\ pc = "begin" /\ <<phase, "tests">> \in ledger
  /\ IF list # NoFile /\ based
       THEN pc' = AfterSkip /\ UNCHANGED memory
       ELSE Down
  /\ UNCHANGED <<gated, plan, state, controls, files, hist>>

BeginTests ==
  /\ <<phase, "tests">> \notin ledger
  /\ Goto("begin", IF phase \in recorded THEN "testsEnd" ELSE "testBase")

\* restore_or_record_base.
RecordOnce(file) == IF file = NoFile THEN head ELSE file

RecordBase(from, to) ==
  /\ pc = from /\ pc' = to
  /\ testBase' = [testBase EXCEPT ![phase] = RecordOnce(@)]
  /\ UNCHANGED <<memory, gated, plan, ledger, recorded, queue, controls, files,
                 hist>>

\* red_check has the tests fail, or pass if they guard against regressions.
Expected(zero) == zero <=> phase \in RegressionGuards

NoRedCheck == ~gated /\ Goto("red", "commitTests")

\* Mutation: a candidate the red check had repaired is accepted at once.
RedAcceptsRepaired ==
  /\ pc = "red" /\ gated
  /\ \E zero \in BOOLEAN : Expected(zero)
  /\ pc' = "commitTests" /\ red' = TRUE /\ FreshLocals
  /\ UNCHANGED <<phase, armed, reviewed, altered, gated, plan, state, controls,
                 files, hist>>

RedAccepts ==
  /\ pc = "red" /\ gated
  /\ \E zero \in BOOLEAN : Expected(zero)
  /\ ~repaired
  /\ pc' = "commitTests" /\ red' = TRUE /\ FreshLocals
  /\ UNCHANGED <<phase, armed, reviewed, altered, gated, plan, state, controls,
                 files, hist>>

\* Mutation: reviewed_red_check does not count.
ReviewAgainUncounted ==
  /\ pc = "red" /\ gated
  /\ \E zero \in BOOLEAN : Expected(zero)
  /\ repaired
  /\ pc' = "review" /\ attempt' = 1 /\ repaired' = FALSE
  /\ UNCHANGED <<phase, rounds, checks, armed, gated, plan, state, controls,
                 files, hist>>

\* reviewed_red_check: repaired tests go back to the review, MAX_ROUNDS times.
ReviewAgain ==
  /\ pc = "red" /\ gated
  /\ \E zero \in BOOLEAN : Expected(zero)
  /\ repaired
  /\ IF rounds >= MaxRounds
       THEN Down
       ELSE /\ pc' = "review" /\ rounds' = rounds + 1
            /\ attempt' = 1 /\ repaired' = FALSE
            /\ UNCHANGED <<phase, checks, armed>>
  /\ UNCHANGED <<gated, plan, state, controls, files, hist>>

RedFails ==
  /\ pc = "red" /\ gated
  /\ \E zero \in BOOLEAN : ~Expected(zero)
  /\ IF attempt >= MaxRounds
       THEN Down
       ELSE /\ pc' = "redRepair" /\ attempt' = attempt + 1 /\ repaired' = TRUE
            /\ UNCHANGED <<phase, rounds, checks, armed>>
  /\ UNCHANGED <<gated, plan, state, controls, files, hist>>

\* Mutation: the list is written before the base.
WriteOrderListFirst == <<"list", "base">>

\* record_protected_tests: the base, then the list.
WriteOrder == <<"base", "list">>

\* Mutation: append=False.
NewListOnly == head \ testBase[phase]

\* append=True: what git diff names between the phase's base and HEAD joins
\* the list.
NewList == (IF list = NoFile THEN {} ELSE list) \union (head \ testBase[phase])

Record(i, from, to) ==
  /\ pc = from /\ pc' = to
  /\ IF WriteOrder[i] = "base"
       THEN /\ based' = TRUE /\ changed' = dirty
            /\ hidden' = hidden \intersect dirty /\ UNCHANGED list
       ELSE list' = NewList /\ UNCHANGED <<based, changed, hidden>>
  /\ UNCHANGED <<memory, gated, plan, state, head, dirty, hist>>

Checkpoint ==
  /\ pc = "checkpoint" /\ pc' = "testsEnd"
  /\ recorded' = recorded \union {phase}
  /\ UNCHANGED <<memory, gated, plan, ledger, testBase, queue, controls, files,
                 hist>>

\* activate_protected_controls: a file that cannot be read aborts.
Activate ==
  /\ pc = "activate"
  /\ IF list # NoFile /\ based
       THEN armed' = list /\ pc' = "implement" /\ UNCHANGED <<phase, locals, checks>>
       ELSE Down
  /\ UNCHANGED <<gated, plan, state, controls, files, hist>>

TestStage ==
  \/ SkipTests
  \/ BeginTests
  \/ RecordBase("testBase", "tests")
  \/ Call("tests", "review", {phase})
  \/ Repairs("review", "verdict", {phase})
  \/ Approve("verdict", "red", {phase})
  \/ NoRedCheck
  \/ RedAccepts
  \/ ReviewAgain
  \/ RedFails
  \/ Call("redRepair", "red", {phase})
  \/ CommitWork("commitTests", "record1", {phase})
  \/ Record(1, "record1", "record2")
  \/ Record(2, "record2", "checkpoint")
  \/ Checkpoint
  \/ EndStage("testsEnd", "activate", <<phase, "tests">>)
  \/ Activate

-----------------------------------------------------------------------------
\* Stage phase-NN-implement, and the next phase.
NextPhase ==
  /\ IF phase = NPhases THEN pc' = "done" /\ phase' = phase
                        ELSE pc' = "begin" /\ phase' = phase + 1
  /\ FreshChecks /\ UNCHANGED <<locals, armed>>

SkipImplement ==
  /\ pc = "implement" /\ <<phase, "implement">> \in ledger
  /\ NextPhase
  /\ UNCHANGED <<gated, plan, state, controls, files, hist>>

BeginImplement ==
  /\ <<phase, "implement">> \notin ledger
  /\ Goto("implement", "queue")

\* phase_queue_name.
QueueName(n) == n

\* ensure_named_task_queue: an existing queue is left alone, also an empty one.
EnsureQueue ==
  /\ pc = "queue" /\ pc' = "task"
  /\ queue' = [queue EXCEPT ![QueueName(phase)] = IF @ = NoFile THEN NTasks ELSE @]
  /\ UNCHANGED <<memory, gated, plan, ledger, testBase, recorded, controls,
                 files, hist>>

Remaining == queue[QueueName(phase)]

DoTask == Remaining > 0 /\ Call("task", "taskGate", {})

\* commit_work for the task.
CommitTask ==
  /\ CallOnly("taskCommit", "taskPop", {})
  /\ IF pc' = "taskPop"
       THEN /\ dirty' = {}
            /\ settled' = settled \union {<<phase, NTasks - Remaining + 1>>}
       ELSE settled' = settled

PopTask ==
  /\ pc = "taskPop" /\ pc' = "taskMark"
  /\ queue' = [queue EXCEPT ![QueueName(phase)] = @ - 1]
  /\ UNCHANGED <<memory, gated, plan, ledger, testBase, recorded, controls,
                 files, hist>>

\* mark_plan_task_done: a phase all of whose tasks are ticked no longer parses.
MarkTask ==
  /\ pc = "taskMark" /\ pc' = "task"
  /\ valid' \in {valid, FALSE}
  /\ UNCHANGED <<memory, gated, saved, state, controls, files, hist>>

TasksDone == Remaining = 0 /\ Goto("task", "phaseGate")

EndImplement ==
  /\ pc = "implementEnd"
  /\ ledger' = ledger \union {<<phase, "implement">>}
  /\ NextPhase
  /\ UNCHANGED <<gated, plan, testBase, recorded, queue, controls, files, hist>>

ImplementStage ==
  \/ SkipImplement
  \/ BeginImplement
  \/ EnsureQueue
  \/ pc = "task" /\ DoTask
  \/ Repairs("taskGate", "taskCommit", {})
  \/ CommitTask
  \/ PopTask
  \/ MarkTask
  \/ pc = "task" /\ TasksDone
  \/ Repairs("phaseGate", "gateCommit", {})
  \* With PHASE_REVIEW and without.
  \/ CommitIfDirty("gateCommit", "phaseBase")
  \/ CommitIfDirty("gateCommit", "implementEnd")
  \/ RecordBase("phaseBase", "phaseReview")
  \/ Repairs("phaseReview", "phaseVerdict", {})
  \/ Approve("phaseVerdict", "reviewCommit", {})
  \/ CommitIfDirty("reviewCommit", "implementEnd")
  \/ EndImplement

-----------------------------------------------------------------------------
\* Any abort (a loop that gives up, a quota, Ctrl-C) and the process's death.
Stop ==
  /\ pc \notin Ends
  /\ Down
  /\ torn' = IF pc = "checkpoint" THEN torn \union {phase} ELSE torn
  /\ UNCHANGED <<gated, plan, state, controls, files, tampered, settled>>

\* RESUME_RUN.  The operator may have put a plan right that is still needed.
Resume ==
  /\ pc \in {"down", "planError"}
  /\ pc' = "start"
  /\ valid' \in IF saved THEN {valid} ELSE {valid, TRUE}
  /\ UNCHANGED <<memory, gated, saved, state, controls, files, hist>>

Attempt == PlanStage \/ TestStage \/ ImplementStage

Next == Attempt \/ Stop \/ Resume

Spec == Init /\ [][Next]_vars

\* Agents end, and so do gate commands and reviews.
FairSpec == Spec /\ WF_vars(Attempt)

-----------------------------------------------------------------------------
TypeOK ==
  /\ pc \in Steps
  /\ phase \in Phases
  /\ attempt \in 1..MaxRounds /\ rounds \in 1..MaxRounds
  /\ repaired \in BOOLEAN
  /\ armed \in {NoFile} \union SUBSET Tests
  /\ {gated, valid, saved, based, reviewed, red, altered} \subseteq BOOLEAN
  /\ ledger \subseteq Stages
  /\ testBase \in [Phases -> {NoFile} \union SUBSET Tests]
  /\ recorded \subseteq Phases /\ torn \subseteq Phases
  /\ list \in {NoFile} \union SUBSET Tests
  /\ changed \subseteq Tests /\ hidden \subseteq Tests
  /\ head \subseteq Tests /\ dirty \subseteq Tests /\ tampered \subseteq Tests
  /\ queue \in [Phases -> {NoFile} \union 0..NTasks]
  /\ settled \subseteq Phases \X (1..NTasks)

\* Product code of a phase is only written while every test committed for it
\* and for the phases before it, under the name it was committed by, is under
\* guard, however the run was resumed.
ArmedForPhase ==
  pc \in ImplementSteps =>
    /\ armed = list
    /\ head \intersect (1..phase) \subseteq armed

\* The tests of a phase are committed and recorded as the review approved them
\* and, with a gate command, as they passed the red check, whatever repairs and
\* further reviews it took; the one exception is what the call that commits
\* them changes by itself, which neither review nor red check looks at again.
ReviewedAndRed ==
  pc \in {"commitTests", "record1", "record2", "checkpoint"} =>
    \/ reviewed /\ (gated => red)
    \/ altered /\ pc # "commitTests"

\* A worker is not told that it modified protected tests when nobody has: a
\* protected test that differs from the base was changed after its checkpoint.
\* (Stopped between list and checkpoint, a phase has its own tests protected
\* while they are written a second time.)
NoFalseAlarm ==
  /\ Named(changed, hidden) \subseteq tampered \union torn
  /\ pc \in AuthorSteps => phase \in torn \/ phase \notin Protected

\* "Finished work is never skipped incorrectly", per phase: recorded tests are
\* and stay protected, whatever later phases, retries and resumes write, and a
\* recorded implementation had each of its tasks done.  And its reviews see all
\* of a phase: the commit they diff from has none of the phase's tests.
RecordedPhasesHold ==
  \A n \in Phases :
    /\ <<n, "tests">> \in ledger =>
         n \in recorded /\ list # NoFile /\ (n \in head => n \in list)
    /\ <<n, "implement">> \in ledger =>
         <<n, "tests">> \in ledger /\ {n} \X (1..NTasks) \subseteq settled
    /\ testBase[n] # NoFile => n \notin testBase[n]

\* Replacing protected-base.sha by HEAD for a new phase never makes a changed
\* test of an earlier phase pass as intact, be it changed by a reviewer, by an
\* attempt that ended on it or by a recovery: only one that was renamed and not
\* touched since.
NothingLaundered ==
  pc = "record1" => changed \intersect recorded \subseteq hidden

\* The phases are read from plan.md once: no later tick, edit or resume can
\* make an attempt fail on it after work on a phase was recorded.
PhasesSurvive == pc = "planError" => recorded = {} /\ ledger \subseteq {<<0, "plan">>}

\* The loops of structure check, red check and review end, so every attempt
\* ends without a human.
AttemptEnds == pc = "start" ~> pc \in Ends
=============================================================================
