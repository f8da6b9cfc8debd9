------------------------ MODULE StagePipelineProofs ------------------------
(***************************************************************************)
(* The safety properties of StagePipeline, for every number of tests,      *)
(* tasks and stops.                                                        *)
(*                                                                         *)
(* A stage is in the ledger before any step of a later one, and none of    *)
(* the steps of a recorded stage is taken again.  With that, each part of  *)
(* the invariant says what the steps of one stage have achieved so far,    *)
(* and that later stages do not undo it.                                   *)
(*                                                                         *)
(* LedgerInOrder follows from the same order of stages, Refinement shows   *)
(* the pipeline as a run of RunOwnership, and AttemptIsFinite is the       *)
(* safety half of RunFinishes: a stop apart, an attempt gets through.      *)
(***************************************************************************)
EXTENDS StagePipeline, Descent, FiniteSetTheorems, TLAPS

\* Steps after which a stage is recorded.
AfterFinal == {"finish", "done"}
AfterCode == {"final-review-and-fixes"} \union FinalSteps \union AfterFinal
AfterTests == {"activate", "write-code"} \union CodeSteps \union AfterCode
AfterPlan == {"write-acceptance-tests"} \union TestSteps \union AfterTests
AfterCommit == {"write-implementation-plan"} \union PlanSteps \union AfterPlan
AfterSpec == {"commit-spec"} \union CommitSteps \union AfterCommit

Place ==
  /\ pc \in SpecSteps => "write-spec" \notin ledger
  /\ pc \in CommitSteps => "commit-spec" \notin ledger
  /\ pc \in PlanSteps => "write-implementation-plan" \notin ledger
  /\ pc \in TestSteps => "write-acceptance-tests" \notin ledger
  /\ pc \in CodeSteps => "write-code" \notin ledger
  /\ pc \in FinalSteps => "final-review-and-fixes" \notin ledger
  /\ pc \in AfterSpec \/ "commit-spec" \in ledger => "write-spec" \in ledger
  /\ pc \in AfterCommit \/ "write-implementation-plan" \in ledger =>
       "commit-spec" \in ledger
  /\ pc \in AfterPlan \/ "write-acceptance-tests" \in ledger =>
       "write-implementation-plan" \in ledger
  /\ pc \in AfterTests \/ "write-code" \in ledger =>
       "write-acceptance-tests" \in ledger
  /\ pc \in AfterCode \/ "final-review-and-fixes" \in ledger =>
       "write-code" \in ledger
  /\ pc \in AfterFinal => "final-review-and-fixes" \in ledger

\* Nothing an agent wrote is lost unless another run carried it off, and all there
\* is comes from an agent or such a run or is a ticked or edited spec or plan.
NothingLost ==
  /\ Kept \subseteq head \union dirty
  /\ head \union dirty \subseteq written \union SpecDir \union {OtherTest}
  /\ carried # {} => disturbed
  /\ OtherTest \notin written

\* The run's base lies before its first write.
RunBaseFirst ==
  IF runBase = NoFile THEN written = {} /\ head = {} /\ pc \in {"start", "down"}
                      ELSE runBase = {}

\* The tests' base lies before the first test, wherever tests are or were written.
TestBaseFirst ==
  /\ accBase = NoFile => Tests = {}
  /\ accBase # NoFile => accBase \intersect TestFiles = {}
  /\ pc \in TestSteps \ {"tests"} => accBase # NoFile

\* What the steps of a stage have approved and committed.
InStage ==
  /\ pc \in {"specGate", "specEnd"} => "write-spec" \in approved
  /\ pc \in {"planGate", "planCommit", "planEnd"} =>
       "write-implementation-plan" \in approved
  /\ pc \in {"testsCommit", "testsBase", "testsList", "testsEnd"} =>
       "write-acceptance-tests" \in approved
  /\ pc \in {"codeCommit", "codeEnd"} => "write-code" \in approved
  /\ pc \in {"finalCommit", "finalEnd"} => "final-review-and-fixes" \in approved
  /\ pc \in {"commitEnd", "planEnd", "testsBase", "testsList", "testsEnd",
             "finalEnd"} => dirty = {}
  /\ "final-review-and-fixes" \in ledger =>
       dirty \subseteq {OtherTest} /\ (dirty = {} \/ disturbed)

\* The controls as the test stage writes them.
Controls ==
  /\ pc = "testsList" => protBase = head
  /\ pc = "testsEnd" => /\ protList # NoFile /\ protBase # NoFile
                        /\ Tests \intersect Kept \subseteq protList
                        /\ protList \subseteq protBase

\* The guard is armed from "activate" on.
Armed ==
  pc \in {"write-code", "final-review-and-fixes"} \union Implementing =>
    active = <<protList, protBase>> /\ protList # NoFile

\* The queue, and the task that is being done.
Queue ==
  /\ PoppedTasksSettled
  /\ pc \in CodeSteps \ {"code"} => queue \in 0..NTasks
  /\ pc \in {"taskGate", "taskCommit", "taskPop"} => queue > 0
  /\ pc = "taskPop" => FirstTask \in settled
  /\ pc \in {"codeGate", "codeReview", "codeCommit", "codeEnd"} => queue = 0

IInv ==
  /\ TypeOK /\ Place /\ NothingLost /\ RunBaseFirst /\ TestBaseFirst /\ InStage
  /\ Controls /\ Armed /\ Queue /\ RecordedStagesHold

-----------------------------------------------------------------------------
\* The kinds of files do not overlap.
LEMMA FileKinds ==
  /\ SpecFile \notin TestFiles \union CodeFiles \union {PlanFile}
  /\ PlanFile \notin TestFiles \union CodeFiles
  /\ TestFiles \intersect (CodeFiles \union SpecDir) = {}
  /\ OtherTest \notin TestFiles \union CodeFiles \union SpecDir
  /\ SpecDir \union TestFiles \union CodeFiles \union {OtherTest} \subseteq Files
  /\ SpecDir = {SpecFile, PlanFile}
  BY DEF SpecFile, PlanFile, TestFiles, CodeFiles, OtherTest, SpecDir, Files

\* The files of the first task of a queue.
LEMMA TaskFile ==
  ASSUME queue \in 1..NTasks
  PROVE  {<<"code", FirstTask>>} \subseteq CodeFiles /\ FirstTask \in 1..NTasks
  BY CountsAssumption DEF CodeFiles, FirstTask

\* What a worker call does to the files it is about.
Writes(F) ==
  /\ head \subseteq head' /\ head' \subseteq head \union dirty \union F
  /\ dirty' \subseteq dirty \union F
  /\ written \subseteq written' /\ written' \subseteq written \union F
  /\ carried' \subseteq carried /\ Kept' \subseteq Kept \union F
  /\ NothingLost'

\* A call that writes, with or without a commit, loses nothing.
LEMMA WriteWrites ==
  ASSUME NothingLost, NEW F, OtherTest \notin F, Write(F),
         disturbed' = disturbed
  PROVE  Writes(F)
  BY DEF NothingLost, Kept, Write, Writes

\* So does a call that ends in a commit, which leaves a clean tree.
LEMMA CommitWrites ==
  ASSUME NothingLost, NEW F, OtherTest \notin F, WriteAndCommit(F),
         disturbed' = disturbed
  PROVE  Writes(F) /\ dirty' = {}
  BY DEF NothingLost, Kept, WriteAndCommit, Writes

\* Files of F are all that a step adds to those written.
Adds(F) == written' \subseteq written \union F /\ Kept' \subseteq Kept \union F

\* What a step may add.
Growth ==
  /\ head \subseteq head' /\ written \subseteq written'
  /\ head' \union dirty' \union written' \union carried' \subseteq Files
  /\ NothingLost'
  /\ pc \in {"start", "down"} => UNCHANGED <<head, written>>
  /\ \/ Adds({})
     \/ pc \in SpecSteps \union CommitSteps /\ Adds({SpecFile})
     \/ pc \in PlanSteps /\ Adds({PlanFile})
     \/ pc \in TestSteps \ {"tests"} /\ Adds(TestFiles)
     \/ pc \in CodeSteps \union FinalSteps /\ Adds(CodeFiles)

\* Each step writes the files of its stage only, and loses none.
LEMMA StepGrows == IInv /\ [Next]_vars => Growth
<1> SUFFICES ASSUME IInv, [Next]_vars PROVE Growth
  OBVIOUS
<1>0. /\ head \union dirty \union written \union carried \subseteq Files
      /\ NothingLost
      /\ pc \in CodeSteps \ {"code"} => queue \in 0..NTasks
      /\ pc = "taskCommit" => queue > 0
  BY DEF IInv, TypeOK, Queue
<1> USE DEF SpecSteps, CommitSteps, PlanSteps, TestSteps, CodeSteps, FinalSteps
<1> USE FileKinds DEF Adds
<1>1. CASE UNCHANGED <<written, carried, disturbed>> /\ UNCHANGED git
  BY <1>0, <1>1 DEF Growth, git, NothingLost, Kept
<1>2. ASSUME NEW F, Writes(F), F \subseteq Files,
             \/ pc \in SpecSteps \union CommitSteps /\ F \subseteq {SpecFile}
             \/ pc \in PlanSteps /\ F \subseteq {PlanFile}
             \/ pc \in TestSteps \ {"tests"} /\ F \subseteq TestFiles
             \/ pc \in CodeSteps \union FinalSteps /\ F \subseteq CodeFiles
      PROVE  Growth
  BY <1>0, <1>2 DEF Growth, Writes
<1>3. ASSUME NEW from, NEW to, NEW F, NEW s, F \subseteq Files,
             Produce(from, to, F) \/ Review(from, to, F, s) \/ Commit(from, to, F),
             \/ from \in SpecSteps \union CommitSteps /\ F \subseteq {SpecFile}
             \/ from \in PlanSteps /\ F \subseteq {PlanFile}
             \/ from \in TestSteps \ {"tests"} /\ F \subseteq TestFiles
             \/ from \in CodeSteps \union FinalSteps /\ F \subseteq CodeFiles
      PROVE  Growth
  <2>1. pc = from /\ Writes(F)
    BY <1>0, <1>3, WriteWrites, CommitWrites DEF Produce, Review, Commit
  <2> QED
    BY <1>2, <1>3, <2>1
<1>4. ASSUME NEW from, NEW to, NEW f \in SpecDir, HumanGate(from, to, f) PROVE Growth
  BY <1>0, <1>4 DEF HumanGate, Growth, NothingLost, Kept, hist
<1>5. ASSUME NEW from, NEW to, NEW stage,
             Begin(stage, from, to) \/ End(from, stage, to)
      PROVE  Growth
  BY <1>1, <1>5 DEF Begin, End, hist
<1>6. CASE SpecStage
  BY <1>3, <1>4, <1>5, <1>6, Zenon DEF SpecStage
<1>7. CASE PlanStage
  BY <1>3, <1>4, <1>5, <1>7, Zenon DEF PlanStage
<1>8. CASE TestStage
  <2>1. CASE TestsBase \/ WriteProtectedBase \/ WriteProtectedList \/ Activate
    BY <1>1, <2>1 DEF TestsBase, WriteProtectedBase, WriteProtectedList, Activate, hist
  <2> QED
    BY <1>3, <1>5, <1>8, <2>1 DEF TestStage, BeginTests
<1>9. CASE CodeStage
  <2>1. CASE EnsureQueue \/ PopTask \/ TasksDone
    BY <1>1, <2>1 DEF EnsureQueue, PopTask, TasksDone, hist
  <2>2. CASE DoTask
    <3>1. queue \in 1..NTasks
      BY <1>0, <2>2 DEF DoTask
    <3>2. Writes({<<"code", FirstTask>>})
      BY <1>0, <2>2, WriteWrites, <3>1, TaskFile DEF DoTask
    <3> QED
      BY <1>2, <2>2, <3>1, <3>2, TaskFile DEF DoTask
  <2>3. CASE CommitTask
    <3>1. queue \in 1..NTasks
      BY <1>0, <2>3 DEF CommitTask
    <3>2. Writes({<<"code", FirstTask>>})
      BY <1>0, <2>3, CommitWrites, <3>1, TaskFile DEF CommitTask
    <3> QED
      BY <1>2, <2>3, <3>1, <3>2, TaskFile DEF CommitTask
  <2>4. CASE MarkTask
    BY <1>0, <2>4 DEF MarkTask, Growth, NothingLost, Kept, hist
  <2> QED
    BY <1>1, <1>3, <1>5, <1>9, <2>1, <2>2, <2>3, <2>4 DEF CodeStage, BuildGate,
           CommitIfDirty, hist
<1>10. CASE FinalStage
  BY <1>1, <1>3, <1>5, <1>10 DEF FinalStage, CommitIfDirty, hist
<1>11. CASE Start \/ Finish \/ Stop \/ Resume
  BY <1>1, <1>11 DEF Start, Finish, Stop, Resume, hist
<1>13. CASE OtherRunStarts \/ OtherRunProtects
  <2>1. /\ pc = "down" /\ UNCHANGED <<pc, head, written>>
        /\ disturbed' = TRUE
    BY <1>0, <1>13 DEF OtherRunStarts, OtherRunProtects, IInv, TypeOK
  <2>2. PICK changes \in SUBSET dirty : CarryOff(changes)
    BY <1>13 DEF OtherRunStarts, OtherRunProtects
  <2>3. NothingLost'
    BY <1>0, <2>1, <2>2 DEF CarryOff, NothingLost, Kept
  <2> QED
    BY <1>0, <2>1, <2>2, <2>3 DEF CarryOff, Growth, Kept
<1>12. CASE UNCHANGED vars
  BY <1>1, <1>12 DEF vars, hist
<1> QED
  BY <1>6, <1>7, <1>8, <1>9, <1>10, <1>11, <1>12, <1>13 DEF Next, Work

-----------------------------------------------------------------------------
\* Place is preserved: stages are begun in order, and recorded at their last step.
LEMMA PlaceNext == IInv /\ [Next]_vars => Place'
<1> SUFFICES ASSUME IInv, [Next]_vars PROVE Place'
  OBVIOUS
<1> USE DEF Place, AfterFinal, AfterCode, AfterTests, AfterPlan, AfterCommit, AfterSpec,
            SpecSteps, CommitSteps, PlanSteps, TestSteps, CodeSteps, FinalSteps,
            state
<1>0. Place
  BY DEF IInv
<1>1. CASE Start
  BY <1>0, <1>1 DEF Start
<1>2. CASE SpecStage
  BY <1>0, <1>2 DEF SpecStage, Begin, Produce, Review, HumanGate, Commit, End
<1>3. CASE PlanStage
  BY <1>0, <1>3 DEF PlanStage, Begin, Produce, Review, HumanGate, Commit, End
<1>4. CASE TestStage
  BY <1>0, <1>4 DEF TestStage, BeginTests, TestsBase, WriteProtectedBase,
         WriteProtectedList, Activate, Begin, Produce, Review, Commit, End
<1>5. CASE CodeStage
  BY <1>0, <1>5 DEF CodeStage, EnsureQueue, DoTask, BuildGate, CommitTask, PopTask,
         MarkTask, TasksDone, Begin, Produce, Review, CommitIfDirty, Commit, End
<1>6. CASE FinalStage
  BY <1>0, <1>6 DEF FinalStage, Begin, Produce, Review, CommitIfDirty, Commit, End
<1>7. CASE Finish \/ Stop \/ Resume
  BY <1>0, <1>7 DEF Finish, Stop, Resume
<1>8. CASE OtherRunStarts \/ OtherRunProtects
  BY <1>0, <1>8 DEF OtherRunStarts, OtherRunProtects, CarryOff
<1>9. CASE UNCHANGED vars
  BY <1>0, <1>9 DEF vars
<1> QED
  BY <1>1, <1>2, <1>3, <1>4, <1>5, <1>6, <1>7, <1>8, <1>9 DEF Next, Work

\* InStage is preserved: only a stage's own steps lead to its next ones.
LEMMA InStageNext == IInv /\ [Next]_vars => InStage'
<1> SUFFICES ASSUME IInv, [Next]_vars PROVE InStage'
  OBVIOUS
<1>0. InStage /\ Place
  BY DEF IInv
<1> USE DEF InStage, Place, AfterFinal, AfterCode, AfterTests, AfterPlan,
      AfterCommit, AfterSpec, SpecSteps, CommitSteps, PlanSteps, TestSteps,
      CodeSteps, FinalSteps, Write, WriteAndCommit, git, hist, state
<1>1. CASE Start
  BY <1>0, <1>1 DEF Start
<1>2. CASE SpecStage
  BY <1>0, <1>2 DEF SpecStage, Begin, Produce, Review, HumanGate, Commit,
         CommitIfDirty, End
<1>3. CASE PlanStage
  BY <1>0, <1>3 DEF PlanStage, Begin, Produce, Review, HumanGate, Commit,
         CommitIfDirty, End
<1>4. CASE TestStage
  BY <1>0, <1>4 DEF TestStage, BeginTests, TestsBase, WriteProtectedBase,
         WriteProtectedList, Activate, Begin, Produce, Review, HumanGate, Commit,
         CommitIfDirty, End
<1>5. CASE CodeStage
  BY <1>0, <1>5 DEF CodeStage, EnsureQueue, DoTask, BuildGate, CommitTask, PopTask,
         MarkTask, TasksDone, Begin, Produce, Review, HumanGate, Commit,
         CommitIfDirty, End
<1>6. CASE FinalStage
  BY <1>0, <1>6 DEF FinalStage, Begin, Produce, Review, HumanGate, Commit,
         CommitIfDirty, End
<1>7. CASE Finish \/ Stop \/ Resume
  BY <1>0, <1>7 DEF Finish, Stop, Resume
<1>8. CASE OtherRunStarts \/ OtherRunProtects
  BY <1>0, <1>8 DEF OtherRunStarts, OtherRunProtects, CarryOff
<1>9. CASE UNCHANGED vars
  BY <1>0, <1>9 DEF vars
<1> QED
  BY <1>1, <1>2, <1>3, <1>4, <1>5, <1>6, <1>7, <1>8, <1>9 DEF Next, Work

\* Queue is preserved: EnsureQueue, CommitTask and PopTask take turns.
LEMMA QueueNext == IInv /\ [Next]_vars => Queue'
<1> SUFFICES ASSUME IInv, [Next]_vars PROVE Queue'
  OBVIOUS
<1>0. Queue /\ TypeOK
  BY DEF IInv
<1> USE DEF Queue, PoppedTasksSettled, FirstTask, TypeOK, state, hist, SpecSteps,
      CommitSteps, PlanSteps, TestSteps, CodeSteps, FinalSteps
<1> USE CountsAssumption, NoFileAssumption
<1>1. CASE Start
  BY <1>0, <1>1 DEF Start
<1>2. CASE SpecStage
  BY <1>0, <1>2 DEF SpecStage, Begin, Produce, Review, HumanGate, Commit,
         CommitIfDirty, End
<1>3. CASE PlanStage
  BY <1>0, <1>3 DEF PlanStage, Begin, Produce, Review, HumanGate, Commit,
         CommitIfDirty, End
<1>4. CASE TestStage
  BY <1>0, <1>4 DEF TestStage, BeginTests, TestsBase, WriteProtectedBase,
         WriteProtectedList, Activate, Begin, Produce, Review, HumanGate, Commit,
         CommitIfDirty, End
<1>5. CASE CodeStage
  BY <1>0, <1>5 DEF CodeStage, EnsureQueue, DoTask, BuildGate, CommitTask, PopTask,
         MarkTask, TasksDone, Begin, Produce, Review, HumanGate, Commit,
         CommitIfDirty, End
<1>6. CASE FinalStage
  BY <1>0, <1>6 DEF FinalStage, Begin, Produce, Review, HumanGate, Commit,
         CommitIfDirty, End
<1>7. CASE Finish \/ Stop \/ Resume
  BY <1>0, <1>7 DEF Finish, Stop, Resume
<1>8. CASE OtherRunStarts \/ OtherRunProtects
  BY <1>0, <1>8 DEF OtherRunStarts, OtherRunProtects, CarryOff
<1>9. CASE UNCHANGED vars
  BY <1>0, <1>9 DEF vars
<1> QED
  BY <1>1, <1>2, <1>3, <1>4, <1>5, <1>6, <1>7, <1>8, <1>9 DEF Next, Work

\* Who writes the files that one action writes only.
OwnChanges ==
  /\ runBase' = runBase \/ (pc = "start" /\ runBase' = RecordOnce(runBase))
  /\ \/ pc \notin {"start", "down"} \/ pc' \in {"start", "down"}
     \/ pc = "start" /\ runBase' = RecordOnce(runBase)
  /\ accBase' = accBase \/ (pc = "tests" /\ accBase' = RecordOnce(accBase))
  /\ pc = "tests" /\ pc' \in TestSteps \ {"tests"} => accBase' = RecordOnce(accBase)
  /\ \/ protList' \in {protList, NoFile, {OtherTest}}
     \/ pc = "testsList" /\ protList' = (head \ accBase) \ SpecDir
  /\ protBase' \in {protBase, NoFile,
        {OtherTest}} \/ (pc = "testsBase" /\ protBase' = head)
  /\ queue' = queue \/ EnsureQueue \/ PopTask
  /\ settled' = settled \/ CommitTask
  /\ stops' = stops \/ Stop
  /\ disturbed' \in {disturbed, TRUE}
  /\ active' = active \/ active' = NoFile \/ Activate
  /\ pc' \in TestSteps \ {"tests"} => pc \in TestSteps

LEMMA OneWriter == [Next]_vars => OwnChanges
<1> SUFFICES ASSUME [Next]_vars PROVE OwnChanges
  OBVIOUS
<1> USE DEF OwnChanges, state, git, hist, controls, SpecSteps, CommitSteps,
      PlanSteps, TestSteps, CodeSteps, FinalSteps
<1>1. CASE Start
  BY <1>1 DEF Start
<1>2. CASE SpecStage
  BY <1>2 DEF SpecStage, Begin, Produce, Review, HumanGate, Commit, CommitIfDirty, End
<1>3. CASE PlanStage
  BY <1>3 DEF PlanStage, Begin, Produce, Review, HumanGate, Commit, CommitIfDirty, End
<1>4. CASE TestStage
  BY <1>4 DEF TestStage, BeginTests, TestsBase, WriteProtectedBase,
         WriteProtectedList, Activate, Begin, Produce, Review, HumanGate, Commit,
         CommitIfDirty, End
<1>5. CASE CodeStage
  BY <1>5 DEF CodeStage, EnsureQueue, DoTask, BuildGate, CommitTask, PopTask,
         MarkTask, TasksDone, Begin, Produce, Review, HumanGate, Commit,
         CommitIfDirty, End
<1>6. CASE FinalStage
  BY <1>6 DEF FinalStage, Begin, Produce, Review, HumanGate, Commit, CommitIfDirty, End
<1>7. CASE Finish \/ Stop \/ Resume
  BY <1>7 DEF Finish, Stop, Resume
<1>8. CASE OtherRunStarts \/ OtherRunProtects
  BY <1>8 DEF OtherRunStarts, OtherRunProtects, CarryOff
<1>9. CASE UNCHANGED vars
  BY <1>9 DEF vars
<1> QED
  BY <1>1, <1>2, <1>3, <1>4, <1>5, <1>6, <1>7, <1>8, <1>9 DEF Next, Work

\* Both bases are recorded before the first write they must not contain.
LEMMA BasesNext == IInv /\ [Next]_vars => (RunBaseFirst /\ TestBaseFirst)'
<1> SUFFICES ASSUME IInv, [Next]_vars PROVE (RunBaseFirst /\ TestBaseFirst)'
  OBVIOUS
<1>0. TypeOK /\ RunBaseFirst /\ TestBaseFirst /\ NothingLost /\ Growth /\ OwnChanges
  BY StepGrows, OneWriter DEF IInv
<1> USE FileKinds, NoFileAssumption DEF TestSteps
<1>1. RunBaseFirst'
  BY <1>0 DEF RunBaseFirst, Growth, Adds, OwnChanges, RecordOnce, TypeOK, SpecSteps,
         CommitSteps,
         PlanSteps, CodeSteps, FinalSteps
<1>2. accBase' # NoFile => accBase' \intersect TestFiles = {}
  BY <1>0 DEF TestBaseFirst, OwnChanges, RecordOnce, Tests, NothingLost, TypeOK
<1>3. pc' \in TestSteps \ {"tests"} => accBase' # NoFile
  BY <1>0 DEF TestBaseFirst, OwnChanges, RecordOnce, TypeOK
<1>4. accBase' = NoFile => Tests' = {}
  BY <1>0 DEF TestBaseFirst, OwnChanges, RecordOnce, Tests, Growth, Adds, TypeOK
<1> QED
  BY <1>1, <1>2, <1>3, <1>4 DEF TestBaseFirst

\* Every variable keeps its type.
LEMMA TypeNext == IInv /\ [Next]_vars => TypeOK'
<1> SUFFICES ASSUME IInv, [Next]_vars PROVE TypeOK'
  OBVIOUS
<1>0. TypeOK /\ Queue /\ Armed /\ Growth /\ OwnChanges
  BY StepGrows, OneWriter DEF IInv
<1>1. /\ runBase' \in {NoFile} \union SUBSET Files
      /\ accBase' \in {NoFile} \union SUBSET Files
  BY <1>0 DEF TypeOK, OwnChanges, RecordOnce
<1>2. /\ protList' \in {NoFile} \union SUBSET Files
      /\ protBase' \in {NoFile} \union SUBSET Files
  BY <1>0 DEF TypeOK, OwnChanges, Files
<1>3. active' \in {NoFile} \union ((SUBSET Files) \X (SUBSET Files))
  BY <1>0 DEF TypeOK, OwnChanges, Activate
<1>4. queue' \in {NoFile} \union 0..NTasks
  <2>1. CASE EnsureQueue
    BY <1>0, <2>1, CountsAssumption DEF TypeOK, EnsureQueue
  <2>2. CASE PopTask
    BY <1>0, <2>2, CountsAssumption DEF TypeOK, PopTask, Queue, CodeSteps
  <2> QED
    BY <1>0, <2>1, <2>2 DEF TypeOK, OwnChanges
<1>5. settled' \subseteq 1..NTasks
  <2>1. CASE CommitTask
    <3>1. queue \in 1..NTasks
      BY <1>0, <2>1 DEF CommitTask, Queue, CodeSteps
    <3> QED
      BY <1>0, <2>1, <3>1, TaskFile DEF CommitTask, TypeOK
  <2> QED
    BY <1>0, <2>1 DEF TypeOK, OwnChanges
<1>6. disturbed' \in BOOLEAN
  BY <1>0 DEF TypeOK, OwnChanges
<1>7. stops' \in 0..MaxStops
  BY <1>0, MaxStopsAssumption DEF TypeOK, OwnChanges, Stop
<1>8. pc' \in Steps /\ ledger' \subseteq StageNames /\ approved' \subseteq StageNames
  <2> USE DEF TypeOK, Growth, state, git, hist, controls, Steps, StageNames,
        SpecSteps, CommitSteps, PlanSteps, TestSteps, CodeSteps, FinalSteps
  <2> USE CountsAssumption, NoFileAssumption
  <2>1. CASE Start
    BY <1>0, <2>1 DEF Start
  <2>2. CASE SpecStage
    BY <1>0, <2>2 DEF SpecStage, Begin, Produce, Review, HumanGate, Commit,
           CommitIfDirty, End
  <2>3. CASE PlanStage
    BY <1>0, <2>3 DEF PlanStage, Begin, Produce, Review, HumanGate, Commit,
           CommitIfDirty, End
  <2>4. CASE TestStage
    BY <1>0, <2>4 DEF TestStage, BeginTests, TestsBase, WriteProtectedBase,
           WriteProtectedList, Activate, Begin, Produce, Review, HumanGate, Commit,
           CommitIfDirty, End
  <2>5. CASE CodeStage
    BY <1>0, <2>5 DEF CodeStage, EnsureQueue, DoTask, BuildGate, CommitTask, PopTask,
           MarkTask, TasksDone, Begin, Produce, Review, HumanGate, Commit,
           CommitIfDirty, End
  <2>6. CASE FinalStage
    BY <1>0, <2>6 DEF FinalStage, Begin, Produce, Review, HumanGate, Commit,
           CommitIfDirty, End
  <2>7. CASE Finish \/ Stop \/ Resume
    BY <1>0, <2>7 DEF Finish, Stop, Resume
  <2>8. CASE OtherRunStarts \/ OtherRunProtects
    BY <1>0, <2>8 DEF OtherRunStarts, OtherRunProtects
  <2>9. CASE UNCHANGED vars
    BY <1>0, <2>9 DEF vars
  <2> QED
    BY <2>1, <2>2, <2>3, <2>4, <2>5, <2>6, <2>7, <2>8, <2>9 DEF Next, Work
<1> QED
  BY <1>0, <1>1, <1>2, <1>3, <1>4, <1>5, <1>6, <1>7, <1>8 DEF TypeOK, Growth

\* The controls are complete when the test stage ends, and armed from then on.
LEMMA ControlsNext == IInv /\ [Next]_vars => (Controls /\ Armed)'
<1> SUFFICES ASSUME IInv, [Next]_vars PROVE (Controls /\ Armed)'
  OBVIOUS
<1>0. Controls /\ Armed /\ Place /\ InStage /\ NothingLost /\ TestBaseFirst /\ Growth /\ TypeOK
  BY StepGrows DEF IInv
<1> USE DEF Controls, Armed, Implementing, Tests, Kept, git, controls, state, hist,
      SpecSteps, CommitSteps, PlanSteps, TestSteps, CodeSteps, FinalSteps
<1>1. CASE Start
  BY <1>0, <1>1 DEF Start
<1>2. CASE SpecStage
  BY <1>0, <1>2 DEF SpecStage, Begin, Produce, Review, HumanGate, Commit,
         CommitIfDirty, End
<1>3. CASE PlanStage
  BY <1>0, <1>3 DEF PlanStage, Begin, Produce, Review, HumanGate, Commit,
         CommitIfDirty, End
<1>4. CASE TestStage
  <2>1. CASE WriteProtectedList
    <3>1. /\ pc = "testsList" /\ pc' = "testsEnd" /\ protList' = (head \ accBase) \ SpecDir
          /\ UNCHANGED <<protBase, head, written, carried>>
      BY <2>1 DEF WriteProtectedList
    <3>2. dirty = {} /\ protBase = head /\ accBase # NoFile /\ accBase \intersect TestFiles = {}
      BY <1>0, <3>1 DEF InStage, TestBaseFirst
    <3>3. (written \intersect TestFiles) \intersect Kept' \subseteq protList'
      BY <1>0, <3>1, <3>2, FileKinds DEF NothingLost, Kept
    <3>4. protList' \in SUBSET Files /\ protBase' \in SUBSET Files
      BY <1>0, <3>1, <3>2 DEF TypeOK
    <3> QED
      BY <3>1, <3>2, <3>3, <3>4, NoFileAssumption
  <2> QED
    BY <1>0, <1>4, <2>1 DEF TestStage, BeginTests, TestsBase, WriteProtectedBase,
           Activate,
           Begin, Produce, Review, Commit, End
<1>5. CASE CodeStage
  BY <1>0, <1>5 DEF CodeStage, EnsureQueue, DoTask, BuildGate, CommitTask, PopTask,
         MarkTask, TasksDone, Begin, Produce, Review, HumanGate, Commit,
         CommitIfDirty, End
<1>6. CASE FinalStage
  BY <1>0, <1>6 DEF FinalStage, Begin, Produce, Review, HumanGate, Commit,
         CommitIfDirty, End
<1>7. CASE Finish \/ Stop \/ Resume
  BY <1>0, <1>7 DEF Finish, Stop, Resume
<1>8. CASE OtherRunStarts \/ OtherRunProtects
  BY <1>0, <1>8 DEF OtherRunStarts, OtherRunProtects, CarryOff
<1>9. CASE UNCHANGED vars
  BY <1>0, <1>9 DEF vars
<1> QED
  BY <1>1, <1>2, <1>3, <1>4, <1>5, <1>6, <1>7, <1>8, <1>9 DEF Next, Work

\* Who records a stage, and what is never taken back.
Records ==
  /\ \/ ledger' = ledger
     \/ pc = "specEnd" /\ ledger' = ledger \union {"write-spec"}
     \/ pc = "commitEnd" /\ ledger' = ledger \union {"commit-spec"}
     \/ pc = "planEnd" /\ ledger' = ledger \union {"write-implementation-plan"}
     \/ pc = "testsEnd" /\ ledger' = ledger \union {"write-acceptance-tests"}
     \/ pc = "codeEnd" /\ ledger' = ledger \union {"write-code"}
     \/ pc = "finalEnd" /\ ledger' = ledger \union {"final-review-and-fixes"}
  /\ approved \subseteq approved' /\ settled \subseteq settled'
  /\ disturbed => disturbed'
  /\ UNCHANGED controls \/ pc \in {"testsBase", "testsList"} \/ disturbed'
  /\ queue' = queue \/ pc \in CodeSteps
  /\ pc = "codeEnd" => UNCHANGED <<queue, settled>>
  /\ pc = "testsEnd" => UNCHANGED controls
  /\ pc \in {"commitEnd", "planEnd", "testsEnd"} => UNCHANGED <<written, carried>>

LEMMA OnlyEndsRecord == [Next]_vars => Records
<1> SUFFICES ASSUME [Next]_vars PROVE Records
  OBVIOUS
<1> USE DEF Records, state, git, hist, controls, SpecSteps, CommitSteps, PlanSteps,
      TestSteps, CodeSteps, FinalSteps
<1>1. CASE Start
  BY <1>1 DEF Start
<1>2. CASE SpecStage
  BY <1>2 DEF SpecStage, Begin, Produce, Review, HumanGate, Commit, CommitIfDirty, End
<1>3. CASE PlanStage
  BY <1>3 DEF PlanStage, Begin, Produce, Review, HumanGate, Commit, CommitIfDirty, End
<1>4. CASE TestStage
  BY <1>4 DEF TestStage, BeginTests, TestsBase, WriteProtectedBase,
         WriteProtectedList, Activate, Begin, Produce, Review, HumanGate, Commit,
         CommitIfDirty, End
<1>5. CASE CodeStage
  BY <1>5 DEF CodeStage, EnsureQueue, DoTask, BuildGate, CommitTask, PopTask,
         MarkTask, TasksDone, Begin, Produce, Review, HumanGate, Commit,
         CommitIfDirty, End
<1>6. CASE FinalStage
  BY <1>6 DEF FinalStage, Begin, Produce, Review, HumanGate, Commit, CommitIfDirty, End
<1>7. CASE Finish \/ Stop \/ Resume
  BY <1>7 DEF Finish, Stop, Resume
<1>8. CASE OtherRunStarts \/ OtherRunProtects
  BY <1>8 DEF OtherRunStarts, OtherRunProtects, CarryOff
<1>9. CASE UNCHANGED vars
  BY <1>9 DEF vars
<1> QED
  BY <1>1, <1>2, <1>3, <1>4, <1>5, <1>6, <1>7, <1>8, <1>9 DEF Next, Work

\* A recorded stage keeps what it has achieved.
LEMMA AchievedNext == IInv /\ [Next]_vars => RecordedStagesHold'
<1> SUFFICES ASSUME IInv, [Next]_vars PROVE RecordedStagesHold'
  OBVIOUS
<1>0. /\ TypeOK /\ TypeOK' /\ Place /\ NothingLost /\ InStage /\ Controls /\ Queue
      /\ Growth /\ Records /\ (RunBaseFirst /\ TestBaseFirst)'
  BY StepGrows, OnlyEndsRecord, TypeNext, BasesNext DEF IInv
<1>1. \A stage \in ledger : Achieved(stage)
  BY DEF IInv, RecordedStagesHold
<1> USE FileKinds DEF Growth, Adds, Records, Place, InStage, AfterFinal, AfterCode,
      AfterTests, AfterPlan,
      AfterCommit, AfterSpec, SpecSteps, CommitSteps, PlanSteps, TestSteps,
            CodeSteps, FinalSteps
<1>2. "write-spec" \in ledger' => Achieved("write-spec")'
  BY <1>0, <1>1 DEF Achieved
<1>3. "commit-spec" \in ledger' => Achieved("commit-spec")'
  <2>1. CASE "commit-spec" \in ledger
    <3>1. Achieved("commit-spec") /\ (SpecFile \in Kept' => SpecFile \in Kept)
      BY <1>0, <1>1, <2>1
    <3> QED
      BY <1>0, <3>1 DEF Achieved
  <2>2. CASE "commit-spec" \notin ledger /\ pc = "commitEnd"
    BY <1>0, <2>2 DEF Achieved, NothingLost, Kept
  <2> QED
    BY <1>0, <2>1, <2>2
<1>4. "write-implementation-plan" \in ledger' => Achieved("write-implementation-plan")'
  <2>1. CASE "write-implementation-plan" \in ledger
    <3>1. /\ Achieved("write-implementation-plan")
          /\ PlanFile \in Kept' => PlanFile \in Kept
      BY <1>0, <1>1, <2>1
    <3> QED
      BY <1>0, <3>1 DEF Achieved
  <2>2. CASE "write-implementation-plan" \notin ledger /\ pc = "planEnd"
    BY <1>0, <2>2 DEF Achieved, NothingLost, Kept
  <2> QED
    BY <1>0, <2>1, <2>2
<1>5. "write-acceptance-tests" \in ledger' => Achieved("write-acceptance-tests")'
  <2>1. CASE "write-acceptance-tests" \in ledger
    <3>1. /\ Achieved("write-acceptance-tests") /\ Tests' \subseteq Tests
          /\ Tests' \intersect Kept' \subseteq Tests \intersect Kept
      BY <1>0, <1>1, <2>1 DEF Tests
    <3> QED
      BY <1>0, <2>1, <3>1 DEF Achieved, controls
  <2>2. CASE "write-acceptance-tests" \notin ledger /\ pc = "testsEnd"
    BY <1>0, <2>2 DEF Achieved, NothingLost, Controls, controls, Tests, Kept
  <2> QED
    BY <1>0, <2>1, <2>2
<1>6. "write-code" \in ledger' => Achieved("write-code")'
  <2>1. CASE "write-code" \in ledger
    <3>1. Achieved("write-code") /\ queue' = queue
      BY <1>0, <1>1, <2>1
    <3>2. settled' \subseteq 1..NTasks
      BY <1>0 DEF TypeOK
    <3> QED
      BY <1>0, <3>1, <3>2 DEF Achieved
  <2>2. CASE "write-code" \notin ledger /\ pc = "codeEnd"
    <3>1. queue = 0 /\ 1..NTasks \subseteq settled
      BY <1>0, <2>2, CountsAssumption DEF Queue, PoppedTasksSettled
    <3> QED
      BY <1>0, <2>2, <3>1 DEF Achieved, TypeOK
  <2> QED
    BY <1>0, <2>1, <2>2
<1>7. "final-review-and-fixes" \in ledger' => Achieved("final-review-and-fixes")'
  BY <1>0, <1>1 DEF Achieved
<1>8. \A stage \in ledger' : Achieved(stage)'
  BY <1>0, <1>2, <1>3, <1>4, <1>5, <1>6, <1>7 DEF TypeOK, StageNames
<1>9. runBase' # NoFile => written' \intersect runBase' = {}
  BY <1>0 DEF RunBaseFirst
<1> QED
  BY <1>8, <1>9 DEF RecordedStagesHold

-----------------------------------------------------------------------------
\* A fresh run satisfies the invariant.
LEMMA InitIInv == Init => IInv
<1> SUFFICES ASSUME Init PROVE IInv
  OBVIOUS
<1> USE DEF Init
<1>1. TypeOK
  <2>1. pc \in Steps
    BY DEF Steps
  <2>2. stops \in 0..MaxStops
    BY MaxStopsAssumption
  <2> QED
    BY <2>1, <2>2 DEF TypeOK
<1>2. Place /\ InStage /\ Controls /\ Armed
  BY DEF Place, AfterFinal, AfterCode, AfterTests, AfterPlan, AfterCommit, AfterSpec,
         SpecSteps, CommitSteps, PlanSteps, TestSteps, CodeSteps, FinalSteps,
         InStage, Controls, Armed, Implementing
<1>3. NothingLost /\ RunBaseFirst /\ TestBaseFirst
  BY DEF NothingLost, Kept, RunBaseFirst, TestBaseFirst, Tests, TestSteps
<1>4. Queue
  <2>1. NoFile \notin 0..NTasks
    BY NoFileAssumption
  <2>2. PoppedTasksSettled
    BY <2>1, CountsAssumption DEF PoppedTasksSettled
  <2> QED
    BY <2>2 DEF Queue, CodeSteps
<1>5. RecordedStagesHold
  BY DEF RecordedStagesHold
<1> QED
  BY <1>1, <1>2, <1>3, <1>4, <1>5 DEF IInv

\* Every step keeps it.
LEMMA Inductive == IInv /\ [Next]_vars => IInv'
<1> SUFFICES ASSUME IInv, [Next]_vars PROVE IInv'
  OBVIOUS
<1>1. NothingLost'
  BY StepGrows DEF Growth
<1> QED
  BY <1>1, PlaceNext, InStageNext, QueueNext, BasesNext, TypeNext, ControlsNext,
     AchievedNext DEF IInv

\* It holds throughout.
LEMMA Invariant == Spec => []IInv
<1>1. Init => IInv
  BY InitIInv
<1>2. IInv /\ [Next]_vars => IInv'
  BY Inductive
<1> QED
  BY <1>1, <1>2, PTL DEF Spec

\* Every step keeps every variable in its type: the queue never counts below zero
\* and nothing is settled that is not a task (PopTask, CommitTask).
THEOREM TypeCorrect == Spec => []TypeOK
<1>1. IInv => TypeOK
  BY DEF IInv
<1> QED
  BY <1>1, Invariant, PTL

\* A stage that a resume skips has achieved what later stages rely on, whatever
\* was interrupted, but for uncommitted files that another run in the workspace
\* carried off and the controls it took; the run's base lies before its first write.
THEOREM RecordedHold == Spec => []RecordedStagesHold
<1>1. IInv => RecordedStagesHold
  BY DEF IInv
<1> QED
  BY <1>1, Invariant, PTL

\* Product code is only written under the controls that name every test, unless
\* another run in the workspace took them.
THEOREM GuardArmed == Spec => []ArmedWhileImplementing
<1>1. IInv => ArmedWhileImplementing
  <2> SUFFICES ASSUME IInv, pc \in Implementing
               PROVE  /\ active = <<protList, protBase>>
                      /\ Tests \subseteq active[1] \/ disturbed
    BY DEF ArmedWhileImplementing
  <2>1. active = <<protList, protBase>>
    BY DEF IInv, Armed
  <2>2. "write-acceptance-tests" \in ledger
    BY DEF IInv, Place, AfterTests, AfterCode, Implementing
  <2>3. Tests \subseteq protList \/ disturbed
    BY <2>2 DEF IInv, RecordedStagesHold, Achieved
  <2> QED
    BY <2>1, <2>3
<1> QED
  BY <1>1, Invariant, PTL

\* A task leaves the queue after its call, its build gate and its commit.
THEOREM TasksSettled == Spec => []PoppedTasksSettled
<1>1. IInv => PoppedTasksSettled
  BY DEF IInv, Queue
<1> QED
  BY <1>1, Invariant, PTL

\* What is delivered holds everything the agents wrote, unless another run in the
\* workspace carried it off uncommitted, and leaves nothing of this run in the tree.
THEOREM Delivered == Spec => []DeliveredWhole
<1>1. IInv => DeliveredWhole
  BY DEF IInv, Place, AfterFinal, InStage, NothingLost, Kept, DeliveredWhole
<1> QED
  BY <1>1, Invariant, PTL

-----------------------------------------------------------------------------
\* The order in which run_workflow goes through its stages.
StageOrder ==
  <<"write-spec", "commit-spec", "write-implementation-plan",
    "write-acceptance-tests", "write-code", "final-review-and-fixes">>

FirstStages(n) == {StageOrder[i] : i \in 1..n}

\* So many stages are so many names.
LEMMA StagesCounted ==
  \A n \in 0..6 : IsFiniteSet(FirstStages(n)) /\ Cardinality(FirstStages(n)) = n
<1>0. IsFiniteSet(FirstStages(0)) /\ Cardinality(FirstStages(0)) = 0
  <2>1. FirstStages(0) = {}
    BY DEF FirstStages
  <2> QED
    BY <2>1, FS_EmptySet
<1>1. ASSUME NEW n \in 0..5, IsFiniteSet(FirstStages(n)), Cardinality(FirstStages(n)) = n
      PROVE  IsFiniteSet(FirstStages(n + 1)) /\ Cardinality(FirstStages(n + 1)) = n + 1
  <2>1. FirstStages(n + 1) = FirstStages(n) \union {StageOrder[n + 1]}
    BY DEF FirstStages
  <2>2. StageOrder[n + 1] \notin FirstStages(n)
    BY DEF FirstStages, StageOrder
  <2> QED
    BY <1>1, <2>1, <2>2, FS_AddElement
<1> QED
  <2>1. \A n \in 0..5 :
          IsFiniteSet(FirstStages(n)) /\ Cardinality(FirstStages(n)) = n =>
          IsFiniteSet(FirstStages(n + 1)) /\ Cardinality(FirstStages(n + 1)) = n + 1
    BY <1>1
  <2> HIDE DEF FirstStages
  <2> QED
    BY <1>0, <2>1

\* The ledger holds the first so many stages, and no other.
LedgerIsPrefix == ledger = FirstStages(Cardinality(ledger))

LEMMA LedgerInIInv == IInv => LedgerIsPrefix /\ Cardinality(ledger) \in 0..6
<1> SUFFICES ASSUME IInv PROVE LedgerIsPrefix /\ Cardinality(ledger) \in 0..6
  OBVIOUS
<1>1. Place /\ ledger \subseteq StageNames
  BY DEF IInv, TypeOK
<1>2. \E n \in 0..6 : ledger = FirstStages(n)
  <2> DEFINE s(i) == StageOrder[i]
  <2>1. ledger \subseteq {s(i) : i \in 1..6}
    BY <1>1 DEF StageNames, StageOrder
  <2>2. \A i \in 2..6 : s(i) \in ledger => s(i - 1) \in ledger
    BY <1>1 DEF StageOrder, Place
  <2> QED
    BY <2>1, <2>2 DEF FirstStages
<1> QED
  BY <1>2, StagesCounted DEF LedgerIsPrefix

\* The ledger of a run is a prefix of its stages at all times, whatever was
\* interrupted: no stage is recorded before an earlier one, so that its length
\* says all that it holds (end_stage, begin_stage).
THEOREM LedgerInOrder == Spec => []LedgerIsPrefix
<1>1. IInv => LedgerIsPrefix
  BY LedgerInIInv
<1> QED
  BY <1>1, Invariant, PTL

-----------------------------------------------------------------------------
\* An attempt is at work from its first step to its end.
Workers == IF pc \in {"start", "down"} THEN {} ELSE {"attempt"}

\* The life of this run, as RunOwnership sees it: the attempts that follow each
\* other are its owner, the ledger counts, and mark_completed closes it.
Ownership == INSTANCE RunOwnership WITH
  Runs <- {"run"},
  Procs <- {"attempt"},
  Stages <- Cardinality(StageNames),
  owners <- [r \in {"run"} |-> Workers],
  progress <- [r \in {"run"} |-> Cardinality(ledger)],
  closed <- [r \in {"run"} |-> pc = "done"]

ImplementsOwnership == Ownership!Spec

\* Attempts start, end and finish where they may, and record in between.
Flow ==
  \/ pc \in {"start", "down"} /\ pc' \in {"start", "down", "write-spec"}
       /\ ledger' = ledger /\ (pc = "down" => pc' # "write-spec")
  \/ /\ pc \notin {"start", "down", "done"}
     /\ pc' # "start"
     /\ pc' = "done" => pc = "finish"
     /\ ledger' # ledger => pc' \notin {"down", "done"}
  \/ UNCHANGED <<pc, ledger>>

LEMMA StepFlows == [Next]_vars => Flow
<1> SUFFICES ASSUME [Next]_vars PROVE Flow
  OBVIOUS
<1> USE DEF Flow, state
<1>1. CASE Start
  BY <1>1 DEF Start
<1>2. CASE SpecStage
  BY <1>2 DEF SpecStage, Begin, Produce, Review, HumanGate, Commit, End
<1>3. CASE PlanStage
  BY <1>3 DEF PlanStage, Begin, Produce, Review, HumanGate, Commit, End
<1>4. CASE TestStage
  BY <1>4 DEF TestStage, BeginTests, TestsBase, WriteProtectedBase,
         WriteProtectedList, Activate, Begin, Produce, Review, Commit, End
<1>5. CASE CodeStage
  BY <1>5 DEF CodeStage, EnsureQueue, DoTask, BuildGate, CommitTask, PopTask,
         MarkTask, TasksDone, Begin, Produce, Review, CommitIfDirty, Commit, End
<1>6. CASE FinalStage
  BY <1>6 DEF FinalStage, Begin, Produce, Review, CommitIfDirty, Commit, End
<1>7. CASE Finish \/ Stop \/ Resume
  BY <1>7 DEF Finish, Stop, Resume
<1>8. CASE OtherRunStarts \/ OtherRunProtects
  BY <1>8 DEF OtherRunStarts, OtherRunProtects, CarryOff
<1>9. CASE UNCHANGED vars
  BY <1>9 DEF vars
<1> QED
  BY <1>1, <1>2, <1>3, <1>4, <1>5, <1>6, <1>7, <1>8, <1>9 DEF Next, Work

LEMMA StageNamesCounted == IsFiniteSet(StageNames) /\ Cardinality(StageNames) = 6
<1>1. StageNames = FirstStages(6)
  <2>1. 1..6 = {1, 2, 3, 4, 5, 6}
    OBVIOUS
  <2> QED
    BY <2>1 DEF StageNames, FirstStages, StageOrder
<1> QED
  BY <1>1, StagesCounted

\* A step that records a stage records one that was not recorded.
LEMMA StepRecords ==
  ASSUME IInv, [Next]_vars, ledger' # ledger
  PROVE  Cardinality(ledger') = Cardinality(ledger) + 1 /\ Cardinality(ledger) < 6
<1>1. PICK stage \in StageNames \ ledger : ledger' = ledger \union {stage}
  <2>1. Place /\ Records
    BY OnlyEndsRecord DEF IInv
  <2> QED
    BY <2>1 DEF Place, Records, StageNames, SpecSteps, CommitSteps, PlanSteps,
           TestSteps, CodeSteps, FinalSteps
<1>2. ledger \subseteq StageNames /\ ledger' \subseteq StageNames
  BY <1>1 DEF IInv, TypeOK
<1>3. IsFiniteSet(ledger) /\ Cardinality(ledger') = Cardinality(ledger) + 1
  BY <1>1, <1>2, StageNamesCounted, FS_Subset, FS_AddElement
<1>4. Cardinality(ledger') <= 6 /\ Cardinality(ledger) \in Nat
  BY <1>2, <1>3, StageNamesCounted, FS_Subset, FS_CardinalityType
<1> QED
  BY <1>3, <1>4

\* Every step is an abstract step or leaves owner, ledger and end alone.
LEMMA StepImplements == IInv /\ [Next]_vars => [Ownership!Next]_(Ownership!vars)
<1> SUFFICES ASSUME IInv, [Next]_vars
             PROVE  Ownership!Next \/ UNCHANGED Ownership!vars
  OBVIOUS
<1>0. Flow
  BY StepFlows
<1> USE DEF Workers
<1> DEFINE a == "attempt"
           r == "run"
<1>1. CASE UNCHANGED <<pc, ledger>>
  BY <1>1 DEF Ownership!vars
<1>2. CASE pc \in {"start", "down"} /\ ledger' = ledger
  <2>1. CASE pc' \in {"start", "down"}
    BY <1>2, <2>1 DEF Ownership!vars
  <2>2. CASE pc' = "write-spec"
    <3>1. Ownership!Acquire(a, r)
      BY <1>2, <2>2 DEF Ownership!Acquire
    <3> QED
      BY <3>1 DEF Ownership!Next
  <2> QED
    BY <1>0, <1>2, <2>1, <2>2 DEF Flow
<1>3. CASE pc \notin {"start", "down", "done"} /\ ledger' # ledger
  <2>1. Cardinality(ledger') = Cardinality(ledger) + 1 /\ Cardinality(ledger) < 6
    BY <1>3, StepRecords
  <2>2. pc' \notin {"start", "down", "done"}
    BY <1>0, <1>3 DEF Flow
  <2>3. Ownership!Record(a, r)
    BY <1>3, <2>1, <2>2, StageNamesCounted DEF Ownership!Record
  <2> QED
    BY <2>3 DEF Ownership!Next
<1>4. CASE pc \notin {"start", "down", "done"} /\ ledger' = ledger
  <2>1. CASE pc' = "down"
    <3>1. Ownership!Release(a, r)
      BY <1>4, <2>1 DEF Ownership!Release
    <3> QED
      BY <3>1 DEF Ownership!Next
  <2>2. CASE pc' = "done"
    <3>1. pc = "finish"
      BY <1>0, <1>4, <2>2 DEF Flow
    <3>2. ledger = StageNames
      BY <3>1 DEF IInv, TypeOK, StageNames, Place, AfterFinal, AfterCode, AfterTests,
             AfterPlan, AfterCommit, AfterSpec
    <3>3. Ownership!Close(a, r)
      BY <1>4, <2>2, <3>2 DEF Ownership!Close
    <3> QED
      BY <3>3 DEF Ownership!Next
  <2>3. CASE pc' \notin {"start", "down", "done"}
    BY <1>4, <2>3 DEF Ownership!vars
  <2> QED
    BY <1>0, <1>4, <2>1, <2>2, <2>3 DEF Flow
<1> QED
  BY <1>0, <1>1, <1>2, <1>3, <1>4 DEF Flow

\* run_workflow and its resumes are one life of a run as RunLifecycle has it: what
\* is proved there of a ledger that is a number holds of this one.
THEOREM Refinement == Spec => ImplementsOwnership
<1>1. Init => Ownership!Init
  BY FS_EmptySet DEF Init, Ownership!Init, Workers
<1> QED
  BY <1>1, StepImplements, Invariant, PTL DEF Spec, ImplementsOwnership, Ownership!Spec

-----------------------------------------------------------------------------
TaskLoop == {"task", "taskGate", "taskCommit", "taskPop", "taskMark"}

\* How much of an attempt is left: its steps, with the task loop as one, ...
PartsLeft ==
  CASE pc = "start" -> 38
    [] pc = "write-spec" -> 37 [] pc = "spec" -> 36 [] pc = "specReview" -> 35
    [] pc = "specGate" -> 34 [] pc = "specEnd" -> 33 [] pc = "commit-spec" -> 32
    [] pc = "commit" -> 31 [] pc = "commitEnd" -> 30
    [] pc = "write-implementation-plan" -> 29 [] pc = "plan" -> 28
    [] pc = "planReview" -> 27 [] pc = "planGate" -> 26 [] pc = "planCommit" -> 25
    [] pc = "planEnd" -> 24 [] pc = "write-acceptance-tests" -> 23
    [] pc = "tests" -> 22 [] pc = "testsWork" -> 21 [] pc = "testsReview" -> 20
    [] pc = "testsCommit" -> 19 [] pc = "testsBase" -> 18 [] pc = "testsList" -> 17
    [] pc = "testsEnd" -> 16 [] pc = "activate" -> 15 [] pc = "write-code" -> 14
    [] pc = "code" -> 13 [] pc \in TaskLoop -> 12 [] pc = "codeGate" -> 11
    [] pc = "codeReview" -> 10 [] pc = "codeCommit" -> 9 [] pc = "codeEnd" -> 8
    [] pc = "final-review-and-fixes" -> 7 [] pc = "final" -> 6
    [] pc = "finalGate" -> 5 [] pc = "finalReview" -> 4 [] pc = "finalCommit" -> 3
    [] pc = "finalEnd" -> 2 [] pc = "finish" -> 1 [] OTHER -> 0

\* ... the tasks of the loop, ...
TasksLeft == IF pc \in TaskLoop THEN queue ELSE 0

\* ... and the steps to its next pop.
StepsLeft ==
  CASE pc = "taskMark" -> 4
    [] pc = "task" -> 3
    [] pc = "taskGate" -> 2
    [] pc = "taskCommit" -> 1
    [] OTHER -> 0

Left == <<PartsLeft, TasksLeft, StepsLeft>>

Descends == <<Left', Left>> \in Below(3)

LeftIsNat == PartsLeft \in Nat /\ TasksLeft \in Nat /\ StepsLeft \in Nat

LEMMA LeftInIInv == IInv => LeftIsNat
<1>1. PartsLeft \in Nat /\ StepsLeft \in Nat
  BY DEF PartsLeft, StepsLeft, TaskLoop
<1>2. IInv => TasksLeft \in Nat
  BY CountsAssumption DEF IInv, Queue, TasksLeft, TaskLoop, CodeSteps
<1> QED
  BY <1>1, <1>2 DEF LeftIsNat

LEMMA AttemptDescends ==
  IInv /\ LeftIsNat /\ LeftIsNat' /\ pc \notin {"down", "done"} /\ Next => Descends
<1> SUFFICES ASSUME IInv, LeftIsNat, LeftIsNat', pc \notin {"down", "done"}, Next
             PROVE  Descends
  OBVIOUS
<1> DEFINE less ==
      \/ PartsLeft' < PartsLeft
      \/ PartsLeft' = PartsLeft /\ TasksLeft' < TasksLeft
      \/ PartsLeft' = PartsLeft /\ TasksLeft' = TasksLeft /\ StepsLeft' < StepsLeft
<1> SUFFICES less
  BY BelowThree DEF Descends, Left, LeftIsNat
<1> USE DEF PartsLeft, TaskLoop, state
<1>1. CASE Start
  BY <1>1 DEF Start
<1>2. CASE SpecStage
  BY <1>2 DEF SpecStage, Begin, Produce, Review, HumanGate, Commit, End
<1>3. CASE PlanStage
  BY <1>3 DEF PlanStage, Begin, Produce, Review, HumanGate, Commit, End
<1>4. CASE TestStage
  BY <1>4 DEF TestStage, BeginTests, TestsBase, WriteProtectedBase,
         WriteProtectedList, Activate, Begin, Produce, Review, Commit, End
<1>5. CASE CodeStage
  <2>1. CASE DoTask \/ BuildGate \/ CommitTask \/ MarkTask
    BY <2>1 DEF DoTask, BuildGate, Produce, CommitTask, MarkTask, TasksLeft, StepsLeft
  <2>2. CASE PopTask
    <3>1. queue \in 0..NTasks
      BY <2>2 DEF PopTask, IInv, Queue, CodeSteps
    <3> QED
      BY <2>2, <3>1, CountsAssumption DEF PopTask, TasksLeft
  <2> QED
    BY <1>5, <2>1, <2>2 DEF CodeStage, EnsureQueue, TasksDone, Begin, Produce, Review,
           CommitIfDirty, Commit, End
<1>6. CASE FinalStage
  BY <1>6 DEF FinalStage, Begin, Produce, Review, CommitIfDirty, Commit, End
<1>7. CASE Finish \/ Stop
  <2>1. pc \in Steps
    BY DEF IInv, TypeOK
  <2> QED
    BY <1>7, <2>1 DEF Finish, Stop, Steps, StageNames, SpecSteps, CommitSteps, PlanSteps,
           TestSteps, CodeSteps, FinalSteps
<1>8. CASE Resume \/ OtherRunStarts \/ OtherRunProtects
  BY <1>8 DEF Resume, OtherRunStarts, OtherRunProtects
<1> QED
  BY <1>1, <1>2, <1>3, <1>4, <1>5, <1>6, <1>7, <1>8 DEF Next, Work

\* Every step of an attempt leaves less of it, in an order without endless
\* descents (NoEndlessDescent): the steps of run_workflow go forward, and its task
\* loop pops a task on every round.
THEOREM AttemptIsFinite == Spec => [][pc \notin {"down", "done"} => Descends]_vars
<1>1. IInv /\ LeftIsNat /\ LeftIsNat' /\ [Next]_vars =>
        [pc \notin {"down", "done"} => Descends]_vars
  BY AttemptDescends
<1> QED
  BY <1>1, LeftInIInv, Invariant, PTL DEF Spec
=============================================================================
