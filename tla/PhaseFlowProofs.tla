-------------------------- MODULE PhaseFlowProofs --------------------------
(***************************************************************************)
(* The safety properties of PhaseFlow, for every number of phases, tasks   *)
(* and rounds and every choice of regression guards.                       *)
(*                                                                         *)
(* Phases are worked on in order, so that at most one phase is begun and   *)
(* not yet recorded: while its tests are written, every other test there   *)
(* is belongs to a recorded phase, is in the list and under guard.         *)
(*                                                                         *)
(* AttemptIsFinite is the safety half of AttemptEnds.  PhasesInOrder says  *)
(* that the ledger is a prefix of what a plan asks for, Refinement that a  *)
(* phased run is a run as RunOwnership has it.                             *)
(***************************************************************************)
EXTENDS PhaseFlow, Descent, FiniteSetTheorems, TLAPS

PhaseSteps == {"begin", "testBase", "record1", "record2", "checkpoint", "testsEnd",
               "activate", "implement"} \union AuthorSteps \union ImplementSteps
\* Steps at which the tests of the phase at hand are not recorded yet.
RecordSteps == {"record1", "record2", "checkpoint"}
Unrecorded == {"testBase"} \union AuthorSteps \union RecordSteps
\* Steps after which every task of the phase is done.
AfterTasks == {"phaseGate", "gateCommit", "phaseBase", "phaseReview", "phaseVerdict",
               "reviewCommit", "implementEnd"}

Begun == {n \in Phases : testBase[n] # NoFile}
Listed == IF list = NoFile THEN {} ELSE list

\* Phases are worked on in order, and a phase's tests before its implementation.
Place ==
  /\ pc \notin PhaseSteps \union {"done"} => phase = 1
  /\ pc \in PhaseSteps =>
       saved /\ \A m \in Phases : m < phase => <<m, "implement">> \in ledger
  /\ pc \in Unrecorded => phase \notin recorded
  /\ pc \in {"testsEnd"} => phase \in recorded
  /\ pc \in {"activate", "implement"} \union ImplementSteps =>
       <<phase, "tests">> \in ledger
  /\ pc \in AuthorSteps \union RecordSteps => testBase[phase] # NoFile
  /\ \A n \in Phases :
       /\ <<n, "implement">> \in ledger => <<n, "tests">> \in ledger
       /\ <<n, "tests">> \in ledger => n \in recorded
       /\ n \in recorded => testBase[n] # NoFile
       /\ testBase[n] # NoFile =>
            \A m \in Phases : m < n => <<m, "implement">> \in ledger
  /\ ~saved => recorded = {} /\ ledger \subseteq {<<0, "plan">>}
  /\ pc = "planError" => ~saved

\* Where tests are: of begun phases only, and of recorded ones only in the list.
Written ==
  /\ head \union dirty \union changed \union Listed \subseteq Begun
  /\ (head \union dirty \union changed) \intersect recorded \subseteq Listed
  /\ \A n \in Phases : testBase[n] # NoFile => n \notin testBase[n]

\* What the test stage has on disk and in git at its last steps.
Recording ==
  /\ recorded # {} => list # NoFile /\ based
  /\ pc \in RecordSteps => dirty = {}
  /\ pc \in {"record2", "checkpoint"} => based /\ changed = {}
  /\ pc = "checkpoint" => list # NoFile /\ (phase \in head => phase \in list)
  /\ changed \intersect recorded \subseteq tampered
  /\ NothingLaundered

\* What is under guard.
Armed ==
  /\ Protected \subseteq Listed \intersect (recorded \union torn)
  /\ Listed \subseteq recorded \union torn
                      \union (IF pc = "checkpoint" THEN {phase} ELSE {})
  /\ \/ pc \in {"implement"} \union ImplementSteps
     \/ phase > 1 /\ pc \in {"begin", "testBase", "record1", "record2"} \union AuthorSteps
     => armed = list /\ list # NoFile

\* What reviews and red checks have seen of the tests at hand.
Seen ==
  /\ pc = "red" => reviewed \/ (repaired /\ gated)
  /\ pc = "redRepair" => repaired /\ gated
  /\ ReviewedAndRed

\* The queues, and the task that is being done.
Queues ==
  /\ \A n \in Phases : queue[n] # NoFile => {n} \X (1..(NTasks - queue[n])) \subseteq settled
  /\ pc \in ImplementSteps \ {"queue"} => Remaining \in 0..NTasks
  /\ pc \in {"taskGate", "taskCommit", "taskPop"} => Remaining > 0
  /\ pc = "taskPop" => <<phase, NTasks - Remaining + 1>> \in settled
  /\ pc \in AfterTasks => Remaining = 0
  /\ \A n \in Phases : <<n, "implement">> \in ledger => {n} \X (1..NTasks) \subseteq settled

IInv == TypeOK /\ Place /\ Written /\ Recording /\ Armed /\ Seen /\ Queues

-----------------------------------------------------------------------------
\* What calls, and the steps between them that decide on what they did, have in
\* common: they change tests of their business and guarded ones.
Works(own) ==
  \E F \in SUBSET (own \union Protected) :
    /\ head' \subseteq head \union dirty \union F /\ dirty' \subseteq dirty \union F
    /\ changed' \subseteq changed \union F /\ hidden' \subseteq hidden \union F
    /\ tampered' = tampered \union (F \intersect recorded)
    /\ UNCHANGED <<saved, ledger, testBase, recorded, controls, torn>>
    /\ (pc' # "down" /\ UNCHANGED <<phase, armed>>) \/ Down

Working ==
  \/ /\ pc \in AuthorSteps /\ pc' \in AuthorSteps \union {"record1", "down"}
     /\ Works({phase})
     /\ pc' = "record1" => dirty' = {} /\ changed' \intersect Protected \subseteq hidden'
  \/ /\ pc \in ImplementSteps /\ pc' \in ImplementSteps \union {"down"}
     /\ Works({})

\* The other steps.
Other ==
  \/ PlanStage
  \/ SkipTests \/ BeginTests \/ RecordBase("testBase", "tests")
  \/ Record(1, "record1", "record2") \/ Record(2, "record2", "checkpoint")
  \/ Checkpoint \/ EndStage("testsEnd", "activate", <<phase, "tests">>) \/ Activate
  \/ SkipImplement \/ BeginImplement \/ RecordBase("phaseBase", "phaseReview")
  \/ EndImplement
  \/ Stop \/ Resume \/ UNCHANGED vars

\* A call that returns has left no guarded test changed but by a rename.
LEMMA CallWorks ==
  ASSUME NEW from, NEW to, to # "down", NEW own, CallOnly(from, to, own)
  PROVE  /\ Works(own) /\ pc = from /\ pc' \in {to, "down"}
         /\ pc' = to => changed' \intersect Protected \subseteq hidden'
<1> USE DEF CallOnly, Change, Works, plan, state
<1>1. PICK F \in SUBSET (own \union Protected), commits \in BOOLEAN,
           renamed \in SUBSET Protected :
        /\ renamed \subseteq F
        /\ \/ /\ LET back == Named(Differs(F), (hidden \ F) \union renamed)
                 IN /\ Change(F \union back, renamed, commits)
                    /\ changed' = Differs(F) \ back
                    /\ Touch(F \union back, own)
              /\ pc' = to /\ UNCHANGED <<phase, locals, armed>>
           \/ /\ Change(F, renamed, commits)
              /\ changed' = Differs(F)
              /\ Down
  <2>1. PICK F \in SUBSET (own \union Protected), commits \in BOOLEAN :
          \E renamed \in SUBSET (F \intersect Protected) :
            \/ /\ LET back == Named(Differs(F), (hidden \ F) \union renamed)
                  IN /\ Change(F \union back, renamed, commits)
                     /\ changed' = Differs(F) \ back
                     /\ Touch(F \union back, own)
               /\ pc' = to /\ UNCHANGED <<phase, locals, armed>>
            \/ /\ Change(F, renamed, commits)
               /\ changed' = Differs(F)
               /\ Down
    BY DEF CallOnly
  <2>2. \A renamed \in SUBSET (F \intersect Protected) :
          renamed \in SUBSET Protected /\ renamed \subseteq F
    OBVIOUS
  <2> HIDE DEF CallOnly, Change
  <2> QED
    BY <2>1, <2>2
<1>2. Differs(F) \subseteq changed \union F
  BY DEF Differs
<1>3. CASE Down /\ Change(F, renamed, commits) /\ changed' = Differs(F)
  BY <1>1, <1>2, <1>3 DEF Down, EndIn
<1> DEFINE back == Named(Differs(F), (hidden \ F) \union renamed)
           G == F \union back
<1>4. CASE /\ Change(G, renamed, commits)
           /\ changed' = Differs(F) \ back
           /\ pc' = to /\ UNCHANGED <<phase, locals, armed>>
  <2>1. G \in SUBSET (own \union Protected)
    BY DEF Named
  <2>2. changed' \subseteq changed \union G /\ hidden' \subseteq hidden \union G
    <3>1. renamed \subseteq F /\ F \subseteq G
      BY <1>1
    <3> QED
      BY <1>2, <1>4, <3>1
  <2>3. changed' \intersect Protected \subseteq (hidden \ F) \union renamed
    BY <1>4 DEF Named
  <2>4. hidden' = (hidden \ G) \union renamed /\ changed' \intersect back = {}
    BY <1>4
  <2>5. changed' \intersect Protected \subseteq hidden'
    BY <2>3, <2>4
  <2>6. /\ head' \subseteq head \union dirty \union G /\ dirty' \subseteq dirty \union G
        /\ tampered' = tampered \union (G \intersect recorded)
        /\ UNCHANGED <<saved, ledger, testBase, recorded, controls, torn>>
        /\ pc' # "down" /\ UNCHANGED <<phase, armed>> /\ pc = from
    BY <1>4
  <2> HIDE DEF G
  <2> QED
    BY <1>4, <2>1, <2>2, <2>5, <2>6
<1> QED
  BY <1>1, <1>3, <1>4

\* A step without a call, and an approving one.
LEMMA GotoWorks ==
  ASSUME NEW from, NEW to, to # "down", Goto(from, to), NEW own
  PROVE  Works(own) /\ pc = from /\ pc' = to
<1>1. {} \in SUBSET (own \union Protected)
  OBVIOUS
<1> QED
  BY <1>1 DEF Goto, Works, plan, state, controls, files, hist, memory

LEMMA ApproveWorks ==
  ASSUME NEW from, NEW to, to # "down", NEW own, Approve(from, to, own)
  PROVE  Works(own) /\ pc = from /\ pc' = to
<1>1. PICK F \in SUBSET (own \union Protected), commits \in BOOLEAN,
           renamed \in SUBSET Protected :
        /\ renamed \subseteq F
        /\ Change(F, renamed, commits) /\ changed' = Differs(F)
  BY DEF Approve
<1> QED
  BY <1>1 DEF Approve, Change, Differs, Works, plan, state

\* No step of a loop touches a file between its calls.
LEMMA QuietWorks ==
  ASSUME UNCHANGED <<saved, ledger, testBase, recorded, controls, torn, files, tampered>>,
         (pc' # "down" /\ UNCHANGED <<phase, armed>>) \/ Down, NEW own
  PROVE  Works(own)
<1>1. {} \in SUBSET (own \union Protected)
  OBVIOUS
<1> QED
  BY <1>1 DEF Works, files

\* Every step is a working one or one of the others.
LEMMA Kinds == [Next]_vars => Working \/ Other
<1> SUFFICES ASSUME [Next]_vars PROVE Working \/ Other
  OBVIOUS
<1> USE DEF AuthorSteps, ImplementSteps
<1>1. ASSUME NEW from \in AuthorSteps, NEW to \in AuthorSteps,
             Call(from, to, {phase}) \/ Goto(from, to) \/ Approve(from, to, {phase})
      PROVE  Working
  <2>1. Works({phase}) /\ pc = from /\ pc' \in {to, "down"}
    BY <1>1, CallWorks, GotoWorks, ApproveWorks DEF Call
  <2> QED
    BY <2>1 DEF Working
<1>2. ASSUME NEW from \in ImplementSteps, NEW to \in ImplementSteps,
             CallOnly(from, to, {}) \/ Goto(from, to) \/ Approve(from, to, {})
      PROVE  Working
  <2>1. Works({}) /\ pc = from /\ pc' \in {to, "down"}
    BY <1>2, CallWorks, GotoWorks, ApproveWorks
  <2> QED
    BY <2>1 DEF Working
<1>3. CASE RedAccepts \/ ReviewAgain \/ RedFails
  <2>1. /\ UNCHANGED <<saved, ledger, testBase, recorded, controls, torn, files, tampered>>
        /\ (pc' # "down" /\ UNCHANGED <<phase, armed>>) \/ Down
        /\ pc = "red" /\ pc' \in AuthorSteps \union {"down"}
    BY <1>3 DEF RedAccepts, ReviewAgain, RedFails, Down, EndIn, plan, state, hist
  <2> QED
    BY <2>1, QuietWorks DEF Working
<1>4. CASE EnsureQueue \/ PopTask \/ MarkTask
  <2>1. /\ UNCHANGED <<saved, ledger, testBase, recorded, controls, torn, files, tampered>>
        /\ pc' # "down" /\ UNCHANGED <<phase, armed>>
        /\ pc \in ImplementSteps /\ pc' \in ImplementSteps
    BY <1>4 DEF EnsureQueue, PopTask, MarkTask, memory, plan, state, hist
  <2> QED
    BY <2>1, QuietWorks DEF Working
<1>5. CASE PlanStage \/ Stop \/ Resume \/ UNCHANGED vars
  BY <1>5 DEF Other
<1>6. CASE TestStage
  <2>1. CASE CommitWork("commitTests", "record1", {phase})
    <3>1. /\ Works({phase}) /\ pc = "commitTests" /\ pc' \in {"record1", "down"}
          /\ pc' = "record1" =>
               dirty' = {} /\ changed' \intersect Protected \subseteq hidden'
      BY <2>1, CallWorks DEF CommitWork, Call
    <3> QED
      BY <3>1 DEF Working
  <2> QED
    BY <1>1, <1>3, <1>6, <2>1 DEF TestStage, Other, Repairs, NoRedCheck
<1>7. CASE ImplementStage
  BY <1>2, <1>4, <1>7 DEF ImplementStage, Other, Repairs, DoTask, TasksDone, CommitTask,
     CommitIfDirty, CommitWork, Call
<1> QED
  BY <1>5, <1>6, <1>7 DEF Next, Attempt

\* What the steps of the plan stage have in common.
Planning ==
  /\ pc \in PlanSteps \union {"start", "phases"}
  /\ pc' \in PlanSteps \union {"phases", "begin", "planError", "down"}
  /\ phase' \in {phase, 1} /\ armed' \in {armed, NoFile}
  /\ ledger' \in {ledger, ledger \union {<<0, "plan">>}}
  /\ UNCHANGED <<testBase, recorded, queue, controls, files, hist>>
  /\ saved => saved'
  /\ pc' = "begin" => saved'
  /\ pc' = "planError" => ~saved'

LEMMA PlanStagePlans == PlanStage => Planning
<1> SUFFICES ASSUME PlanStage PROVE Planning
  OBVIOUS
<1> USE DEF Planning, PlanSteps, memory, plan, state, locals, checks, Down, EndIn
<1>1. CASE Start
  BY <1>1 DEF Start, Goto
<1>2. ASSUME NEW from, NEW to, PlanCall(from, to),
             from \in PlanSteps, to \in PlanSteps
      PROVE  Planning
  BY <1>2 DEF PlanCall
<1>3. CASE StructureHolds \/ StructureFails
  BY <1>3 DEF StructureHolds, StructureFails
<1>4. CASE EndStage("planEnd", "phases", <<0, "plan">>)
  BY <1>4 DEF EndStage
<1>5. CASE EnsurePhases
  BY <1>5 DEF EnsurePhases, PhasesKnown
<1> QED
  BY <1>1, <1>2, <1>3, <1>4, <1>5 DEF PlanStage

\* Until its checkpoint, all other tests there are belong to recorded phases.
LEMMA OnlyThisPhase ==
  ASSUME Place, pc \in Unrecorded, phase \in Phases, recorded \subseteq Phases
  PROVE  Begun \subseteq recorded \union {phase} /\ (phase = 1 => recorded = {})
<1> USE DEF Phases
<1>1. ASSUME NEW n \in Phases, n \notin recorded, n < phase PROVE FALSE
  BY <1>1 DEF Place, Unrecorded, PhaseSteps, RecordSteps
<1>2. ASSUME NEW n \in Phases, n > phase PROVE testBase[n] = NoFile
  BY <1>2 DEF Place
<1>3. Begun \subseteq recorded \union {phase}
  BY <1>1, <1>2 DEF Begun
<1>4. ASSUME phase = 1, NEW n \in recorded PROVE FALSE
  <2>1. n \in Phases /\ n # phase /\ testBase[n] # NoFile
    BY <1>4 DEF Place
  <2> QED
    BY <1>2, <1>4, <2>1, CountsAssumption
<1> QED
  BY <1>3, <1>4

\* The list grows by the tests of the phase.
LEMMA ListGrows ==
  ASSUME head \subseteq Tests, Listed \subseteq Begun, Record(2, "record2", "checkpoint")
  PROVE  /\ list' # NoFile /\ Listed' = Listed \union (head \ testBase[phase])
         /\ pc = "record2" /\ pc' = "checkpoint"
         /\ UNCHANGED <<phase, armed, testBase, recorded, based, files, tampered, torn>>
<1>1. /\ list' = NewList /\ pc = "record2" /\ pc' = "checkpoint"
      /\ UNCHANGED <<phase, armed, testBase, recorded, based, files, tampered, torn>>
  BY DEF Record, WriteOrder, memory, state, files, hist
<1>2. NewList \in SUBSET Tests
  BY DEF NewList, Begun, Listed, Tests
<1>3. list' # NoFile
  BY <1>1, <1>2, NoFileAssumption DEF Tests, Phases
<1> QED
  BY <1>1, <1>3 DEF NewList, Listed

-----------------------------------------------------------------------------
\* Place is preserved: a phase is begun when the one before it is implemented.
LEMMA PlaceNext == IInv /\ [Next]_vars => Place'
<1> SUFFICES ASSUME IInv, [Next]_vars PROVE Place'
  OBVIOUS
<1>0. /\ phase \in Phases /\ head \union dirty \union changed \subseteq Tests
      /\ testBase \in [Phases -> {NoFile} \union SUBSET Tests] /\ recorded \subseteq Phases
      /\ Place /\ Written
  BY DEF IInv, TypeOK
<1> USE DEF Place, PhaseSteps, PlanSteps, AuthorSteps, ImplementSteps, RecordSteps,
      Unrecorded, Ends, Down, EndIn, FreshLocals, FreshChecks, memory, locals, checks,
      plan, state, controls, files, hist
<1>1. CASE Working
  BY <1>0, <1>1 DEF Working, Works, Down, EndIn
<1>2. CASE PlanStage
  <2>1. Planning
    BY <1>2, PlanStagePlans
  <2>2. \A n \in Phases : /\ <<n, "implement">> \in ledger' <=> <<n, "implement">> \in ledger
                         /\ <<n, "tests">> \in ledger' <=> <<n, "tests">> \in ledger
    BY <2>1 DEF Planning
  <2>3. \A m \in Phases : ~(m < 1)
    BY DEF Phases
  <2> QED
    BY <1>0, <2>1, <2>2, <2>3 DEF Planning
<1>3. CASE SkipTests
  BY <1>0, <1>3 DEF SkipTests, AfterSkip
<1>4. CASE BeginTests
  BY <1>0, <1>4 DEF BeginTests, Goto
<1>5. CASE RecordBase("testBase", "tests")
  <2>1. \A n \in Phases : n # phase => testBase'[n] = testBase[n]
    BY <1>0, <1>5 DEF RecordBase
  <2>2. testBase'[phase] # NoFile
    <3>1. testBase'[phase] = RecordOnce(testBase[phase])
      BY <1>0, <1>5 DEF RecordBase
    <3>2. head # NoFile
      BY <1>0, NoFileAssumption DEF Tests, Phases
    <3> QED
      BY <3>1, <3>2 DEF RecordOnce
  <2>3. /\ pc = "testBase" /\ pc' = "tests" /\ UNCHANGED <<phase, saved, ledger, recorded>>
    BY <1>5 DEF RecordBase
  <2> QED
    BY <1>0, <2>1, <2>2, <2>3
<1>6. CASE Record(1, "record1", "record2")
  BY <1>0, <1>6 DEF Record, WriteOrder
<1>7. CASE Record(2, "record2", "checkpoint")
  BY <1>0, <1>7 DEF Record, WriteOrder, NewList
<1>8. CASE Checkpoint
  BY <1>0, <1>8 DEF Checkpoint
<1>9. CASE EndStage("testsEnd", "activate", <<phase, "tests">>)
  BY <1>0, <1>9 DEF EndStage
<1>10. CASE Activate
  BY <1>0, <1>10 DEF Activate
<1>11. CASE SkipImplement
  <2>1. \A m \in Phases : m < phase => <<m, "implement">> \in ledger'
    BY <1>0, <1>11 DEF SkipImplement
  <2>2. <<phase, "implement">> \in ledger'
    BY <1>11 DEF SkipImplement
  <2>3. /\ pc' = "done" \/ (pc' = "begin" /\ phase' = phase + 1)
        /\ ledger \subseteq ledger' /\ ledger' \subseteq ledger \union {<<phase, "implement">>}
        /\ UNCHANGED <<saved, recorded, testBase>> /\ saved
    BY <1>0, <1>11 DEF SkipImplement, NextPhase
  <2>4. \A m \in Phases : m < phase + 1 => m < phase \/ m = phase
    BY <1>0 DEF Phases
  <2>5. <<phase, "tests">> \in ledger
    BY <1>0, <1>11 DEF SkipImplement
  <2> QED
    BY <1>0, <2>1, <2>2, <2>3, <2>4, <2>5
<1>12. CASE BeginImplement
  BY <1>0, <1>12 DEF BeginImplement, Goto
<1>13. CASE RecordBase("phaseBase", "phaseReview")
  BY <1>0, <1>13 DEF RecordBase, RecordOnce
<1>14. CASE EndImplement
  <2>1. \A m \in Phases : m < phase => <<m, "implement">> \in ledger'
    BY <1>0, <1>14 DEF EndImplement
  <2>2. <<phase, "implement">> \in ledger'
    BY <1>14 DEF EndImplement
  <2>3. /\ pc' = "done" \/ (pc' = "begin" /\ phase' = phase + 1)
        /\ ledger \subseteq ledger' /\ ledger' \subseteq ledger \union {<<phase, "implement">>}
        /\ UNCHANGED <<saved, recorded, testBase>> /\ saved
    BY <1>0, <1>14 DEF EndImplement, NextPhase
  <2>4. \A m \in Phases : m < phase + 1 => m < phase \/ m = phase
    BY <1>0 DEF Phases
  <2>5. <<phase, "tests">> \in ledger
    BY <1>0, <1>14 DEF EndImplement
  <2> QED
    BY <1>0, <2>1, <2>2, <2>3, <2>4, <2>5
<1>15. CASE Stop \/ Resume
  BY <1>0, <1>15 DEF Stop, Resume
<1>16. CASE UNCHANGED vars
  BY <1>0, <1>16 DEF vars
<1> QED
  BY <1>1, <1>2, <1>3, <1>4, <1>5, <1>6, <1>7, <1>8, <1>9, <1>10, <1>11, <1>12, <1>13,
     <1>14, <1>15, <1>16, Kinds DEF Other

\* Written is preserved: a call changes tests of its phase or guarded ones.
LEMMA WrittenNext == IInv /\ [Next]_vars => Written'
<1> SUFFICES ASSUME IInv, [Next]_vars PROVE Written'
  OBVIOUS
<1>0. /\ phase \in Phases /\ head \union dirty \union changed \subseteq Tests
      /\ testBase \in [Phases -> {NoFile} \union SUBSET Tests] /\ recorded \subseteq Phases
      /\ Place /\ Written /\ Recording /\ Armed
  BY DEF IInv, TypeOK
<1> USE DEF Place, Written, Begun, Listed, PhaseSteps, PlanSteps, AuthorSteps,
      ImplementSteps, RecordSteps, Unrecorded, Ends, Down, EndIn, FreshLocals,
      FreshChecks, memory, locals, checks, plan, state, controls, files, hist
<1>1. CASE Working
  <2>1. /\ UNCHANGED <<testBase, recorded, controls>>
        /\ (head \union dirty \union changed)' \subseteq
              head \union dirty \union changed \union Protected
                   \union (IF pc \in AuthorSteps THEN {phase} ELSE {})
    BY <1>1 DEF Working, Works
  <2>2. pc \in AuthorSteps => phase \in Begun /\ phase \notin recorded
    BY <1>0
  <2>3. Protected \subseteq Listed
    BY <1>0 DEF Armed
  <2> HIDE DEF AuthorSteps, ImplementSteps, PhaseSteps, RecordSteps, Unrecorded, Place
  <2> QED
    BY <1>0, <2>1, <2>2, <2>3
<1>2. CASE PlanStage
  BY <1>0, <1>2, PlanStagePlans DEF Planning
<1>3. CASE SkipTests
  BY <1>0, <1>3 DEF SkipTests, AfterSkip
<1>4. CASE BeginTests
  BY <1>0, <1>4 DEF BeginTests, Goto
<1>5. CASE RecordBase("testBase", "tests")
  BY <1>0, <1>5 DEF RecordBase, RecordOnce
<1>6. CASE Record(1, "record1", "record2")
  BY <1>0, <1>6 DEF Record, WriteOrder
<1>7. CASE Record(2, "record2", "checkpoint")
  <2>1. Listed' = Listed \union (head \ testBase[phase]) /\ UNCHANGED <<testBase, recorded, files>>
    BY <1>0, <1>7, ListGrows
  <2> QED
    BY <1>0, <2>1
<1>8. CASE Checkpoint
  <2>1. /\ UNCHANGED <<testBase, list, files>> /\ recorded' = recorded \union {phase}
        /\ pc = "checkpoint"
    BY <1>8 DEF Checkpoint
  <2>2. dirty = {} /\ changed = {} /\ (phase \in head => phase \in Listed)
    BY <1>0, <2>1 DEF Recording
  <2> QED
    BY <1>0, <2>1, <2>2
<1>9. CASE EndStage("testsEnd", "activate", <<phase, "tests">>)
  BY <1>0, <1>9 DEF EndStage
<1>10. CASE Activate
  BY <1>0, <1>10 DEF Activate
<1>11. CASE SkipImplement
  BY <1>0, <1>11 DEF SkipImplement, NextPhase
<1>12. CASE BeginImplement
  BY <1>0, <1>12 DEF BeginImplement, Goto
<1>13. CASE RecordBase("phaseBase", "phaseReview")
  BY <1>0, <1>13 DEF RecordBase, RecordOnce
<1>14. CASE EndImplement
  BY <1>0, <1>14 DEF EndImplement, NextPhase
<1>15. CASE Stop \/ Resume
  BY <1>0, <1>15 DEF Stop, Resume
<1>16. CASE UNCHANGED vars
  BY <1>0, <1>16 DEF vars
<1> QED
  BY <1>1, <1>2, <1>3, <1>4, <1>5, <1>6, <1>7, <1>8, <1>9, <1>10, <1>11, <1>12, <1>13,
     <1>14, <1>15, <1>16, Kinds DEF Other

\* Recording is preserved: a call that commits new tests has put the others back
\* that are not hidden by a rename.
LEMMA RecordingNext == IInv /\ [Next]_vars => Recording'
<1> SUFFICES ASSUME IInv, [Next]_vars PROVE Recording'
  OBVIOUS
<1>0. /\ phase \in Phases /\ head \union dirty \union changed \subseteq Tests
      /\ testBase \in [Phases -> {NoFile} \union SUBSET Tests] /\ recorded \subseteq Phases
      /\ Place /\ Written /\ Recording /\ Armed
  BY DEF IInv, TypeOK
<1> USE DEF Recording, NothingLaundered, PhaseSteps, PlanSteps, AuthorSteps,
      ImplementSteps, RecordSteps, Unrecorded, Ends, Down, EndIn, FreshLocals,
      FreshChecks, memory, locals, checks, plan, state, controls, files, hist
<1>1. CASE Working
  <2>1. /\ UNCHANGED <<recorded, controls>> /\ pc \in AuthorSteps \union ImplementSteps
        /\ changed' \intersect recorded \subseteq tampered'
        /\ pc' \in AuthorSteps \union ImplementSteps \union {"record1", "down"}
    BY <1>0, <1>1 DEF Working, Works
  <2>2. ASSUME pc' = "record1" PROVE dirty' = {} /\ changed' \intersect recorded \subseteq hidden'
    <3>1. /\ pc \in AuthorSteps /\ dirty' = {}
          /\ changed' \intersect Protected \subseteq hidden'
      BY <1>1, <2>2 DEF Working
    <3>2. changed' \subseteq changed \union Protected \union {phase}
      BY <1>1, <3>1 DEF Working, Works
    <3>3. phase \notin recorded
      BY <1>0, <3>1 DEF Place
    <3>4. CASE phase = 1
      BY <1>0, <3>1, <3>4, OnlyThisPhase
    <3>5. CASE phase # 1
      <4>1. phase > 1
        BY <1>0, <3>5 DEF Phases
      <4>2. Listed = Protected
        BY <1>0, <3>1, <4>1 DEF Armed, Listed, Protected
      <4> QED
        BY <1>0, <3>1, <3>2, <3>3, <4>2 DEF Written
    <3> QED
      BY <3>1, <3>4, <3>5
  <2> QED
    BY <1>0, <2>1, <2>2
<1>2. CASE PlanStage
  BY <1>0, <1>2, PlanStagePlans DEF Planning
<1>3. CASE SkipTests
  BY <1>0, <1>3 DEF SkipTests, AfterSkip
<1>4. CASE BeginTests
  BY <1>0, <1>4 DEF BeginTests, Goto
<1>5. CASE RecordBase("testBase", "tests")
  BY <1>0, <1>5 DEF RecordBase, RecordOnce
<1>6. CASE Record(1, "record1", "record2")
  BY <1>0, <1>6 DEF Record, WriteOrder
<1>7. CASE Record(2, "record2", "checkpoint")
  <2>1. /\ pc = "record2" /\ pc' = "checkpoint" /\ UNCHANGED <<phase, recorded, based, files, tampered>>
        /\ list' # NoFile /\ Listed' = Listed \union (head \ testBase[phase])
    BY <1>0, <1>7, ListGrows DEF Written
  <2>2. phase \in head => phase \in list'
    BY <1>0, <2>1 DEF Listed, Place, Written
  <2> QED
    BY <1>0, <2>1, <2>2
<1>8. CASE Checkpoint
  BY <1>0, <1>8 DEF Checkpoint
<1>9. CASE EndStage("testsEnd", "activate", <<phase, "tests">>)
  BY <1>0, <1>9 DEF EndStage
<1>10. CASE Activate
  BY <1>0, <1>10 DEF Activate
<1>11. CASE SkipImplement
  BY <1>0, <1>11 DEF SkipImplement, NextPhase
<1>12. CASE BeginImplement
  BY <1>0, <1>12 DEF BeginImplement, Goto
<1>13. CASE RecordBase("phaseBase", "phaseReview")
  BY <1>0, <1>13 DEF RecordBase, RecordOnce
<1>14. CASE EndImplement
  BY <1>0, <1>14 DEF EndImplement, NextPhase
<1>15. CASE Stop \/ Resume
  BY <1>0, <1>15 DEF Stop, Resume
<1>16. CASE UNCHANGED vars
  BY <1>0, <1>16 DEF vars
<1> QED
  BY <1>1, <1>2, <1>3, <1>4, <1>5, <1>6, <1>7, <1>8, <1>9, <1>10, <1>11, <1>12, <1>13,
     <1>14, <1>15, <1>16, Kinds DEF Other

\* Armed is preserved: the list grows by the phase at hand, and is armed anew.
LEMMA ArmedNext == IInv /\ [Next]_vars => Armed'
<1> SUFFICES ASSUME IInv, [Next]_vars PROVE Armed'
  OBVIOUS
<1>0. /\ phase \in Phases /\ head \union dirty \union changed \subseteq Tests
      /\ testBase \in [Phases -> {NoFile} \union SUBSET Tests] /\ recorded \subseteq Phases
      /\ Place /\ Written /\ Recording /\ Armed
  BY DEF IInv, TypeOK
<1> USE DEF Armed, Protected, Listed, PhaseSteps, PlanSteps, AuthorSteps,
      ImplementSteps, RecordSteps, Unrecorded, Ends, Down, EndIn, FreshLocals,
      FreshChecks, memory, locals, checks, plan, state, controls, files, hist
<1>1. CASE Working
  BY <1>0, <1>1 DEF Working, Works, Down, EndIn
<1>2. CASE PlanStage
  <2>1. Planning
    BY <1>2, PlanStagePlans
  <2>2. pc' = "begin" => ~(phase' > 1)
    BY <1>0, <2>1 DEF Planning, Place, Phases
  <2> QED
    BY <1>0, <2>1, <2>2 DEF Planning
<1>3. CASE SkipTests
  BY <1>0, <1>3 DEF SkipTests, AfterSkip
<1>4. CASE BeginTests
  BY <1>0, <1>4 DEF BeginTests, Goto
<1>5. CASE RecordBase("testBase", "tests")
  BY <1>0, <1>5 DEF RecordBase, RecordOnce
<1>6. CASE Record(1, "record1", "record2")
  BY <1>0, <1>6 DEF Record, WriteOrder
<1>7. CASE Record(2, "record2", "checkpoint")
  <2>1. /\ pc = "record2" /\ pc' = "checkpoint" /\ UNCHANGED <<phase, armed, recorded, torn>>
        /\ Listed' = Listed \union (head \ testBase[phase]) /\ list' # NoFile
    BY <1>0, <1>7, ListGrows DEF Written
  <2>2. Begun \subseteq recorded \union {phase}
    BY <1>0, <2>1, OnlyThisPhase
  <2>3. head \subseteq Begun
    BY <1>0 DEF Written
  <2> QED
    BY <1>0, <2>1, <2>2, <2>3
<1>8. CASE Checkpoint
  BY <1>0, <1>8 DEF Checkpoint
<1>9. CASE EndStage("testsEnd", "activate", <<phase, "tests">>)
  BY <1>0, <1>9 DEF EndStage
<1>10. CASE Activate
  BY <1>0, <1>10 DEF Activate
<1>11. CASE SkipImplement
  BY <1>0, <1>11 DEF SkipImplement, NextPhase
<1>12. CASE BeginImplement
  BY <1>0, <1>12 DEF BeginImplement, Goto
<1>13. CASE RecordBase("phaseBase", "phaseReview")
  BY <1>0, <1>13 DEF RecordBase, RecordOnce
<1>14. CASE EndImplement
  BY <1>0, <1>14 DEF EndImplement, NextPhase
<1>15. CASE Stop \/ Resume
  BY <1>0, <1>15 DEF Stop, Resume
<1>16. CASE UNCHANGED vars
  BY <1>0, <1>16 DEF vars
<1> QED
  BY <1>1, <1>2, <1>3, <1>4, <1>5, <1>6, <1>7, <1>8, <1>9, <1>10, <1>11, <1>12, <1>13,
     <1>14, <1>15, <1>16, Kinds DEF Other

\* The sets and the phase keep their types.
SetTypes ==
  /\ phase \in Phases
  /\ armed \in {NoFile} \union SUBSET Tests
  /\ ledger \subseteq Stages
  /\ testBase \in [Phases -> {NoFile} \union SUBSET Tests]
  /\ recorded \subseteq Phases /\ torn \subseteq Phases
  /\ list \in {NoFile} \union SUBSET Tests
  /\ changed \subseteq Tests /\ hidden \subseteq Tests
  /\ head \subseteq Tests /\ dirty \subseteq Tests /\ tampered \subseteq Tests

LEMMA SetsNext == IInv /\ [Next]_vars => SetTypes'
<1> SUFFICES ASSUME IInv, [Next]_vars PROVE SetTypes'
  OBVIOUS
<1>0. SetTypes /\ Place /\ Written
  BY DEF IInv, TypeOK, SetTypes
<1>a. /\ Tests = Phases /\ 1 \in Phases /\ \A n \in Phases : n = NPhases \/ n + 1 \in Phases
  BY CountsAssumption DEF Tests, Phases
<1>b. /\ <<0, "plan">> \in Stages
      /\ \A n \in Phases : <<n, "tests">> \in Stages /\ <<n, "implement">> \in Stages
  BY DEF Stages
<1>c. Protected \subseteq Tests
  BY <1>0 DEF Protected, SetTypes
<1> USE <1>a, <1>b DEF SetTypes, Down, EndIn, FreshLocals, FreshChecks, memory, locals,
      checks, plan, state, controls, files, hist
<1>1. CASE Working
  BY <1>0, <1>1, <1>c DEF Working, Works
<1>2. CASE PlanStage
  BY <1>0, <1>2, PlanStagePlans DEF Planning
<1>3. CASE SkipTests
  BY <1>0, <1>3 DEF SkipTests, AfterSkip
<1>4. CASE BeginTests
  BY <1>0, <1>4 DEF BeginTests, Goto
<1>5. CASE RecordBase("testBase", "tests")
  BY <1>0, <1>5 DEF RecordBase, RecordOnce
<1>6. CASE Record(1, "record1", "record2")
  BY <1>0, <1>6 DEF Record, WriteOrder
<1>7. CASE Record(2, "record2", "checkpoint")
  BY <1>0, <1>7 DEF Record, WriteOrder, NewList
<1>8. CASE Checkpoint
  BY <1>0, <1>8 DEF Checkpoint
<1>9. CASE EndStage("testsEnd", "activate", <<phase, "tests">>)
  BY <1>0, <1>9 DEF EndStage
<1>10. CASE Activate
  BY <1>0, <1>10 DEF Activate
<1>11. CASE SkipImplement
  BY <1>0, <1>11 DEF SkipImplement, NextPhase
<1>12. CASE BeginImplement
  BY <1>0, <1>12 DEF BeginImplement, Goto
<1>13. CASE RecordBase("phaseBase", "phaseReview")
  BY <1>0, <1>13 DEF RecordBase, RecordOnce
<1>14. CASE EndImplement
  BY <1>0, <1>14 DEF EndImplement, NextPhase
<1>15. CASE Stop \/ Resume
  BY <1>0, <1>15 DEF Stop, Resume
<1>16. CASE UNCHANGED vars
  BY <1>0, <1>16 DEF vars
<1> QED
  BY <1>1, <1>2, <1>3, <1>4, <1>5, <1>6, <1>7, <1>8, <1>9, <1>10, <1>11, <1>12, <1>13,
     <1>14, <1>15, <1>16, Kinds DEF Other

-----------------------------------------------------------------------------
\* How a call ends: it returns, or the attempt is over.
LEMMA CallEnds ==
  ASSUME NEW from, NEW to, NEW own, CallOnly(from, to, own)
  PROVE  /\ pc = from /\ UNCHANGED <<gated, plan, state, controls, torn>>
         /\ \/ pc' = to /\ UNCHANGED <<phase, locals, armed>>
               /\ {reviewed', red', altered'} \subseteq BOOLEAN
            \/ Down
  BY DEF CallOnly, Touch

\* The call that commits the tests leaves them as they were or has altered them.
LEMMA CommitSeen ==
  ASSUME ReviewedAndRed, Call("commitTests", "record1", {phase})
  PROVE  Down \/ (pc' = "record1" /\ ((reviewed' /\ (gated' => red')) \/ altered'))
<1>1. CASE Down
  BY <1>1
<1>2. ASSUME NEW F, Touch(F, {phase}), pc = "commitTests", UNCHANGED gated
      PROVE  (reviewed' /\ (gated' => red')) \/ altered'
  BY <1>2 DEF Touch, ReviewedAndRed
<1>3. CASE ~Down
  <2>1. pc = "commitTests" /\ pc' = "record1" /\ UNCHANGED gated
    BY <1>3 DEF Call, CallOnly
  <2>2. \E F : Touch(F, {phase})
    BY <1>3 DEF Call, CallOnly
  <2> QED
    BY <1>2, <2>1, <2>2
<1> QED
  BY <1>1, <1>3

\* Seen is preserved: repaired tests go back to the review.
LEMMA SeenNext == IInv /\ [Next]_vars => Seen'
<1> SUFFICES ASSUME IInv, [Next]_vars PROVE Seen'
  OBVIOUS
<1>0. Seen
  BY DEF IInv
<1> USE DEF Seen, ReviewedAndRed
<1> DEFINE seen == {"red", "redRepair", "commitTests"} \union RecordSteps
<1> USE DEF RecordSteps
<1>1. ASSUME pc' \notin seen PROVE Seen'
  BY <1>1
<1>2. ASSUME Down PROVE Seen'
  BY <1>2 DEF Down, EndIn
<1>3. CASE Call("redRepair", "red", {phase})
  <2>1. \/ pc = "redRepair" /\ pc' = "red" /\ UNCHANGED <<locals, gated>>
        \/ Down
    BY <1>3, CallEnds DEF Call
  <2> QED
    BY <1>0, <1>2, <2>1 DEF locals
<1>4. CASE Approve("verdict", "red", {phase})
  BY <1>4 DEF Approve
<1>5. CASE NoRedCheck
  BY <1>0, <1>5 DEF NoRedCheck, Goto, memory, locals, checks
<1>6. CASE RedAccepts
  BY <1>0, <1>6 DEF RedAccepts
<1>7. CASE ReviewAgain
  BY <1>1, <1>2, <1>7 DEF ReviewAgain
<1>8. CASE RedFails
  BY <1>2, <1>8 DEF RedFails
<1>9. ASSUME NEW from, NEW to, NEW own, to \notin seen,
             CallOnly(from, to, own) \/ Goto(from, to) \/ Approve(from, to, own)
      PROVE  Seen'
  <2>1. pc' = to \/ Down
    BY <1>9, CallEnds DEF Goto, Approve
  <2> QED
    BY <1>1, <1>2, <1>9, <2>1
<1>10. CASE TestStage
  <2>1. CASE \/ SkipTests \/ Checkpoint \/ Activate \/ RecordBase("testBase", "tests")
             \/ EndStage("testsEnd", "activate", <<phase, "tests">>)
    BY <1>1, <1>2, <2>1 DEF SkipTests, AfterSkip, Checkpoint, Activate, RecordBase,
       EndStage
  <2>2. CASE BeginTests
    BY <1>1, <2>2 DEF BeginTests, Goto
  <2>3. CASE CommitWork("commitTests", "record1", {phase})
    BY <1>0, <1>2, <2>3, CommitSeen DEF CommitWork
  <2>4. CASE Record(1, "record1", "record2") \/ Record(2, "record2", "checkpoint")
    BY <1>0, <2>4 DEF Record, memory, checks
  <2> QED
    BY <1>3, <1>4, <1>5, <1>6, <1>7, <1>8, <1>9, <1>10, <2>1, <2>2, <2>3, <2>4
       DEF TestStage, Repairs, Call
<1>11. CASE PlanStage
  BY <1>1, <1>11, PlanStagePlans DEF Planning, PlanSteps
<1>12. CASE ImplementStage
  <2>1. CASE \/ SkipImplement \/ EnsureQueue \/ PopTask \/ MarkTask \/ EndImplement
             \/ RecordBase("phaseBase", "phaseReview")
    BY <1>1, <2>1 DEF SkipImplement, EnsureQueue, PopTask, MarkTask, EndImplement,
       RecordBase,
       NextPhase
  <2>2. CASE BeginImplement \/ TasksDone
    BY <1>1, <2>2 DEF BeginImplement, TasksDone, Goto
  <2>3. CASE DoTask
    BY <1>9, <2>3 DEF DoTask, Call
  <2>4. CASE CommitTask
    BY <1>9, <2>4 DEF CommitTask
  <2>5. ASSUME NEW from, NEW to, to \notin seen,
               CommitIfDirty(from, to) \/ Repairs(from, to, {})
        PROVE  Seen'
    BY <1>9, <2>5 DEF CommitIfDirty, CommitWork, Repairs, Call
  <2> QED
    BY <1>9, <1>12, <2>1, <2>2, <2>3, <2>4, <2>5 DEF ImplementStage
<1>13. CASE Stop \/ Resume
  BY <1>1, <1>2, <1>13 DEF Stop, Resume
<1>14. CASE UNCHANGED vars
  BY <1>0, <1>14 DEF vars, memory, locals, checks
<1> QED
  BY <1>10, <1>11, <1>12, <1>13, <1>14 DEF Next, Attempt

\* What the attempt has in memory keeps its type, and where it is.
LocalTypes ==
  /\ pc \in Steps
  /\ attempt \in 1..MaxRounds /\ rounds \in 1..MaxRounds
  /\ repaired \in BOOLEAN
  /\ {gated, valid, saved, based, reviewed, red, altered} \subseteq BOOLEAN

LEMMA LocalsNext == TypeOK /\ [Next]_vars => LocalTypes'
<1> SUFFICES ASSUME TypeOK, [Next]_vars PROVE LocalTypes'
  OBVIOUS
<1>0. LocalTypes
  BY DEF TypeOK, LocalTypes
<1>a. /\ 1 \in 1..MaxRounds
      /\ \A k \in 1..MaxRounds : ~(k >= MaxRounds) => k + 1 \in 1..MaxRounds
  BY RoundsAssumption
<1> USE <1>a DEF LocalTypes, plan, controls, locals, checks, memory
<1>1. ASSUME Down, UNCHANGED <<gated, plan, controls>> PROVE LocalTypes'
  BY <1>0, <1>1 DEF Down, EndIn, FreshLocals, FreshChecks, Steps, Ends
<1>1a. ASSUME EndIn("planError"), UNCHANGED <<gated, plan, controls>> PROVE LocalTypes'
  BY <1>0, <1>1a DEF EndIn, FreshLocals, FreshChecks, Steps, Ends
<1>2. ASSUME NEW from, NEW to \in Steps, NEW own,
             CallOnly(from, to, own) \/ Goto(from, to) \/ Approve(from, to, own)
      PROVE  LocalTypes'
  <2>1. CASE CallOnly(from, to, own)
    BY <1>0, <1>1, <1>2, <2>1, CallEnds
  <2>2. CASE Goto(from, to)
    BY <1>0, <1>2, <2>2 DEF Goto
  <2>3. CASE Approve(from, to, own)
    BY <1>0, <1>2, <2>3 DEF Approve
  <2> QED
    BY <1>2, <2>1, <2>2, <2>3
<1> USE DEF Steps, PlanSteps, AuthorSteps, ImplementSteps, Ends
<1>3. CASE PlanStage
  <2>1. CASE Start
    BY <1>2, <2>1 DEF Start
  <2>2. ASSUME NEW from, NEW to \in PlanSteps, PlanCall(from, to) PROVE LocalTypes'
    BY <1>0, <2>2 DEF PlanCall
  <2>3. CASE StructureHolds
    BY <1>0, <2>3 DEF StructureHolds, FreshLocals
  <2>4. CASE StructureFails
    BY <1>0, <1>1, <2>4 DEF StructureFails
  <2>5. CASE EndStage("planEnd", "phases", <<0, "plan">>)
    BY <1>0, <2>5 DEF EndStage
  <2>6. CASE EnsurePhases /\ PhasesKnown
    BY <1>0, <2>6 DEF EnsurePhases
  <2>7. CASE EnsurePhases /\ ~PhasesKnown
    BY <1>0, <1>1a, <2>7 DEF EnsurePhases
  <2> QED
    BY <1>3, <2>1, <2>2, <2>3, <2>4, <2>5, <2>6, <2>7 DEF PlanStage
<1>4. CASE TestStage
  <2>1. CASE SkipTests
    BY <1>0, <1>1, <2>1 DEF SkipTests, AfterSkip
  <2>2. CASE BeginTests
    BY <1>2, <2>2 DEF BeginTests
  <2>3. CASE RecordBase("testBase", "tests")
    BY <1>0, <2>3 DEF RecordBase
  <2>4. CASE NoRedCheck
    BY <1>2, <2>4 DEF NoRedCheck
  <2>5. CASE RedAccepts
    BY <1>0, <2>5 DEF RedAccepts, FreshLocals
  <2>6. CASE ReviewAgain
    BY <1>0, <1>1, <2>6 DEF ReviewAgain
  <2>7. CASE RedFails
    BY <1>0, <1>1, <2>7 DEF RedFails
  <2>8. CASE Record(1, "record1", "record2") \/ Record(2, "record2", "checkpoint")
    BY <1>0, <2>8 DEF Record, WriteOrder
  <2>9. CASE Checkpoint
    BY <1>0, <2>9 DEF Checkpoint
  <2>10. CASE EndStage("testsEnd", "activate", <<phase, "tests">>)
    BY <1>0, <2>10 DEF EndStage
  <2>11. CASE Activate
    BY <1>0, <1>1, <2>11 DEF Activate
  <2> QED
    BY <1>2, <1>4, <2>1, <2>2, <2>3, <2>4, <2>5, <2>6, <2>7, <2>8, <2>9, <2>10, <2>11
       DEF TestStage, Repairs, Call, CommitWork
<1>5. CASE ImplementStage
  <2>1. CASE SkipImplement \/ EndImplement
    BY <1>0, <2>1 DEF SkipImplement, EndImplement, NextPhase, FreshChecks
  <2>2. CASE EnsureQueue \/ PopTask
    BY <1>0, <2>2 DEF EnsureQueue, PopTask
  <2>3. CASE MarkTask
    BY <1>0, <2>3 DEF MarkTask
  <2>4. CASE RecordBase("phaseBase", "phaseReview")
    BY <1>0, <2>4 DEF RecordBase
  <2> QED
    BY <1>2, <1>5, <2>1, <2>2, <2>3, <2>4 DEF ImplementStage, Repairs, Call, CommitWork,
       CommitIfDirty, BeginImplement, DoTask, TasksDone, CommitTask
<1>6. CASE Stop
  BY <1>1, <1>6 DEF Stop
<1>7. CASE Resume
  BY <1>0, <1>7 DEF Resume
<1>8. CASE UNCHANGED vars
  BY <1>0, <1>8 DEF vars
<1> QED
  BY <1>3, <1>4, <1>5, <1>6, <1>7, <1>8 DEF Next, Attempt

\* Queues is preserved: a task is settled before it is popped.
LEMMA QueuesNext == IInv /\ [Next]_vars => Queues'
<1> SUFFICES ASSUME IInv, [Next]_vars PROVE Queues'
  OBVIOUS
<1>0. /\ Queues /\ phase \in Phases /\ queue \in [Phases -> {NoFile} \union 0..NTasks]
  BY DEF IInv, TypeOK
<1> USE CountsAssumption, NoFileAssumption DEF Queues, Remaining, QueueName, state
<1>1. ASSUME UNCHANGED <<queue, settled>>, pc' \notin ImplementSteps \ {"queue"},
             ledger' \in {ledger, ledger \union {<<0, "plan">>},
                   ledger \union {<<phase, "tests">>}}
      PROVE  Queues'
  BY <1>0, <1>1 DEF AfterTasks, ImplementSteps
<1>2. ASSUME UNCHANGED <<queue, settled, ledger>>, Down PROVE Queues'
  BY <1>1, <1>2 DEF Down, EndIn, ImplementSteps
<1>3. ASSUME UNCHANGED <<queue, settled, ledger, phase>>,
             \/ pc = "task" /\ pc' = "taskGate" /\ Remaining > 0
             \/ pc = "taskGate" /\ pc' = "taskCommit"
             \/ pc = "taskMark" /\ pc' = "task"
             \/ pc = "task" /\ pc' = "phaseGate" /\ Remaining = 0
             \/ pc \in AfterTasks /\ pc' \in AfterTasks
      PROVE  Queues'
  BY <1>0, <1>3 DEF AfterTasks, ImplementSteps
<1>4. ASSUME NEW from, NEW to,
             Call(from, to, {}) \/ Goto(from, to) \/ Approve(from, to, {}),
             \/ from = "task" /\ to = "taskGate" /\ Remaining > 0
             \/ from = "taskGate" /\ to = "taskCommit"
             \/ from \in AfterTasks /\ to \in AfterTasks
      PROVE  Queues'
  <2>1. /\ pc = from /\ UNCHANGED <<queue, settled, ledger>>
        /\ (pc' = to /\ UNCHANGED phase) \/ Down
    BY <1>4, CallEnds DEF Call, Goto, Approve, memory, hist
  <2> QED
    BY <1>2, <1>3, <1>4, <2>1
<1>5. CASE PlanStage
  <2>1. Planning
    BY <1>5, PlanStagePlans
  <2> QED
    BY <1>1, <2>1 DEF Planning, PlanSteps, ImplementSteps, hist
<1>6. ASSUME NEW from, NEW to, to \notin ImplementSteps, NEW own,
             Call(from, to, own) \/ Goto(from, to) \/ Approve(from, to, own)
      PROVE  Queues'
  <2>1. UNCHANGED <<queue, settled, ledger>> /\ (pc' = to \/ Down)
    BY <1>6, CallEnds DEF Call, Goto, Approve, hist
  <2> QED
    BY <1>1, <1>2, <1>6, <2>1
<1>7. CASE TestStage
  <2>1. ASSUME UNCHANGED <<queue, settled, ledger>>, (pc' \notin ImplementSteps) \/ Down
        PROVE  Queues'
    BY <1>1, <1>2, <2>1
  <2>2. CASE \/ SkipTests \/ Activate \/ RedAccepts \/ ReviewAgain \/ RedFails
    BY <2>1, <2>2 DEF SkipTests, AfterSkip, Activate, RedAccepts, ReviewAgain,
       RedFails, hist,
       ImplementSteps
  <2>3. CASE \/ Checkpoint \/ RecordBase("testBase", "tests")
             \/ Record(1, "record1", "record2") \/ Record(2, "record2", "checkpoint")
    BY <2>1, <2>3 DEF Checkpoint, RecordBase, Record, hist, ImplementSteps
  <2>4. CASE EndStage("testsEnd", "activate", <<phase, "tests">>)
    BY <1>1, <2>4 DEF EndStage, hist, ImplementSteps
  <2>5. CASE BeginTests \/ NoRedCheck
    BY <2>1, <2>5 DEF BeginTests, NoRedCheck, Goto, hist, ImplementSteps
  <2> QED
    BY <1>6, <1>7, <2>2, <2>3, <2>4, <2>5 DEF TestStage, Repairs, CommitWork,
       ImplementSteps
<1>8. CASE ImplementStage
  <2>1. CASE SkipImplement
    BY <1>1, <2>1 DEF SkipImplement, NextPhase, ImplementSteps, hist
  <2>2. CASE BeginImplement
    BY <1>1, <2>2 DEF BeginImplement, Goto, ImplementSteps, hist
  <2>3. CASE EnsureQueue
    BY <1>0, <2>3 DEF EnsureQueue, memory, hist, AfterTasks, ImplementSteps
  <2>4. CASE pc = "task" /\ DoTask
    BY <1>4, <2>4 DEF DoTask
  <2>5. CASE CommitTask
    <3>1. /\ pc = "taskCommit" /\ UNCHANGED <<queue, ledger>>
          /\ (pc' = "taskPop" /\ UNCHANGED phase) \/ Down
      BY <2>5, CallEnds DEF CommitTask
    <3>2. CASE pc' # "taskPop"
      BY <1>2, <2>5, <3>1, <3>2 DEF CommitTask
    <3>3. CASE pc' = "taskPop"
      <4>1. phase' = phase /\ settled' = settled \union {<<phase, NTasks - Remaining + 1>>}
        BY <2>5, <3>1, <3>3 DEF CommitTask, Down, EndIn
      <4> QED
        BY <1>0, <3>1, <3>3, <4>1 DEF AfterTasks, ImplementSteps
    <3> QED
      BY <3>2, <3>3
  <2>6. CASE PopTask
    <3>1. /\ pc = "taskPop" /\ pc' = "taskMark" /\ UNCHANGED <<phase, settled, ledger>>
          /\ queue' = [queue EXCEPT ![phase] = @ - 1] /\ queue[phase] \in 1..NTasks
      BY <1>0, <2>6 DEF PopTask, memory, hist, ImplementSteps
    <3>2. ASSUME NEW n \in Phases, queue'[n] # NoFile
          PROVE  {n} \X (1..(NTasks - queue'[n])) \subseteq settled
      <4>1. CASE n # phase
        BY <1>0, <3>1, <3>2, <4>1
      <4>2. CASE n = phase
        <5>1. {n} \X (1..(NTasks - queue[n])) \subseteq settled /\ queue'[n] = queue[n] - 1
          BY <1>0, <3>1, <3>2, <4>2
        <5>2. <<n, NTasks - queue[n] + 1>> \in settled
          BY <1>0, <3>1, <4>2
        <5>3. 1..(NTasks - (queue[n] - 1)) = (1..(NTasks - queue[n])) \union {NTasks - queue[n] + 1}
          BY <3>1, <4>2
        <5> QED
          BY <5>1, <5>2, <5>3
      <4> QED
        BY <4>1, <4>2
    <3>3. queue'[phase] \in 0..NTasks
      BY <1>0, <3>1
    <3> QED
      BY <1>0, <3>1, <3>2, <3>3 DEF AfterTasks, ImplementSteps
  <2>7. CASE MarkTask
    BY <1>3, <2>7 DEF MarkTask, memory, hist
  <2>8. CASE pc = "task" /\ TasksDone
    BY <1>3, <2>8 DEF TasksDone, Goto, memory, hist
  <2>9. CASE RecordBase("phaseBase", "phaseReview")
    BY <1>3, <2>9 DEF RecordBase, memory, hist, AfterTasks
  <2>10. CASE EndImplement
    <3>1. /\ pc = "implementEnd" /\ pc' \in {"begin", "done"} /\ UNCHANGED <<queue, settled>>
          /\ ledger' = ledger \union {<<phase, "implement">>}
      BY <2>10 DEF EndImplement, NextPhase, hist
    <3>2. queue[phase] = 0
      BY <1>0, <3>1 DEF AfterTasks
    <3>3. {phase} \X (1..NTasks) \subseteq settled
      <4>1. {phase} \X (1..(NTasks - 0)) \subseteq settled
        BY <1>0, <3>2
      <4> QED
        BY <4>1
    <3> QED
      BY <1>0, <3>1, <3>3 DEF AfterTasks, ImplementSteps
  <2>11. ASSUME NEW from \in AfterTasks, NEW to \in AfterTasks, CommitIfDirty(from, to)
         PROVE  Queues'
    BY <1>4, <2>11 DEF CommitIfDirty, CommitWork
  <2> QED
    BY <1>4, <1>8, <2>1, <2>2, <2>3, <2>4, <2>5, <2>6, <2>7, <2>8, <2>9, <2>10, <2>11
       DEF ImplementStage, Repairs, AfterTasks
<1>9. CASE Stop
  BY <1>2, <1>9 DEF Stop
<1>10. CASE Resume
  BY <1>1, <1>10 DEF Resume, ImplementSteps, hist
<1>11. CASE UNCHANGED vars
  BY <1>0, <1>11 DEF vars, memory, hist
<1> QED
  BY <1>5, <1>7, <1>8, <1>9, <1>10, <1>11 DEF Next, Attempt

\* Nothing is settled that is not a task, and no queue runs below zero.
LEMMA QueueTypesNext ==
  IInv /\ [Next]_vars => /\ queue' \in [Phases -> {NoFile} \union 0..NTasks]
                         /\ settled' \subseteq Phases \X (1..NTasks)
<1> SUFFICES ASSUME IInv, [Next]_vars
             PROVE  /\ queue' \in [Phases -> {NoFile} \union 0..NTasks]
                    /\ settled' \subseteq Phases \X (1..NTasks)
  OBVIOUS
<1>0. /\ Queues /\ phase \in Phases /\ queue \in [Phases -> {NoFile} \union 0..NTasks]
      /\ settled \subseteq Phases \X (1..NTasks)
  BY DEF IInv, TypeOK
<1>1. CASE UNCHANGED <<queue, settled>>
  BY <1>0, <1>1
<1>2. CASE EnsureQueue
  BY <1>0, <1>2, CountsAssumption DEF EnsureQueue, QueueName, hist
<1>3. CASE PopTask
  <2>1. queue[phase] \in 1..NTasks
    BY <1>0, <1>3 DEF PopTask, Queues, Remaining, QueueName, ImplementSteps
  <2>2. queue[phase] - 1 \in 0..NTasks
    BY <2>1, CountsAssumption
  <2>3. queue' = [queue EXCEPT ![phase] = queue[phase] - 1] /\ settled' = settled
    BY <1>3 DEF PopTask, QueueName, hist
  <2> QED
    BY <1>0, <2>2, <2>3
<1>4. CASE CommitTask
  <2>1. queue[phase] \in 1..NTasks
    BY <1>0, <1>4, CallEnds DEF CommitTask, Queues, Remaining, QueueName, ImplementSteps
  <2>2. NTasks - Remaining + 1 \in 1..NTasks
    BY <2>1, CountsAssumption DEF Remaining, QueueName
  <2>3. UNCHANGED queue
    BY <1>4, CallEnds DEF CommitTask, state
  <2> QED
    BY <1>0, <1>4, <2>2, <2>3 DEF CommitTask
<1>5. ASSUME NEW from, NEW to, NEW own,
             Call(from, to, own) \/ Goto(from, to) \/ Approve(from, to, own)
      PROVE  UNCHANGED <<queue, settled>>
  BY <1>5, CallEnds DEF Call, Goto, Approve, state, hist
<1>6. CASE PlanStage
  BY <1>1, <1>6, PlanStagePlans DEF Planning, hist
<1>7. CASE TestStage
  <2>1. CASE \/ SkipTests \/ Activate \/ RedAccepts \/ ReviewAgain \/ RedFails \/ Checkpoint
             \/ RecordBase("testBase", "tests") \/ Record(1, "record1", "record2")
             \/ Record(2, "record2", "checkpoint")
             \/ EndStage("testsEnd", "activate", <<phase, "tests">>)
    BY <1>1, <2>1 DEF SkipTests, Activate, RedAccepts, ReviewAgain, RedFails, Checkpoint,
       RecordBase, Record, EndStage, state, hist
  <2>2. CASE BeginTests \/ NoRedCheck
    BY <1>1, <2>2 DEF BeginTests, NoRedCheck, Goto, state, hist
  <2> QED
    BY <1>1, <1>5, <1>7, <2>1, <2>2 DEF TestStage, Repairs, CommitWork
<1>8. CASE ImplementStage
  <2>1. CASE \/ SkipImplement \/ MarkTask \/ EndImplement
             \/ RecordBase("phaseBase", "phaseReview")
    BY <1>1, <2>1 DEF SkipImplement, MarkTask, EndImplement, RecordBase, state, hist
  <2>2. CASE BeginImplement \/ TasksDone
    BY <1>1, <2>2 DEF BeginImplement, TasksDone, Goto, state, hist
  <2>3. ASSUME NEW from, NEW to, CommitIfDirty(from, to) \/ Repairs(from, to, {})
        PROVE  UNCHANGED <<queue, settled>>
    <3>1. CASE Goto(from, to)
      BY <3>1 DEF Goto, state, hist
    <3> QED
      BY <1>5, <2>3, <3>1 DEF CommitIfDirty, CommitWork, Repairs
  <2> QED
    BY <1>1, <1>2, <1>3, <1>4, <1>5, <1>8, <2>1, <2>2, <2>3 DEF ImplementStage, DoTask
<1>9. CASE Stop \/ Resume \/ UNCHANGED vars
  BY <1>1, <1>9 DEF Stop, Resume, vars, state, hist
<1> QED
  BY <1>6, <1>7, <1>8, <1>9 DEF Next, Attempt

-----------------------------------------------------------------------------
\* A fresh run satisfies the invariant.
LEMMA InitIInv == Init => IInv
<1> SUFFICES ASSUME Init PROVE IInv
  OBVIOUS
<1> USE DEF Init
<1>0. 1 \in Phases /\ 1 \in 1..MaxRounds
  BY CountsAssumption, RoundsAssumption DEF Phases
<1>1. TypeOK
  BY <1>0 DEF TypeOK, Steps
<1>2. Place /\ Seen /\ Armed
  BY DEF Place, PhaseSteps, AuthorSteps, ImplementSteps, Unrecorded, RecordSteps,
     Seen, ReviewedAndRed, Armed, Protected, Listed
<1>3. Written /\ Recording
  BY DEF Written, Recording, Listed, NothingLaundered, RecordSteps
<1>4. Queues
  BY DEF Queues, ImplementSteps, AfterTasks
<1> QED
  BY <1>1, <1>2, <1>3, <1>4 DEF IInv

\* Every step keeps it.
LEMMA Inductive == IInv /\ [Next]_vars => IInv'
<1> SUFFICES ASSUME IInv, [Next]_vars PROVE IInv'
  OBVIOUS
<1>1. LocalTypes' /\ SetTypes'
  BY LocalsNext, SetsNext DEF IInv
<1>2. TypeOK'
  BY <1>1, QueueTypesNext DEF TypeOK, LocalTypes, SetTypes
<1> QED
  BY <1>2, PlaceNext, WrittenNext, RecordingNext, ArmedNext, SeenNext, QueuesNext DEF IInv

\* It holds throughout.
LEMMA Invariant == Spec => []IInv
<1>1. Init => IInv
  BY InitIInv
<1>2. IInv /\ [Next]_vars => IInv'
  BY Inductive
<1> QED
  BY <1>1, <1>2, PTL DEF Spec

\* Every step keeps every variable in its type: no queue counts below zero, and no
\* loop beyond MAX_ROUNDS.
THEOREM TypeCorrect == Spec => []TypeOK
<1>1. IInv => TypeOK
  BY DEF IInv
<1> QED
  BY <1>1, Invariant, PTL

\* While a phase is implemented, the tests in HEAD under the names that it and the
\* phases before it gave them are under guard.
THEOREM GuardCoversPhases == Spec => []ArmedForPhase
<1>1. IInv => ArmedForPhase
  <2> SUFFICES ASSUME IInv, pc \in ImplementSteps
               PROVE  armed = list /\ head \intersect (1..phase) \subseteq armed
    BY DEF ArmedForPhase
  <2>1. /\ Place /\ armed = list /\ list # NoFile /\ phase \in Phases
        /\ (head \intersect recorded) \subseteq list
    BY DEF IInv, TypeOK, Armed, Written, Listed
  <2>2. ASSUME NEW n \in 1..phase PROVE n \in recorded
    <3>1. n \in Phases /\ (n = phase \/ n < phase)
      BY <2>1, <2>2, CountsAssumption DEF Phases
    <3> QED
      BY <2>1, <3>1 DEF Place, PhaseSteps
  <2> QED
    BY <2>1, <2>2
<1> QED
  BY <1>1, Invariant, PTL

\* Until their checkpoint, a phase's tests are as the review approved them and the
\* red check passed them, or the call that committed them has changed them.
THEOREM TestsReviewedAndRed == Spec => []ReviewedAndRed
<1>1. IInv => ReviewedAndRed
  BY DEF IInv, Seen
<1> QED
  BY <1>1, Invariant, PTL

\* A protected test that differs from the base was changed after its checkpoint.
THEOREM AlarmIsTrue == Spec => []NoFalseAlarm
<1>1. IInv => NoFalseAlarm
  BY DEF IInv, NoFalseAlarm, Armed, Recording, Named, Place, Unrecorded
<1> QED
  BY <1>1, Invariant, PTL

\* What is recorded of a phase stays true, however the run goes on.
THEOREM RecordedPhases == Spec => []RecordedPhasesHold
<1>1. IInv => RecordedPhasesHold
  BY DEF IInv, RecordedPhasesHold, Place, Written, Recording, Queues, Listed
<1> QED
  BY <1>1, Invariant, PTL

\* A new base is taken with no test of an earlier phase changed, unless by a
\* rename that git diff --name-only does not tell.
THEOREM BaseIsSafe == Spec => []NothingLaundered
<1>1. IInv => NothingLaundered
  BY DEF IInv, Recording
<1> QED
  BY <1>1, Invariant, PTL

\* Once a phase has something recorded, no attempt ends on an unreadable plan.
THEOREM PlanIsKept == Spec => []PhasesSurvive
<1>1. IInv => PhasesSurvive
  BY DEF IInv, PhasesSurvive, Place
<1> QED
  BY <1>1, Invariant, PTL
-----------------------------------------------------------------------------
\* How much of an attempt is left: phases, with the plan as one before them, ...
BeforePhases == {"start", "phases"} \union PlanSteps

PhasesLeft ==
  IF pc \in Ends THEN 0
  ELSE NPhases + 1 - (IF pc \in BeforePhases THEN 0 ELSE phase)

ReviewTurns == {"review", "verdict", "red", "redRepair"}
TaskLoop == {"task", "taskGate", "taskCommit", "taskPop", "taskMark"}
StructureLoop == {"structure", "structureRepair"}

\* ... parts of the plan stage or of the phase, ...
PartsLeft ==
  CASE pc = "start" -> 5
    [] pc = "plan" -> 4
    [] pc \in StructureLoop -> 3
    [] pc = "planCommit" -> 2
    [] pc = "planEnd" -> 1
    [] pc = "begin" -> 19
    [] pc = "testBase" -> 18
    [] pc = "tests" -> 17
    [] pc \in ReviewTurns -> 16
    [] pc = "commitTests" -> 15
    [] pc = "record1" -> 14
    [] pc = "record2" -> 13
    [] pc = "checkpoint" -> 12
    [] pc = "testsEnd" -> 11
    [] pc = "activate" -> 10
    [] pc = "implement" -> 9
    [] pc = "queue" -> 8
    [] pc \in TaskLoop -> 7
    [] pc = "phaseGate" -> 6
    [] pc = "gateCommit" -> 5
    [] pc = "phaseBase" -> 4
    [] pc = "phaseReview" -> 3
    [] pc = "phaseVerdict" -> 2
    [] pc = "reviewCommit" -> 1
    [] OTHER -> 0

\* ... turns of the loop at hand ...
TurnsLeft ==
  CASE pc \in StructureLoop -> MaxRounds - attempt
    [] pc \in ReviewTurns -> MaxRounds - rounds
    [] pc \in TaskLoop -> Remaining
    [] OTHER -> 0

\* ... and steps of this turn, with the repairs of a red check.
StepsLeft ==
  CASE pc = "structureRepair" -> 1
    [] pc = "review" -> 2 * MaxRounds + 1
    [] pc = "verdict" -> 2 * MaxRounds
    [] pc = "redRepair" -> 2 * (MaxRounds - attempt) + 1
    [] pc = "red" -> 2 * (MaxRounds - attempt)
    [] pc = "taskMark" -> 4
    [] pc = "task" -> 3
    [] pc = "taskGate" -> 2
    [] pc = "taskCommit" -> 1
    [] OTHER -> 0

Left == <<PhasesLeft, PartsLeft, TurnsLeft, StepsLeft>>

Descends == <<Left', Left>> \in Below(4)

LeftIsNat ==
  PhasesLeft \in Nat /\ PartsLeft \in Nat /\ TurnsLeft \in Nat /\ StepsLeft \in Nat

LEMMA LeftInIInv == IInv => LeftIsNat
<1> SUFFICES ASSUME IInv PROVE LeftIsNat
  OBVIOUS
<1>0. /\ NPhases \in Nat /\ NTasks \in Nat /\ MaxRounds \in Nat
      /\ phase \in 1..NPhases /\ attempt \in 1..MaxRounds /\ rounds \in 1..MaxRounds
      /\ pc \in ImplementSteps \ {"queue"} => Remaining \in 0..NTasks
  BY CountsAssumption, RoundsAssumption DEF IInv, TypeOK, Queues, Phases
<1>1. PhasesLeft \in Nat
  BY <1>0 DEF PhasesLeft
<1>2. PartsLeft \in Nat
  BY DEF PartsLeft
<1>3. TurnsLeft \in Nat
  BY <1>0 DEF TurnsLeft, TaskLoop, ImplementSteps
<1>4. StepsLeft \in Nat
  BY <1>0 DEF StepsLeft
<1> QED
  BY <1>1, <1>2, <1>3, <1>4 DEF LeftIsNat

\* Most steps lead from one place to another or end the attempt.
Moves(from, to) ==
  /\ pc = from
  /\ \/ pc' = to /\ UNCHANGED <<phase, attempt, rounds, queue>>
     \/ pc' \in Ends

LEMMA Movers ==
  ASSUME NEW from, NEW to, NEW own
  PROVE  /\ Goto(from, to) => Moves(from, to)
         /\ CallOnly(from, to, own) => Moves(from, to)
         /\ Repairs(from, to, own) => Moves(from, to)
         /\ Approve(from, to, own) => Moves(from, to)
         /\ CommitWork(from, to, own) => Moves(from, to)
         /\ CommitIfDirty(from, to) => Moves(from, to)
<1>1. Goto(from, to) => Moves(from, to)
  BY DEF Goto, Moves, memory, locals, state
<1>2. ASSUME NEW mine, CallOnly(from, to, mine) PROVE Moves(from, to)
  BY <1>2 DEF CallOnly, Moves, locals, state, Down, EndIn, Ends
<1>3. Approve(from, to, own) => Moves(from, to)
  BY DEF Approve, Moves, locals, state
<1> QED
  BY <1>1, <1>2, <1>3 DEF Repairs, Call, CommitWork, CommitIfDirty

LEMMA AttemptDescends == IInv /\ LeftIsNat /\ LeftIsNat' /\ pc \notin Ends /\ Next => Descends
<1> SUFFICES ASSUME IInv, LeftIsNat, LeftIsNat', pc \notin Ends, Next PROVE Descends
  OBVIOUS
<1>0. /\ NPhases \in Nat /\ MaxRounds \in Nat
      /\ phase \in 1..NPhases /\ attempt \in 1..MaxRounds /\ rounds \in 1..MaxRounds
      /\ pc \in ImplementSteps \ {"queue"} => Remaining \in 0..NTasks
  BY CountsAssumption, RoundsAssumption DEF IInv, TypeOK, Queues, Phases
<1> DEFINE less ==
      \/ PhasesLeft' < PhasesLeft
      \/ PhasesLeft' = PhasesLeft /\ PartsLeft' < PartsLeft
      \/ PhasesLeft' = PhasesLeft /\ PartsLeft' = PartsLeft /\ TurnsLeft' < TurnsLeft
      \/ /\ PhasesLeft' = PhasesLeft /\ PartsLeft' = PartsLeft /\ TurnsLeft' = TurnsLeft
         /\ StepsLeft' < StepsLeft
<1> SUFFICES less
  BY BelowFour DEF Descends, Left, LeftIsNat
<1>e. ASSUME pc' \in Ends PROVE less
  <2>1. PhasesLeft' = 0
    BY <1>e DEF PhasesLeft
  <2>2. PhasesLeft = NPhases + 1 \/ PhasesLeft = NPhases + 1 - phase
    <3>1. CASE pc \in BeforePhases
      BY <3>1 DEF PhasesLeft
    <3>2. CASE pc \notin BeforePhases
      BY <3>2 DEF PhasesLeft
    <3> QED
      BY <3>1, <3>2
  <2>3. PhasesLeft > 0
    BY <1>0, <2>2
  <2> QED
    BY <2>1, <2>3
<1> USE DEF StructureLoop, ReviewTurns, TaskLoop
\* Within a part.
<1>m. ASSUME NEW from, NEW to, Moves(from, to), <<from, to>> \in
               {<<"structureRepair", "structure">>, <<"review", "verdict">>,
                <<"verdict", "red">>, <<"redRepair", "red">>, <<"task", "taskGate">>,
                <<"taskGate", "taskCommit">>, <<"taskCommit", "taskPop">>}
      PROVE  less
  <2>1. CASE pc' = to /\ UNCHANGED <<phase, attempt, rounds, queue>>
    <3>1. PhasesLeft' = PhasesLeft
      BY <1>m, <2>1 DEF Moves, PhasesLeft, BeforePhases, PlanSteps, Ends
    <3>2. PartsLeft' = PartsLeft
      BY <1>m, <2>1 DEF Moves, PartsLeft
    <3>3. TurnsLeft' = TurnsLeft
      BY <1>m, <2>1 DEF Moves, TurnsLeft, Remaining, QueueName
    <3>4. StepsLeft' < StepsLeft
      BY <1>0, <1>m, <2>1 DEF Moves, StepsLeft
    <3> QED
      BY <3>1, <3>2, <3>3, <3>4
  <2> QED
    BY <1>e, <1>m, <2>1 DEF Moves
\* From one part to the next.
<1>n. ASSUME pc' \notin Ends, phase' = phase, PartsLeft' < PartsLeft,
             pc' \in BeforePhases
               <=> pc \in BeforePhases
      PROVE  less
  <2>1. PhasesLeft' = PhasesLeft
    BY <1>n DEF PhasesLeft
  <2> QED
    BY <1>n, <2>1
<1> USE DEF PartsLeft, BeforePhases, PlanSteps, Ends
<1>1. CASE PlanStage
  <2>1. CASE Start
    BY <1>n, <2>1 DEF Start, Goto, memory
  <2>2. CASE PlanCall("plan", "structure")
    BY <1>n, <2>2 DEF PlanCall, memory
  <2>3. CASE StructureHolds
    BY <1>n, <2>3 DEF StructureHolds
  <2>4. CASE StructureFails
    BY <1>0, <1>e, <2>4 DEF StructureFails, Down, EndIn, PhasesLeft, TurnsLeft
  <2>5. CASE PlanCall("structureRepair", "structure")
    <3>1. Moves("structureRepair", "structure")
      BY <2>5 DEF PlanCall, Moves, memory, locals, state
    <3> QED
      BY <1>m, <3>1
  <2>6. CASE PlanCall("planCommit", "planEnd")
    BY <1>n, <2>6 DEF PlanCall, memory
  <2>7. CASE EndStage("planEnd", "phases", <<0, "plan">>)
    BY <1>n, <2>7 DEF EndStage, memory
  <2>8. CASE EnsurePhases
    <3>1. CASE pc' = "begin" /\ UNCHANGED memory
      BY <1>0, <2>8, <3>1 DEF EnsurePhases, PhasesLeft, memory
    <3>2. CASE pc' \in Ends
      BY <1>e, <3>2
    <3> QED
      BY <2>8, <3>1, <3>2 DEF EnsurePhases, EndIn
  <2> QED
    BY <1>1, <2>1, <2>2, <2>3, <2>4, <2>5, <2>6, <2>7, <2>8 DEF PlanStage
<1>p. ASSUME NEW from, NEW to, Moves(from, to), <<from, to>> \in
               {<<"begin", "testsEnd">>, <<"begin", "testBase">>, <<"tests", "review">>,
                <<"red", "commitTests">>, <<"commitTests", "record1">>,
                <<"implement", "queue">>, <<"task", "phaseGate">>,
                <<"phaseGate", "gateCommit">>, <<"gateCommit", "phaseBase">>,
                <<"gateCommit", "implementEnd">>, <<"phaseReview", "phaseVerdict">>,
                <<"phaseVerdict", "reviewCommit">>, <<"reviewCommit", "implementEnd">>}
      PROVE  less
  BY <1>e, <1>n, <1>p DEF Moves
<1>2. CASE TestStage
  <2>1. CASE SkipTests
    BY <1>e, <1>n, <2>1 DEF SkipTests, AfterSkip, Down, EndIn, memory
  <2>2. CASE BeginTests
    <3>1. Moves("begin", "testsEnd") \/ Moves("begin", "testBase")
      BY <2>2, Movers DEF BeginTests
    <3> QED
      BY <1>p, <3>1
  <2>3. CASE RecordBase("testBase", "tests")
    BY <1>n, <2>3 DEF RecordBase, memory
  <2>4. CASE Call("tests", "review", {phase})
    BY <1>p, <2>4, Movers DEF Call
  <2>5. CASE Repairs("review", "verdict", {phase})
    BY <1>m, <2>5, Movers
  <2>6. CASE Approve("verdict", "red", {phase})
    BY <1>m, <2>6, Movers
  <2>7. CASE NoRedCheck
    BY <1>p, <2>7, Movers DEF NoRedCheck
  <2>8. CASE RedAccepts
    BY <1>n, <2>8 DEF RedAccepts
  <2>9. CASE ReviewAgain
    BY <1>0, <1>e, <2>9 DEF ReviewAgain, Down, EndIn, PhasesLeft, TurnsLeft
  <2>10. CASE RedFails
    <3>1. CASE pc' \in Ends
      BY <1>e, <3>1
    <3>2. CASE pc' = "redRepair" /\ pc = "red" /\ attempt < MaxRounds /\ attempt' = attempt + 1
               /\ UNCHANGED <<phase, rounds>>
      <4>1. /\ PhasesLeft' = PhasesLeft /\ PartsLeft' = PartsLeft
            /\ TurnsLeft' = TurnsLeft
        BY <3>2 DEF PhasesLeft, TurnsLeft
      <4>2. StepsLeft' < StepsLeft
        BY <1>0, <3>2 DEF StepsLeft
      <4> QED
        BY <4>1, <4>2
    <3> QED
      BY <1>0, <2>10, <3>1, <3>2 DEF RedFails, Down, EndIn
  <2>11. CASE Call("redRepair", "red", {phase})
    BY <1>m, <2>11, Movers DEF Call
  <2>12. CASE CommitWork("commitTests", "record1", {phase})
    BY <1>p, <2>12, Movers
  <2>13. CASE Record(1, "record1", "record2") \/ Record(2, "record2", "checkpoint")
    BY <1>n, <2>13 DEF Record, memory
  <2>14. CASE Checkpoint
    BY <1>n, <2>14 DEF Checkpoint, memory
  <2>15. CASE EndStage("testsEnd", "activate", <<phase, "tests">>)
    BY <1>n, <2>15 DEF EndStage, memory
  <2>16. CASE Activate
    BY <1>e, <1>n, <2>16 DEF Activate, Down, EndIn
  <2> QED
    BY <1>2, <2>1, <2>2, <2>3, <2>4, <2>5, <2>6, <2>7, <2>8, <2>9, <2>10, <2>11, <2>12,
       <2>13, <2>14, <2>15, <2>16 DEF TestStage
<1>3. CASE ImplementStage
  <2>n. ASSUME pc \in PhaseSteps, NextPhase PROVE less
    <3>1. CASE pc' = "done"
      BY <1>e, <3>1
    <3>2. CASE pc' = "begin" /\ phase' = phase + 1
      BY <1>0, <2>n, <3>2 DEF PhasesLeft, PhaseSteps, AuthorSteps, ImplementSteps
    <3> QED
      BY <2>n, <3>1, <3>2 DEF NextPhase
  <2>1. CASE SkipImplement \/ EndImplement
    BY <2>n, <2>1 DEF SkipImplement, EndImplement, PhaseSteps, ImplementSteps
  <2>2. CASE BeginImplement
    BY <1>p, <2>2, Movers DEF BeginImplement
  <2>3. CASE EnsureQueue
    BY <1>n, <2>3 DEF EnsureQueue, memory
  <2>4. CASE pc = "task" /\ DoTask
    BY <1>m, <2>4, Movers DEF DoTask, Call
  <2>5. CASE Repairs("taskGate", "taskCommit", {})
    BY <1>m, <2>5, Movers
  <2>6. CASE CommitTask
    BY <1>m, <2>6, Movers DEF CommitTask
  <2>7. CASE PopTask
    <3>1. Remaining' = Remaining - 1 /\ Remaining \in Nat
      <4>1. queue \in [Phases -> {NoFile} \union 0..NTasks] /\ phase \in Phases
        BY DEF IInv, TypeOK
      <4>2. phase' = phase /\ queue' = [queue EXCEPT ![phase] = @ - 1] /\ pc = "taskPop"
        BY <2>7 DEF PopTask, QueueName, memory
      <4> QED
        BY <1>0, <4>1, <4>2 DEF Remaining, QueueName, ImplementSteps
    <3>2. PhasesLeft' = PhasesLeft /\ PartsLeft' = PartsLeft
      BY <2>7 DEF PopTask, PhasesLeft, memory
    <3>3. TurnsLeft' < TurnsLeft
      BY <2>7, <3>1 DEF PopTask, TurnsLeft
    <3> QED
      BY <3>2, <3>3
  <2>8. CASE MarkTask
    <3>1. PhasesLeft' = PhasesLeft /\ PartsLeft' = PartsLeft /\ TurnsLeft' = TurnsLeft
      BY <2>8 DEF MarkTask, PhasesLeft, TurnsLeft, Remaining, QueueName, memory, state
    <3>2. StepsLeft' < StepsLeft
      BY <2>8 DEF MarkTask, StepsLeft
    <3> QED
      BY <3>1, <3>2
  <2>9. CASE pc = "task" /\ TasksDone
    BY <1>p, <2>9, Movers DEF TasksDone
  <2>10. CASE Repairs("phaseGate", "gateCommit", {})
    BY <1>p, <2>10, Movers
  <2>11. CASE \/ CommitIfDirty("gateCommit", "phaseBase")
              \/ CommitIfDirty("gateCommit", "implementEnd")
              \/ CommitIfDirty("reviewCommit", "implementEnd")
    BY <1>p, <2>11, Movers
  <2>12. CASE RecordBase("phaseBase", "phaseReview")
    BY <1>n, <2>12 DEF RecordBase, memory
  <2>13. CASE Repairs("phaseReview", "phaseVerdict", {})
    BY <1>p, <2>13, Movers
  <2>14. CASE Approve("phaseVerdict", "reviewCommit", {})
    BY <1>p, <2>14, Movers
  <2> QED
    BY <1>3, <2>1, <2>2, <2>3, <2>4, <2>5, <2>6, <2>7, <2>8, <2>9, <2>10, <2>11, <2>12,
       <2>13, <2>14 DEF ImplementStage
<1>4. CASE Stop
  BY <1>e, <1>4 DEF Stop, Down, EndIn
<1>5. CASE Resume
  BY <1>5 DEF Resume
<1> QED
  BY <1>1, <1>2, <1>3, <1>4, <1>5 DEF Next, Attempt

\* Every step of an attempt leaves less of it, in an order without endless
\* descents (NoEndlessDescent): no structure check, red check, review of repaired
\* tests, task or phase keeps an attempt going for ever.
THEOREM AttemptIsFinite == Spec => [][pc \notin Ends => Descends]_vars
<1>1. IInv /\ LeftIsNat /\ LeftIsNat' /\ [Next]_vars => [pc \notin Ends => Descends]_vars
  BY AttemptDescends
<1> QED
  BY <1>1, LeftInIInv, Invariant, PTL DEF Spec

-----------------------------------------------------------------------------
\* What is recorded at which step: nothing is recorded twice, and nothing of a
\* phase before the plan.
Order ==
  /\ pc \in PlanSteps => <<0, "plan">> \notin ledger
  /\ saved \/ pc = "phases" => <<0, "plan">> \in ledger
  /\ pc \in Unrecorded \union {"testsEnd"} => <<phase, "tests">> \notin ledger
  /\ pc \in ImplementSteps => <<phase, "implement">> \notin ledger
  /\ pc = "done" => \A n \in Phases : <<n, "implement">> \in ledger

LEMMA OrderNext == IInv /\ Order /\ [Next]_vars => Order'
<1> SUFFICES ASSUME IInv, Order, [Next]_vars PROVE Order'
  OBVIOUS
<1>0. /\ Order /\ Place /\ phase \in Phases
  BY DEF IInv, TypeOK
<1> USE DEF Order, PhaseSteps, PlanSteps, AuthorSteps, ImplementSteps, RecordSteps,
      Unrecorded, Down, EndIn, memory, locals, plan, state
<1>1. CASE Working
  BY <1>0, <1>1 DEF Working, Works
<1>2. CASE PlanStage
  <2>1. CASE Start
    BY <1>0, <2>1 DEF Start, Goto, Place
  <2>2. CASE \E from, to \in PlanSteps : PlanCall(from, to)
    BY <1>0, <2>2 DEF PlanCall
  <2>3. CASE StructureHolds \/ StructureFails
    BY <1>0, <2>3 DEF StructureHolds, StructureFails
  <2>4. CASE EndStage("planEnd", "phases", <<0, "plan">>)
    BY <1>0, <2>4 DEF EndStage, Place
  <2>5. CASE EnsurePhases
    BY <1>0, <2>5 DEF EnsurePhases
  <2> QED
    BY <1>2, <2>1, <2>2, <2>3, <2>4, <2>5 DEF PlanStage
<1>3. CASE SkipTests
  BY <1>0, <1>3 DEF SkipTests, AfterSkip
<1>4. CASE BeginTests
  BY <1>0, <1>4 DEF BeginTests, Goto
<1>5. CASE RecordBase("testBase", "tests") \/ RecordBase("phaseBase", "phaseReview")
  BY <1>0, <1>5 DEF RecordBase
<1>6. CASE Record(1, "record1", "record2") \/ Record(2, "record2", "checkpoint")
  BY <1>0, <1>6 DEF Record
<1>7. CASE Checkpoint
  BY <1>0, <1>7 DEF Checkpoint
<1>8. CASE EndStage("testsEnd", "activate", <<phase, "tests">>)
  BY <1>0, <1>8 DEF EndStage
<1>9. CASE Activate \/ BeginImplement
  BY <1>0, <1>9 DEF Activate, BeginImplement, Goto
<1>10. CASE SkipImplement \/ EndImplement
  <2>1. /\ pc \in {"implement", "implementEnd"} /\ pc' \in {"begin", "done"} /\ saved' = saved
        /\ ledger \subseteq ledger' /\ <<phase, "implement">> \in ledger'
    BY <1>10 DEF SkipImplement, EndImplement, NextPhase
  <2>2. pc' = "done" => phase = NPhases
    BY <1>10 DEF SkipImplement, EndImplement, NextPhase
  <2>3. ASSUME pc' = "done", NEW n \in Phases PROVE <<n, "implement">> \in ledger'
    <3>1. n < phase \/ n = phase
      BY <2>2, <2>3, CountsAssumption DEF Phases
    <3> QED
      BY <1>0, <2>1, <3>1 DEF Place
  <2> QED
    BY <1>0, <2>1, <2>3
<1>11. CASE Stop \/ Resume
  <2>1. pc' \in {"down", "start"} /\ UNCHANGED <<saved, ledger>>
    BY <1>11 DEF Stop, Resume
  <2> QED
    BY <1>0, <2>1
<1>12. CASE UNCHANGED vars
  BY <1>0, <1>12 DEF vars
<1> QED
  BY <1>1, <1>2, <1>3, <1>4, <1>5, <1>6, <1>7, <1>8, <1>9, <1>10, <1>11, <1>12, Kinds
     DEF Other

LEMMA InvariantOrder == Spec => [](IInv /\ Order)
<1>1. Init => Order
  BY DEF Init, Order, PlanSteps, ImplementSteps, Unrecorded, AuthorSteps, RecordSteps
<1> QED
  BY <1>1, OrderNext, Invariant, PTL DEF Spec

\* Nothing is recorded before the plan, no tests before every earlier phase is
\* implemented, no implementation before its tests; and when an attempt has gone
\* through the phases all there is to record is recorded.
LedgerInOrder ==
  /\ ledger # {} => <<0, "plan">> \in ledger
  /\ \A n \in Phases :
       /\ <<n, "tests">> \in ledger =>
            \A m \in Phases : m < n => <<m, "implement">> \in ledger
       /\ <<n, "implement">> \in ledger => <<n, "tests">> \in ledger
  /\ pc = "done" => ledger = Stages

\* Whatever was interrupted, the ledger is a prefix of plan, tests and
\* implementation of the phases in turn (run_phased_stages, end_stage).
THEOREM PhasesInOrder == Spec => []LedgerInOrder
<1>1. ASSUME IInv, Order PROVE LedgerInOrder
  <2>1. Place /\ ledger \subseteq Stages
    BY <1>1 DEF IInv, TypeOK
  <2>2. ledger # {} => <<0, "plan">> \in ledger
    BY <1>1, <2>1 DEF Order, Place
  <2>3. pc = "done" => ledger = Stages
    <3> SUFFICES ASSUME pc = "done", NEW stage \in Stages PROVE stage \in ledger
      BY <2>1
    <3>1. stage = <<0, "plan">> \/ \E n \in Phases : stage \in {<<n, "tests">>, <<n, "implement">>}
      BY DEF Stages
    <3>2. 1 \in Phases
      BY CountsAssumption DEF Phases
    <3> QED
      BY <1>1, <2>1, <2>2, <3>1, <3>2 DEF Order, Place
  <2> QED
    BY <2>1, <2>2, <2>3 DEF LedgerInOrder, Place
<1> QED
  BY <1>1, InvariantOrder, PTL

-----------------------------------------------------------------------------
\* An attempt is at work from its first step to its end.
Workers == IF pc \in {"start", "down", "planError"} THEN {} ELSE {"attempt"}

\* The life of this run, as RunOwnership sees it, up to its end: run_workflow goes
\* on after "done" and marks the run completed.
Ownership == INSTANCE RunOwnership WITH
  Runs <- {"run"},
  Procs <- {"attempt"},
  Stages <- Cardinality(Stages),
  owners <- [r \in {"run"} |-> Workers],
  progress <- [r \in {"run"} |-> Cardinality(ledger)],
  closed <- [r \in {"run"} |-> FALSE]

ImplementsOwnership == Ownership!Spec

\* Attempts start and end where they may, and record in between.
Flow ==
  \/ pc \in {"start", "down", "planError"} /\ ledger' = ledger
       /\ (pc # "start" => pc' = "start")
  \/ /\ pc \notin Ends \union {"start"} /\ pc' # "start"
     /\ ledger' # ledger => /\ pc' \notin {"down", "planError"}
                            /\ \E stage \in Stages \ ledger : ledger' = ledger \union {stage}
  \/ UNCHANGED <<pc, ledger>>

LEMMA StepFlows == IInv /\ Order /\ [Next]_vars => Flow
<1> SUFFICES ASSUME IInv, Order, [Next]_vars PROVE Flow
  OBVIOUS
<1>0. Order /\ phase \in Phases
  BY DEF IInv, TypeOK
<1> USE DEF Order, PlanSteps, AuthorSteps, ImplementSteps, RecordSteps, Unrecorded, Ends,
      Down, EndIn, state
<1>a. ASSUME pc \notin Ends \union {"start"}, pc' # "start", ledger' = ledger PROVE Flow
  BY <1>a DEF Flow
<1>1. CASE Working
  BY <1>1, <1>a DEF Working, Works
<1>2. CASE PlanStage
  <2>1. CASE Start
    BY <2>1 DEF Start, Goto, Flow
  <2>2. CASE \E from, to \in PlanSteps : PlanCall(from, to)
    BY <1>a, <2>2 DEF PlanCall
  <2>3. CASE StructureHolds \/ StructureFails \/ EnsurePhases
    BY <1>a, <2>3 DEF StructureHolds, StructureFails, EnsurePhases
  <2>4. CASE EndStage("planEnd", "phases", <<0, "plan">>)
    <3>1. <<0, "plan">> \in Stages \ ledger
      BY <1>0, <2>4 DEF EndStage, Stages
    <3> QED
      BY <2>4, <3>1 DEF EndStage, Flow
  <2> QED
    BY <1>2, <2>1, <2>2, <2>3, <2>4 DEF PlanStage
<1>3. CASE SkipTests \/ BeginTests \/ Activate \/ BeginImplement
  BY <1>3, <1>a DEF SkipTests, AfterSkip, BeginTests, Goto, Activate, BeginImplement
<1>4. CASE RecordBase("testBase", "tests") \/ RecordBase("phaseBase", "phaseReview")
  BY <1>4, <1>a DEF RecordBase
<1>5. CASE Record(1, "record1", "record2") \/ Record(2, "record2", "checkpoint")
  BY <1>5, <1>a DEF Record
<1>6. CASE Checkpoint
  BY <1>6, <1>a DEF Checkpoint
<1>7. CASE EndStage("testsEnd", "activate", <<phase, "tests">>)
  <2>1. <<phase, "tests">> \in Stages \ ledger
    BY <1>0, <1>7 DEF EndStage, Stages
  <2> QED
    BY <1>7, <2>1 DEF EndStage, Flow
<1>8. CASE SkipImplement
  BY <1>8, <1>a DEF SkipImplement, NextPhase
<1>9. CASE EndImplement
  <2>1. <<phase, "implement">> \in Stages \ ledger
    BY <1>0, <1>9 DEF EndImplement, Stages
  <2> QED
    BY <1>9, <2>1 DEF EndImplement, NextPhase, Flow
<1>10. CASE Stop \/ Resume
  <2>1. /\ ledger' = ledger
        /\ \/ pc \notin Ends /\ pc' = "down"
           \/ pc \in {"down", "planError"} /\ pc' = "start"
    BY <1>10 DEF Stop, Resume
  <2> QED
    BY <2>1, <1>a DEF Flow
<1>11. CASE UNCHANGED vars
  BY <1>11 DEF vars, Flow
<1> QED
  BY <1>1, <1>2, <1>3, <1>4, <1>5, <1>6, <1>7, <1>8, <1>9, <1>10, <1>11, Kinds DEF Other

LEMMA StagesFinite == IsFiniteSet(Stages)
<1>1. IsFiniteSet({"tests", "implement"})
  <2>1. IsFiniteSet({"tests"} \union {"implement"})
    BY FS_Singleton, FS_Union
  <2>2. {"tests", "implement"} = {"tests"} \union {"implement"}
    OBVIOUS
  <2> QED
    BY <2>1, <2>2
<1>2. IsFiniteSet(Phases)
  BY CountsAssumption, FS_Interval DEF Phases
<1>3. IsFiniteSet(Phases \X {"tests", "implement"})
  BY <1>1, <1>2, FS_Product
<1>4. IsFiniteSet({<<0, "plan">>})
  BY FS_Singleton
<1> QED
  BY <1>3, <1>4, FS_Union DEF Stages

\* Every step is an abstract step or leaves owner and ledger alone.
LEMMA StepImplements == IInv /\ Order /\ [Next]_vars => [Ownership!Next]_(Ownership!vars)
<1> SUFFICES ASSUME IInv, Order, [Next]_vars
             PROVE  Ownership!Next \/ UNCHANGED Ownership!vars
  OBVIOUS
<1>0. Flow
  BY StepFlows
<1> USE DEF Workers
<1> DEFINE a == "attempt"
           r == "run"
<1>1. CASE UNCHANGED <<pc, ledger>>
  BY <1>1 DEF Ownership!vars
<1>2. CASE pc \in {"start", "down", "planError"} /\ ledger' = ledger
  <2>1. CASE pc' \in {"start", "down", "planError"}
    BY <1>2, <2>1 DEF Ownership!vars
  <2>2. CASE pc' \notin {"start", "down", "planError"}
    <3>1. Ownership!Acquire(a, r)
      BY <1>2, <2>2 DEF Ownership!Acquire
    <3> QED
      BY <3>1 DEF Ownership!Next
  <2> QED
    BY <2>1, <2>2
<1>3. CASE pc \notin Ends \union {"start"} /\ pc' # "start" /\ ledger' # ledger
  <2>1. PICK stage \in Stages \ ledger : ledger' = ledger \union {stage}
    BY <1>0, <1>3 DEF Flow
  <2>2. ledger \subseteq Stages /\ ledger' \subseteq Stages
    BY <2>1 DEF IInv, TypeOK
  <2>3. IsFiniteSet(ledger) /\ Cardinality(ledger') = Cardinality(ledger) + 1
    BY <2>1, <2>2, StagesFinite, FS_Subset, FS_AddElement
  <2>4. Cardinality(ledger') <= Cardinality(Stages) /\ Cardinality(ledger) \in Nat
        /\ Cardinality(Stages) \in Nat
    BY <2>2, <2>3, StagesFinite, FS_Subset, FS_CardinalityType
  <2>5. pc' \notin {"start", "down", "planError"}
    BY <1>0, <1>3 DEF Flow, Ends
  <2>6. Ownership!Record(a, r)
    BY <1>3, <2>3, <2>4, <2>5 DEF Ownership!Record, Ends
  <2> QED
    BY <2>6 DEF Ownership!Next
<1>4. CASE pc \notin Ends \union {"start"} /\ pc' # "start" /\ ledger' = ledger
  <2>1. CASE pc' \in {"down", "planError"}
    <3>1. Ownership!Release(a, r)
      BY <1>4, <2>1 DEF Ownership!Release, Ends
    <3> QED
      BY <3>1 DEF Ownership!Next
  <2>2. CASE pc' \notin {"start", "down", "planError"}
    BY <1>4, <2>2 DEF Ownership!vars, Ends
  <2> QED
    BY <1>4, <2>1, <2>2
<1> QED
  BY <1>0, <1>1, <1>2, <1>3, <1>4 DEF Flow

\* The attempts of a phased run, too, are one life of a run as RunLifecycle has it.
THEOREM Refinement == Spec => ImplementsOwnership
<1>1. Init => Ownership!Init
  BY FS_EmptySet DEF Init, Ownership!Init, Workers
<1> QED
  BY <1>1, StepImplements, InvariantOrder, PTL DEF Spec, ImplementsOwnership, Ownership!Spec
=============================================================================
