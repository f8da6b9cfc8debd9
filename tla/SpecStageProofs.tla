--------------------------- MODULE SpecStageProofs ---------------------------
(***************************************************************************)
(* The safety properties of SpecStage, for every number of rounds and      *)
(* stops.                                                                  *)
(*                                                                         *)
(* Place says where an attempt can be and what the ledger holds by then;   *)
(* the other parts of the invariant carry what the human chose, what the   *)
(* reviewer advised, the form of the flow and the checks of imported files *)
(* from the step that establishes them to the step that relies on them.    *)
(*                                                                         *)
(* AttemptIsFinite is the safety half of FlowReached.                      *)
(***************************************************************************)
EXTENDS SpecStage, Descent, TLAPS

Dual == config.spec = "dual"
Live == pc # "down"
SpecStageOf == IF Dual THEN "finalize-spec" ELSE "write-spec"
Early == Candidates \union CrossReviews \union Comparisons
DualStages == Early \union {"select-spec", "finalize-spec"}

\* The steps of a spec stage once its spec is there.
SpecSteps == {"round", "gate", "offer", "ask", "flip", "end"}

StepsOf(s) ==
  IF s = "flow" THEN {"begin", "running"}
  ELSE {"begin", "body", "end"} \union
       (CASE s \in CrossReviews -> {"stub"}
          [] s = "select-spec" -> {"edit", "decide"}
          [] s = "write-spec" -> {"copy"} \union SpecSteps
          [] s = "finalize-spec" -> {"restore", "merge"} \union SpecSteps
          [] s = PlanStage -> {"copy", "review", "check"}
          [] OTHER -> {})

\* Stages come in the order of their kind of run; the body of a recorded one is
\* never entered again.
Place ==
  /\ stage \in {PlanStage, "flow"}
               \union (IF Dual THEN DualStages ELSE {"write-spec"})
  /\ pc \in {"down"} \union StepsOf(stage)
  /\ ~Live => stage = First(config)
  /\ pc \notin {"down", "begin", "restore"} => stage \notin ledger
  /\ Live /\ stage = "finalize-spec" => "select-spec" \in ledger
  /\ Live /\ stage \in {PlanStage, "flow"} => SpecStageOf \in ledger
  /\ Live /\ stage = "flow" => PlanStage \in ledger
  /\ "flow" \notin ledger
  /\ "finalize-spec" \in ledger => Dual /\ "select-spec" \in ledger
  /\ PlanStage \in ledger => SpecStageOf \in ledger

\* From its file on, the decision is the human's last one.
DecisionFiled ==
  /\ "select-spec" \in artifacts => decided \in Decisions /\ decided = chosen
  /\ "select-spec" \in ledger => "select-spec" \in artifacts
  /\ stage = "select-spec" /\ pc = "end" =>
       "select-spec" \in artifacts /\ decision = chosen

\* What an attempt knows of it, stage by stage.
DecisionKnown ==
  /\ ~Live \/ stage \in Early =>
       decision = None
  /\ stage = "select-spec" =>
       /\ pc \in {"begin", "body"} => decision = None
       /\ pc \in {"edit", "decide"} => decision \in Decisions
  /\ pc = "restore" =>
       decision = None \/ (decision = chosen /\ "finalize-spec" \notin ledger)
  /\ /\ Live /\ Dual /\ pc # "restore"
     /\ stage \in {"finalize-spec", PlanStage, "flow"}
     => decision \in Decisions /\ decision = chosen

\* The owner is the chosen candidate's author wherever it matters.
OwnerKnown ==
  /\ ~Dual => owner = "A"
  /\ Live /\ Dual /\ stage \in {PlanStage, "flow"} => owner = chosen[2]
  /\ /\ stage = "finalize-spec"
     /\ \/ "finalize-spec" \in ledger /\ pc = "begin"
        \/ pc \in SpecSteps \union {"merge"}
     => owner = chosen[2]

\* The request of a merge, and the spec made of it.
RequestKept ==
  /\ stage = "select-spec" /\ pc = "decide" /\ decision[1] = "merge" =>
       request = <<"edited", decision>>
  /\ /\ "select-spec" \in ledger \/ (stage = "select-spec" /\ pc = "end")
     /\ chosen[1] = "merge"
     => request \in {None, <<"foreign">>, <<"edited", chosen>>}
  /\ /\ \/ stage = "select-spec" /\ pc = "end"
        \/ stage = "finalize-spec" /\ Live /\ decision # None
     /\ chosen[1] = "merge"
     => request # None

SpecMade ==
  /\ "finalize-spec" \in ledger \/ (stage = "finalize-spec" /\ pc \in SpecSteps) =>
       /\ spec \in Specs /\ spec.from = chosen[2]
       /\ spec.request \in IF chosen[1] = "merge"
                             THEN {<<"edited", chosen>>, <<"foreign">>}
                             ELSE {None}
  /\ pc = "merge" => spec \in Specs /\ spec.from = chosen[2] /\ chosen[1] = "merge"

DecisionHolds ==
  DecisionFiled /\ DecisionKnown /\ OwnerKnown /\ RequestKept /\ SpecMade

\* Phases are on by launch or advice.
Consent ==
  /\ valid /\ suggestion => advised
  /\ ~Live => ~valid
  /\ pc = "ask" => advised
  /\ snapshot => launched \/ agreed
  /\ pc = "flip" => snapshot
  /\ settings \in IF Live THEN Settings ELSE {None}
  /\ Live /\ pc # "flip" => settings.phases = snapshot

\* The plan and the flow have the form of the snapshot, which no longer changes.
FlowFixed ==
  /\ flows \subseteq {snapshot}
  /\ flows # {} => PlanStage \in ledger
  /\ plan # None => /\ SpecStageOf \in ledger /\ PlanStage \in artifacts
                    /\ plan.asked = snapshot
  /\ snapshot /\ (PlanStage \in ledger \/ (stage = PlanStage /\ pc = "end")) =>
       plan \in Plans /\ plan.form = "phased"

\* A source is as it was checked while it is being copied.
Checked ==
  \/ swapped
  \/ /\ pc = "copy" /\ stage = "write-spec" => SpecValid
     /\ pc = "copy" /\ stage = PlanStage => PlanValid(settings.phases)
     /\ spec # None => spec.ok
     /\ config.plan = "import" /\ plan # None =>
          plan.form = "phased" \/ (plan.form = "plain" /\ ~plan.asked)

Fresh ==
  stage \in CrossReviews =>
    /\ pc = "stub" => review \in {"empty", "none", Subject(stage)}
    /\ pc = "end" => review \in {"empty", "stub", Subject(stage)}

IInv ==
  TypeOK /\ Place /\ DecisionHolds /\ Consent /\ FlowFixed /\ Checked /\ Fresh

-----------------------------------------------------------------------------
\* Where leaving a stage leads.
Ahead ==
  \/ stage \in Early /\ stage' \in Early \union {"select-spec"} /\ pc' = "begin"
  \/ stage = "select-spec" /\ stage' = "finalize-spec" /\ pc' = "restore"
  \/ stage \in SpecStages /\ stage' = PlanStage /\ pc' = "begin"
  \/ stage = PlanStage /\ stage' = "flow" /\ pc' = "begin"

LEMMA Leaving == Place /\ stage # "flow" /\ Leave => Ahead
  BY DEF Place, Ahead, Leave, After, Early, DualStages, Candidates, CrossReviews,
         Comparisons, SpecStages, PlanStage

\* The types of an attempt that has ended.
LEMMA DownTypes == TypeOK /\ Down =>
  /\ stage' \in Stages /\ pc' \in Steps /\ owner' \in Slots
  /\ settings' = None /\ decision' = None
  /\ round' \in 0..MaxRounds /\ valid' \in BOOLEAN /\ advised' \in BOOLEAN
<1>1. Down => valid' \in BOOLEAN /\ advised' \in BOOLEAN
  BY DEF Down
<1> QED
  BY <1>1, MaxRoundsAssumption
     DEF TypeOK, Down, First, Stages, SpecStages, Candidates, Steps, Slots

\* A step keeps the types.
LEMMA TypeNext == IInv /\ [Next]_vars => TypeOK'
<1> SUFFICES ASSUME IInv, [Next]_vars PROVE TypeOK'
  OBVIOUS
<1>0. TypeOK /\ Place /\ DecisionFiled /\ DecisionKnown /\ SpecMade /\ Consent
  BY DEF IInv, DecisionHolds
<1> USE DEF TypeOK, Stages, SpecStages, Steps,
            Step, disk, memory, hist
<1>1. CASE Begin
  <2>1. stage' \in Stages /\ pc' \in Steps
    <3>1. Ahead => stage' \in Stages /\ pc' \in Steps
      BY DEF Ahead, Early, Candidates, CrossReviews, Comparisons, PlanStage
    <3>2. (pc' = "body" /\ stage' = stage) \/ Ahead \/ Down
      BY <1>0, <1>1, Leaving DEF Begin
    <3> QED
      BY <1>0, <3>1, <3>2, DownTypes
  <2>2. UNCHANGED memory \/ Down
    BY <1>1 DEF Begin
  <2>3. UNCHANGED advised \/ Down
    BY <1>1 DEF Begin
  <2>4. UNCHANGED <<config, disk, source, launched, chosen, agreed, swapped,
                    flows, stops>>
    BY <1>1 DEF Begin
  <2> QED
    BY <1>0, <2>1, <2>2, <2>3, <2>4, DownTypes
<1>2. CASE End
  <2>1. stage' \in Stages /\ pc' \in Steps
    <3>1. Ahead
      BY <1>0, <1>2, Leaving DEF End, Place, Live, StepsOf
    <3> QED
      BY <3>1 DEF Ahead, Early, Candidates, CrossReviews, Comparisons, PlanStage
  <2> QED
    BY <1>0, <1>2, <2>1 DEF End
<1>3. CASE WriteText
  BY <1>0, <1>3 DEF WriteText, Produced
<1>4. CASE ReviewCandidate
  <2>1. review' \in Slots \union {"none", "empty", "stub", "loop", "other"}
    BY <1>4 DEF ReviewCandidate, InitialReview, Subject, Slots
  <2> QED
    BY <1>0, <1>4, <2>1 DEF ReviewCandidate
<1>5. CASE CopyReview
  BY <1>0, <1>5 DEF CopyReview
<1>6. CASE Choose
  BY <1>0, <1>6 DEF Choose, Requests
<1>7. CASE EditRequest
  <2>1. decision \in Decisions
    BY <1>0, <1>7 DEF EditRequest, DecisionKnown
  <2>2. request' \in Requests
    BY <1>7, <2>1 DEF EditRequest, Requests
  <2> QED
    BY <1>0, <1>7, <2>2 DEF EditRequest
<1>8. CASE WriteDecision
  BY <1>0, <1>8 DEF WriteDecision, DecisionWritten
<1>9. CASE Restore
  <2>1. decided \in Decisions
    BY <1>0, <1>9
       DEF Restore, DecisionFiled, Place, Live, StepsOf, CrossReviews, PlanStage,
           SpecSteps
  <2>2. decided[2] \in Slots
    BY <2>1 DEF Decisions
  <2>3. \/ Down
        \/ UNCHANGED <<memory, advised, stage>>
        \/ /\ decision' = decided /\ owner' = decided[2]
           /\ UNCHANGED <<stage, settings, round, valid, advised>>
    BY <1>9 DEF Restore
  <2>4. pc' \in Steps
    BY <1>9, DownTypes, <1>0 DEF Restore
  <2>5. UNCHANGED <<config, disk, source, launched, chosen, agreed, swapped,
                    flows, stops>>
    BY <1>9 DEF Restore
  <2> QED
    BY <1>0, <2>1, <2>2, <2>3, <2>4, <2>5, DownTypes
<1>10. CASE CopyBase
  <2>1. CASE CandidateOf(decision[2]) \notin artifacts
    BY <1>0, <1>10, <2>1, DownTypes DEF CopyBase
  <2>2. CASE CandidateOf(decision[2]) \in artifacts
    <3>1. /\ owner' = decision[2] /\ round' = 1
          /\ spec' = [from |-> owner', ok |-> TRUE, request |-> None]
          /\ artifacts' = artifacts \union {stage}
          /\ pc' = IF decision[1] = "merge" THEN "merge" ELSE "round"
          /\ UNCHANGED <<stage, settings, decision, valid, advised>>
      BY <1>10, <2>2 DEF CopyBase
    <3>2. decision \in Decisions
      BY <1>0, <1>10 DEF CopyBase, DecisionKnown, Place, Live, Dual, PlanStage
    <3>3. owner' \in Slots
      BY <3>1, <3>2 DEF Decisions
    <3>4. spec' \in Specs
      BY <3>1, <3>3 DEF Specs
    <3> QED
      BY <1>0, <1>10, <3>1, <3>3, <3>4, MaxRoundsAssumption DEF CopyBase
  <2> QED
    BY <2>1, <2>2
<1>11. CASE Merge
  <2>1. spec \in Specs
    BY <1>0, <1>11 DEF Merge, SpecMade
  <2>2. spec' \in Specs
    BY <1>0, <1>11, <2>1 DEF Merge, Specs
  <2> QED
    BY <1>0, <1>11, <2>2 DEF Merge
<1>12. CASE WriteSpec
  <2>1. [from |-> "author", ok |-> TRUE, request |-> None] \in Specs
    BY DEF Specs
  <2>2. spec' \in Specs \union {None}
    BY <1>0, <1>12, <2>1 DEF WriteSpec
  <2> QED
    BY <1>0, <1>12, <2>2, MaxRoundsAssumption DEF WriteSpec, Produced
<1>13. CASE Validate
  <2>1. CASE SourceAccepted
    BY <1>0, <1>13, <2>1 DEF Validate
  <2>2. CASE ~SourceAccepted
    BY <1>0, <1>13, <2>2, DownTypes DEF Validate
  <2> QED
    BY <2>1, <2>2
<1>14. CASE CopySpec
  <2>1. CASE source.spec = "gone"
    BY <1>0, <1>14, <2>1, DownTypes DEF CopySpec
  <2>2. CASE source.spec # "gone"
    <3>1. SpecValid \in BOOLEAN
      BY DEF SpecValid
    <3>2. spec' \in Specs
      BY <1>14, <2>2, <3>1 DEF CopySpec, Specs
    <3> QED
      BY <1>0, <1>14, <2>2, <3>2, MaxRoundsAssumption DEF CopySpec
  <2> QED
    BY <2>1, <2>2
<1>15. CASE Round
  <2>1. valid' \in BOOLEAN /\ advised' \in BOOLEAN /\ suggestion' \in BOOLEAN
    BY <1>0, <1>15, Zenon DEF Round, ResetSuggestion
  <2>2. round' \in 0..MaxRounds /\ pc' \in Steps /\ review' = "loop"
    BY <1>0, <1>15, MaxRoundsAssumption DEF Round, MoreRounds
  <2> QED
    BY <1>0, <1>15, <2>1, <2>2 DEF Round
<1>16. CASE SpecGate
  BY <1>0, <1>16 DEF SpecGate
<1>17. CASE Offer
  BY <1>0, <1>17 DEF Offer
<1>18. CASE Decline
  BY <1>0, <1>18 DEF Decline
<1>19. CASE Agree
  BY <1>0, <1>19 DEF Agree, SnapshotFlipped
<1>20. CASE UpdateSettings
  <2>1. settings \in Settings
    BY <1>0, <1>20 DEF UpdateSettings, Consent, Live
  <2>2. settings' \in Settings
    BY <1>20, <2>1 DEF UpdateSettings, Settings
  <2> QED
    BY <1>0, <1>20, <2>2 DEF UpdateSettings
<1>21. CASE WritePlan
  <2>1. settings.phases \in BOOLEAN
    BY <1>0, <1>21 DEF WritePlan, Consent, Live, Settings
  <2>2. PICK form \in {"phased", "plain", "bad"} :
            plan' = IF PlanStage \in artifacts'
                      THEN [form |-> form, asked |-> settings.phases] ELSE plan
    BY <1>21 DEF WritePlan
  <2>3. plan' \in Plans \union {None}
    BY <1>0, <2>1, <2>2 DEF Plans
  <2> QED
    BY <1>0, <1>21, <2>3 DEF WritePlan, Produced
<1>22. CASE CopyPlan
  <2>1. CASE source.plan = "gone"
    BY <1>0, <1>22, <2>1, DownTypes DEF CopyPlan
  <2>2. CASE source.plan # "gone"
    <3>1. settings.phases \in BOOLEAN /\ source.plan \in {"phased", "plain", "bad"}
      BY <1>0, <1>22, <2>2 DEF CopyPlan, Consent, Live, Settings, Sources
    <3>2. plan' \in Plans
      BY <1>22, <2>2, <3>1 DEF CopyPlan, Plans
    <3> QED
      BY <1>0, <1>22, <2>2, <3>2 DEF CopyPlan
  <2> QED
    BY <2>1, <2>2
<1>23. CASE ReviewPlan
  BY <1>0, <1>23 DEF ReviewPlan
<1>24. CASE CheckPlan
  <2>1. [form |-> "phased", asked |-> TRUE] \in Plans
    BY DEF Plans
  <2>2. plan' \in Plans \union {None} /\ artifacts' \subseteq Stages
    BY <1>0, <1>24, <2>1 DEF CheckPlan
  <2> QED
    BY <1>0, <1>24, <2>2 DEF CheckPlan
<1>25. CASE StartFlow
  <2>1. settings.phases \in BOOLEAN
    BY <1>0, <1>25 DEF StartFlow, Consent, Live, Settings
  <2> QED
    BY <1>0, <1>25, <2>1 DEF StartFlow
<1>26. CASE Stop
  <2>1. stops' \in 0..MaxStops
    BY <1>0, <1>26, MaxStopsAssumption DEF Stop
  <2> QED
    BY <1>0, <1>26, <2>1, DownTypes DEF Stop
<1>27. CASE Resume
  <2>1. PICK env \in {None, snapshot}, gate \in BOOLEAN :
            settings' = [phases |-> snapshot, explicit |-> env # None, gate |-> gate]
    BY <1>27 DEF Resume
  <2>2. snapshot \in BOOLEAN /\ (env # None) \in BOOLEAN
    BY <1>0
  <2>3. settings' \in Settings
    BY <2>1, <2>2 DEF Settings
  <2> QED
    BY <1>0, <1>27, <2>3 DEF Resume
<1>28. CASE SourceChanges
  BY <1>0, <1>28 DEF SourceChanges, Sources
<1>29. CASE OtherRun
  BY <1>0, <1>29 DEF OtherRun, Requests
<1>30. CASE UNCHANGED vars
  BY <1>0, <1>30 DEF vars
<1> QED
  BY <1>1, <1>2, <1>3, <1>4, <1>5, <1>6, <1>7, <1>8, <1>9, <1>10, <1>11, <1>12,
     <1>13, <1>14, <1>15,
     <1>16, <1>17, <1>18, <1>19, <1>20, <1>21, <1>22, <1>23,
     <1>24, <1>25, <1>26, <1>27, <1>28, <1>29, <1>30
     DEF Next, Work, DualSpec

\* A step leaves the attempt at a place with the ledger of that place.
LEMMA PlaceNext == IInv /\ [Next]_vars => (Place /\ Fresh)'
<1> SUFFICES ASSUME IInv, [Next]_vars PROVE (Place /\ Fresh)'
  OBVIOUS
<1>0. Place /\ Fresh
  BY DEF IInv
<1> USE DEF Place, Dual, Live, SpecStageOf, StepsOf, SpecSteps, DualStages,
            Early, Candidates, CrossReviews, Comparisons, PlanStage,
            Step, Down, First, memory, disk, hist, Fresh
<1>1. CASE Begin
  <2>1. pc = "begin" /\ stage # "flow"
        /\ UNCHANGED <<config, disk, source, launched, chosen, agreed, swapped,
                       flows, stops>>
    BY <1>1 DEF Begin
  <2>2. CASE stage \notin ledger
    <3>1. pc' = "body" /\ UNCHANGED <<stage, memory, advised>>
      BY <1>1, <2>2 DEF Begin
    <3> QED
      BY <1>0, <2>1, <2>2, <3>1
  <2>3. CASE stage \in ledger /\ stage \in artifacts
    <3>1. Leave /\ UNCHANGED <<memory, advised>>
      BY <1>1, <2>3 DEF Begin
    <3>2. Ahead
      BY <2>1, <3>1, Leaving DEF IInv
    <3> QED
      BY <1>0, <2>1, <2>3, <3>1, <3>2 DEF Ahead, SpecStages
  <2>4. CASE stage \in ledger /\ stage \notin artifacts
    <3>1. Down
      BY <1>1, <2>4 DEF Begin
    <3> QED
      BY <1>0, <2>1, <2>4, <3>1
  <2> QED
    BY <2>2, <2>3, <2>4
<1>2. CASE End
  <2>1. pc = "end" /\ stage # "flow" /\ Leave
    BY <1>0, <1>2 DEF End
  <2>2. Ahead
    BY <2>1, Leaving DEF IInv
  <2> QED
    BY <1>0, <1>2, <2>1, <2>2 DEF End, Ahead, SpecStages
<1>3. CASE WriteText
  BY <1>0, <1>3 DEF WriteText
<1>4. CASE ReviewCandidate
  BY <1>0, <1>4 DEF ReviewCandidate, InitialReview, Subject
<1>5. CASE CopyReview
  BY <1>0, <1>5 DEF CopyReview, Subject
<1>6. CASE Choose
  BY <1>0, <1>6 DEF Choose
<1>7. CASE EditRequest
  BY <1>0, <1>7 DEF EditRequest
<1>8. CASE WriteDecision
  BY <1>0, <1>8 DEF WriteDecision
<1>9. CASE Restore
  BY <1>0, <1>9 DEF Restore
<1>10. CASE CopyBase
  BY <1>0, <1>10 DEF CopyBase
<1>11. CASE Merge
  BY <1>0, <1>11 DEF Merge
<1>12. CASE WriteSpec
  BY <1>0, <1>12 DEF WriteSpec
<1>13. CASE Validate
  BY <1>0, <1>13 DEF Validate
<1>14. CASE CopySpec
  BY <1>0, <1>14 DEF CopySpec
<1>15. CASE Round
  BY <1>0, <1>15 DEF Round
<1>16. CASE SpecGate
  BY <1>0, <1>16 DEF SpecGate
<1>17. CASE Offer
  BY <1>0, <1>17 DEF Offer
<1>18. CASE Decline
  BY <1>0, <1>18 DEF Decline
<1>19. CASE Agree
  BY <1>0, <1>19 DEF Agree
<1>20. CASE UpdateSettings
  BY <1>0, <1>20 DEF UpdateSettings
<1>21. CASE WritePlan
  BY <1>0, <1>21 DEF WritePlan
<1>22. CASE CopyPlan
  BY <1>0, <1>22 DEF CopyPlan
<1>23. CASE ReviewPlan
  BY <1>0, <1>23 DEF ReviewPlan
<1>24. CASE CheckPlan
  BY <1>0, <1>24 DEF CheckPlan
<1>25. CASE StartFlow
  BY <1>0, <1>25 DEF StartFlow
<1>26. CASE Stop
  BY <1>0, <1>26 DEF Stop
<1>27. CASE Resume
  BY <1>0, <1>27 DEF Resume
<1>28. CASE SourceChanges
  BY <1>0, <1>28 DEF SourceChanges
<1>29. CASE OtherRun
  BY <1>0, <1>29 DEF OtherRun
<1>30. CASE UNCHANGED vars
  BY <1>0, <1>30 DEF vars
<1> QED
  BY <1>1, <1>2, <1>3, <1>4, <1>5, <1>6, <1>7, <1>8, <1>9, <1>10, <1>11, <1>12,
     <1>13, <1>14, <1>15,
     <1>16, <1>17, <1>18, <1>19, <1>20, <1>21, <1>22, <1>23,
     <1>24, <1>25, <1>26, <1>27, <1>28, <1>29, <1>30
     DEF Next, Work, DualSpec

\* A step keeps what is known of the decision.
LEMMA DecisionNext == IInv /\ [Next]_vars => DecisionHolds'
<1> SUFFICES ASSUME IInv, [Next]_vars PROVE DecisionHolds'
  OBVIOUS
<1>0. TypeOK /\ Place /\ DecisionHolds
  BY DEF IInv
<1> USE DEF Place, Dual, Live, SpecStageOf, StepsOf, SpecSteps, DualStages,
            Early, Candidates, CrossReviews, Comparisons, PlanStage,
            Step, Down, First, memory, disk, hist,
            DecisionHolds, DecisionFiled, DecisionKnown, OwnerKnown, RequestKept,
            SpecMade
<1>1. CASE Begin
  <2>1. pc = "begin" /\ stage # "flow"
        /\ UNCHANGED <<config, disk, source, launched, chosen, agreed, swapped,
                       flows, stops>>
    BY <1>1 DEF Begin
  <2>2. CASE stage \notin ledger
    <3>1. pc' = "body" /\ UNCHANGED <<stage, memory, advised>>
      BY <1>1, <2>2 DEF Begin
    <3> QED
      BY <1>0, <2>1, <2>2, <3>1
  <2>3. CASE stage \in ledger /\ stage \in artifacts
    <3>1. Leave /\ UNCHANGED <<memory, advised>>
      BY <1>1, <2>3 DEF Begin
    <3>2. Ahead
      BY <2>1, <3>1, Leaving DEF IInv
    <3> QED
      BY <1>0, <2>1, <2>3, <3>1, <3>2 DEF Ahead, SpecStages
  <2>4. CASE stage \in ledger /\ stage \notin artifacts
    <3>1. Down
      BY <1>1, <2>4 DEF Begin
    <3> QED
      BY <1>0, <2>1, <2>4, <3>1
  <2> QED
    BY <2>2, <2>3, <2>4
<1>2. CASE End
  <2>1. pc = "end" /\ stage # "flow" /\ Leave
    BY <1>0, <1>2 DEF End
  <2>2. Ahead
    BY <2>1, Leaving DEF IInv
  <2> QED
    BY <1>0, <1>2, <2>1, <2>2 DEF End, Ahead, SpecStages
<1>3. CASE WriteText
  BY <1>0, <1>3 DEF WriteText, Produced
<1>4. CASE ReviewCandidate
  BY <1>0, <1>4 DEF ReviewCandidate
<1>5. CASE CopyReview
  BY <1>0, <1>5 DEF CopyReview
<1>6. CASE Choose
  BY <1>0, <1>6 DEF Choose
<1>7. CASE EditRequest
  BY <1>0, <1>7 DEF EditRequest
<1>8. CASE WriteDecision
  <2>1. decision \in Decisions /\ decided' = decision /\ chosen' = decision
    BY <1>0, <1>8 DEF WriteDecision, DecisionWritten
  <2>2. <<"edited", decision>> # None
    BY <2>1, NoneAssumption DEF Requests
  <2>3. RequestKept'
    BY <1>0, <1>8, <2>1, <2>2 DEF WriteDecision
  <2> QED
    BY <1>0, <1>8, <2>1, <2>3 DEF WriteDecision, Decisions
<1>9. CASE Restore
  BY <1>0, <1>9 DEF Restore
<1>10. CASE CopyBase
  <2>1. decision \in Decisions /\ decision = chosen
    BY <1>0, <1>10 DEF CopyBase
  <2>2. CASE CandidateOf(decision[2]) \notin artifacts
    <3>1. Down /\ UNCHANGED <<artifacts, spec>>
      BY <1>10, <2>2 DEF CopyBase
    <3> QED
      BY <1>0, <1>10, <3>1 DEF CopyBase
  <2>3. CASE CandidateOf(decision[2]) \in artifacts
    <3>1. /\ owner' = decision[2]
          /\ spec' = [from |-> owner', ok |-> TRUE, request |-> None]
          /\ artifacts' = artifacts \union {stage}
          /\ pc' = IF decision[1] = "merge" THEN "merge" ELSE "round"
          /\ UNCHANGED <<stage, settings, decision, valid, advised>>
      BY <1>10, <2>3 DEF CopyBase
    <3>2. owner' \in Slots
      BY <2>1, <3>1 DEF Decisions
    <3>3. spec' \in Specs /\ spec'.from = chosen[2] /\ spec'.request = None
      BY <2>1, <3>1, <3>2 DEF Specs
    <3> QED
      BY <1>0, <1>10, <2>1, <3>1, <3>3 DEF CopyBase
  <2> QED
    BY <2>2, <2>3
<1>11. CASE Merge
  <2>1. spec \in Specs /\ spec.from = chosen[2] /\ chosen[1] = "merge"
    BY <1>0, <1>11 DEF Merge
  <2>2. request \in {<<"foreign">>, <<"edited", chosen>>}
    BY <1>0, <1>11, <2>1, NoneAssumption DEF Merge
  <2>3. spec' \in Specs /\ spec'.from = chosen[2] /\ spec'.request = request
    <3>1. request \in Requests \union {None}
      BY <1>0 DEF TypeOK
    <3> QED
      BY <1>11, <2>1, <3>1 DEF Merge, Specs
  <2> QED
    BY <1>0, <1>11, <2>1, <2>2, <2>3 DEF Merge
<1>12. CASE WriteSpec
  BY <1>0, <1>12 DEF WriteSpec, Produced
<1>13. CASE Validate
  BY <1>0, <1>13 DEF Validate
<1>14. CASE CopySpec
  BY <1>0, <1>14 DEF CopySpec
<1>15. CASE Round
  BY <1>0, <1>15 DEF Round
<1>16. CASE SpecGate
  BY <1>0, <1>16 DEF SpecGate
<1>17. CASE Offer
  BY <1>0, <1>17 DEF Offer
<1>18. CASE Decline
  BY <1>0, <1>18 DEF Decline
<1>19. CASE Agree
  BY <1>0, <1>19 DEF Agree
<1>20. CASE UpdateSettings
  BY <1>0, <1>20 DEF UpdateSettings
<1>21. CASE WritePlan
  BY <1>0, <1>21 DEF WritePlan, Produced
<1>22. CASE CopyPlan
  BY <1>0, <1>22 DEF CopyPlan
<1>23. CASE ReviewPlan
  BY <1>0, <1>23 DEF ReviewPlan
<1>24. CASE CheckPlan
  BY <1>0, <1>24 DEF CheckPlan
<1>25. CASE StartFlow
  BY <1>0, <1>25 DEF StartFlow
<1>26. CASE Stop
  BY <1>0, <1>26 DEF Stop
<1>27. CASE Resume
  BY <1>0, <1>27 DEF Resume
<1>28. CASE SourceChanges
  BY <1>0, <1>28 DEF SourceChanges
<1>29. CASE OtherRun
  BY <1>0, <1>29 DEF OtherRun
<1>30. CASE UNCHANGED vars
  BY <1>0, <1>30 DEF vars
<1> QED
  BY <1>1, <1>2, <1>3, <1>4, <1>5, <1>6, <1>7, <1>8, <1>9, <1>10, <1>11, <1>12,
     <1>13, <1>14, <1>15,
     <1>16, <1>17, <1>18, <1>19, <1>20, <1>21, <1>22, <1>23,
     <1>24, <1>25, <1>26, <1>27, <1>28, <1>29, <1>30
     DEF Next, Work, DualSpec

\* A step keeps the form of the flow and the consent to it.
LEMMA ConsentNext == IInv /\ [Next]_vars => (Consent /\ FlowFixed)'
<1> SUFFICES ASSUME IInv, [Next]_vars PROVE (Consent /\ FlowFixed)'
  OBVIOUS
<1>0. TypeOK /\ Place /\ Consent /\ FlowFixed
  BY DEF IInv
<1> USE DEF Place, Dual, Live, SpecStageOf, StepsOf, SpecSteps, DualStages,
            Early, Candidates, CrossReviews, Comparisons, PlanStage,
            Step, Down, First, memory, disk, hist, Consent, FlowFixed
<1>1. CASE Begin
  <2>1. pc = "begin" /\ stage # "flow"
        /\ UNCHANGED <<config, disk, source, launched, chosen, agreed, swapped,
                       flows, stops>>
    BY <1>1 DEF Begin
  <2>2. CASE stage \notin ledger
    <3>1. pc' = "body" /\ UNCHANGED <<stage, memory, advised>>
      BY <1>1, <2>2 DEF Begin
    <3> QED
      BY <1>0, <2>1, <2>2, <3>1
  <2>3. CASE stage \in ledger /\ stage \in artifacts
    <3>1. Leave /\ UNCHANGED <<memory, advised>>
      BY <1>1, <2>3 DEF Begin
    <3>2. Ahead
      BY <2>1, <3>1, Leaving DEF IInv
    <3> QED
      BY <1>0, <2>1, <2>3, <3>1, <3>2 DEF Ahead, SpecStages
  <2>4. CASE stage \in ledger /\ stage \notin artifacts
    <3>1. Down
      BY <1>1, <2>4 DEF Begin
    <3> QED
      BY <1>0, <2>1, <2>4, <3>1
  <2> QED
    BY <2>2, <2>3, <2>4
<1>2. CASE End
  <2>1. pc = "end" /\ stage # "flow" /\ Leave
    BY <1>0, <1>2 DEF End
  <2>2. Ahead
    BY <2>1, Leaving DEF IInv
  <2> QED
    BY <1>0, <1>2, <2>1, <2>2 DEF End, Ahead, SpecStages
<1>3. CASE WriteText
  BY <1>0, <1>3 DEF WriteText, Produced
<1>4. CASE ReviewCandidate
  BY <1>0, <1>4 DEF ReviewCandidate
<1>5. CASE CopyReview
  BY <1>0, <1>5 DEF CopyReview
<1>6. CASE Choose
  BY <1>0, <1>6 DEF Choose
<1>7. CASE EditRequest
  BY <1>0, <1>7 DEF EditRequest
<1>8. CASE WriteDecision
  BY <1>0, <1>8 DEF WriteDecision
<1>9. CASE Restore
  BY <1>0, <1>9 DEF Restore
<1>10. CASE CopyBase
  BY <1>0, <1>10 DEF CopyBase
<1>11. CASE Merge
  BY <1>0, <1>11 DEF Merge
<1>12. CASE WriteSpec
  BY <1>0, <1>12 DEF WriteSpec, Produced
<1>13. CASE Validate
  BY <1>0, <1>13 DEF Validate
<1>14. CASE CopySpec
  BY <1>0, <1>14 DEF CopySpec
<1>15. CASE Round
  BY <1>0, <1>15 DEF Round, ResetSuggestion
<1>16. CASE SpecGate
  BY <1>0, <1>16 DEF SpecGate
<1>17. CASE Offer
  BY <1>0, <1>17 DEF Offer
<1>18. CASE Decline
  BY <1>0, <1>18 DEF Decline
<1>19. CASE Agree
  BY <1>0, <1>19 DEF Agree, SnapshotFlipped
<1>20. CASE UpdateSettings
  <2>1. settings \in Settings /\ settings' = [settings EXCEPT !.phases = TRUE]
    BY <1>0, <1>20 DEF UpdateSettings
  <2>2. settings' \in Settings /\ settings'.phases = TRUE
    BY <2>1 DEF Settings
  <2> QED
    BY <1>0, <1>20, <2>2 DEF UpdateSettings
<1>21. CASE WritePlan
  BY <1>0, <1>21 DEF WritePlan, Produced
<1>22. CASE CopyPlan
  BY <1>0, <1>22 DEF CopyPlan
<1>23. CASE ReviewPlan
  BY <1>0, <1>23 DEF ReviewPlan
<1>24. CASE CheckPlan
  <2>1. /\ pc = "check" /\ stage = PlanStage /\ pc' = "end" /\ settings.phases = snapshot
        /\ UNCHANGED <<config, stage, ledger, snapshot, suggestion, flows, memory,
                       launched, agreed, advised>>
    BY <1>0, <1>24 DEF CheckPlan
  <2>2. CASE ~snapshot
    <3>1. UNCHANGED <<plan, artifacts>>
      BY <1>24, <2>1, <2>2 DEF CheckPlan
    <3> QED
      BY <1>0, <2>1, <2>2, <3>1
  <2>3. CASE snapshot
    <3>1. /\ plan' = [form |-> "phased", asked |-> TRUE]
          /\ artifacts' = artifacts \union {stage}
      BY <1>24, <2>1, <2>3 DEF CheckPlan
    <3>2. plan' \in Plans /\ plan'.form = "phased" /\ plan'.asked = TRUE
      BY <3>1 DEF Plans
    <3>3. snapshot = TRUE
      BY <1>0, <2>3 DEF TypeOK
    <3> QED
      BY <1>0, <2>1, <3>1, <3>2, <3>3
  <2> QED
    BY <2>2, <2>3
<1>25. CASE StartFlow
  BY <1>0, <1>25 DEF StartFlow
<1>26. CASE Stop
  BY <1>0, <1>26 DEF Stop
<1>27. CASE Resume
  <2>1. PICK env \in {None, snapshot}, gate \in BOOLEAN :
            settings' = [phases |-> snapshot, explicit |-> env # None, gate |-> gate]
    BY <1>27 DEF Resume
  <2>2. snapshot \in BOOLEAN /\ (env # None) \in BOOLEAN
    BY <1>0 DEF TypeOK
  <2>3. settings' \in Settings /\ settings'.phases = snapshot
    BY <2>1, <2>2 DEF Settings
  <2> QED
    BY <1>0, <1>27, <2>3 DEF Resume
<1>28. CASE SourceChanges
  BY <1>0, <1>28 DEF SourceChanges
<1>29. CASE OtherRun
  BY <1>0, <1>29 DEF OtherRun
<1>30. CASE UNCHANGED vars
  BY <1>0, <1>30 DEF vars
<1> QED
  BY <1>1, <1>2, <1>3, <1>4, <1>5, <1>6, <1>7, <1>8, <1>9, <1>10, <1>11, <1>12,
     <1>13, <1>14, <1>15,
     <1>16, <1>17, <1>18, <1>19, <1>20, <1>21, <1>22, <1>23,
     <1>24, <1>25, <1>26, <1>27, <1>28, <1>29, <1>30
     DEF Next, Work, DualSpec

\* A step imports only what was checked.
LEMMA CheckedNext == IInv /\ [Next]_vars => Checked'
<1> SUFFICES ASSUME IInv, [Next]_vars PROVE Checked'
  OBVIOUS
<1>0. TypeOK /\ Place /\ Consent /\ SpecMade /\ Checked
  BY DEF IInv, DecisionHolds
<1> USE DEF Place, Dual, Live, SpecStageOf, StepsOf, SpecSteps, DualStages,
            Early, Candidates, CrossReviews, Comparisons, PlanStage,
            Step, Down, First, memory, disk, hist, Checked, SpecValid, PlanValid
<1>1. CASE Begin
  <2>1. pc = "begin" /\ stage # "flow"
        /\ UNCHANGED <<config, disk, source, launched, chosen, agreed, swapped,
                       flows, stops>>
    BY <1>1 DEF Begin
  <2>2. CASE stage \notin ledger
    <3>1. pc' = "body" /\ UNCHANGED <<stage, memory, advised>>
      BY <1>1, <2>2 DEF Begin
    <3> QED
      BY <1>0, <2>1, <2>2, <3>1
  <2>3. CASE stage \in ledger /\ stage \in artifacts
    <3>1. Leave /\ UNCHANGED <<memory, advised>>
      BY <1>1, <2>3 DEF Begin
    <3>2. Ahead
      BY <2>1, <3>1, Leaving DEF IInv
    <3> QED
      BY <1>0, <2>1, <2>3, <3>1, <3>2 DEF Ahead, SpecStages
  <2>4. CASE stage \in ledger /\ stage \notin artifacts
    <3>1. Down
      BY <1>1, <2>4 DEF Begin
    <3> QED
      BY <1>0, <2>1, <2>4, <3>1
  <2> QED
    BY <2>2, <2>3, <2>4
<1>2. CASE End
  <2>1. pc = "end" /\ stage # "flow" /\ Leave
    BY <1>0, <1>2 DEF End
  <2>2. Ahead
    BY <2>1, Leaving DEF IInv
  <2> QED
    BY <1>0, <1>2, <2>1, <2>2 DEF End, Ahead, SpecStages
<1>3. CASE WriteText
  BY <1>0, <1>3 DEF WriteText
<1>4. CASE ReviewCandidate
  BY <1>0, <1>4 DEF ReviewCandidate
<1>5. CASE CopyReview
  BY <1>0, <1>5 DEF CopyReview
<1>6. CASE Choose
  BY <1>0, <1>6 DEF Choose
<1>7. CASE EditRequest
  BY <1>0, <1>7 DEF EditRequest
<1>8. CASE WriteDecision
  BY <1>0, <1>8 DEF WriteDecision
<1>9. CASE Restore
  BY <1>0, <1>9 DEF Restore
<1>10. CASE CopyBase
  BY <1>0, <1>10 DEF CopyBase
<1>11. CASE Merge
  <2>1. spec \in Specs /\ spec' = [spec EXCEPT !.request = request]
    BY <1>0, <1>11 DEF Merge, SpecMade
  <2>2. spec'.ok = spec.ok
    BY <2>1 DEF Specs
  <2>3. spec # None
    BY <2>1, NoneAssumption
  <2> QED
    BY <1>0, <1>11, <2>2, <2>3 DEF Merge
<1>12. CASE WriteSpec
  BY <1>0, <1>12 DEF WriteSpec
<1>13. CASE Validate
  BY <1>0, <1>13 DEF Validate, SourceAccepted
<1>14. CASE CopySpec
  <2>1. CASE source.spec = "gone"
    BY <1>0, <1>14, <2>1 DEF CopySpec
  <2>2. CASE source.spec # "gone"
    <3>1. spec' = [from |-> "source", ok |-> SpecValid, request |-> None]
      BY <1>14, <2>2 DEF CopySpec
    <3>2. spec'.ok = SpecValid
      BY <3>1
    <3>3. pc' # "copy" /\ UNCHANGED <<plan, settings>>
      BY <1>14, <2>2 DEF CopySpec
    <3> QED
      BY <1>0, <1>14, <3>2, <3>3 DEF CopySpec
  <2> QED
    BY <2>1, <2>2
<1>15. CASE Round
  BY <1>0, <1>15 DEF Round
<1>16. CASE SpecGate
  BY <1>0, <1>16 DEF SpecGate
<1>17. CASE Offer
  BY <1>0, <1>17 DEF Offer
<1>18. CASE Decline
  BY <1>0, <1>18 DEF Decline
<1>19. CASE Agree
  BY <1>0, <1>19 DEF Agree
<1>20. CASE UpdateSettings
  BY <1>0, <1>20 DEF UpdateSettings, Consent
<1>21. CASE WritePlan
  BY <1>0, <1>21 DEF WritePlan
<1>22. CASE CopyPlan
  BY <1>0, <1>22 DEF CopyPlan, Consent
<1>23. CASE ReviewPlan
  BY <1>0, <1>23 DEF ReviewPlan
<1>24. CASE CheckPlan
  BY <1>0, <1>24 DEF CheckPlan
<1>25. CASE StartFlow
  BY <1>0, <1>25 DEF StartFlow
<1>26. CASE Stop
  BY <1>0, <1>26 DEF Stop
<1>27. CASE Resume
  BY <1>0, <1>27 DEF Resume
<1>28. CASE SourceChanges
  BY <1>0, <1>28 DEF SourceChanges
<1>29. CASE OtherRun
  BY <1>0, <1>29 DEF OtherRun
<1>30. CASE UNCHANGED vars
  BY <1>0, <1>30 DEF vars
<1> QED
  BY <1>1, <1>2, <1>3, <1>4, <1>5, <1>6, <1>7, <1>8, <1>9, <1>10, <1>11, <1>12,
     <1>13, <1>14, <1>15,
     <1>16, <1>17, <1>18, <1>19, <1>20, <1>21, <1>22, <1>23,
     <1>24, <1>25, <1>26, <1>27, <1>28, <1>29, <1>30
     DEF Next, Work, DualSpec

-----------------------------------------------------------------------------
LEMMA InitIInv == Init => IInv
<1> SUFFICES ASSUME Init PROVE IInv
  OBVIOUS
<1> USE DEF Init, First, Stages, SpecStages, Candidates, CrossReviews, Comparisons, PlanStage
<1>1. TypeOK
  <2>1. /\ snapshot \in BOOLEAN /\ suggestion \in BOOLEAN /\ valid \in BOOLEAN
        /\ launched \in BOOLEAN /\ advised \in BOOLEAN /\ agreed \in BOOLEAN
        /\ swapped \in BOOLEAN /\ settings.phases = snapshot
    BY DEF Settings
  <2> QED
    BY <2>1, MaxRoundsAssumption, MaxStopsAssumption DEF TypeOK, Steps, Slots
<1>2. settings \in Settings /\ settings.phases = snapshot
  OBVIOUS
<1>3. Place /\ Fresh
  BY DEF Place, Fresh, Dual, Live, SpecStageOf, StepsOf, Early, DualStages
<1>4. DecisionFiled /\ DecisionKnown /\ OwnerKnown /\ RequestKept /\ SpecMade
  BY
     DEF DecisionFiled, DecisionKnown, OwnerKnown, RequestKept, SpecMade, Early,
         SpecSteps, Dual, Live
<1>5. Consent /\ FlowFixed /\ Checked
  BY <1>2 DEF Consent, FlowFixed, Checked, Live
<1> QED
  BY <1>1, <1>3, <1>4, <1>5 DEF IInv, DecisionHolds

LEMMA Inductive == Spec => []IInv
<1>1. IInv /\ [Next]_vars => IInv'
  BY TypeNext, PlaceNext, DecisionNext, ConsentNext, CheckedNext DEF IInv, DecisionHolds
<1> QED
  BY <1>1, InitIInv, PTL DEF Spec

-----------------------------------------------------------------------------
\* The variables keep their types.
THEOREM TypeCorrect == Spec => []TypeOK
<1>1. IInv => TypeOK
  BY DEF IInv
<1> QED
  BY <1>1, Inductive, PTL

\* A candidate's filed review is about that candidate.
THEOREM ReviewIsOwn == Spec => []CrossReviewFresh
<1>1. IInv => CrossReviewFresh
  BY DEF IInv, Fresh, CrossReviewFresh
<1> QED
  BY <1>1, Inductive, PTL

\* The final spec is made as the human decided last.
THEOREM SpecAsChosen == Spec => []FinalSpecAsChosen
<1>1. IInv => FinalSpecAsChosen
  BY DEF IInv, DecisionHolds, Place, DecisionFiled, SpecMade, FinalSpecAsChosen
<1> QED
  BY <1>1, Inductive, PTL

\* Every attempt has the roles the human's decision implies.
THEOREM RolesAsChosen == Spec => []RolesFollowHuman
<1>1. IInv => RolesFollowHuman
  BY DEF IInv, DecisionHolds, OwnerKnown, RolesFollowHuman, Dual, Live
<1> QED
  BY <1>1, Inductive, PTL

\* PHASES is never turned on without the reviewer's advice and the human's word.
THEOREM ConsentGiven == Spec => []PhasesByConsent
<1>1. IInv => PhasesByConsent
  BY DEF IInv, Consent, PhasesByConsent, Live
<1> QED
  BY <1>1, Inductive, PTL

\* Attempts agree on the form of the flow, and the plan has it.
THEOREM FlowIsOne == Spec => []OneFlow
<1>1. IInv => OneFlow
  <2> SUFFICES ASSUME IInv PROVE OneFlow
    OBVIOUS
  <2>1. pc = "running" => PlanStage \in ledger /\ settings.phases = snapshot
    BY DEF IInv, Place, Live, StepsOf, Consent, CrossReviews, PlanStage, SpecSteps
  <2>2. plan \in Plans => plan # None
    BY NoneAssumption
  <2> QED
    BY <2>1, <2>2 DEF IInv, FlowFixed, OneFlow
<1> QED
  BY <1>1, Inductive, PTL

\* What was imported without a change between check and copy is valid.
THEOREM ImportIsValid == Spec => []ImportedIsValid
<1>1. IInv => ImportedIsValid
  BY DEF IInv, Checked, ImportedIsValid
<1> QED
  BY <1>1, Inductive, PTL

-----------------------------------------------------------------------------
\* What is left while an attempt is on its way to the flow: changes of the files
\* to import, ...
ChangesLeft ==
  (IF source.spec = "good" THEN 1 ELSE 0)
  + (IF source.plan \in {"phased", "plain"} THEN 1 ELSE 0)

\* ... stages, ...
Rank(s) ==
  CASE s = "write-spec-a"    -> 10
    [] s = "write-spec-b"    -> 9
    [] s = "review-spec-a"   -> 8
    [] s = "review-spec-b"   -> 7
    [] s = "compare-specs-a" -> 6
    [] s = "compare-specs-b" -> 5
    [] s = "select-spec"     -> 4
    [] s = "finalize-spec"   -> 3
    [] s = "write-spec"      -> 3
    [] s = PlanStage         -> 2
    [] OTHER                 -> 1

StagesLeft == IF pc \in {"down", "running"} THEN 0 ELSE Rank(stage)

\* ... steps of the stage, ...
StepsLeft ==
  CASE pc = "restore" -> 11
    [] pc = "begin" -> 10
    [] pc = "body" -> 9
    [] pc \in {"edit", "copy", "merge"} -> 8
    [] pc \in {"decide", "stub", "review"} -> 7
    [] pc \in {"round", "check"} -> 6
    [] pc = "gate" -> 5
    [] pc = "offer" -> 4
    [] pc = "ask" -> 3
    [] pc = "flip" -> 2
    [] pc = "end" -> 1
    [] OTHER -> 0

\* ... and rounds of the spec's review.
RoundsLeft == MaxRounds - round

Left == <<ChangesLeft, StagesLeft, StepsLeft, RoundsLeft>>

Descends == <<Left', Left>> \in Below(4)

LeftIsNat ==
  ChangesLeft \in Nat /\ StagesLeft \in Nat /\ StepsLeft \in Nat /\ RoundsLeft \in Nat

LEMMA LeftInIInv == IInv => LeftIsNat
<1>1. Rank(stage) \in Nat
  BY DEF Rank
<1>2. ChangesLeft \in Nat /\ StagesLeft \in Nat /\ StepsLeft \in Nat
  BY <1>1 DEF ChangesLeft, StagesLeft, StepsLeft
<1>3. IInv => RoundsLeft \in Nat
  BY MaxRoundsAssumption DEF IInv, TypeOK, RoundsLeft
<1> QED
  BY <1>2, <1>3 DEF LeftIsNat

LEMMA StageLeft == Place /\ stage # "flow" /\ Leave => Rank(stage') < Rank(stage)
BY DEF Place, Leave, After, Rank, SpecStages, DualStages, Early, Candidates,
   CrossReviews, Comparisons, PlanStage

LEMMA AttemptDescends ==
  IInv /\ LeftIsNat /\ LeftIsNat' /\ pc \notin {"down", "running"} /\ Next => Descends
<1> SUFFICES ASSUME IInv, LeftIsNat, LeftIsNat', pc \notin {"down", "running"}, Next
             PROVE  Descends
  OBVIOUS
<1>0. Place /\ pc \in Steps /\ source \in Sources
  BY DEF IInv, TypeOK
<1> DEFINE less ==
      \/ ChangesLeft' < ChangesLeft
      \/ ChangesLeft' = ChangesLeft /\ StagesLeft' < StagesLeft
      \/ ChangesLeft' = ChangesLeft /\ StagesLeft' = StagesLeft /\ StepsLeft' < StepsLeft
      \/ /\ ChangesLeft' = ChangesLeft /\ StagesLeft' = StagesLeft /\ StepsLeft' = StepsLeft
         /\ RoundsLeft' < RoundsLeft
<1> SUFFICES less
  BY BelowFour DEF Descends, Left, LeftIsNat
<1>s. source' = source => ChangesLeft' = ChangesLeft
  BY DEF ChangesLeft
<1>r. Rank(stage) > 0
  BY DEF Rank
\* The attempt ends or hands over.
<1>e. ASSUME pc' \in {"down", "running"}, source' = source PROVE less
  BY <1>e, <1>r, <1>s DEF StagesLeft
\* The stage is left.
<1>l. ASSUME stage # "flow", Leave, source' = source PROVE less
  BY <1>0, <1>l, <1>e, <1>s, StageLeft DEF StagesLeft
\* The stage goes on.
<1>g. ASSUME stage' = stage, source' = source, pc' \notin {"down", "running"},
             StepsLeft' < StepsLeft
      PROVE  less
  BY <1>g, <1>s DEF StagesLeft
<1> USE DEF StepsLeft, Step, disk, memory
<1>1. CASE Begin
  BY <1>1, <1>e, <1>g, <1>l DEF Begin, Down
<1>2. CASE End
  <2>1. stage # "flow"
    BY <1>0, <1>2 DEF End, Place, StepsOf
  <2> QED
    BY <1>2, <1>l, <2>1 DEF End
<1>3. CASE DualSpec
  BY <1>3, <1>e, <1>g DEF DualSpec, WriteText, ReviewCandidate, CopyReview, Choose,
     EditRequest, WriteDecision, Restore, CopyBase, Merge, Down
<1>4. CASE WriteSpec \/ Validate \/ CopySpec
  BY <1>4, <1>e, <1>g DEF WriteSpec, Validate, CopySpec, Down
<1>5. CASE Round
  <2>1. CASE pc' = "gate"
    BY <1>5, <1>g, <2>1 DEF Round
  <2>2. CASE pc' = "round"
    <3>1. /\ round' = round + 1 /\ round < MaxRounds /\ pc = "round"
          /\ UNCHANGED <<stage, source>>
      BY <1>5, <2>2 DEF Round, MoreRounds
    <3>2. StagesLeft' = StagesLeft /\ StepsLeft' = StepsLeft
      BY <2>2, <3>1 DEF StagesLeft
    <3>3. round \in Nat /\ MaxRounds \in Nat
      BY MaxRoundsAssumption DEF IInv, TypeOK
    <3> QED
      BY <1>s, <3>1, <3>2, <3>3 DEF RoundsLeft
  <2> QED
    BY <1>5, <2>1, <2>2 DEF Round
<1>6. CASE SpecGate \/ Offer \/ Decline \/ Agree \/ UpdateSettings
  BY <1>6, <1>g DEF SpecGate, Offer, Decline, Agree, UpdateSettings
<1>7. CASE WritePlan \/ CopyPlan \/ ReviewPlan \/ CheckPlan
  BY <1>7, <1>e, <1>g DEF WritePlan, CopyPlan, ReviewPlan, CheckPlan, Down
<1>8. CASE StartFlow \/ Stop
  BY <1>8, <1>e DEF StartFlow, Stop, Down
<1>9. CASE SourceChanges
  BY <1>0, <1>9 DEF SourceChanges, ChangesLeft, Sources
<1>10. CASE Resume \/ OtherRun
  BY <1>10 DEF Resume, OtherRun
<1> QED
  BY <1>1, <1>2, <1>3, <1>4, <1>5, <1>6, <1>7, <1>8, <1>9, <1>10 DEF Next, Work

\* Every step while an attempt is on its way to the flow, its own or a change of a
\* file to import, leaves less to be done, in an order without endless descents
\* (NoEndlessDescent): nothing the human or the reviewer answers leads back.
THEOREM AttemptIsFinite == Spec => [][pc \notin {"down", "running"} => Descends]_vars
<1>1. IInv /\ LeftIsNat /\ LeftIsNat' /\ [Next]_vars =>
        [pc \notin {"down", "running"} => Descends]_vars
  BY AttemptDescends
<1> QED
  BY <1>1, LeftInIInv, Inductive, PTL DEF Spec
=============================================================================
