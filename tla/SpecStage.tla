------------------------------ MODULE SpecStage ------------------------------
(***************************************************************************)
(* How a run comes by its spec, its roles and its flow: the part of        *)
(* run_workflow before implementation starts, in its three forms (a        *)
(* written spec, an imported spec and perhaps plan, two candidate specs    *)
(* of dual_spec.py), with the settings snapshot and the Phased ATDD        *)
(* suggestion that may change PHASES at the spec gate.                     *)
(*                                                                         *)
(* The attempt may abort or die at any step and is resumed from disk.      *)
(* Other things in the workspace change in the meantime: the files that    *)
(* IMPORT_SPEC and IMPORT_PLAN name, and, while no attempt is alive, files *)
(* of aac/.run that a fresh run in the same workspace removes or replaces. *)
(*                                                                         *)
(* Review loops are reduced to their rounds, which are the subject of      *)
(* ReviewLoop; the commits between these stages are in StagePipeline.      *)
(***************************************************************************)
EXTENDS Integers

CONSTANTS
  None,       \* no such file, or nothing in memory
  MaxRounds,  \* MAX_ROUNDS
  MaxStops    \* bound on deaths and on aborts by an agent or the human

ASSUME MaxRoundsAssumption == MaxRounds \in Nat \ {0}
ASSUME MaxStopsAssumption == MaxStops \in Nat

Slots == {"A", "B"}
Other(slot) == IF slot = "A" THEN "B" ELSE "A"
Decisions == {"adopt", "merge"} \X Slots

\* What never changes across attempts (check_immutable), as far as it is
\* consistent (import_preflight).
Configs ==
  {c \in [spec : {"write", "import", "dual"}, plan : {"write", "import"},
          review : BOOLEAN] :
     /\ c.plan = "import" => c.spec = "import"
     /\ ~c.review => c.spec = "import"}

Candidates == {"write-spec-a", "write-spec-b"}
CrossReviews == {"review-spec-a", "review-spec-b"}
Comparisons == {"compare-specs-a", "compare-specs-b"}
SpecStages == {"write-spec", "finalize-spec"}
PlanStage == "write-implementation-plan"
\* The stages of the ledger; "flow" stands for all that follow the plan.
Stages == Candidates \union CrossReviews \union Comparisons \union SpecStages
          \union {"select-spec", PlanStage, "flow"}

\* The candidate that the stages of the first three groups are about.
Subject(s) ==
  IF s \in {"write-spec-a", "review-spec-a", "compare-specs-a"} THEN "A" ELSE "B"
CandidateOf(slot) == IF slot = "A" THEN "write-spec-a" ELSE "write-spec-b"

First(c) == IF c.spec = "dual" THEN "write-spec-a" ELSE "write-spec"

After(s) ==
  CASE s = "write-spec-a"    -> "write-spec-b"
    [] s = "write-spec-b"    -> "review-spec-a"
    [] s = "review-spec-a"   -> "review-spec-b"
    [] s = "review-spec-b"   -> "compare-specs-a"
    [] s = "compare-specs-a" -> "compare-specs-b"
    [] s = "compare-specs-b" -> "select-spec"
    [] s = "select-spec"     -> "finalize-spec"
    [] s \in SpecStages      -> PlanStage
    [] OTHER                 -> "flow"

Steps == {"down", "begin", "body", "copy", "stub", "edit", "decide", "restore",
          "merge", "round", "gate", "offer", "ask", "flip", "review", "check",
          "end", "running"}

VARIABLES
  config,     \* DUAL_SPEC, IMPORT_SPEC, IMPORT_PLAN and IMPORT_REVIEW
  stage, pc,  \* the stage the attempt is in and its next step there
  ledger,     \* disk: the stages recorded complete
  artifacts,  \* disk: the stages whose artifact exists
  snapshot,   \* disk: PHASES in settings.json
  review,     \* disk: review.md
  decided,    \* disk: the decision in spec-decision.md
  request,    \* disk: spec-merge-request.md
  suggestion, \* disk: phased-suggestion.json recommends phases
  spec,       \* disk: where spec.md comes from
  plan,       \* disk: what plan.md is and which form was asked for
  source,     \* outside: what IMPORT_SPEC and IMPORT_PLAN name
  settings,   \* memory: PHASES, phases_explicit and HUMAN_GATE
  decision,   \* memory: dual_spec_decision, or the choice being made
  owner,      \* memory: spec_roles.owner_slot
  round,      \* memory: cur_round of the spec's review loop
  valid,      \* memory: phased_suggestion_valid
  launched,   \* history: PHASES when the run was launched
  chosen,     \* history: the decision the human completed last
  advised,    \* history: the last round of this attempt recommends phases
  agreed,     \* history: the human turned phases on, advised to do so
  swapped,    \* history: a source changed between its validation and its copy
  flows,      \* history: PHASES in the attempts that reached the flow
  stops       \* number of stops so far

disk == <<ledger, artifacts, snapshot, review, decided, request, suggestion,
          spec, plan>>
memory == <<settings, decision, owner, round, valid>>
hist == <<launched, chosen, advised, agreed, swapped, flows, stops>>
vars == <<config, stage, pc, disk, source, memory, hist>>

Settings == [phases : BOOLEAN, explicit : BOOLEAN, gate : BOOLEAN]
Requests == ({"edited"} \X Decisions) \union {<<"template">>, <<"foreign">>}
Specs == [from : Slots \union {"author", "source"}, ok : BOOLEAN,
          request : Requests \union {None}]
Plans == [form : {"phased", "plain", "bad"}, asked : BOOLEAN]
Sources == [spec : {"good", "bad", "gone"},
            plan : {"phased", "plain", "bad", "gone"}]

ASSUME NoneAssumption ==
  None \notin BOOLEAN \union Settings \union Decisions \union Requests
             \union Specs \union Plans

-----------------------------------------------------------------------------
SpecValid == source.spec = "good"

\* A phased plan also passes for a plain one, whose tasks it holds.
PlanValid(phases) ==
  source.plan = "phased" \/ (source.plan = "plain" /\ ~phases)

\* A fresh run: PHASES=1 can only come from the environment, and the files to
\* import have passed import_preflight.
Init ==
  /\ config \in Configs
  /\ settings \in {s \in Settings : /\ s.phases => s.explicit
                                    /\ config.spec = "dual" => s.gate}
  /\ source \in {s \in Sources : s.spec = "good" /\ s.plan \in {"phased", "plain"}}
  /\ config.plan = "import" => PlanValid(settings.phases)
  /\ config.plan = "write" => source.plan = "plain"
  /\ stage = First(config) /\ pc = "begin"
  /\ ledger = {} /\ artifacts = {} /\ snapshot = settings.phases
  /\ review = "none" /\ decided = None /\ request = None
  /\ suggestion = FALSE /\ spec = None /\ plan = None
  /\ decision = None /\ owner = "A" /\ round = 0 /\ valid = FALSE
  /\ launched = settings.phases /\ chosen = None /\ advised = FALSE
  /\ agreed = FALSE /\ swapped = FALSE /\ flows = {} /\ stops = 0

\* The attempt ends, with an abort or without: memory is lost.
Down ==
  /\ pc' = "down" /\ stage' = First(config)
  /\ settings' = None /\ decision' = None /\ owner' = "A" /\ round' = 0
  /\ valid' = FALSE /\ advised' = FALSE

\* The attempt goes on in its stage.
Step(from, to) == pc = from /\ pc' = to /\ UNCHANGED <<config, stage>>

\* begin_stage: a recorded stage is skipped if its artifact still exists, and
\* the attempt gives up if it does not.  The decision is restored after
\* select-spec, recorded or not.
Leave == /\ stage' = After(stage)
         /\ pc' = IF stage = "select-spec" THEN "restore" ELSE "begin"

Begin ==
  /\ pc = "begin" /\ stage # "flow"
  /\ \/ stage \notin ledger /\ pc' = "body" /\ UNCHANGED <<stage, memory, advised>>
     \/ /\ stage \in ledger /\ stage \in artifacts
        /\ Leave /\ UNCHANGED <<memory, advised>>
     \/ stage \in ledger /\ stage \notin artifacts /\ Down
  /\ UNCHANGED <<config, disk, source, launched, chosen, agreed, swapped, flows,
                 stops>>

\* end_stage.
End ==
  /\ pc = "end"
  /\ ledger' = ledger \union {stage}
  /\ Leave
  /\ UNCHANGED <<config, artifacts, snapshot, review, decided, request,
                 suggestion, spec, plan, source, memory, hist>>

\* An agent writes the artifact of its stage, or not: failures are masked.
Produced == artifacts' \in {artifacts, artifacts \union {stage}}

-----------------------------------------------------------------------------
\* Dual Spec: two candidates, the review of each by the other's author, and
\* two comparisons, by the agents of both slots.
WriteText ==
  /\ stage \in Candidates \union Comparisons /\ Step("body", "end")
  /\ Produced
  /\ UNCHANGED <<ledger, snapshot, review, decided, request, suggestion, spec,
                 plan, source, memory, hist>>

\* Mutation: the last stage's review.md is not removed first.
CarriedReview == IF review = "none" THEN "empty" ELSE review

\* run_candidate_spec_review removes review.md and run_review makes an empty one.
InitialReview == "empty"

\* The reviewer writes review.md, or not, or removes it.
ReviewCandidate ==
  /\ stage \in CrossReviews /\ Step("body", "stub")
  /\ review' \in {InitialReview, "none", Subject(stage)}
  /\ UNCHANGED <<ledger, artifacts, snapshot, decided, request, suggestion, spec,
                 plan, source, memory, hist>>

\* A stub stands in for a missing review, and both files are copied.
CopyReview ==
  /\ stage \in CrossReviews /\ Step("stub", "end")
  /\ review' = IF review = "none" THEN "stub" ELSE review
  /\ artifacts' = artifacts \union {stage}
  /\ UNCHANGED <<ledger, snapshot, decided, request, suggestion, spec, plan,
                 source, memory, hist>>

\* human_gate_dual_spec_decision: for a merge the human is given a template to
\* edit, over whatever request there was.
Choose ==
  /\ stage = "select-spec" /\ pc = "body"
  /\ \E d \in Decisions :
       /\ decision' = d
       /\ request' = IF d[1] = "merge" THEN <<"template">> ELSE request
       /\ pc' = IF d[1] = "merge" THEN "edit" ELSE "decide"
  /\ UNCHANGED <<config, stage, ledger, artifacts, snapshot, review, decided,
                 suggestion, spec, plan, source, settings, owner, round, valid,
                 hist>>

\* A request without content, or a human who does not confirm it, is an abort
\* (Stop); content here is the human's own.
EditRequest ==
  /\ stage = "select-spec" /\ Step("edit", "decide")
  /\ request' = <<"edited", decision>>
  /\ UNCHANGED <<ledger, artifacts, snapshot, review, decided, suggestion, spec,
                 plan, source, memory, hist>>

\* Mutation: a decision file of an earlier attempt stays.
DecisionKept == IF decided = None THEN decision ELSE decided

\* write_dual_spec_decision_file overwrites the file.
DecisionWritten == decision

WriteDecision ==
  /\ stage = "select-spec" /\ Step("decide", "end")
  /\ decided' = DecisionWritten
  /\ artifacts' = artifacts \union {stage}
  /\ chosen' = decision
  /\ UNCHANGED <<ledger, snapshot, review, request, suggestion, spec, plan,
                 source, memory, launched, advised, agreed, swapped, flows,
                 stops>>

\* Mutation: the decision is restored without the roles it implies.
RestoreDecisionOnly ==
  /\ pc = "restore"
  /\ decision' = IF decision = None THEN decided ELSE decision
  /\ pc' = "begin"
  /\ UNCHANGED <<config, stage, disk, source, settings, owner, round, valid, hist>>

\* restore_dual_spec_decision: nothing to do when the attempt has made the
\* decision itself; a merge needs its request.
Restore ==
  /\ pc = "restore"
  /\ \/ decision # None /\ pc' = "begin" /\ UNCHANGED <<stage, memory, advised>>
     \/ /\ decision = None /\ (decided[1] = "merge" => request # None)
        /\ decision' = decided /\ owner' = decided[2]
        /\ pc' = "begin"
        /\ UNCHANGED <<stage, settings, round, valid, advised>>
     \/ decision = None /\ decided[1] = "merge" /\ request = None /\ Down
  /\ UNCHANGED <<config, disk, source, launched, chosen, agreed, swapped, flows,
                 stops>>

-----------------------------------------------------------------------------
\* spec.md: written by the author, ...
WriteSpec ==
  /\ stage = "write-spec" /\ config.spec = "write" /\ Step("body", "round")
  /\ Produced
  /\ spec' = IF stage \in artifacts'
               THEN [from |-> "author", ok |-> TRUE, request |-> None] ELSE spec
  /\ round' = 1
  /\ UNCHANGED <<ledger, snapshot, review, decided, request, suggestion, plan,
                 source, settings, decision, owner, valid, hist>>

\* Mutation: a source that is still there is trusted since the preflight.
SourceTrusted ==
  IF stage = PlanStage THEN source.plan # "gone" ELSE source.spec # "gone"

\* ... imported (stage_import validates the source and then copies it), ...
SourceAccepted ==
  IF stage = PlanStage THEN PlanValid(settings.phases) ELSE SpecValid

Validate ==
  /\ pc = "body"
  /\ \/ stage = "write-spec" /\ config.spec = "import"
     \/ stage = PlanStage /\ config.plan = "import"
  /\ IF SourceAccepted
       THEN pc' = "copy" /\ UNCHANGED <<stage, memory, advised>>
       ELSE Down
  /\ UNCHANGED <<config, disk, source, launched, chosen, agreed, swapped, flows,
                 stops>>

CopySpec ==
  /\ pc = "copy" /\ stage = "write-spec"
  /\ IF source.spec = "gone" THEN Down /\ UNCHANGED <<artifacts, spec>>
     ELSE /\ spec' = [from |-> "source", ok |-> SpecValid, request |-> None]
          /\ artifacts' = artifacts \union {stage}
          /\ pc' = IF config.review THEN "round" ELSE "gate"
          /\ round' = 1
          /\ UNCHANGED <<stage, settings, decision, owner, valid, advised>>
  /\ UNCHANGED <<config, ledger, snapshot, review, decided, request, suggestion,
                 plan, source, launched, chosen, agreed, swapped, flows, stops>>

\* ... or the candidate that the human chose, which the owner then merges with
\* what the request names.  Without the candidate's file the process dies.
CopyBase ==
  /\ stage = "finalize-spec" /\ pc = "body"
  /\ IF CandidateOf(decision[2]) \notin artifacts
       THEN Down /\ UNCHANGED <<artifacts, spec>>
       ELSE /\ owner' = decision[2]
            /\ spec' = [from |-> owner', ok |-> TRUE, request |-> None]
            /\ artifacts' = artifacts \union {stage}
            /\ pc' = IF decision[1] = "merge" THEN "merge" ELSE "round"
            /\ round' = 1
            /\ UNCHANGED <<stage, settings, decision, valid, advised>>
  /\ UNCHANGED <<config, ledger, snapshot, review, decided, request, suggestion,
                 plan, source, launched, chosen, agreed, swapped, flows, stops>>

Merge ==
  /\ stage = "finalize-spec" /\ Step("merge", "round")
  /\ spec' = [spec EXCEPT !.request = request]
  /\ UNCHANGED <<ledger, artifacts, snapshot, review, decided, request,
                 suggestion, plan, source, memory, hist>>

-----------------------------------------------------------------------------
\* suggestion_armed.
Armed == ~settings.phases /\ ~settings.explicit /\ config.plan = "write"

\* Mutation: only before the first round.
ResetOnce == IF round = 1 THEN FALSE ELSE suggestion

\* reset_suggestion, before every armed round.
ResetSuggestion == FALSE

\* Mutation: one round more than the limit.
OneMoreRound == round <= MaxRounds
MoreRounds == round < MaxRounds

\* One round of the spec's review loop.  In an armed one the reviewer is also
\* asked for a recommendation; the side file may resist its reset or be lost
\* after the call, and then counts for nothing.
Round ==
  /\ pc = "round"
  /\ review' = "loop"
  /\ IF Armed
       THEN \/ valid' = FALSE /\ advised' = FALSE /\ suggestion' \in BOOLEAN
            \/ \E says \in BOOLEAN \union {None} :
                 /\ suggestion' = IF says = None THEN ResetSuggestion ELSE says
                 /\ advised' = (says = TRUE)
                 /\ valid' \in BOOLEAN
       ELSE UNCHANGED <<valid, advised, suggestion>>
  /\ \/ pc' = "gate" /\ round' = round
     \/ MoreRounds /\ pc' = "round" /\ round' = round + 1
  /\ UNCHANGED <<config, stage, ledger, artifacts, snapshot, decided, request,
                 spec, plan, source, settings, decision, owner, launched, chosen,
                 agreed, swapped, flows, stops>>

\* human_gate_spec: approved by the human, if one is asked; and then the offer.
SpecGate ==
  /\ Step("gate", "offer")
  /\ UNCHANGED <<disk, source, memory, hist>>

Offer ==
  /\ pc = "offer"
  /\ pc' = IF valid /\ Armed /\ suggestion /\ settings.gate THEN "ask" ELSE "end"
  /\ UNCHANGED <<config, stage, disk, source, memory, hist>>

Decline ==
  /\ Step("ask", "end")
  /\ UNCHANGED <<disk, source, memory, hist>>

\* Mutation: the snapshot is left as it was.
SnapshotKept == snapshot

\* enable_snapshot_phases.
SnapshotFlipped == TRUE

\* The human says yes: first the snapshot, then this attempt's settings.
Agree ==
  /\ Step("ask", "flip")
  /\ snapshot' = SnapshotFlipped
  /\ agreed' = advised
  /\ UNCHANGED <<ledger, artifacts, review, decided, request, suggestion, spec,
                 plan, source, memory, launched, chosen, advised, swapped, flows,
                 stops>>

UpdateSettings ==
  /\ Step("flip", "end")
  /\ settings' = [settings EXCEPT !.phases = TRUE]
  /\ UNCHANGED <<disk, source, decision, owner, round, valid, hist>>

-----------------------------------------------------------------------------
\* The plan stage: plan.md is written by the owner in the form of the flow, or
\* imported; reviewed; and, for the phased flow, checked for its structure.
WritePlan ==
  /\ stage = PlanStage /\ config.plan = "write" /\ Step("body", "review")
  /\ Produced
  /\ \E form \in {"phased", "plain", "bad"} :
       plan' = IF PlanStage \in artifacts'
                 THEN [form |-> form, asked |-> settings.phases] ELSE plan
  /\ UNCHANGED <<ledger, snapshot, review, decided, request, suggestion, spec,
                 source, memory, hist>>

CopyPlan ==
  /\ pc = "copy" /\ stage = PlanStage
  /\ IF source.plan = "gone" THEN Down /\ UNCHANGED <<artifacts, plan>>
     ELSE /\ plan' = [form |-> source.plan, asked |-> settings.phases]
          /\ artifacts' = artifacts \union {stage}
          /\ pc' = "review"
          /\ UNCHANGED <<stage, memory, advised>>
  /\ UNCHANGED <<config, ledger, snapshot, review, decided, request, suggestion,
                 spec, source, launched, chosen, agreed, swapped, flows, stops>>

\* The loop that reviews the plan (unless imported unreviewed) and its gate.
ReviewPlan ==
  /\ stage = PlanStage /\ Step("review", "check")
  /\ review' = IF config.review THEN "loop" ELSE review
  /\ UNCHANGED <<ledger, artifacts, snapshot, decided, request, suggestion, spec,
                 plan, source, memory, hist>>

\* phased_plan_structure_check: ends with a plan that parses, after repairs if
\* need be, or aborts (Stop).
CheckPlan ==
  /\ stage = PlanStage /\ Step("check", "end")
  /\ IF settings.phases
       THEN /\ plan' = [form |-> "phased", asked |-> TRUE]
            /\ artifacts' = artifacts \union {stage}
       ELSE UNCHANGED <<plan, artifacts>>
  /\ UNCHANGED <<ledger, snapshot, review, decided, request, suggestion, spec,
                 source, memory, hist>>

\* Tests, code and the final review follow, in the form PHASES says.
StartFlow ==
  /\ stage = "flow" /\ Step("begin", "running")
  /\ flows' = flows \union {settings.phases}
  /\ UNCHANGED <<disk, source, memory, launched, chosen, advised, agreed, swapped,
                 stops>>

-----------------------------------------------------------------------------
\* The process dies, an agent's quota or rounds run out, the human does not
\* approve, a file cannot be written: the attempt ends where it is.
Stop ==
  /\ pc # "down" /\ stops < MaxStops
  /\ stops' = stops + 1
  /\ Down
  /\ UNCHANGED <<config, disk, source, launched, chosen, agreed, swapped, flows>>

\* Mutation: the files to import are validated again, as on a fresh run.
PreflightAgain == /\ config.spec = "import" => SpecValid
                  /\ config.plan = "import" => PlanValid(snapshot)

\* import_preflight leaves the files alone when a run is resumed.
PreflightPasses == TRUE

\* Resume: settings from the snapshot, unless the environment gives another
\* value of a setting that may change; a PHASES that contradicts the snapshot
\* is refused.  review.md is cleared.
Resume ==
  /\ pc = "down" /\ PreflightPasses
  /\ \E env \in {None, snapshot}, gate \in BOOLEAN :
       /\ config.spec = "dual" => gate
       /\ settings' = [phases |-> snapshot, explicit |-> env # None, gate |-> gate]
  /\ review' = "none"
  /\ pc' = "begin"
  /\ UNCHANGED <<config, stage, ledger, artifacts, snapshot, decided, request,
                 suggestion, spec, plan, source, decision, owner, round, valid,
                 hist>>

\* A source is edited for the worse, or removed.
SourceChanges ==
  /\ config.spec = "import" /\ source.spec # "gone" /\ source.plan # "gone"
  /\ \/ source.spec = "good" /\ source' \in {[source EXCEPT !.spec = s] :
                                              s \in {"bad", "gone"}}
     \/ /\ config.plan = "import" /\ source.plan # "bad"
        /\ source' \in {[source EXCEPT !.plan = s] : s \in {"bad", "gone"}}
  /\ swapped' = (swapped \/ pc = "copy")
  /\ UNCHANGED <<config, stage, pc, disk, memory, launched, chosen, advised,
                 agreed, flows, stops>>

\* A fresh run in the same workspace removes review.md and the merge request,
\* and may leave a request and a suggestion of its own.
OtherRun ==
  /\ pc = "down"
  /\ review' = "other"
  /\ request' \in {None, <<"foreign">>}
  /\ suggestion' \in BOOLEAN
  /\ UNCHANGED <<config, stage, pc, ledger, artifacts, snapshot, decided, spec,
                 plan, source, memory, hist>>

DualSpec == WriteText \/ ReviewCandidate \/ CopyReview \/ Choose
            \/ EditRequest \/ WriteDecision \/ Restore \/ CopyBase \/ Merge

Work ==
  \/ Begin \/ End \/ DualSpec \/ WriteSpec \/ Validate \/ CopySpec
  \/ Round \/ SpecGate \/ Offer \/ Decline \/ Agree \/ UpdateSettings
  \/ WritePlan \/ CopyPlan \/ ReviewPlan \/ CheckPlan \/ StartFlow

Next == Work \/ Stop \/ Resume \/ SourceChanges \/ OtherRun

Spec == Init /\ [][Next]_vars

\* The attempt runs, and the operator resumes a run that is down.
FairSpec == Spec /\ WF_vars(Work) /\ WF_vars(Resume)

-----------------------------------------------------------------------------
TypeOK ==
  /\ config \in Configs
  /\ stage \in Stages /\ pc \in Steps
  /\ ledger \subseteq Stages /\ artifacts \subseteq Stages
  /\ snapshot \in BOOLEAN
  /\ review \in Slots \union {"none", "empty", "stub", "loop", "other"}
  /\ decided \in Decisions \union {None}
  /\ request \in Requests \union {None}
  /\ suggestion \in BOOLEAN
  /\ spec \in Specs \union {None}
  /\ plan \in Plans \union {None}
  /\ source \in Sources
  /\ settings \in Settings \union {None}
  /\ decision \in Decisions \union {None}
  /\ owner \in Slots
  /\ round \in 0..MaxRounds
  /\ valid \in BOOLEAN /\ launched \in BOOLEAN /\ advised \in BOOLEAN
  /\ agreed \in BOOLEAN /\ swapped \in BOOLEAN
  /\ chosen \in Decisions \union {None}
  /\ flows \subseteq BOOLEAN
  /\ stops \in 0..MaxStops

\* What is filed as the review of a candidate was written about that candidate:
\* never the review of the other one, which the same file held before.
CrossReviewFresh ==
  pc = "end" /\ stage \in CrossReviews =>
    review \in {"empty", "stub", Subject(stage)}

\* Whatever was interrupted and chosen anew, the final spec starts from the
\* candidate of the human's last decision, spec-decision.md says so, and a
\* merge was asked for with the request of that decision (or with the one
\* another run put in its place), never without one.
FinalSpecAsChosen ==
  "finalize-spec" \in ledger =>
    /\ decided = chosen /\ spec.from = chosen[2]
    /\ spec.request \in IF chosen[1] = "merge"
                          THEN {<<"edited", chosen>>, <<"foreign">>}
                          ELSE {None}

\* From the plan on, in every attempt, the owner is the author of the spec the
\* human chose, and so the reviewer is the other one.
RolesFollowHuman ==
  pc # "down" /\ stage \in {PlanStage, "flow"} =>
    owner = IF config.spec = "dual" THEN chosen[2] ELSE "A"

\* Phases are on only if the run was launched so or a human agreed to a
\* recommendation that the reviewer made in the last round of that very
\* attempt: not in an earlier round, attempt or run.
PhasesByConsent ==
  snapshot \/ (settings # None /\ settings.phases) => launched \/ agreed

\* All attempts of a run follow the same flow, the one of the snapshot, and a
\* phased flow has a plan that was asked for, and checked, as a phased one.
OneFlow ==
  /\ \A phases \in flows : phases = snapshot
  /\ pc = "running" /\ plan # None => plan.asked = settings.phases
  /\ pc = "running" /\ settings.phases => plan # None /\ plan.form = "phased"

\* An imported file has the form the workflow relies on, also when its source
\* changed after the run began: all but a change between check and copy.
ImportedIsValid ==
  \/ swapped
  \/ /\ spec # None => spec.ok
     /\ config.plan = "import" /\ plan # None =>
          plan.form = "phased" \/ (plan.form = "plain" /\ ~plan.asked)

\* No resume can pass: a recorded stage has lost or never had its artifact,
\* the request of a recorded merge is gone, or a source that is still to be
\* imported is no longer fit for it.
Blocked ==
  \/ \E s \in ledger : s \notin artifacts
  \/ "select-spec" \in ledger /\ decided[1] = "merge" /\ request = None
  \/ config.spec = "import" /\ "write-spec" \notin ledger /\ ~SpecValid
  \/ config.plan = "import" /\ PlanStage \notin ledger /\ ~PlanValid(snapshot)

\* Every attempt, and every resume after a stop, gets to the flow, unless it is
\* blocked: in particular a source that is gone after its import blocks nothing.
FlowReached == pc # "running" ~> pc = "running" \/ Blocked
=============================================================================
