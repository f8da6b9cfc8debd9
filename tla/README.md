# A verification project for adversarial-ai-coding

adversarial-ai-coding drives two or three AI coding agents through a workflow
(spec, plan, acceptance tests, code, final review), with one agent producing
and another reviewing, gates and red checks run by the workflow itself, and
every step recorded on disk so that an interrupted run can be resumed.

The modules here model that control flow in TLA+, TLC checks it on small
instances, and TLAPS proves the safety properties for every value of the
constants. Everything is translated from `src/src/adversarial_ai_coding/`; the
file and lines behind each definition are in the `map` of `PROJECT.json`. Paths
below are relative to that package.

## 1. Inventory

| Component | State it keeps | Operations | What is hard about it |
| --- | --- | --- | --- |
| Run state and attempts (`runstate.py`, `gitops.py`, `cli.py`) | `state/<run-id>/`: lock directory, `settings.json`, `ledger.json`, `last-head`, `completed` | create, resume, acquire and release the lock, record a stage, verify last-head, mark completed; `cli.main` around them | several processes meet on one directory; a process dies between any two writes; the branch is rewritten between attempts; one HEAD serves all runs of a workspace |
| Stage pipeline (`workflow.py`) | ledger, base commits, task queue, `protected-tests.txt`, `protected-base.sha`, HEAD and working tree; in memory the armed controls | `begin_stage`, `end_stage`, `work`, `commit_work`, record and activate controls, the queue, `finish` | what a resumed attempt skips must have left everything later stages rely on; another run shares the control files and the working tree |
| Review and gate loops (`review.py`, `gates.py`) | `review.md`, `verdict.json`, round and attempt counters | `review_loop`, `run_review`, `collect_suggestions`, `gate_loop` | stale files of earlier rounds; agents that omit, remove or spoil them; an approval about content the gate never saw |
| Protected tests guard (`workflow.py`, `gitops.py`) | the armed snapshot, the flag and counter of `check_protected` | `work`, `_work_body`, `check_protected` | a recovery call is a call itself; exceptions and deaths in mid-call |
| Phased ATDD (`phaseflow.py`, `phases.py`) | `phases.json`, per phase a base, a checkpoint and a queue, the growing list of protected tests | structure check, `reviewed_red_check`, `run_phased_stages` | base and list are replaced in every phase; nested loops with limits of their own |
| Agent calls and sessions (`ratelimit.py`, `agents.py`) | the one `AgentSession`, the retry counter | `agent_call`, `run_worker`, `run_reviewer`, the adapters | one session object for all refs; reset times in five forms; retries after half an answer |
| Dual Spec (`dual_spec.py`) | candidates, cross reviews, comparisons, `spec-decision.md`, `spec-merge-request.md`; in memory decision and roles | produce, cross-review, compare, decide, merge, restore | a decision that determines the roles of all later stages has to outlive the process; two of its files are shared with other runs |
| Imports, phased suggestion (`imports.py`, `phased_suggestion.py`) | imported spec and plan, the suggestion file, PHASES in `settings.json` and in memory | preflight, validation and copy of an import; reset, validation and offer of a suggestion, turning PHASES on | sources that change after they were checked; a suggestion file older than the round; two writes that change the flow of the whole run |
| Archive, run index (`archive.py`, `runindex.py`) | what happened | append | never read back by a run |
| Configuration (`config.py`), prompts and output (`prompts.py`, `i18n.py`, `style.py`) | none | parsing, rendering | pure functions |

How they interact. `cli.main` opens a run and calls `run_workflow`. That goes
through the stages; a stage body calls `work` (a worker), `review_loop` (a
reviewer and a worker in turns), `gate_loop` (a shell command and a worker) and
`commit_work`, and is recorded by `end_stage`. `work` runs `agent_call`, which
runs an adapter, and then `check_protected`. Components share files only, and
within a process the `WorkflowContext`; the program has no threads. Its
concurrency is that of several processes on one workspace, of agents that
change any file while they are called, and of interruptions at any point.

For each component, what makes it correct:

* Run state: one attempt at a time per run, an append-only ledger, nothing
  recorded in a completed run or on a rewritten branch (unless another attempt
  switched the HEAD they share), and every undamaged run can be resumed to its
  end.
* Pipeline and phases: a stage that is skipped has achieved what later stages
  need; product code is written under guard only; no task is dropped; bases of
  reviews lie before what they review; what is delivered is everything that no
  other run in the workspace has carried off.
* Review and gates: an approval is of this round, about content that passed the
  gate or that the reviewer itself edited, with readable findings; loops give up
  exactly at their limit and end.
* Guard: a call returns only with tests and controls intact; other controls are
  never trusted silently.
* Calls: a conversation is resumed by the ref that opened it, in its stage; no
  retry precedes the reset, but for a fraction the parser drops; every call
  ends.
* Dual Spec: the final spec is the one the human chose last, merged as the human
  asked, and every attempt has the roles that follow from it; a review is filed
  for the candidate it is about.
* Imports and suggestion: an imported file has the form later stages rely on,
  phases are turned on by consent to a fresh recommendation only, and all
  attempts of a run follow one flow.

The 40 places where these could fail and a test would hardly reach are listed
under `hazards` in `PROJECT.json`, each with its line and its properties.

## 2. Modules

| Module | Models | Used by |
| --- | --- | --- |
| `RunOwnership` | what the run directory promises: owners, progress, closed | refined by `RunLifecycle` and, for one run, by `StagePipeline` and `PhaseFlow` |
| `RunLifecycle` | attempts of `cli.main` on run directories, one file operation per step | `RunLifecycleProofs` |
| `SpecStage` | the three ways to a spec (written, imported, Dual Spec), the plan, and the choice of the flow | `SpecStageProofs` |
| `StagePipeline` | the six stages of `run_workflow` with the files they leave | `StagePipelineProofs` |
| `PhaseFlow` | PHASES=1: structure check, write-tests and implement of every phase | `PhaseFlowProofs` |
| `ReviewLoop` | `review_loop` with `gate_loop` inside, and the stage calling both | `ReviewLoopProofs` |
| `ProtectedWork` | `work` and `check_protected` against an arbitrary worker | `ProtectedWorkProofs` |
| `AgentCalls` | `agent_call` around `run_worker` and `run_reviewer` | `MCAgentCalls` (values for TLC), `AgentCallsProofs` |
| `Descent` | nothing of the code: orders without endless descents, induction and recursive functions, in a form the provers can use | all `...Proofs` modules |

The modules stand at different heights and name each other's results: what is
one step in a higher module is the subject of a lower one. `RunLifecycle` sees a
stage as the two writes of `record_stage`; `SpecStage`, `StagePipeline` and
`PhaseFlow` see a review or gate loop as steps that end in approval or in the
end of the attempt (`ReviewLoop!EndsRightly` and `Terminates` show that these
are its only ends); `StagePipeline` and `PhaseFlow` start from the spec, roles
and flow that `SpecStage` settles; a worker call in `PhaseFlow` returns with the
protected tests that git diff names put back (`ProtectedWork!CallEndsRightly`);
and a call in `ProtectedWork` returns or raises (`AgentCalls!CallEnds`).
Composing them into one state machine would multiply their states without adding
a behaviour.

Conventions. An action is a function or the part of one between two points
where the process can be interrupted with a different disk; `pc` names such
points. `down` or `dead` is a workspace with no process. A variable marked
"history" is read by properties only. Definitions under a comment "Mutation:"
are plausible bugs; each property has one that breaks it, named in
`PROJECT.json`, and no specification uses them.

### RunLifecycle and RunOwnership

`made`, `lock`, `snapshot`, `ledger`, `lastHead` and `completed` are the files of
`state/<run-id>/`, with `branch` for BRANCH in `settings.json`; `head` is the
branch that is checked out, `branches` those that runs have created, and `on` the
branches that contain the commit in a last-head, so that `head \in on[r]` is what
`git merge-base --is-ancestor` answers; `pc` and `run` are an attempt's place in
`main`. The actions follow `setup_workspace` (`NewBranch`, `Stay`),
`RunState.create` (`MakeDir`, `IdTaken`, `TakeLock`), `resume` and
`resume_workspace` (`Switch`, with the refusals in their order), `write_snapshot`,
`record_stage` as two writes, `mark_completed`, `release_lock`, and the `finally`
block of `main`. Aborts, deaths, the removal of a stale lock, a rewritten branch and
the deletion of last-head are the environment.

HEAD is one for all attempts of a workspace. `SwitchTo` moves it under everybody
else, and `crossed` remembers the attempts that were at work meanwhile: nothing
looks at HEAD again after `verify_last_head`, so they go on committing and taking
checkpoints on a branch that is not theirs, and one that had not yet written its
snapshot stores that branch as its own. `NoStageOnRewrittenBranch` exempts them by
name. Which branches contain the commit of a new checkpoint is chosen freely among
those that can (`MayHaveHead`). A `git switch` that git refuses, because a changed
file is in the way, is an `Abort`. With USE_WORKTREE=1 a run has a workspace, a HEAD
and a state directory of its own, which is this module with one run.

`RunOwnership` knows only who owns a run, how far it is and whether
it is closed; the refinement mapping takes the holders of the lock for owners.
A ledger is a number here. That nothing is lost by this is a theorem about the
modules in which it is a set of stages: `StagePipelineProofs!LedgerInOrder` and
`PhaseFlowProofs!PhasesInOrder`.

### SpecStage

`artifacts`, `snapshot`, `review`, `decided`, `request`, `suggestion`, `spec` and
`plan` are the files, reduced to what later steps tell apart: whose spec it is and
by which request it was merged, which form of plan was asked for and which it has.
`settings`, `decision`, `owner`, `round` and `valid` are the attempt's memory and
are lost with it; `config` are the settings that no attempt may change. `Begin`
and `End` are `begin_stage` and `end_stage`.

*Dual Spec.* `WriteText` writes candidates and comparisons, `ReviewCandidate` and
`CopyReview` are the two halves of a cross review (`review.md` is written, then
copied under the candidate's name, with a stub for a missing one), `Choose`,
`EditRequest` and `WriteDecision` the human's selection, `CopyBase` and `Merge`
the final spec, and `Restore` reads the decision back in an attempt that did not
make it. *Imports.* `Validate` and `CopySpec` or `CopyPlan` are the two reads of a
source. *Suggestion.* `Round` resets and rewrites the file in every armed round,
`Offer` and `Agree` are the question at the spec gate, `Agree` and
`UpdateSettings` its two writes. *Plan.* `CheckPlan` is the structure check,
`StartFlow` the point from which `StagePipeline` and `PhaseFlow` go on.

`Stop` is any end of the attempt, `Resume` takes the settings from the snapshot,
`SourceChanges` spoils or removes a source at any time, and `OtherRun` is a fresh
run in the workspace, which removes or replaces the files that are not kept per
run. A source that is edited back into a valid one is left out: the run then goes
on as if it had not changed.

### StagePipeline

`ledger`, `queue`, `runBase`, `accBase`, `protList` and `protBase` are files, a
commit is the set of files in it as last written, `dirty` is the working tree,
`active` the armed controls. `Begin` and `End` are `begin_stage` and
`end_stage`; `Produce`, `Review`, `HumanGate`, `Commit` and `CommitIfDirty` are
the primitives, and each stage is a disjunction of their uses in the order of
`run_workflow`. A worker may change any of the stage's files or none, and may
commit. `OtherRunStarts` and `OtherRunProtects` are a second run in the same
workspace between two attempts of this one (attempts that overlap are in
`RunLifecycle`). It shares the two control files, takes uncommitted changes
along to its own branch, where `git add -A` commits them, and may leave files of
its own in the tree, which this run's next commit absorbs. What it has carried
off and was not written again is `carried`; `Kept` is the rest of what the
agents wrote, and `RecordedStagesHold` and `DeliveredWhole` speak of that. Where
a spec comes from, and which flow follows the plan, is in `SpecStage`.

### PhaseFlow

The same for phases, with the queue, base and checkpoint per phase. The
difference is in what a call does: here tests of every phase may be changed by
every call, by a reviewer, and by the call that commits; `changed` are the tests
that differ from `protected-base.sha`, and `hidden` those of them that were renamed,
which `git diff --name-only` does not name (`Named`): a call returns with these, and
the next phase's base then holds them as they are. `altered` says that the call that
commits a phase's tests has changed them once more, after review and red check.
Both are exceptions of the properties by name. `parse_phases` is the Boolean
`valid`, which worker calls, the commit call and the ticks of finished tasks may
spoil. An attempt may end at every step.

### ReviewLoop

`verdict` and `review` are the two files with who wrote them about what,
`round`, `try` and the gate's counter are the code's. `Reset`, `Prepare`,
`ReviewerWrites`, `Decide`, `Fix`, `GatePass` and `GateFail` are the parts of
`review_loop`, `run_review` and `gate_loop` in their order. Reviewers write,
omit, remove or spoil either file, and they may edit what they review: only the
prompt forbids it (they run with write permission, agents.py:1353 and 1463), and
no gate follows their call, so such content is approved ungated. `edited` is the
exception that `EndsRightly` makes for it. Workers answer or not; gates pass or
fail freely.

### ProtectedWork

`tests` says of every protected file what has become of it since the base,
`list` and `base` are the control files, `armed` the snapshot in memory. The
worker may do anything to all of them in every call. `Violations` has what
`git diff --name-only` prints, renames included.

### AgentCalls

`session` and `owner` are `AgentSession`; a conversation is named by the ref and
the begun stage that opened it. One action is one attempt of an adapter:
`WorkerClaude`, `WorkerThread` (Codex, Agy, OpenCode 1), `GuardOpencode`
(OpenCode 2) and `RunGeneric`. `Sleep` and `GiveUp` are the rest of
`agent_call`. Waits are the code's seconds: `TextWait`, `NextClock`, `Hour24`
and `EpochWait` translate the parser's arithmetic, `Meant` is what the agent
means by its words, stated on its own. A relative delay is a number, a unit and
what the digits after its point are worth; `_RELATIVE` skips these, so that
after "try again in 1.5 hours" the retry begins in an hour and 30 seconds,
although docs/troubleshooting.md:190 says that the workflow waits until the time
named. `WaitHonoured` grants what is dropped (`Uncounted`) and nothing else. A
report is what the parser finds in an agent's last message; which numbers it can
find is assumed by type (`TypeOfReport`), in `MCAgentCalls` they are a set of
24.

## 3. Runs

| Run | Instance | Shows |
| --- | --- | --- |
| `run_lifecycle` | 2 runs (AUTO_BRANCH 1 and 0), 2 process slots, 2 stages, 1 failure, 1 edit | mutual exclusion, finality of completed, fail-closed branches unless HEAD is switched under an attempt, refinement of `RunOwnership` (in which progress is never taken back), and that resuming finishes every run that is not damaged, rewritten or recorded on another branch |
| `spec_stage` | every combination of written, imported and dual spec, written and imported plan, IMPORT_REVIEW, PHASES and its explicitness, HUMAN_GATE; 2 rounds, 2 stops | the spec and the roles are those the human chose last, a review is of its candidate, phases come by consent to a fresh recommendation, the flow is one, imports are valid, and every attempt reaches the flow |
| `stage_pipeline` | 1 test, 2 tasks, 2 stops | stages in the ledger hold, with bases older than what is reviewed against them; the guard is armed with every test while code is written, popped tasks are settled, the delivery is whole but for what another run carried off, and the run ends |
| `phase_flow` | 2 phases of 2 tasks, phase 2 a regression guard, MAX_ROUNDS 2 | the tests of a phase are recorded as they were reviewed and seen red, unless the commit call changed them, and guarded from then on, across new bases (renames apart) and resumes; no false alarm; no skipped task; every attempt ends |
| `review_loop` | 2 loops, the second gated, 3 rounds, 1 retry | a loop ends in an approval that is fresh, readable and green but for the reviewer's own edits, or at its exact limit; replies reach the next reviewer; loops end |
| `protected_work` | 2 tests, 2 recoveries | a call ends intact or after exactly its recoveries, controls are never weakened in silence, and calls end |
| `agent_calls` | 5 refs of 4 kinds, 2 begun stages, 2 retries, 24 reports at 5 times of day | conversations, waits and the end of every call |

Five runs end in a counterexample, each to one sentence of the documentation:

| Run | The sentence | What the code does |
| --- | --- | --- |
| `interruption` | README: after Ctrl-C or power loss a run resumes, "at worst one or two stages run again" | a stop between the ledger write and the first last-head write makes every resume refuse the run as damaged |
| `hinted_resume` | README: the resume command is printed and resuming continues | an abort between the creation of the run and its settings snapshot prints a command that is refused |
| `retry_verdict` | docs/artifact-contract.md: a reviewer that omits the verdict file "loses by default" | the file is seeded once per round; an approval written before a rate limit stands when the retried call writes nothing |
| `wrong_type_verdict` | docs/artifact-contract.md: a wrong type counts as not approved | the exception is not handled and the process ends with a traceback |
| `tampering` | README: the check catches committed and uncommitted tampering | a protected test that was renamed, committed or staged, is not named |

### Bounds, and why they are enough

*Runs and attempts.* Two runs and two slots give every pairing of fresh and
resuming attempts on the same and on different runs. Slots are reused, so that
more than two attempts occur one after the other. Two stages are the least with
a first record (no last-head yet) and a later one. One failure is a death or an
abort anywhere; its effect is on disk and a second meets the same kinds of disk.
One edit is a rewritten branch or a deleted last-head at any time; the runs with
a finding allow two. One run has a branch of its own and one has not, so that
HEAD is switched from each kind to the other (310 907 states). *Spec stage.* Two
rounds have an armed round after another, whose file is stale; two stops end an
attempt that was resumed already, so that a choice is made, interrupted and made
anew; there are two slots in the code too. All ways to a spec are in one run
(473 919 states). *Pipeline.* One test file is enough since properties speak of
each test alone; two tasks have a first and a last. Two stops allow one in an
attempt that was resumed already (1 055 725 states). *Phases.* In two phases the
second has a predecessor and the first a successor; attempts may stop any number
of times, there is no bound on that. The instance has 354 743 states. MAX_ROUNDS
2 has a repeated and an exhausted attempt of each of the three nested loops.
*Review.* Two loops make files of an earlier loop stale; three rounds have a
first, a middle and a last one. *Guard.* Two tests can be in different
conditions; 2 recoveries is the code's number. *Calls.* Two refs share a CLI and
two do not; the times of day are midnight, noon and the seconds beside them; the
reports are at, before and beyond each limit.

Deadlock is not checked, since finished runs, given-up loops and ended processes
with nobody left to resume them really stop; that nothing else stops is what the
liveness properties say.

### Fairness

| Module | Assumed | Why |
| --- | --- | --- |
| `RunLifecycle` | weak fairness of an attempt's work, strong fairness of resuming each run, weak fairness of removing its stale lock | a process that is neither stopped nor dead executes its next instruction; the property is about an operator who keeps resuming each run, while other attempts come between, and a stale lock stays until it is removed; failures are bounded and not fair. An operator who switches HEAD under attempts for ever is exempt |
| `SpecStage`, `StagePipeline` | weak fairness of `Work` and `Resume` | as above; calls, reviews and gates end (shown below), and the operator resumes a run that is not finished; stops are bounded and not fair. Runs that no resume can finish are exempt by name (`Blocked`) |
| `PhaseFlow` | steps of the attempt only | the claim is that one attempt ends without a human |
| `ReviewLoop` | any next step | agents end and gates end; the choice of outcome is not fair, so that gates may always fail and reviewers always reject, and only the counters end the loop |
| `ProtectedWork` | steps of a call | agents end and git answers; no fairness between calls |
| `AgentCalls` | steps of a call | agents end and sleeps are over some time |

An agent that never returns is outside: the code has no time-out for one (Agy
gets one on its command line), and no property holds of such a call.

## 4. Proofs

Assumptions are those the modules state of their constants (`ASSUME`), which say
that counts are natural numbers and that marker values are none of the data, and
of the reports in `AgentCalls` that they are well typed. TLC evaluates each of
them in a passing run.

*`Descent`*: tuples of natural numbers have no endless lexicographic descent
(`NoEndlessDescent`). Every other proof module uses it for one theorem,
`AttemptIsFinite`, `CallIsFinite` or `EveryStepDescends`: it names a measure of
what is left of an attempt or a call and shows that every step makes it smaller.
This is the safety half of the liveness properties that TLC checks. They also
say that the process takes its next step, which rests on fairness and on
`ENABLED`; what a model checker sees on small limits only, that no nesting of
loops with limits, retries, repairs and resets of counters goes on for ever, the
measures show for all limits. The library's induction over natural numbers takes
an operator, so `Descent` states it once more for sets (`SetInduction`) and
derives that a recursive function exists (`RecursionExists`).

*`RunLifecycleProofs`*: `TypeCorrect`, `LockIsExclusive`,
`CompletedHasAllStages`, `LedgerNeverShrinks`, `RewrittenBranchFailsClosed`,
`ForcingIsNoWayBack`, `AttemptIsFinite` and `Refinement`, for any runs,
attempts, stages and bounds. `MutualExclusion` is not inductive: an attempt
between taking the lock and knowing that it has it must be known to be the only
one with the directory on disk (`LockHeld`, `OneHolder`), and releasing removes
the directory only for such a one. `CompletedIsFinal` needs that nobody but the
creator is past the refusals of a run that is being created (`CreatorAlone`,
`CreatedEmpty`), and that delivered runs have all stages (`DeliveredDone`).
`RewrittenBranchFailsClosed` needs that a working attempt has its checkpoint in
the history of HEAD or was crossed (`WorkOnBranch`). It needs no exception for
runs whose last-head was deleted: `verify_last_head` advises to "delete ...
last-head to force the resume", but a last-head is only there with a stage
recorded, and then its absence is refused as damage. `ForcingIsNoWayBack` says
so: no attempt ever gets into such a run again. `AttemptIsFinite` counts parts,
stages and the second write of `record_stage`, and adds that no other process
gives an attempt more to do. The refinement goes by lemmas on how a step changes
the set of holders: entering is `Acquire`, leaving is `Release`, and every other
step leaves it alone. That the ledger never shrinks is part of it.

*`SpecStageProofs`*: all safety properties of the module (`TypeCorrect`,
`ReviewIsOwn`, `SpecAsChosen`, `RolesAsChosen`, `ConsentGiven`, `FlowIsOne`,
`ImportIsValid`), for any number of rounds and stops. None of them is inductive.
`Place` says that a stage past which the attempt is, is in the ledger.
`DecisionHolds` follows the human's choice through a crash: once select-spec is
recorded the file has the last choice (`DecisionFiled`); an attempt past the
restoration knows it (`DecisionKnown`) and the owner it implies (`OwnerKnown`); the
request on disk is the one edited for it, or another run's (`RequestKept`); and the
spec has been made from both (`SpecMade`). `Consent` ties a valid suggestion to
what the reviewer of the last round said, `FlowFixed` the settings of an attempt to
the snapshot, `Checked` the plan to the flow. `AttemptIsFinite` counts sources that
may still change, stages, steps of a stage and rounds: no answer of the human or of
the reviewer leads back.

*`StagePipelineProofs`*: all safety properties (`TypeCorrect`, `RecordedHold`,
`GuardArmed`, `TasksSettled`, `Delivered`), for any number of tests, tasks and
stops. A stage is recorded before any step of a later one and its own steps are
never taken again (`Place`); with that, each part of the invariant says what the
steps of one stage have achieved so far: that nothing an agent wrote is lost
unless another run carried it off (`NothingLost`), that bases lie before the
first write (`RunBaseFirst`, `TestBaseFirst`), what is approved and committed
inside a stage (`InStage`), what files and memory say of the controls
(`Controls`, `Armed`), and which tasks a shortened queue has left behind
(`Queue`). Lemmas on what every step does (`StepGrows`, `OneWriter`,
`OnlyEndsRecord`) leave few actions for each part. `Place` also gives
`LedgerInOrder`: the ledger is the first so many stages. By that the pipeline is
a run of `RunOwnership` (`Refinement`): the attempt owns it from its start to
its end, records one stage at a time and closes it with all six.
`AttemptIsFinite` counts steps of the stages, tasks of the queue and steps of a
task.

*`PhaseFlowProofs`*: all safety properties (`TypeCorrect`, `GuardCoversPhases`,
`TestsReviewedAndRed`, `AlarmIsTrue`, `RecordedPhases`, `BaseIsSafe`, `PlanIsKept`),
for any number of phases, tasks and rounds and any set of regression guards. The
core is that until a phase has its checkpoint every other test belongs to a
recorded phase (`OnlyThisPhase`), so that a new base, and a call without guard, can
concern the tests of this phase only (`Written`, `Recording`, `Armed`), and that the
list only grows (`ListGrows`). `Seen` carries review and red check to the commit,
`CommitSeen` from there to the checkpoint,
`Queues` the tasks of a phase to its record. All actions that are calls are treated
by one lemma on what calls have in common (`CallWorks`). `PhasesInOrder` adds to the
invariant what an attempt past a stage knows of the ledger (`Order`): the ledger is
a prefix of plan, tests and implementation of phase 1, of phase 2 and so on, and
complete when an attempt has gone through. `Refinement` takes the number of these
stages for those of `RunOwnership`; the run is not closed here, since
`run_workflow` delivers and `cli.main` marks it after the last phase.
`AttemptIsFinite` counts phases, parts of a phase, turns of the loop at hand
and steps of a turn; the repairs of a red check are within a turn of the tests'
review.

*`ReviewLoopProofs`*: `TypeCorrect`, `ApprovalIsFresh`, `ReviewIsGreen`,
`ApprovalIsReadable`, `RepliesReachReviewer` and `GivesUpExactly`, and the run's
`EndsRightly` from them (`EndIsRight`), for any number of loops, rounds and
retries. Each property is carried back through a round: from decision to seed
(`Fresh`), from reviewer to gate (`Green`), from the next reviewer to the fix
(`ReplyKept`), and counters are tied to each other (`Counted`).
`EveryStepDescends` counts loops, rounds, steps of a round and calls that a gate
or a rate-limited reviewer may still repeat: the gate's counter starts anew in
every round, which is why rounds come before it.

*`ProtectedWorkProofs`*: `TypeCorrect`, `GuardHolds`, `NoSilentWeakening`,
`RecoveriesUsedUp`, and the run's `CallEndsRightly` (`CallEndIsRight`), for any
set of tests and number of recoveries. The invariant adds that the flag
`checking` is set in recovery calls only (`FlagInRecovery`), so that every other
call is checked, and that outside a call the controls on disk are the author's
or excused (`DiskExcused`). `CallIsFinite` counts parts of a call, recoveries
and steps of one.

*`AgentCallsProofs`*: `ConversationIsOwn`, for any set of refs, any number of
begun stages and retries and any reports. `ResumesOwnConversation` speaks of the
last attempt; the invariant adds that the stored session belongs to the stored
owner and to the stage begun last (`SessionOfOwner`). `ResetIsAwaited`: no wait
ends before the time the agent means, less what is `Uncounted`, for every time
of day and every number it can name. The lemmas go by the arithmetic of the
parser: division of a time by a day and an hour (`DayRemainder`, `HourOfDay`), a
named clock time is the next one ahead (`ClockIsAhead`), and from there each
form of a report (`TextIsHonoured`, `NameIsHonoured`).

`TypeCorrect` needs that a wait without a report is a number of seconds, 2^n times
the base wait in effect. `Shifted` is the code's `1 << n` as a recursive function;
that it exists and is a natural number for every n comes from `Descent`, and
`BackoffDoubles` says what it makes of the wait: the base wait first, then twice the
last one, never beyond the maximum. `CallIsFinite` counts retries and steps of an
attempt, a sleep among them.

All invariants and action properties of the passing runs are theorems, and so
are the refinement and the measures behind the liveness properties. The two
refinements of `RunOwnership` by `StagePipeline` and `PhaseFlow`, the order of
their ledgers and the measures are theorems only: no run checks them.

Model-checked only. Liveness under fairness is out of the prover's reach:
`ResumedRunFinishes`, `FlowReached`, `RunFinishes`, `AttemptEnds`, `Terminates`,
`CallEnds`. What is missing to them is that some step is possible in every state of
an attempt (`ENABLED`), and, for the first three, the operator's resuming.

## 5. What is not modelled, and why

* Contents of files and prompts, the values of settings, pull requests: no
  property is about them. Worktrees are workspaces with one run (see
  `RunLifecycle`); branches that the operator deletes are left out. Settings
  that steer control flow are constants or chosen freely. `config.py`, which
  parses them, keeps no state.
* The readers of the agents' output streams (most of `agents.py`): their results
  are chosen freely among all they can return.
* Time within a review or a gate. Days on which the clock is changed.
* Archive and run index: never read back by a run. Prompts, translations and
  colours: no state and no decision.
* What Claude's session becomes when an envelope lacks its id: the word null is
  stored (agents.py:1332), where docs/agent-session-lifecycle.md:76-77 says that
  the last id is kept or the call is fresh. `ResumesOwnConversation` exempts it
  by name.
* SIGTERM and SIGHUP, which have no handler, are deaths like SIGKILL.

## 6. Plan

All modules planned are written: `RunOwnership`, `RunLifecycle`, `ReviewLoop`,
`ProtectedWork`, `StagePipeline`, `PhaseFlow`, `AgentCalls` and `SpecStage`, each
with the proofs of its safety properties and of the finiteness of its attempts or
calls. What could follow:

1. In every state of an attempt some step can be taken: stated without
   `ENABLED`, as a disjunction of guards, this would be the other half of the
   liveness properties as far as it is safety.
2. The readers of the agents' event streams in `agents.py` as state machines of
   their own: which sequences of events yield a session, an error or a reset.
   `AgentCalls` would then take its reports from them instead of assuming their
   type.
3. `runindex.py`, if a later version reads the index back.
4. If the order of the two writes of `record_stage`, the reset of the verdict
   per retry, or rename detection in `protected_violations` is changed: the runs
   `interruption`, `retry_verdict` and `tampering` turn into passing ones, and
   their properties into theorems.
