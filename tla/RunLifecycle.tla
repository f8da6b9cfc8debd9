---------------------------- MODULE RunLifecycle ----------------------------
(***************************************************************************)
(* The life of runs and of the attempts that work on them.                 *)
(*                                                                         *)
(* A run is the directory aac/.run/state/<run-id>/ (runstate.py): a lock   *)
(* directory, the settings snapshot, the stage ledger, the last-head       *)
(* checkpoint and the completed marker.  An attempt is one process that    *)
(* executes cli.main: it creates a fresh run or resumes one, works through *)
(* the stages and leaves by finishing, by a handled abort or by dying.     *)
(* Attempts share these files and the workspace with its HEAD.  Every file *)
(* operation is a step of its own and attempts interleave between any two. *)
(*                                                                         *)
(* One workspace has one HEAD for all its runs: a fresh attempt switches   *)
(* it to a branch of its own (AUTO_BRANCH=1) or stays where it is, and a   *)
(* resume switches it to the branch that its run's snapshot names, also    *)
(* under an attempt that is at work on another run, whose commits and      *)
(* checkpoints then go to a branch it does not know of.  A run with        *)
(* USE_WORKTREE=1 has a workspace, a HEAD and state of its own, which is   *)
(* this module with one run.                                               *)
(*                                                                         *)
(* What one stage does is the subject of StagePipeline; here a stage is    *)
(* the two writes that record it.  The operator, who removes stale locks,  *)
(* rewrites branches and deletes last-head, is part of the environment.    *)
(***************************************************************************)
EXTENDS Integers, FiniteSets

CONSTANTS
  Runs,         \* run ids (timestamps; only their identity matters here)
  Procs,        \* process slots: attempts that may be alive together
  NoRun,        \* no run chosen yet; of a branch, the user's own
  AutoBranch,   \* the runs with AUTO_BRANCH=1
  Stages,       \* number of stages of a run
  MaxFailures,  \* bound on aborts and deaths of attempts
  MaxEdits      \* bound on the operator's edits of branch and last-head

ASSUME NoRunAssumption == NoRun \notin Runs
ASSUME AutoBranchAssumption == AutoBranch \subseteq Runs
ASSUME StagesAssumption == Stages \in Nat /\ Stages > 0
ASSUME BoundsAssumption == MaxFailures \in Nat /\ MaxEdits \in Nat

VARIABLES
  made,       \* runs whose state directory exists
  lock,       \* lock[r]: the lock directory exists
  snapshot,   \* snapshot[r]: settings.json exists
  ledger,     \* ledger[r]: number of stages in ledger.json
  lastHead,   \* lastHead[r]: ledger length last-head stands for, 0 if absent
  completed,  \* completed[r]: the completed marker exists
  branch,     \* branch[r]: BRANCH in r's settings.json
  head,       \* the branch that is checked out: aac/<run-id>, or the user's own
  branches,   \* runs whose branch aac/<run-id> exists
  on,         \* on[r]: the branches that contain the commit in r's last-head
  pc,         \* pc[p]: where the attempt is in cli.main
  run,        \* run[p]: the run it creates or resumes
  hinted,     \* history: runs whose resume command was printed and not yet tried
  forced,     \* history: runs whose last-head the operator deleted
  crossed,    \* history: attempts at work while another one switched HEAD
  failures,   \* number of aborts and deaths so far
  edits       \* number of operator edits so far

files == <<made, lock, snapshot, ledger, lastHead, completed, branch>>
git == <<head, branches, on>>
disk == <<files, git>>
proc == <<pc, run>>
hist == <<hinted, forced, failures, edits>>
vars == <<disk, proc, crossed, hist>>

Branches == Runs \union {NoRun}

\* Steps of an attempt between acquire_lock and release_lock.
Holding == {"new", "opened", "switched", "setup", "running", "recording",
            "delivered", "closing"}
Steps == {"idle", "branched", "made", "resolved"} \union Holding

\* Steps at which an attempt counts on the branch it found or switched to.
Relying == {"branched", "made", "new", "switched", "setup", "running",
            "recording"}
Reasons == {"snapshot", "damaged", "rewritten"}

Holds(p, r) == run[p] = r /\ pc[p] \in Holding
Holders(r) == {p \in Procs : Holds(p, r)}

-----------------------------------------------------------------------------
Init ==
  /\ made = {}
  /\ lock = [r \in Runs |-> FALSE]
  /\ snapshot = [r \in Runs |-> FALSE]
  /\ ledger = [r \in Runs |-> 0]
  /\ lastHead = [r \in Runs |-> 0]
  /\ completed = [r \in Runs |-> FALSE]
  /\ branch = [r \in Runs |-> NoRun]
  /\ head = NoRun
  /\ branches = {}
  /\ on = [r \in Runs |-> {}]
  /\ pc = [p \in Procs |-> "idle"]
  /\ run = [p \in Procs |-> NoRun]
  /\ hinted = {} /\ forced = {} /\ crossed = {}
  /\ failures = 0 /\ edits = 0

Goto(p, step) == pc' = [pc EXCEPT ![p] = step]

Leave(p) ==
  /\ Goto(p, "idle")
  /\ run' = [run EXCEPT ![p] = NoRun]
  /\ crossed' = crossed \ {p}

\* git switch under everybody who works in this workspace.
SwitchTo(p, b) ==
  /\ head' = b
  /\ crossed' = crossed \union {q \in Procs \ {p} : /\ b # head
                                                    /\ pc[q] \in Relying}

\* setup_workspace with AUTO_BRANCH=1: git switch -c fails if the branch exists.
\* The new branch has every commit that HEAD has.
NewBranch(p, r) ==
  /\ pc[p] = "idle" /\ r \in AutoBranch \ branches
  /\ SwitchTo(p, r)
  /\ branches' = branches \union {r}
  /\ on' = [s \in Runs |-> IF head \in on[s] THEN on[s] \union {r} ELSE on[s]]
  /\ Goto(p, "branched")
  /\ run' = [run EXCEPT ![p] = r]
  /\ UNCHANGED <<files, hinted, forced, failures, edits>>

\* setup_workspace with AUTO_BRANCH=0.
Stay(p, r) ==
  /\ pc[p] = "idle" /\ r \notin AutoBranch
  /\ Goto(p, "branched")
  /\ run' = [run EXCEPT ![p] = r]
  /\ UNCHANGED <<disk, crossed, hist>>

\* Mutation: mkdir(exist_ok=True) lets a fresh attempt into an existing run.
MakeDirExistOk(p) ==
  /\ pc[p] = "branched"
  /\ made' = made \union {run[p]}
  /\ Goto(p, "made")
  /\ UNCHANGED <<lock, snapshot, ledger, lastHead, completed, branch, git, run,
                 crossed, hist>>

\* RunState.create: state_dir.mkdir() fails if the id is taken.
MakeDir(p) ==
  /\ pc[p] = "branched" /\ run[p] \notin made
  /\ made' = made \union {run[p]}
  /\ Goto(p, "made")
  /\ UNCHANGED <<lock, snapshot, ledger, lastHead, completed, branch, git, run,
                 crossed, hist>>

IdTaken(p) ==
  /\ pc[p] = "branched" /\ run[p] \in made
  /\ Leave(p)
  /\ UNCHANGED <<disk, hist>>

\* lock.mkdir(): succeeds for exactly one of the attempts that try it.
TakeLock(p, from, to) ==
  /\ pc[p] = from /\ ~lock[run[p]]
  /\ lock' = [lock EXCEPT ![run[p]] = TRUE]
  /\ Goto(p, to)
  /\ UNCHANGED <<made, snapshot, ledger, lastHead, completed, branch, git, run,
                 crossed, hist>>

AcquireNew(p) == TakeLock(p, "made", "new")
AcquireResume(p) == TakeLock(p, "resolved", "opened")

\* Mutation: release_lock without its test of self.locked.
LockBusyReleases(p) ==
  /\ pc[p] \in {"made", "resolved"} /\ lock[run[p]]
  /\ lock' = [lock EXCEPT ![run[p]] = FALSE]
  /\ Leave(p)
  /\ UNCHANGED <<made, snapshot, ledger, lastHead, completed, branch, git,
                 hist>>

\* FileExistsError: main's `state` is still None, so no hint and no release.
LockBusy(p) ==
  /\ pc[p] \in {"made", "resolved"} /\ lock[run[p]]
  /\ Leave(p)
  /\ UNCHANGED <<disk, hist>>

\* The rest of RunState.create: task.txt and an empty ledger.
WriteNewLedger(p) ==
  /\ pc[p] = "new"
  /\ ledger' = [ledger EXCEPT ![run[p]] = 0]
  /\ Goto(p, "setup")
  /\ UNCHANGED <<made, lock, snapshot, lastHead, completed, branch, git, run,
                 crossed, hist>>

\* resolve_resume_id: the named run, or `last`, the newest of the unfinished
\* ones.  The completed marker is looked at here, before the lock is taken.
Resolve(p, r) ==
  /\ pc[p] = "idle" /\ r \in made /\ ~completed[r]
  /\ Goto(p, "resolved")
  /\ run' = [run EXCEPT ![p] = r]
  /\ UNCHANGED <<disk, crossed, hist>>

\* Mutation: verify_last_head without merge-base --is-ancestor.
RefusalNoAncestry(r) ==
  IF lastHead[r] = 0 /\ ledger[r] > 0 THEN "damaged" ELSE "no"

\* Mutation: verify_last_head insists on a last-head as new as the ledger.
RefusalStrict(r) ==
  IF lastHead[r] # ledger[r] THEN "damaged"
  ELSE IF lastHead[r] > 0 /\ head \notin on[r] THEN "rewritten"
  ELSE "no"

\* verify_last_head: is the commit in last-head an ancestor of HEAD?
Refusal(r) ==
  IF lastHead[r] = 0 /\ ledger[r] > 0 THEN "damaged"
  ELSE IF lastHead[r] > 0 /\ head \notin on[r] THEN "rewritten"
  ELSE "no"

\* load_snapshot refuses before HEAD is switched, verify_last_head after it.
Refuse(p, reason) ==
  /\ \/ pc[p] = "opened" /\ ~snapshot[run[p]] /\ reason = "snapshot"
     \/ pc[p] = "switched" /\ Refusal(run[p]) = reason
  /\ Goto(p, "closing")
  /\ hinted' = hinted \ {run[p]}
  /\ UNCHANGED <<disk, run, crossed, forced, failures, edits>>

\* resume_workspace: git switch to the branch of the snapshot.
Switch(p) ==
  /\ pc[p] = "opened" /\ snapshot[run[p]]
  /\ SwitchTo(p, branch[run[p]])
  /\ Goto(p, "switched")
  /\ hinted' = hinted \ {run[p]}
  /\ UNCHANGED <<files, branches, on, run, forced, failures, edits>>

Open(p) ==
  /\ pc[p] = "switched" /\ Refusal(run[p]) = "no"
  /\ Goto(p, "setup")
  /\ UNCHANGED <<disk, run, crossed, hist>>

\* write_snapshot, at the end of the set-up that both kinds of attempt share.
\* Its BRANCH is the branch that is checked out by then.
WriteSnapshot(p) ==
  /\ pc[p] = "setup"
  /\ snapshot' = [snapshot EXCEPT ![run[p]] = TRUE]
  /\ branch' = [branch EXCEPT ![run[p]] = head]
  /\ Goto(p, "running")
  /\ UNCHANGED <<made, lock, ledger, lastHead, completed, git, run, crossed,
                 hist>>

-----------------------------------------------------------------------------
\* Mutation: a stage that is done already is recorded again.
RecordLedgerAgain(p) ==
  /\ pc[p] = "running"
  /\ ledger' = [ledger EXCEPT ![run[p]] = @ + 1]
  /\ Goto(p, "recording")
  /\ UNCHANGED <<made, lock, snapshot, lastHead, completed, branch, git, run,
                 crossed, hist>>

\* record_stage: ledger.json first, then last-head.
RecordLedger(p) ==
  /\ pc[p] = "running" /\ ledger[run[p]] < Stages
  /\ ledger' = [ledger EXCEPT ![run[p]] = @ + 1]
  /\ Goto(p, "recording")
  /\ UNCHANGED <<made, lock, snapshot, lastHead, completed, branch, git, run,
                 crossed, hist>>

\* The branches that may have HEAD's commit: those that have r's last checkpoint,
\* if HEAD descends from it.
MayHaveHead(r) ==
  IF lastHead[r] > 0 /\ head \in on[r] THEN on[r] ELSE branches \union {NoRun}

\* Of these, those that were created at it or later have it: all but HEAD's own
\* branch, if the stage committed something.
RecordHead(p) ==
  /\ pc[p] = "recording"
  /\ lastHead' = [lastHead EXCEPT ![run[p]] = ledger[run[p]]]
  /\ \E others \in SUBSET MayHaveHead(run[p]) :
       on' = [on EXCEPT ![run[p]] = others \union {head}]
  /\ Goto(p, "running")
  /\ UNCHANGED <<made, lock, snapshot, ledger, completed, branch, head,
                 branches, run, crossed, hist>>

\* Mutation: the run is finished before all its stages are recorded.
DeliverEarly(p) ==
  /\ pc[p] = "running"
  /\ Goto(p, "delivered")
  /\ UNCHANGED <<disk, run, crossed, hist>>

\* All stages skipped or done: finish() delivers the branch.
Deliver(p) ==
  /\ pc[p] = "running" /\ ledger[run[p]] = Stages
  /\ Goto(p, "delivered")
  /\ UNCHANGED <<disk, run, crossed, hist>>

MarkCompleted(p) ==
  /\ pc[p] = "delivered"
  /\ completed' = [completed EXCEPT ![run[p]] = TRUE]
  /\ Goto(p, "closing")
  /\ UNCHANGED <<made, lock, snapshot, ledger, lastHead, branch, git, run,
                 crossed, hist>>

\* The finally block of main: the lock is removed by the attempt that took it.
ReleaseLock(p) ==
  /\ pc[p] = "closing"
  /\ lock' = [lock EXCEPT ![run[p]] = FALSE]
  /\ Leave(p)
  /\ UNCHANGED <<made, snapshot, ledger, lastHead, completed, branch, git,
                 hist>>

-----------------------------------------------------------------------------
\* _abort_message: a hint for every unfinished run, whatever its state holds.
Hint(r) == hinted' = IF completed[r] THEN hinted ELSE hinted \union {r}

\* WorkflowAbort, KeyboardInterrupt or a settings error: the handlers of main
\* print the hint.  Any other exception reaches the finally block without one.
Abort(p, told) ==
  /\ failures < MaxFailures
  /\ pc[p] \in Holding \ {"new", "closing"}
  /\ failures' = failures + 1
  /\ IF told THEN Hint(run[p]) ELSE hinted' = hinted
  /\ Goto(p, "closing")
  /\ UNCHANGED <<disk, run, crossed, forced, edits>>

\* The attempt dies where it is: SIGKILL or power loss, but also SIGTERM and
\* SIGHUP, for which no handler is installed, and Ctrl-C inside RunState.create
\* and resume, before main knows the state it must release.
Die(p) ==
  /\ failures < MaxFailures
  /\ pc[p] # "idle"
  /\ failures' = failures + 1
  /\ Leave(p)
  /\ UNCHANGED <<disk, hinted, forced, edits>>

\* "If you are sure the previous attempt is dead, remove the lock."
RemoveStaleLock(r) ==
  /\ lock[r] /\ Holders(r) = {}
  /\ lock' = [lock EXCEPT ![r] = FALSE]
  /\ UNCHANGED <<made, snapshot, ledger, lastHead, completed, branch, git,
                 proc, crossed, hist>>

\* A reset or rebase of a branch takes the checkpoints of runs that nobody is
\* at work on out of it.
RewriteBranch(b, lost) ==
  /\ edits < MaxEdits
  /\ lost # {}
  /\ \A r \in lost : Holders(r) = {} /\ b \in on[r]
  /\ on' = [r \in Runs |-> IF r \in lost THEN on[r] \ {b} ELSE on[r]]
  /\ edits' = edits + 1
  /\ UNCHANGED <<files, head, branches, proc, hinted, forced, crossed,
                 failures>>

\* "Fix the branch first, or delete <last-head> to force the resume."
DeleteLastHead(r) ==
  /\ edits < MaxEdits
  /\ Holders(r) = {} /\ lastHead[r] > 0
  /\ lastHead' = [lastHead EXCEPT ![r] = 0]
  /\ forced' = forced \union {r}
  /\ edits' = edits + 1
  /\ UNCHANGED <<made, lock, snapshot, ledger, completed, branch, git, proc,
                 hinted, crossed, failures>>

-----------------------------------------------------------------------------
\* What an attempt does of its own accord once it has been started.
Work(p) ==
  \/ MakeDir(p) \/ IdTaken(p) \/ AcquireNew(p) \/ AcquireResume(p)
  \/ LockBusy(p) \/ WriteNewLedger(p)
  \/ \E reason \in Reasons : Refuse(p, reason)
  \/ Switch(p) \/ Open(p) \/ WriteSnapshot(p)
  \/ RecordLedger(p) \/ RecordHead(p) \/ Deliver(p) \/ MarkCompleted(p)
  \/ ReleaseLock(p)

Next ==
  \/ \E p \in Procs : Work(p)
  \/ \E p \in Procs, r \in Runs :
       NewBranch(p, r) \/ Stay(p, r) \/ Resolve(p, r)
  \/ \E p \in Procs, told \in BOOLEAN : Abort(p, told)
  \/ \E p \in Procs : Die(p)
  \/ \E r \in Runs : RemoveStaleLock(r) \/ DeleteLastHead(r)
  \/ \E b \in Branches, lost \in SUBSET Runs : RewriteBranch(b, lost)

Spec == Init /\ [][Next]_vars

\* Attempts are programs that run; the operator is assumed to keep resuming
\* unfinished runs and to clear locks that are stale.
Fairness ==
  /\ \A p \in Procs : WF_vars(Work(p))
  /\ \A r \in Runs : SF_vars(\E p \in Procs : Resolve(p, r))
  /\ \A r \in Runs : WF_vars(RemoveStaleLock(r))

FairSpec == Spec /\ Fairness

-----------------------------------------------------------------------------
TypeOK ==
  /\ made \subseteq Runs
  /\ lock \in [Runs -> BOOLEAN]
  /\ snapshot \in [Runs -> BOOLEAN]
  /\ ledger \in [Runs -> 0..Stages]
  /\ lastHead \in [Runs -> 0..Stages]
  /\ completed \in [Runs -> BOOLEAN]
  /\ branch \in [Runs -> Branches]
  /\ head \in Branches
  /\ branches \subseteq AutoBranch
  /\ on \in [Runs -> SUBSET Branches]
  /\ pc \in [Procs -> Steps]
  /\ run \in [Procs -> Runs \union {NoRun}]
  /\ \A p \in Procs : (pc[p] = "idle") <=> (run[p] = NoRun)
  /\ hinted \subseteq Runs
  /\ forced \subseteq Runs
  /\ crossed \subseteq Procs
  /\ failures \in 0..MaxFailures
  /\ edits \in 0..MaxEdits

\* The lock directory keeps two attempts from working on one run, however
\* fresh attempts, resumes, deaths and removals of stale locks interleave.
MutualExclusion ==
  \A p, q \in Procs, r \in Runs : Holds(p, r) /\ Holds(q, r) => p = q

\* "State is append-only": no attempt, not even a fresh one that meets the
\* directory of another run, ever takes a recorded stage out of a ledger.
LedgerAppendOnly ==
  [][\A r \in Runs : ledger[r]' \in {ledger[r], ledger[r] + 1}]_vars

\* The completed marker is only ever set on a run whose stages are all
\* recorded, and no attempt records anything in that run afterwards, also not
\* one that had resolved the run before it was completed.
CompletedIsFinal ==
  \A r \in Runs : completed[r] => ledger[r] = Stages

\* What has been recorded in r is in the history that is checked out.
OnItsBranch(r) == ledger[r] > 0 => lastHead[r] > 0 /\ head \in on[r]

\* Rewritten branch history fails closed: no stage is recorded in a run whose
\* recorded stages are not in the history of HEAD, also not after the operator
\* deleted last-head, as the refusal advises.  Only an attempt under which
\* another one switched the HEAD they share (resume_workspace, setup_workspace)
\* may go on recording on a wrong branch: nothing looks at HEAD again after
\* verify_last_head.
NoStageOnRewrittenBranch ==
  [][\A r \in Runs :
       ledger[r]' # ledger[r]
         => OnItsBranch(r) \/ Holders(r) \intersect crossed # {}]_vars

\* Every step is a step of the abstract life of a run, or changes nothing in it.
Ownership == INSTANCE RunOwnership WITH
  owners <- [r \in Runs |-> Holders(r)],
  progress <- ledger,
  closed <- completed

ImplementsOwnership == Ownership!Spec

\* The first recorded stage lacks its last-head checkpoint and nobody is about
\* to write it.
Damaged(r) ==
  /\ ledger[r] > 0 /\ lastHead[r] = 0
  /\ \A p \in Procs : ~(run[p] = r /\ pc[p] = "recording")

\* The branch that r's snapshot names lacks r's checkpoint.
Lost(r) == lastHead[r] > 0 /\ branch[r] \notin on[r]

\* A run that has got as far as its settings snapshot is finished in the end by
\* an operator who keeps resuming it and does not switch HEAD under attempts at
\* work for ever, unless a death left it Damaged, or its branch was rewritten or
\* its stages were recorded on another one (Lost).
ResumedRunFinishes ==
  \A r \in Runs :
    \/ []<>(crossed # {})
    \/ snapshot[r] ~> (completed[r] \/ Damaged(r) \/ Lost(r))

-----------------------------------------------------------------------------
\* What the documentation says and the code does not do.

\* README "What is guaranteed": after Ctrl-C "resuming continues after the last
\* completed stage"; after SIGKILL or power loss "at worst one or two stages run
\* again".
InterruptionNeverDamages ==
  [][\A p \in Procs : Refuse(p, "damaged") => run[p] \in forced]_vars

\* README "What is guaranteed": after Ctrl-C the resume command is printed and
\* resuming with it continues the run, so a run whose command was printed by an
\* abort has the snapshot that a resume needs.
HintedRunResumes ==
  [][\A p \in Procs : Refuse(p, "snapshot") => run[p] \notin hinted]_vars
=============================================================================
