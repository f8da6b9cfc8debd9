------------------------ MODULE RunLifecycleProofs ------------------------
(***************************************************************************)
(* Proofs about RunLifecycle for every set of runs and of attempts, every  *)
(* number of stages and every bound on failures and edits.                 *)
(*                                                                         *)
(* The inductive invariant says, besides the types: an attempt between     *)
(* acquire_lock and release_lock has the lock directory on disk and is the *)
(* only such attempt; a run that is still being created has neither        *)
(* snapshot nor ledger, and no attempt has got into its stages; only runs  *)
(* with every stage recorded are delivered or completed; an attempt that   *)
(* works on stages has the recorded ones in the history of HEAD, unless    *)
(* another attempt switched HEAD under it (WorkOnBranch); and no attempt   *)
(* gets into a run whose last-head was deleted (ForcedIsLost).             *)
(*                                                                         *)
(* AttemptIsFinite is the safety half of ResumedRunFinishes; Refinement    *)
(* shows the attempts as steps of RunOwnership.                            *)
(***************************************************************************)
EXTENDS RunLifecycle, Descent, TLAPS

Creating == {"made", "new"}
Working == {"setup", "running", "recording", "delivered"}

LockHeld == \A p \in Procs : pc[p] \in Holding => lock[run[p]]

OneHolder ==
  \A p, q \in Procs :
    pc[p] \in Holding /\ pc[q] \in Holding /\ run[p] = run[q] => p = q

RunMade == \A p \in Procs : pc[p] \notin {"idle", "branched"} => run[p] \in made

\* Nobody but its creator has got past the refusals in a run being created.
CreatorAlone ==
  \A p, q \in Procs :
    pc[p] \in Creating /\ run[q] = run[p] /\ p # q
      => pc[q] \in {"branched", "resolved", "opened", "closing"}

UnmadeEmpty ==
  \A r \in Runs \ made : ~snapshot[r] /\ ledger[r] = 0 /\ lastHead[r] = 0

CreatedEmpty ==
  \A p \in Procs :
    pc[p] \in Creating => /\ ~snapshot[run[p]]
                          /\ ledger[run[p]] = 0
                          /\ lastHead[run[p]] = 0

DeliveredDone == \A p \in Procs : pc[p] = "delivered" => ledger[run[p]] = Stages

\* A checkpoint stands for a stage: what it was deleted for is recorded.
LostCheckpoint ==
  \A r \in Runs :
    /\ lastHead[r] <= ledger[r]
    /\ r \in forced => lastHead[r] = 0 /\ ledger[r] > 0

WorkOnBranch ==
  \A p \in Procs : pc[p] \in {"setup", "running"}
                     => OnItsBranch(run[p]) \/ p \in crossed

\* Nobody has got past the refusals in a run whose last-head was deleted.
ForcedIsLost == \A p \in Procs : pc[p] \in Working => run[p] \notin forced

IInv ==
  /\ TypeOK /\ LockHeld /\ OneHolder /\ RunMade /\ CreatorAlone
  /\ UnmadeEmpty /\ CreatedEmpty /\ DeliveredDone /\ CompletedIsFinal
  /\ LostCheckpoint /\ WorkOnBranch /\ ForcedIsLost

-----------------------------------------------------------------------------
LEMMA InitIInv == Init => IInv
  BY NoRunAssumption, AutoBranchAssumption, StagesAssumption, BoundsAssumption
     DEF Init, IInv, TypeOK, LockHeld, OneHolder, RunMade, CreatorAlone,
         UnmadeEmpty, CreatedEmpty, DeliveredDone, CompletedIsFinal, LostCheckpoint,
         WorkOnBranch, OnItsBranch, ForcedIsLost, Branches, Holding, Creating,
         Working, Steps

\* Every step of the specification keeps the inductive invariant.
LEMMA NextIInv == IInv /\ [Next]_vars => IInv'
<1> SUFFICES ASSUME IInv, [Next]_vars PROVE IInv'
  OBVIOUS
<1> USE NoRunAssumption, AutoBranchAssumption, StagesAssumption, BoundsAssumption
    DEF IInv, TypeOK, LockHeld, OneHolder, RunMade, CreatorAlone,
        UnmadeEmpty, CreatedEmpty, DeliveredDone, CompletedIsFinal, LostCheckpoint,
        WorkOnBranch, OnItsBranch, ForcedIsLost, Branches, Holding, Creating,
        Working, Steps, Relying, files, git, disk, proc, hist, Goto, Leave
<1>1. ASSUME NEW p \in Procs, NEW r \in Runs, NewBranch(p, r) PROVE IInv'
  BY <1>1 DEF NewBranch, SwitchTo
<1>2. ASSUME NEW p \in Procs, NEW r \in Runs, Stay(p, r) PROVE IInv'
  BY <1>2 DEF Stay
<1>3. ASSUME NEW p \in Procs, NEW r \in Runs, Resolve(p, r) PROVE IInv'
  BY <1>3 DEF Resolve
<1>4. ASSUME NEW p \in Procs, MakeDir(p) PROVE IInv'
  BY <1>4 DEF MakeDir
<1>5. ASSUME NEW p \in Procs, IdTaken(p) \/ LockBusy(p) PROVE IInv'
  BY <1>5 DEF IdTaken, LockBusy
<1>6. ASSUME NEW p \in Procs, AcquireNew(p) PROVE IInv'
  BY <1>6 DEF AcquireNew, TakeLock
<1>7. ASSUME NEW p \in Procs, AcquireResume(p) PROVE IInv'
  BY <1>7 DEF AcquireResume, TakeLock
<1>8. ASSUME NEW p \in Procs, WriteNewLedger(p) PROVE IInv'
  BY <1>8 DEF WriteNewLedger
<1>9. ASSUME NEW p \in Procs, NEW reason \in Reasons, Refuse(p, reason) PROVE IInv'
  BY <1>9 DEF Refuse
<1>10. ASSUME NEW p \in Procs, Switch(p) PROVE IInv'
  BY <1>10 DEF Switch, SwitchTo
<1>11. ASSUME NEW p \in Procs, Open(p) PROVE IInv'
  BY <1>11 DEF Open, Refusal
<1>12. ASSUME NEW p \in Procs, WriteSnapshot(p) PROVE IInv'
  BY <1>12 DEF WriteSnapshot
<1>13. ASSUME NEW p \in Procs, RecordLedger(p) PROVE IInv'
  BY <1>13 DEF RecordLedger
<1>14. ASSUME NEW p \in Procs, RecordHead(p) PROVE IInv'
  BY <1>14 DEF RecordHead, MayHaveHead
<1>15. ASSUME NEW p \in Procs, Deliver(p) \/ MarkCompleted(p) PROVE IInv'
  <2>1. CASE Deliver(p)
    BY <2>1 DEF Deliver
  <2>2. CASE MarkCompleted(p)
    BY <2>2 DEF MarkCompleted
  <2> QED
    BY <1>15, <2>1, <2>2
<1>16. ASSUME NEW p \in Procs, ReleaseLock(p) PROVE IInv'
  BY <1>16 DEF ReleaseLock
<1>17. ASSUME NEW p \in Procs, NEW told \in BOOLEAN, Abort(p, told) PROVE IInv'
  BY <1>17 DEF Abort, Hint
<1>18. ASSUME NEW p \in Procs, Die(p) PROVE IInv'
  BY <1>18 DEF Die
<1>19. ASSUME NEW r \in Runs, RemoveStaleLock(r) PROVE IInv'
  BY <1>19 DEF RemoveStaleLock, Holders, Holds
<1>20. ASSUME NEW b \in Branches, NEW lost \in SUBSET Runs, RewriteBranch(b, lost)
       PROVE  IInv'
  BY <1>20 DEF RewriteBranch, Holders, Holds
<1>21. ASSUME NEW r \in Runs, DeleteLastHead(r) PROVE IInv'
  BY <1>21 DEF DeleteLastHead, Holders, Holds
<1>22. CASE UNCHANGED vars
  BY <1>22 DEF vars
<1>23. ASSUME NEW p \in Procs, Work(p) PROVE IInv'
  BY <1>4, <1>5, <1>6, <1>7, <1>8, <1>9, <1>10, <1>11, <1>12, <1>13, <1>14,
     <1>15, <1>16, <1>23 DEF Work
<1>24. CASE Next
  BY <1>1, <1>2, <1>3, <1>17, <1>18, <1>19, <1>20, <1>21, <1>23, <1>24 DEF Next
<1>25. QED
  BY <1>22, <1>24

LEMMA Inductive == Spec => []IInv
  BY InitIInv, NextIInv, PTL DEF Spec

-----------------------------------------------------------------------------
\* The variables keep their types in every reachable state of cli.main.
THEOREM TypeCorrect == Spec => []TypeOK
  BY Inductive, PTL DEF IInv

\* At most one attempt is between acquire_lock and release_lock of a run.
THEOREM LockIsExclusive == Spec => []MutualExclusion
<1>1. IInv => MutualExclusion
  BY DEF IInv, OneHolder, MutualExclusion, Holds
<1>2. QED
  BY <1>1, Inductive, PTL

\* Only runs with every stage recorded carry the completed marker.
THEOREM CompletedHasAllStages == Spec => []CompletedIsFinal
  BY Inductive, PTL DEF IInv

\* Two actions write a ledger; every other step leaves all of them alone.
LEMMA LedgerWriters ==
  Next => \/ UNCHANGED ledger
          \/ \E p \in Procs : WriteNewLedger(p) \/ RecordLedger(p)
<1> USE DEF files, git, disk
<1>1. ASSUME NEW p \in Procs, Work(p), ~WriteNewLedger(p), ~RecordLedger(p)
      PROVE  UNCHANGED ledger
  BY <1>1 DEF Work, MakeDir, IdTaken, AcquireNew, AcquireResume, TakeLock, LockBusy,
              Refuse, Switch, Open, WriteSnapshot, RecordHead, Deliver,
              MarkCompleted, ReleaseLock
<1>2. ASSUME NEW p \in Procs, NEW r \in Runs,
             NewBranch(p, r) \/ Stay(p, r) \/ Resolve(p, r)
      PROVE  UNCHANGED ledger
  BY <1>2 DEF NewBranch, Stay, Resolve
<1>3. ASSUME NEW p \in Procs, NEW told \in BOOLEAN, Abort(p, told)
      PROVE  UNCHANGED ledger
  BY <1>3 DEF Abort
<1>4. ASSUME NEW p \in Procs, Die(p)
      PROVE  UNCHANGED ledger
  BY <1>4 DEF Die
<1>5. ASSUME NEW r \in Runs, RemoveStaleLock(r) \/ DeleteLastHead(r)
      PROVE  UNCHANGED ledger
  BY <1>5 DEF RemoveStaleLock, DeleteLastHead
<1>6. ASSUME NEW b \in Branches, NEW lost \in SUBSET Runs, RewriteBranch(b, lost)
      PROVE  UNCHANGED ledger
  BY <1>6 DEF RewriteBranch
<1>7. QED
  BY <1>1, <1>2, <1>3, <1>4, <1>5, <1>6 DEF Next

\* No step of any attempt takes a stage out of a ledger.
THEOREM LedgerNeverShrinks == Spec => LedgerAppendOnly
<1>1. IInv /\ [Next]_vars => [\A r \in Runs : ledger[r]' \in {ledger[r], ledger[r] + 1}]_vars
  <2> SUFFICES ASSUME IInv, Next,
                      NEW r \in Runs
               PROVE  ledger'[r] \in {ledger[r], ledger[r] + 1}
    OBVIOUS
  <2>1. CASE UNCHANGED ledger
    BY <2>1
  <2>2. ASSUME NEW p \in Procs, WriteNewLedger(p)
        PROVE  ledger'[r] \in {ledger[r], ledger[r] + 1}
    BY <2>2 DEF WriteNewLedger, IInv, CreatedEmpty, Creating, TypeOK
  <2>3. ASSUME NEW p \in Procs, RecordLedger(p)
        PROVE  ledger'[r] \in {ledger[r], ledger[r] + 1}
    BY <2>3 DEF RecordLedger, IInv, TypeOK
  <2>4. QED
    BY <2>1, <2>2, <2>3, LedgerWriters
<1>2. QED
  BY <1>1, Inductive, PTL DEF LedgerAppendOnly, Spec

\* A branch that lacks a run's checkpoint gets no further stage of it, unless another
\* attempt switched HEAD under the one at work (resume_workspace, verify_last_head).
THEOREM RewrittenBranchFailsClosed == Spec => NoStageOnRewrittenBranch
<1>1. IInv /\ [Next]_vars =>
        [\A r \in Runs :
           ledger[r]' # ledger[r]
             => OnItsBranch(r) \/ Holders(r) \intersect crossed # {}]_vars
  <2> SUFFICES ASSUME IInv, Next, NEW r \in Runs, ledger'[r] # ledger[r]
               PROVE  OnItsBranch(r) \/ Holders(r) \intersect crossed # {}
    OBVIOUS
  <2>1. ASSUME NEW p \in Procs, WriteNewLedger(p)
        PROVE  FALSE
    BY <2>1 DEF WriteNewLedger, IInv, CreatedEmpty, Creating, TypeOK
  <2>2. ASSUME NEW p \in Procs, RecordLedger(p)
        PROVE  OnItsBranch(r) \/ Holders(r) \intersect crossed # {}
    <3>1. pc[p] = "running" /\ run[p] = r
      BY <2>2 DEF RecordLedger, IInv, TypeOK
    <3>2. p \in Holders(r)
      BY <3>1 DEF Holders, Holds, Holding
    <3> QED
      BY <3>1, <3>2 DEF IInv, WorkOnBranch
  <2>3. QED
    BY <2>1, <2>2, LedgerWriters
<1>2. QED
  BY <1>1, Inductive, PTL DEF NoStageOnRewrittenBranch, Spec

\* Deleting last-head, which the refusal of a rewritten branch advises to force the
\* resume, is no way back: a run whose last-head was deleted has a stage recorded,
\* so that verify_last_head refuses it as damaged from then on.
THEOREM ForcingIsNoWayBack == Spec => []ForcedIsLost
  BY Inductive, PTL DEF IInv

-----------------------------------------------------------------------------
\* How much of an attempt is left: its parts, with the stages as one, ...
PartsLeft(p) ==
  CASE pc[p] = "branched" -> 8
    [] pc[p] \in {"made", "resolved"} -> 7
    [] pc[p] \in {"new", "opened"} -> 6
    [] pc[p] = "switched" -> 5
    [] pc[p] = "setup" -> 4
    [] pc[p] \in {"running", "recording"} -> 3
    [] pc[p] = "delivered" -> 2
    [] pc[p] = "closing" -> 1
    [] OTHER -> 0

\* ... stages, and the second write of record_stage.
StagesLeft(p) ==
  IF pc[p] \in {"running", "recording"} THEN Stages - ledger[run[p]] ELSE 0

WriteLeft(p) == IF pc[p] = "recording" THEN 1 ELSE 0

Left(p) == <<PartsLeft(p), StagesLeft(p), WriteLeft(p)>>

Descends(p) == <<Left(p)', Left(p)>> \in Below(3)

LeftIsNat(p) ==
  PartsLeft(p) \in Nat /\ StagesLeft(p) \in Nat /\ WriteLeft(p) \in Nat

LEMMA LeftInTypeOK == TypeOK => \A p \in Procs : LeftIsNat(p)
<1> SUFFICES ASSUME TypeOK, NEW p \in Procs PROVE LeftIsNat(p)
  OBVIOUS
<1>1. PartsLeft(p) \in Nat /\ WriteLeft(p) \in Nat
  BY DEF PartsLeft, WriteLeft
<1>2. StagesLeft(p) \in Nat
  <2>1. CASE pc[p] \in {"running", "recording"}
    <3>1. run[p] \in Runs
      BY <2>1 DEF TypeOK
    <3> QED
      BY <2>1, <3>1, StagesAssumption DEF TypeOK, StagesLeft
  <2>2. CASE pc[p] \notin {"running", "recording"}
    BY <2>2 DEF StagesLeft
  <2> QED
    BY <2>1, <2>2
<1> QED
  BY <1>1, <1>2 DEF LeftIsNat

LEMMA WorkDescends ==
  ASSUME TypeOK, NEW p \in Procs, LeftIsNat(p), LeftIsNat(p)', Work(p)
  PROVE  Descends(p)
<1> USE DEF LeftIsNat, Goto, Leave
<1>0. ASSUME \/ PartsLeft(p)' < PartsLeft(p)
             \/ PartsLeft(p)' = PartsLeft(p) /\ StagesLeft(p)' < StagesLeft(p)
             \/ /\ PartsLeft(p)' = PartsLeft(p) /\ StagesLeft(p)' = StagesLeft(p)
                /\ WriteLeft(p)' < WriteLeft(p)
      PROVE  Descends(p)
  BY <1>0, BelowThree DEF Descends, Left
<1>1. CASE MakeDir(p) \/ AcquireNew(p) \/ AcquireResume(p)
  BY <1>0, <1>1 DEF TypeOK, MakeDir, AcquireNew, AcquireResume, TakeLock, PartsLeft
<1>2. CASE IdTaken(p) \/ LockBusy(p) \/ ReleaseLock(p)
  BY <1>0, <1>2 DEF TypeOK, IdTaken, LockBusy, ReleaseLock, PartsLeft
<1>3. CASE \/ WriteNewLedger(p) \/ Switch(p) \/ Open(p) \/ WriteSnapshot(p)
           \/ \E reason \in Reasons : Refuse(p, reason)
  BY <1>0, <1>3
     DEF TypeOK, WriteNewLedger, Switch, Refuse, Open, WriteSnapshot, PartsLeft
<1>4. CASE RecordLedger(p)
  <2>1. run[p] \in Runs
    BY <1>4 DEF TypeOK, RecordLedger
  <2>2. PartsLeft(p)' = PartsLeft(p) /\ StagesLeft(p)' < StagesLeft(p)
    BY <1>4, <2>1, StagesAssumption DEF TypeOK, RecordLedger, PartsLeft, StagesLeft
  <2> QED
    BY <1>0, <2>2
<1>5. CASE RecordHead(p)
  BY <1>0, <1>5 DEF TypeOK, RecordHead, PartsLeft, StagesLeft, WriteLeft
<1>6. CASE Deliver(p) \/ MarkCompleted(p)
  BY <1>0, <1>6 DEF TypeOK, Deliver, MarkCompleted, PartsLeft
<1> QED
  BY <1>1, <1>2, <1>3, <1>4, <1>5, <1>6 DEF Work

\* A step that is not p's does not touch the ledger p is at work on.
LEMMA OthersLeaveAlone ==
  ASSUME IInv, NEW p \in Procs, pc'[p] = pc[p], run'[p] = run[p], Next
  PROVE  Left(p)' = Left(p)
<1>1. ASSUME pc[p] \in {"running", "recording"} PROVE ledger'[run[p]] = ledger[run[p]]
  <2>1. run[p] \in Runs
    BY <1>1 DEF IInv, TypeOK
  <2>2. CASE UNCHANGED ledger
    BY <2>2
  <2>3. ASSUME NEW q \in Procs, WriteNewLedger(q) \/ RecordLedger(q)
        PROVE  ledger'[run[p]] = ledger[run[p]]
    <3>1. p # q
      BY <2>3 DEF WriteNewLedger, RecordLedger, Goto, IInv, TypeOK
    <3>2. run[p] # run[q]
      BY <1>1, <2>3, <3>1 DEF WriteNewLedger, RecordLedger, IInv, OneHolder, Holding
    <3> QED
      BY <2>1, <2>3, <3>2 DEF WriteNewLedger, RecordLedger, IInv, TypeOK
  <2> QED
    BY <2>2, <2>3, LedgerWriters
<1>2. PartsLeft(p)' = PartsLeft(p) /\ WriteLeft(p)' = WriteLeft(p)
  BY DEF PartsLeft, WriteLeft
<1>3. StagesLeft(p)' = StagesLeft(p)
  BY <1>1 DEF StagesLeft
<1> QED
  BY <1>2, <1>3 DEF Left

\* A step of an attempt leaves less of it, and no step of another attempt or of the
\* operator gives it more to do.
LeavesLess ==
  \A p \in Procs : /\ Work(p) => Descends(p)
                   /\ UNCHANGED <<pc[p], run[p]>> => Left(p)' = Left(p)

AllLeftIsNat == \A p \in Procs : LeftIsNat(p)

\* An attempt ends unless it is kept from going on (cli.main): whatever other
\* attempts do meanwhile, it goes down an order without endless descents
\* (NoEndlessDescent).
THEOREM AttemptIsFinite == Spec => [][LeavesLess]_vars
<1>1. IInv /\ AllLeftIsNat /\ AllLeftIsNat' /\ [Next]_vars => [LeavesLess]_vars
  BY WorkDescends, OthersLeaveAlone DEF IInv, AllLeftIsNat, LeavesLess
<1>2. IInv => AllLeftIsNat
  BY LeftInTypeOK DEF IInv, AllLeftIsNat
<1> QED
  BY <1>1, <1>2, Inductive, PTL DEF Spec

-----------------------------------------------------------------------------
\* Refinement.  First what the lock says about the owners of a run.
LEMMA UnlockedIsUnowned ==
  ASSUME IInv, NEW r \in Runs, ~lock[r] PROVE Holders(r) = {}
  BY DEF IInv, LockHeld, Holders, Holds

LEMMA HolderIsOwner ==
  ASSUME IInv, NEW p \in Procs, pc[p] \in Holding
  PROVE  run[p] \in Runs /\ Holders(run[p]) = {p}
  BY NoRunAssumption DEF IInv, TypeOK, OneHolder, Holders, Holds, Holding

\* A step of p that does not change whether p holds its run changes no owners.
LEMMA SameHolders ==
  ASSUME IInv, NEW p \in Procs, NEW s \in Steps, pc' = [pc EXCEPT ![p] = s],
         run' = run, (pc[p] \in Holding) <=> (s \in Holding)
  PROVE  \A r \in Runs : Holders(r)' = Holders(r)
  BY DEF IInv, TypeOK, Holders, Holds

\* A step with which p, holding nothing before or after, starts or leaves.
LEMMA OutsideHolders ==
  ASSUME IInv, NEW p \in Procs, NEW s \in Steps \ Holding, pc[p] \notin Holding,
         pc' = [pc EXCEPT ![p] = s], NEW r \in Runs \union {NoRun},
         run' = [run EXCEPT ![p] = r]
  PROVE  \A t \in Runs : Holders(t)' = Holders(t)
  BY DEF IInv, TypeOK, Holders, Holds

\* Taking and leaving a lock are the abstract Acquire and Release.
LEMMA EnterIsAcquire ==
  ASSUME IInv, NEW p \in Procs, NEW s \in Holding, pc[p] \in {"made", "resolved"},
         ~lock[run[p]], pc' = [pc EXCEPT ![p] = s], run' = run,
         UNCHANGED <<ledger, completed>>
  PROVE  run[p] \in Runs /\ Ownership!Acquire(p, run[p])
<1>1. run[p] \in Runs
  BY NoRunAssumption DEF IInv, TypeOK
<1>2. Holders(run[p]) = {}
  BY <1>1, UnlockedIsUnowned
<1>3. \A r \in Runs : Holders(r)' = IF r = run[p] THEN {p} ELSE Holders(r)
  <2> TAKE r \in Runs
  <2>1. CASE r = run[p]
    BY <1>2, <2>1 DEF IInv, TypeOK, Holders, Holds
  <2>2. CASE r # run[p]
    BY <2>2 DEF IInv, TypeOK, Holders, Holds
  <2> QED
    BY <2>1, <2>2
<1>4. QED
  BY <1>1, <1>2, <1>3 DEF Ownership!Acquire

LEMMA ExitIsRelease ==
  ASSUME IInv, NEW p \in Procs, pc[p] \in Holding, Leave(p),
         UNCHANGED <<ledger, completed>>
  PROVE  run[p] \in Runs /\ Ownership!Release(p, run[p])
<1>1. run[p] \in Runs /\ Holders(run[p]) = {p}
  BY HolderIsOwner
<1>2. \A r \in Runs : Holders(r)' = IF r = run[p] THEN {} ELSE Holders(r)
  <2> TAKE r \in Runs
  <2>1. \A q \in Procs : Holds(q, r)' <=> q # p /\ Holds(q, r)
    BY NoRunAssumption DEF IInv, TypeOK, Holds, Leave, Goto, Holding
  <2>2. CASE r = run[p]
    BY <1>1, <2>1, <2>2 DEF Holders
  <2>3. CASE r # run[p]
    BY <2>1, <2>3 DEF Holders, Holds
  <2> QED
    BY <2>2, <2>3
<1>3. QED
  BY <1>1, <1>2 DEF Ownership!Release

\* Every step is an abstract step or leaves owners, ledgers and markers alone.
LEMMA StepImplements == IInv /\ [Next]_vars => [Ownership!Next]_(Ownership!vars)
<1> SUFFICES ASSUME IInv, [Next]_vars
             PROVE  Ownership!Next \/ UNCHANGED Ownership!vars
  OBVIOUS
<1> USE DEF files, git, disk
<1>a. ASSUME \A r \in Runs : Holders(r)' = Holders(r), UNCHANGED <<ledger, completed>>
      PROVE  UNCHANGED Ownership!vars
  BY <1>a DEF Ownership!vars
<1>1. ASSUME NEW p \in Procs, NEW r \in Runs,
             NewBranch(p, r) \/ Stay(p, r) \/ Resolve(p, r)
      PROVE  UNCHANGED Ownership!vars
  <2>1. \A t \in Runs : Holders(t)' = Holders(t)
    BY <1>1, OutsideHolders DEF NewBranch, Stay, Resolve, Goto, Steps, Holding
  <2>2. QED
    BY <1>1, <1>a, <2>1 DEF NewBranch, Stay, Resolve
<1>2. ASSUME NEW p \in Procs, AcquireNew(p) \/ AcquireResume(p)
      PROVE  Ownership!Next
  BY <1>2, EnterIsAcquire
     DEF AcquireNew, AcquireResume, TakeLock, Goto, Holding, Ownership!Next
<1>3. ASSUME NEW p \in Procs, IdTaken(p) \/ LockBusy(p)
      PROVE  UNCHANGED Ownership!vars
  <2>1. \A t \in Runs : Holders(t)' = Holders(t)
    BY <1>3, OutsideHolders DEF IdTaken, LockBusy, Leave, Goto, Steps, Holding
  <2>2. QED
    BY <1>3, <1>a, <2>1 DEF IdTaken, LockBusy
<1>4. ASSUME NEW p \in Procs, WriteNewLedger(p) PROVE UNCHANGED Ownership!vars
  <2>1. \A t \in Runs : Holders(t)' = Holders(t)
    BY <1>4, SameHolders DEF WriteNewLedger, Goto, Steps, Holding
  <2>2. ledger' = ledger
    BY <1>4 DEF WriteNewLedger, IInv, CreatedEmpty, Creating, TypeOK
  <2>3. QED
    BY <1>4, <1>a, <2>1, <2>2 DEF WriteNewLedger
<1>5. ASSUME NEW p \in Procs,
             \/ MakeDir(p) \/ Switch(p) \/ Open(p) \/ WriteSnapshot(p)
             \/ RecordHead(p) \/ Deliver(p)
             \/ \E reason \in Reasons : Refuse(p, reason)
      PROVE  UNCHANGED Ownership!vars
  <2> USE DEF MakeDir, Switch, Open, WriteSnapshot, RecordHead, Deliver, Refuse
  <2>1. \A t \in Runs : Holders(t)' = Holders(t)
    BY <1>5, SameHolders DEF Goto, Steps, Holding
  <2>2. QED
    BY <1>5, <1>a, <2>1
<1>6. ASSUME NEW p \in Procs, RecordLedger(p) PROVE Ownership!Next
  <2>1. \A t \in Runs : Holders(t)' = Holders(t)
    BY <1>6, SameHolders DEF RecordLedger, Goto, Steps, Holding
  <2>2. run[p] \in Runs /\ Holders(run[p]) = {p}
    BY <1>6, HolderIsOwner DEF RecordLedger, Holding
  <2>3. ~completed[run[p]]
    BY <1>6, <2>2, StagesAssumption DEF RecordLedger, IInv, CompletedIsFinal, TypeOK
  <2>4. Ownership!Record(p, run[p])
    BY <1>6, <2>1, <2>2, <2>3 DEF RecordLedger, Ownership!Record
  <2>5. QED
    BY <2>2, <2>4 DEF Ownership!Next
<1>7. ASSUME NEW p \in Procs, MarkCompleted(p) PROVE Ownership!Next
  <2>1. \A t \in Runs : Holders(t)' = Holders(t)
    BY <1>7, SameHolders DEF MarkCompleted, Goto, Steps, Holding
  <2>2. run[p] \in Runs /\ Holders(run[p]) = {p}
    BY <1>7, HolderIsOwner DEF MarkCompleted, Holding
  <2>3. ledger[run[p]] = Stages
    BY <1>7 DEF MarkCompleted, IInv, DeliveredDone
  <2>4. Ownership!Close(p, run[p])
    BY <1>7, <2>1, <2>2, <2>3 DEF MarkCompleted, Ownership!Close
  <2>5. QED
    BY <2>2, <2>4 DEF Ownership!Next
<1>8. ASSUME NEW p \in Procs, ReleaseLock(p) PROVE Ownership!Next
  BY <1>8, ExitIsRelease DEF ReleaseLock, Holding, Ownership!Next
<1>9. ASSUME NEW p \in Procs, NEW told \in BOOLEAN, Abort(p, told)
      PROVE  UNCHANGED Ownership!vars
  <2>1. \A t \in Runs : Holders(t)' = Holders(t)
    BY <1>9, SameHolders DEF Abort, Goto, Steps, Holding
  <2>2. QED
    BY <1>9, <1>a, <2>1 DEF Abort
<1>10. ASSUME NEW p \in Procs, Die(p)
       PROVE  Ownership!Next \/ UNCHANGED Ownership!vars
  <2>1. CASE pc[p] \in Holding
    BY <1>10, <2>1, ExitIsRelease DEF Die, Ownership!Next
  <2>2. CASE pc[p] \notin Holding
    <3>1. \A t \in Runs : Holders(t)' = Holders(t)
      BY <1>10, <2>2, OutsideHolders DEF Die, Leave, Goto, Steps, Holding
    <3>2. QED
      BY <1>10, <1>a, <3>1 DEF Die
  <2>3. QED
    BY <2>1, <2>2
<1>11. ASSUME \/ \E r \in Runs : RemoveStaleLock(r) \/ DeleteLastHead(r)
              \/ \E b \in Branches, lost \in SUBSET Runs : RewriteBranch(b, lost)
       PROVE  UNCHANGED Ownership!vars
  BY <1>11 DEF RemoveStaleLock, RewriteBranch, DeleteLastHead, proc, Ownership!vars,
               Holders, Holds
<1>12. CASE UNCHANGED vars
  BY <1>12 DEF vars, proc, Ownership!vars, Holders, Holds
<1>13. QED
  BY <1>1, <1>2, <1>3, <1>4, <1>5, <1>6, <1>7, <1>8, <1>9, <1>10, <1>11, <1>12
     DEF Next, Work

\* cli.main, runstate.py and the operator together implement RunOwnership.
THEOREM Refinement == Spec => ImplementsOwnership
<1>1. Init => Ownership!Init
  BY DEF Init, Ownership!Init, Holders, Holds, Holding
<1>2. QED
  BY <1>1, StepImplements, Inductive, PTL DEF Spec, ImplementsOwnership, Ownership!Spec
=============================================================================
