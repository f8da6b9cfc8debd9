---------------------------- MODULE RunOwnership ----------------------------
(***************************************************************************)
(* What the run state under aac/.run/state/<run-id>/ promises to the       *)
(* attempts (processes) that share it: a run is worked on by at most one   *)
(* attempt at a time, its stage ledger only grows, one stage at a time and *)
(* by the hand of the attempt that owns it, and a run is closed once, with *)
(* every stage done, after which its ledger is final.                      *)
(* RunLifecycle implements this specification for all runs of a workspace; *)
(* StagePipeline and PhaseFlow, which follow one run through its stages,   *)
(* implement it for that run.                                              *)
(***************************************************************************)
EXTENDS Naturals

CONSTANTS
  Runs,      \* run ids
  Procs,     \* attempts (operating-system processes) that may run
  Stages     \* number of stages a run records in its ledger

VARIABLES
  owners,    \* owners[r]: the attempts at work on run r
  progress,  \* progress[r]: stages recorded complete
  closed     \* closed[r]: the run is finished

vars == <<owners, progress, closed>>

Init ==
  /\ owners = [r \in Runs |-> {}]
  /\ progress = [r \in Runs |-> 0]
  /\ closed = [r \in Runs |-> FALSE]

Acquire(p, r) ==
  /\ owners[r] = {}
  /\ owners' = [owners EXCEPT ![r] = {p}]
  /\ UNCHANGED <<progress, closed>>

Release(p, r) ==
  /\ owners[r] = {p}
  /\ owners' = [owners EXCEPT ![r] = {}]
  /\ UNCHANGED <<progress, closed>>

Record(p, r) ==
  /\ owners[r] = {p}
  /\ ~closed[r]
  /\ progress[r] < Stages
  /\ progress' = [progress EXCEPT ![r] = @ + 1]
  /\ UNCHANGED <<owners, closed>>

Close(p, r) ==
  /\ owners[r] = {p}
  /\ progress[r] = Stages
  /\ closed' = [closed EXCEPT ![r] = TRUE]
  /\ UNCHANGED <<owners, progress>>

Next ==
  \E p \in Procs, r \in Runs :
    Acquire(p, r) \/ Release(p, r) \/ Record(p, r) \/ Close(p, r)

Spec == Init /\ [][Next]_vars
=============================================================================
