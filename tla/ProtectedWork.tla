--------------------------- MODULE ProtectedWork ---------------------------
(***************************************************************************)
(* The guard around worker calls: work, _work_body, check_protected and    *)
(* the protected controls of workflow.py, from the moment they are armed.  *)
(*                                                                         *)
(* The worker may do anything to the test files and to the two control     *)
(* files (the list protected-tests.txt and the base protected-base.sha),   *)
(* and its call may end or raise.  Between calls reviewers, the human and  *)
(* the operator act, unguarded.  A process may die at any point and be     *)
(* followed by one that resumes the run from the controls on disk.         *)
(***************************************************************************)
EXTENDS Integers, FiniteSets

CONSTANTS
  Tests,          \* the protected test files
  MaxRecoveries   \* recovery calls granted by check_protected: 2

ASSUME MaxRecoveriesAssumption == MaxRecoveries \in Nat

VARIABLES
  pc,          \* where the process is in work()
  tests,       \* tests[t]: what became of t since the base commit
  list,        \* protected-tests.txt on disk
  base,        \* protected-base.sha on disk
  armed,       \* protected_controls: the <<list, base>> held in memory
  checking,    \* checking_protected: a recovery call is under way
  recoveries,  \* recovery calls in this check_protected
  why,         \* why the process ended
  excused      \* history: a tampering abort, a death in a call or an
               \* unguarded edit has touched or may have touched the controls

controls == <<list, base>>
vars == <<pc, tests, controls, armed, checking, recoveries, why, excused>>

\* A rename that is committed or staged is "renamed"; one that is not is
\* "deleted" to git.
Conditions == {"intact", "edited", "deleted", "renamed"}
\* As the test stage wrote it, with other contents, or not a readable file.
ControlStates == {"author", "other", "gone"}
Authors == <<"author", "author">>

InWork == {"call", "raising", "check", "recovery", "recovered", "leaving"}
Steps == InWork \union {"between", "returned", "ended", "dead"}
Reasons == {"none", "tampered", "raised", "gaveUp", "git"}

Init ==
  /\ pc = "between"
  /\ tests = [t \in Tests |-> "intact"]
  /\ list = "author" /\ base = "author" /\ armed = Authors
  /\ checking = FALSE /\ recoveries = 0
  /\ why = "none" /\ excused = FALSE

\* _verify_protected_controls: byte comparison with what is held in memory.
Tampered == controls # armed

\* protected_violations: git diff --name-only names a file that was edited or
\* deleted.  Git pairs a rename and names the new file only.
Named == {t \in Tests : tests[t] \in {"edited", "deleted"}}

\* With other controls than the author's, git diff is about other files.
Violations == IF armed = Authors THEN {Named} ELSE SUBSET Tests

End(reason) ==
  /\ pc' = "ended"
  /\ why' = reason
  /\ excused' = (excused \/ reason = "tampered")

\* Mutation: an exception leaves work() without the controls being verified.
RaiseUnverified(reason) == End(reason)

\* The handler of work() for an exception out of its body: tampering is what
\* gets reported if there was any.
Raise(reason) == End(IF Tampered THEN "tampered" ELSE reason)

-----------------------------------------------------------------------------
\* work() verifies before the call.
StartWork ==
  /\ pc \in {"between", "returned"}
  /\ IF Tampered
       THEN End("tampered")
       ELSE pc' = "call" /\ UNCHANGED <<why, excused>>
  /\ UNCHANGED <<tests, controls, armed, checking, recoveries>>

\* What the worker's program does to the files.
AgentActs ==
  /\ tests' \in [Tests -> Conditions]
  /\ list' \in ControlStates /\ base' \in ControlStates

\* It returns, and _work_body checks unless this is a recovery.
CallReturns ==
  /\ pc = "call"
  /\ AgentActs
  /\ IF checking
       THEN pc' = "leaving" /\ recoveries' = recoveries
       ELSE pc' = "check" /\ recoveries' = 0
  /\ UNCHANGED <<armed, checking, why, excused>>

\* A quota abort, Ctrl-C or an error of the call.
CallRaises ==
  /\ pc \in {"call", "recovery"}
  /\ AgentActs
  /\ pc' = "raising"
  /\ UNCHANGED <<armed, checking, recoveries, why, excused>>

Raising ==
  /\ pc = "raising"
  /\ Raise("raised")
  /\ UNCHANGED <<tests, controls, armed, checking, recoveries>>

\* check_protected finds nothing, or git fails, or it has found enough.
CheckPasses ==
  /\ pc = "check"
  /\ {} \in Violations
  /\ pc' = "leaving"
  /\ UNCHANGED <<tests, controls, armed, checking, recoveries, why, excused>>

CheckFails ==
  /\ pc = "check"
  /\ Raise("git")
  /\ UNCHANGED <<tests, controls, armed, checking, recoveries>>

CheckGivesUp ==
  /\ pc = "check"
  /\ \E found \in Violations : found # {}
  /\ recoveries >= MaxRecoveries
  /\ Raise("gaveUp")
  /\ UNCHANGED <<tests, controls, armed, checking, recoveries>>

\* Mutation: recoveries are not counted.
RecoverUncounted ==
  /\ pc = "check"
  /\ \E found \in Violations : found # {}
  /\ recoveries < MaxRecoveries
  /\ IF Tampered
       THEN End("tampered") /\ UNCHANGED <<recoveries, checking>>
       ELSE /\ recoveries' = recoveries /\ checking' = TRUE
            /\ pc' = "recovery" /\ UNCHANGED <<why, excused>>
  /\ UNCHANGED <<tests, controls, armed>>

\* Mutation: one recovery call more.
RecoverOnceMore ==
  /\ pc = "check"
  /\ \E found \in Violations : found # {}
  /\ recoveries <= MaxRecoveries
  /\ IF Tampered
       THEN End("tampered") /\ UNCHANGED <<recoveries, checking>>
       ELSE /\ recoveries' = recoveries + 1 /\ checking' = TRUE
            /\ pc' = "recovery" /\ UNCHANGED <<why, excused>>
  /\ UNCHANGED <<tests, controls, armed>>

\* The violations go back to the worker: work() again, which verifies first.
Recover ==
  /\ pc = "check"
  /\ \E found \in Violations : found # {}
  /\ recoveries < MaxRecoveries
  /\ IF Tampered
       THEN End("tampered") /\ UNCHANGED <<recoveries, checking>>
       ELSE /\ recoveries' = recoveries + 1 /\ checking' = TRUE
            /\ pc' = "recovery" /\ UNCHANGED <<why, excused>>
  /\ UNCHANGED <<tests, controls, armed>>

\* The recovery call's program has run: no check of its own.
RecoveryReturns ==
  /\ pc = "recovery"
  /\ AgentActs
  /\ pc' = "recovered"
  /\ UNCHANGED <<armed, checking, recoveries, why, excused>>

\* Mutation: the flag is not cleared.
RecoveredKeepsFlag ==
  /\ pc = "recovered"
  /\ IF Tampered
       THEN End("tampered")
       ELSE pc' = "check" /\ UNCHANGED <<why, excused>>
  /\ UNCHANGED <<tests, controls, armed, checking, recoveries>>

\* The recovery call verifies, and check_protected clears the flag and looks
\* again.
Recovered ==
  /\ pc = "recovered"
  /\ checking' = FALSE
  /\ IF Tampered
       THEN End("tampered")
       ELSE pc' = "check" /\ UNCHANGED <<why, excused>>
  /\ UNCHANGED <<tests, controls, armed, recoveries>>

\* work() verifies after the call and returns.
Leave ==
  /\ pc = "leaving"
  /\ IF Tampered
       THEN End("tampered")
       ELSE pc' = "returned" /\ UNCHANGED <<why, excused>>
  /\ UNCHANGED <<tests, controls, armed, checking, recoveries>>

-----------------------------------------------------------------------------
\* A reviewer's call, a gate command or the human, none of them under work().
Unguarded ==
  /\ pc \in {"between", "returned"}
  /\ AgentActs
  /\ excused' = (excused \/ controls' # controls)
  /\ pc' = "between"
  /\ UNCHANGED <<armed, checking, recoveries, why>>

\* The process dies; in a call it takes the knowledge of tampering with it.
Die ==
  /\ pc \notin {"ended", "dead"}
  /\ pc' = "dead"
  /\ excused' = (excused \/ pc \in InWork)
  /\ UNCHANGED <<tests, controls, armed, checking, recoveries, why>>

\* The operator repairs files before the resume, as the README asks.
Repair ==
  /\ pc \in {"ended", "dead"}
  /\ AgentActs
  /\ excused' = (excused \/ controls' # controls)
  /\ UNCHANGED <<pc, armed, checking, recoveries, why>>

\* A new process: activate_protected_controls trusts what is on disk, if it can
\* be read.
Resume ==
  /\ pc \in {"ended", "dead"}
  /\ "gone" \notin {list, base}
  /\ armed' = controls
  /\ checking' = FALSE /\ recoveries' = 0 /\ why' = "none"
  /\ pc' = "between"
  /\ UNCHANGED <<tests, controls, excused>>

\* The steps of a call, once it has begun.
InCall ==
  \/ CallReturns \/ CallRaises \/ Raising
  \/ CheckPasses \/ CheckFails \/ CheckGivesUp
  \/ Recover \/ RecoveryReturns \/ Recovered \/ Leave

Next == StartWork \/ InCall \/ Unguarded \/ Die \/ Repair \/ Resume

Spec == Init /\ [][Next]_vars

\* Agents end and git answers.
FairSpec == Spec /\ WF_vars(InCall)

-----------------------------------------------------------------------------
TypeOK ==
  /\ pc \in Steps
  /\ tests \in [Tests -> Conditions]
  /\ list \in ControlStates /\ base \in ControlStates
  /\ armed \in ControlStates \X ControlStates
  /\ checking \in BOOLEAN
  /\ recoveries \in 0..MaxRecoveries
  /\ why \in Reasons
  /\ excused \in BOOLEAN

\* A worker call returns to the stage only with the controls as they were armed
\* and with no protected test edited or deleted, whatever its recovery calls
\* did in turn.
ReturnsIntact ==
  pc = "returned" =>
    /\ controls = armed
    /\ armed = Authors => Named = {}

\* A process comes to trust other controls than the author's only after an abort
\* that reported the tampering, a death in mid-call or an unguarded edit: no
\* quota abort, Ctrl-C or failing git covers it up.
NeverSilentlyWeakened == armed # Authors => excused

\* A human is asked after the second recovery call has failed, not before.
GivesUpAfterRecoveries == why = "gaveUp" => recoveries = MaxRecoveries

\* A worker call ends rightly: it comes back intact, or it is given up after
\* exactly the recovery calls check_protected grants.
CallEndsRightly == ReturnsIntact /\ GivesUpAfterRecoveries

\* A call that has begun returns, ends the process or dies with it.
CallEnds == (pc \in InWork) ~> (pc \notin InWork)

-----------------------------------------------------------------------------
\* What the documentation says and the code does not do.

\* README, "Adversarial test integrity": the check after every producing call
\* "catches both committed and uncommitted tampering", so a call that returns
\* leaves every protected file in place.
CatchesTampering ==
  pc = "returned" /\ armed = Authors => \A t \in Tests : tests[t] = "intact"
=============================================================================
