------------------------- MODULE ProtectedWorkProofs -------------------------
(***************************************************************************)
(* The safety invariants of ProtectedWork, for every set of protected      *)
(* tests and every number of recoveries.                                   *)
(*                                                                         *)
(* Two facts carry them: the flag checking is only set while a recovery    *)
(* call runs, so that every other call is checked, and outside a call the  *)
(* controls on disk are the author's unless something excuses them.        *)
(*                                                                         *)
(* CallIsFinite is the safety half of CallEnds: a recovery call is within  *)
(* one call and counted.                                                   *)
(***************************************************************************)
EXTENDS ProtectedWork, Descent, TLAPS

FlagInRecovery ==
  checking => pc \in {"recovery", "recovered", "raising", "ended", "dead"}

\* Behind check_protected the tests are as git shows them in the base.
Checked ==
  /\ pc \in {"leaving", "returned"} /\ armed = Authors => Named = {}
  /\ pc = "returned" => controls = armed

\* Outside a call the controls on disk differ from the author's with an excuse.
DiskExcused == pc \notin InWork /\ controls # Authors => excused

\* Only an ended process has a reason.
LiveHasNone == pc # "ended" => why = "none"

IInv ==
  /\ TypeOK /\ LiveHasNone /\ FlagInRecovery /\ Checked /\ DiskExcused
  /\ NeverSilentlyWeakened /\ GivesUpAfterRecoveries

-----------------------------------------------------------------------------
LEMMA InitIInv == Init => IInv
<1> SUFFICES ASSUME Init PROVE IInv
  OBVIOUS
<1>1. checking \in BOOLEAN /\ excused \in BOOLEAN
  BY DEF Init
<1>2. TypeOK
  BY <1>1, MaxRecoveriesAssumption
     DEF Init, TypeOK, Steps, InWork, Conditions, ControlStates, Authors, Reasons
<1> QED
  BY <1>2
     DEF Init, IInv, LiveHasNone, FlagInRecovery, Checked, DiskExcused,
         NeverSilentlyWeakened, GivesUpAfterRecoveries, InWork, Authors, controls

\* A step keeps the invariant.
LEMMA NextIInv == IInv /\ [Next]_vars => IInv'
<1> SUFFICES ASSUME IInv, [Next]_vars PROVE IInv'
  OBVIOUS
<1> USE MaxRecoveriesAssumption
<1> USE DEF IInv, TypeOK, LiveHasNone, FlagInRecovery, Checked, DiskExcused,
            NeverSilentlyWeakened, GivesUpAfterRecoveries, InWork, Steps,
            Reasons
<1>1. CASE StartWork
  BY <1>1 DEF StartWork, End, Tampered, Named, controls
<1>2. CASE CallReturns
  BY <1>2 DEF CallReturns, AgentActs, Named, controls
<1>3. CASE CallRaises
  BY <1>3 DEF CallRaises, AgentActs, Named, controls
<1>4. CASE Raising
  BY <1>4 DEF Raising, Raise, End, Tampered, Named, controls
<1>5. CASE CheckPasses
  BY <1>5 DEF CheckPasses, Violations, Named, controls
<1>6. CASE CheckFails
  BY <1>6 DEF CheckFails, Raise, End, Tampered, Named, controls
<1>7. CASE CheckGivesUp
  <2>1. /\ pc = "check" /\ recoveries = MaxRecoveries
        /\ Raise("gaveUp")
        /\ UNCHANGED <<tests, controls, armed, checking, recoveries>>
    BY <1>7 DEF CheckGivesUp
  <2> QED
    BY <2>1 DEF Raise, End, Tampered, Named, controls
<1>8. CASE Recover
  <2>1. /\ pc = "check" /\ recoveries < MaxRecoveries
        /\ UNCHANGED <<tests, controls, armed>>
    BY <1>8 DEF Recover
  <2>2. CASE Tampered
    <3>1. End("tampered") /\ UNCHANGED <<recoveries, checking>>
      BY <1>8, <2>2 DEF Recover
    <3> QED
      BY <2>1, <3>1 DEF End, Named, controls
  <2>3. CASE ~Tampered
    <3>1. /\ recoveries' = recoveries + 1 /\ checking' = TRUE
          /\ pc' = "recovery" /\ UNCHANGED <<why, excused>>
      BY <1>8, <2>3 DEF Recover
    <3> QED
      BY <2>1, <3>1 DEF Named, controls
  <2> QED
    BY <2>2, <2>3
<1>9. CASE RecoveryReturns
  BY <1>9 DEF RecoveryReturns, AgentActs, Named, controls
<1>10. CASE Recovered
  BY <1>10 DEF Recovered, End, Tampered, Named, controls
<1>11. CASE Leave
  BY <1>11 DEF Leave, End, Tampered, Named, controls
<1>12. CASE Unguarded
  BY <1>12 DEF Unguarded, AgentActs, Named, controls
<1>13. CASE Die
  BY <1>13 DEF Die, Named, controls
<1>14. CASE Repair
  BY <1>14 DEF Repair, AgentActs, Named, controls
<1>15. CASE Resume
  <2>1. armed' \in ControlStates \X ControlStates
    BY <1>15 DEF Resume, controls
  <2>2. TypeOK'
    <3>1. /\ pc' = "between" /\ why' = "none" /\ recoveries' = 0
          /\ checking' = FALSE
          /\ UNCHANGED <<tests, list, base, excused>>
      BY <1>15 DEF Resume, controls
    <3>2. checking' \in BOOLEAN /\ excused' \in BOOLEAN
      BY <3>1
    <3> QED
      BY <2>1, <3>1, <3>2
  <2>3. armed' # Authors => excused'
    BY <1>15 DEF Resume, controls
  <2> QED
    BY <1>15, <2>2, <2>3 DEF Resume, controls
<1>16. CASE UNCHANGED vars
  BY <1>16 DEF vars, Named, controls
<1> QED
  BY <1>1, <1>2, <1>3, <1>4, <1>5, <1>6, <1>7, <1>8, <1>9, <1>10, <1>11, <1>12, <1>13, <1>14, <1>15, <1>16 DEF Next, InCall

LEMMA Inductive == Spec => []IInv
  BY InitIInv, NextIInv, PTL DEF Spec

-----------------------------------------------------------------------------
\* The variables keep their types.
THEOREM TypeCorrect == Spec => []TypeOK
<1>1. IInv => TypeOK
  BY DEF IInv
<1> QED
  BY <1>1, Inductive, PTL

\* No worker call returns past the guard with a named test or a changed control.
THEOREM GuardHolds == Spec => []ReturnsIntact
<1>1. IInv => ReturnsIntact
  BY DEF IInv, Checked, ReturnsIntact
<1> QED
  BY <1>1, Inductive, PTL

\* Trust in other controls than the author's always has a visible cause.
THEOREM NoSilentWeakening == Spec => []NeverSilentlyWeakened
<1>1. IInv => NeverSilentlyWeakened
  BY DEF IInv
<1> QED
  BY <1>1, Inductive, PTL

\* The guard gives up after exactly the recovery calls it grants.
THEOREM RecoveriesUsedUp == Spec => []GivesUpAfterRecoveries
<1>1. IInv => GivesUpAfterRecoveries
  BY DEF IInv
<1> QED
  BY <1>1, Inductive, PTL

\* A worker call comes back intact or is given up after all its recoveries.
THEOREM CallEndIsRight == Spec => []CallEndsRightly
<1>1. ReturnsIntact /\ GivesUpAfterRecoveries => CallEndsRightly
  BY DEF CallEndsRightly
<1> QED
  BY <1>1, GuardHolds, RecoveriesUsedUp, PTL
-----------------------------------------------------------------------------
\* How much of a call is left: its parts, recoveries in check_protected, and
\* steps of a recovery.
PartsLeft ==
  CASE pc = "call" -> 3
    [] pc \in {"check", "recovery", "recovered"} -> 2
    [] pc \in {"raising", "leaving"} -> 1
    [] OTHER -> 0

RecoveryLeft ==
  CASE pc = "recovery" -> 2
    [] pc = "recovered" -> 1
    [] OTHER -> 0

Left == <<PartsLeft, MaxRecoveries - recoveries, RecoveryLeft>>

Descends == <<Left', Left>> \in Below(3)

LeftIsNat ==
  PartsLeft \in Nat /\ MaxRecoveries - recoveries \in Nat /\ RecoveryLeft \in Nat

LEMMA LeftInIInv == IInv => LeftIsNat
<1> SUFFICES ASSUME TypeOK PROVE LeftIsNat
  BY DEF IInv
<1>1. PartsLeft \in Nat /\ RecoveryLeft \in Nat
  BY DEF PartsLeft, RecoveryLeft
<1>2. MaxRecoveries - recoveries \in Nat
  BY MaxRecoveriesAssumption DEF TypeOK
<1> QED
  BY <1>1, <1>2 DEF LeftIsNat

LEMMA CallDescends ==
  IInv /\ LeftIsNat /\ LeftIsNat' /\ pc \in InWork /\ Next => Descends
<1> SUFFICES ASSUME IInv, LeftIsNat, LeftIsNat', pc \in InWork, Next PROVE Descends
  OBVIOUS
<1>0. recoveries \in 0..MaxRecoveries
  BY DEF IInv, TypeOK
<1> SUFFICES \/ PartsLeft' < PartsLeft
             \/ /\ PartsLeft' = PartsLeft
                /\ MaxRecoveries - recoveries' < MaxRecoveries - recoveries
             \/ /\ PartsLeft' = PartsLeft
                /\ MaxRecoveries - recoveries' = MaxRecoveries - recoveries
                /\ RecoveryLeft' < RecoveryLeft
  BY BelowThree DEF Descends, Left, LeftIsNat
<1> USE MaxRecoveriesAssumption DEF PartsLeft, RecoveryLeft, Raise, End
<1>1. CASE CallReturns \/ CallRaises \/ Raising
  BY <1>1 DEF CallReturns, CallRaises, Raising
<1>2. CASE CheckPasses \/ CheckFails \/ CheckGivesUp
  BY <1>2 DEF CheckPasses, CheckFails, CheckGivesUp
<1>3. CASE Recover
  BY <1>0, <1>3 DEF Recover
<1>4. CASE RecoveryReturns \/ Recovered
  BY <1>0, <1>4 DEF RecoveryReturns, Recovered
<1>5. CASE Leave
  BY <1>5 DEF Leave
<1>6. CASE Die
  BY <1>6 DEF Die, InWork
<1>7. CASE StartWork \/ Unguarded \/ Repair \/ Resume
  BY <1>7 DEF StartWork, Unguarded, Repair, Resume, InWork
<1> QED
  BY <1>1, <1>2, <1>3, <1>4, <1>5, <1>6, <1>7 DEF Next, InCall

\* Within a call every step leaves less of it, in an order without endless
\* descents (NoEndlessDescent): the recovery calls, each of which ends in the
\* check it came from, do not go on for ever.
THEOREM CallIsFinite == Spec => [][(pc \in InWork) => Descends]_vars
<1>1. IInv /\ LeftIsNat /\ LeftIsNat' /\ [Next]_vars => [(pc \in InWork) => Descends]_vars
  BY CallDescends
<1> QED
  BY <1>1, LeftInIInv, Inductive, PTL DEF Spec
=============================================================================
