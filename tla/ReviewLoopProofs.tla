-------------------------- MODULE ReviewLoopProofs --------------------------
(***************************************************************************)
(* The safety invariants of ReviewLoop, for every number of loops, rounds  *)
(* and retries and every set of gated loops.                               *)
(*                                                                         *)
(* The inductive invariant carries each property back through the steps of *)
(* a round: from the seed to the decision (a verdict that approves is of   *)
(* this round), from the gate to the reviewer (the content is green) and   *)
(* on to the approval (but for what this reviewer edited), from the reset  *)
(* to the end of the loop (review.md holds entries of this loop only) and  *)
(* from the fix to the next reviewer (the reply is kept).                  *)
(*                                                                         *)
(* EveryStepDescends is the safety half of Terminates: loops, rounds,      *)
(* what is left of a round and calls left for it, in this order.           *)
(***************************************************************************)
EXTENDS ReviewLoop, Descent, TLAPS

\* An approving verdict met in a round was written in that round.
Fresh ==
  pc \in {"reviewer", "read", "decide", "approved"} /\ verdict.says = "approve"
    => verdict.loop = loop /\ verdict.round = round /\ judged

\* Behind the gate of its loop the content stays green, but for what the
\* reviewer it was handed to edits.
Green ==
  loop \in GatedLoops =>
    /\ pc \in {"reset", "prepare"} => green
    /\ pc \in {"reviewer", "read", "decide", "approved"} => green \/ edited

\* Rejected rounds are counted like rounds.
Counted ==
  /\ round > 0 /\ pc # "noReview" => rejects = round - 1
  /\ pc = "noReview" => rejects = MaxRounds

InRound == {"prepare", "reviewer", "read", "decide", "fix"}

\* In the rounds of a loop review.md is about this loop.
OfThisLoop ==
  /\ round > 0 => \A entry \in review.has : entry[1] = loop
  /\ pc \in InRound => round > 0
  /\ pc \in {"produce", "reset"} => round = 0

\* The worker's reply is there until the next reviewer has it.
ReplyKept ==
  /\ \/ pc \in {"gate", "repair", "prepare"}
     \/ pc = "reviewer" /\ try = 1
  /\ round > 0 /\ replied
  => review.state = "text" /\ <<loop, round, "reply">> \in review.has

\* What an approval rests on.
Sound ==
  pc = "approved" =>
    verdict.says = "approve" /\ review.state = "text" /\ ~lost

IInv == TypeOK /\ Fresh /\ Green /\ Counted /\ OfThisLoop /\ ReplyKept /\ Sound

-----------------------------------------------------------------------------
\* Entries and conditions of review.md.
LEMMA EntryFacts ==
  /\ \A l \in 1..Loops, r \in 1..MaxRounds, who \in {"finding", "reply"} :
       <<l, r, who>> \in Entries /\ <<l, r, who>>[1] = l
  /\ \A a, b, c, d, e, f : <<a, b, c>> = <<d, e, f>> => a = d /\ b = e
  BY DEF Entries

LEMMA ReviewFacts ==
  /\ \A entries \in SUBSET Entries :
       /\ Text(entries) \in Reviews
       /\ Text(entries).has = entries /\ Text(entries).state = "text"
  /\ Missing \in Reviews /\ Missing.has = {} /\ Missing.state = "missing"
  /\ Unreadable \in Reviews /\ Unreadable.has = {}
  /\ Unreadable.state = "unreadable"
  /\ \A r \in Reviews : r.has \in SUBSET Entries
  BY DEF Text, Missing, Unreadable, Reviews

LEMMA InitIInv == Init => IInv
<1> SUFFICES ASSUME Init PROVE IInv
  OBVIOUS
<1>1. verdict \in Verdicts
  BY MaxRoundsAssumption, RetryMaxAssumption, LoopsAssumption
     DEF Init, Verdicts, Says
<1>2. review \in Reviews
  BY ReviewFacts DEF Init
<1>3. TypeOK
  <2>1. /\ pc \in Steps /\ loop \in 1..Loops /\ round \in 0..MaxRounds
        /\ attempt \in 1..MaxRounds /\ try \in 1..(RetryMax + 1)
        /\ rejects \in 0..MaxRounds
    BY LoopsAssumption, MaxRoundsAssumption, RetryMaxAssumption
       DEF Init, Steps, Busy
  <2>2. /\ lost \in BOOLEAN /\ green \in BOOLEAN /\ edited \in BOOLEAN
        /\ judged \in BOOLEAN /\ replied \in BOOLEAN
    BY DEF Init
  <2> QED
    BY <1>1, <1>2, <2>1, <2>2 DEF TypeOK
<1>4. \A entry \in review.has : entry[1] = loop
  BY ReviewFacts DEF Init
<1> QED
  BY <1>3, <1>4 DEF Init, IInv, Fresh, Green, Counted, OfThisLoop, ReplyKept, Sound,
              InRound

\* A step keeps the invariant.
LEMMA NextIInv == IInv /\ [Next]_vars => IInv'
<1> SUFFICES ASSUME IInv, [Next]_vars PROVE IInv'
  OBVIOUS
<1> USE LoopsAssumption, MaxRoundsAssumption, RetryMaxAssumption
<1> USE DEF IInv, TypeOK, Fresh, Green, Counted, OfThisLoop, ReplyKept, Sound,
            InRound, Steps, Busy, files, hist
<1>1. CASE Produce
  BY <1>1 DEF Produce, WorkerCall, ToGate
<1>2. CASE GatePass
  BY <1>2 DEF GatePass
<1>3. CASE GateFail
  BY <1>3 DEF GateFail
<1>4. CASE Repair
  BY <1>4 DEF Repair, WorkerCall
<1>5. CASE Reset
  <2>1. review' \in Reviews /\ review'.has = {}
    BY <1>5, ReviewFacts DEF Reset
  <2>2. TypeOK'
    <3>1. /\ pc' = "prepare" /\ round' = 1 /\ rejects' = 0 /\ replied' = FALSE
          /\ UNCHANGED <<loop, attempt, try, verdict, lost, green, edited,
                        judged>>
      BY <1>5 DEF Reset
    <3>2. replied' \in BOOLEAN
      BY <3>1
    <3>3. round' \in 0..MaxRounds /\ rejects' \in 0..MaxRounds
      BY <3>1
    <3> QED
      BY <2>1, <3>1, <3>2, <3>3
  <2>3. (Fresh /\ Green /\ Sound)'
    BY <1>5, <2>1 DEF Reset
  <2>4. (Counted /\ OfThisLoop /\ ReplyKept)'
    BY <1>5, <2>1 DEF Reset
  <2> QED
    BY <2>2, <2>3, <2>4
<1>6. CASE Prepare
  <2>1. /\ verdict' \in Verdicts /\ verdict'.says = "seed"
        /\ review' \in Reviews
        /\ edited' = FALSE /\ green' = green
    BY <1>6 DEF Prepare, Text, Seed, Reviews, Entries, Verdicts, Says
  <2>2. Green'
    BY <1>6, <2>1 DEF Prepare
  <2>3. edited' \in BOOLEAN
    BY <2>1
  <2>4. /\ pc' \in Steps /\ try' \in 1..(RetryMax + 1)
        /\ UNCHANGED <<loop, round, attempt, rejects>>
    BY <1>6 DEF Prepare
  <2>5. /\ lost' \in BOOLEAN /\ green' \in BOOLEAN
        /\ judged' \in BOOLEAN /\ replied' \in BOOLEAN
    BY <1>6 DEF Prepare
  <2>6. TypeOK'
    BY <2>1, <2>3, <2>4, <2>5
  <2> QED
    BY <1>6, <2>1, <2>2, <2>6 DEF Prepare, Text
<1>7. CASE ReviewerEnds
  <2>1. <<loop, round, "finding">> \in Entries
    BY <1>7, EntryFacts DEF ReviewerEnds
  <2>2. /\ review' \in Reviews
        /\ \A entry \in review'.has : entry[1] = loop
    BY <1>7, <2>1, EntryFacts, ReviewFacts DEF ReviewerEnds, ReviewerWrites
  <2>3. /\ verdict' \in Verdicts /\ judged' \in BOOLEAN
        /\ verdict'.says = "approve"
             => verdict'.loop = loop /\ verdict'.round = round /\ judged'
    <3>1. CASE UNCHANGED <<verdict, judged>>
      BY <1>7, <3>1 DEF ReviewerEnds
    <3>2. CASE /\ \E says \in ByReviewer :
                    verdict' = [says |-> says, loop |-> loop, round |-> round,
                                try |-> try]
               /\ judged' = TRUE
      BY <3>2 DEF Verdicts, Says, ByReviewer
    <3> QED
      BY <1>7, <3>1, <3>2 DEF ReviewerEnds, ReviewerWrites
  <2>4. /\ green' \in BOOLEAN /\ edited' \in BOOLEAN
        /\ green \/ edited => green' \/ edited'
    BY <1>7 DEF ReviewerEnds, ReviewerWrites
  <2>5. Green'
    BY <1>7, <2>4 DEF ReviewerEnds
  <2>6. /\ pc' \in Steps /\ try' \in 1..(RetryMax + 1)
        /\ UNCHANGED <<loop, round, attempt, lost, replied, rejects>>
    BY <1>7 DEF ReviewerEnds
  <2>7. TypeOK'
    BY <2>2, <2>3, <2>4, <2>6
  <2> QED
    BY <1>7, <2>2, <2>3, <2>5, <2>7 DEF ReviewerEnds
<1>8. CASE ReviewerLimited
  <2>1. <<loop, round, "finding">> \in Entries
    BY <1>8, EntryFacts DEF ReviewerLimited
  <2>2. /\ review' \in Reviews
        /\ \A entry \in review'.has : entry[1] = loop
    BY <1>8, <2>1, EntryFacts, ReviewFacts DEF ReviewerLimited, ReviewerWrites
  <2>3. /\ verdict' \in Verdicts /\ judged' \in BOOLEAN
        /\ verdict'.says = "approve"
             => verdict'.loop = loop /\ verdict'.round = round /\ judged'
    <3>1. CASE UNCHANGED <<verdict, judged>>
      BY <1>8, <3>1 DEF ReviewerLimited
    <3>2. CASE /\ \E says \in ByReviewer :
                    verdict' = [says |-> says, loop |-> loop, round |-> round,
                                try |-> try]
               /\ judged' = TRUE
      BY <3>2 DEF Verdicts, Says, ByReviewer
    <3> QED
      BY <1>8, <3>1, <3>2 DEF ReviewerLimited, ReviewerWrites
  <2>4. /\ green' \in BOOLEAN /\ edited' \in BOOLEAN
        /\ green \/ edited => green' \/ edited'
    BY <1>8 DEF ReviewerLimited, ReviewerWrites
  <2>5. Green'
    BY <1>8, <2>4 DEF ReviewerLimited
  <2>6. /\ pc' \in Steps /\ try' \in 1..(RetryMax + 1)
        /\ UNCHANGED <<loop, round, attempt, lost, replied, rejects>>
    BY <1>8 DEF ReviewerLimited
  <2>7. TypeOK'
    BY <2>2, <2>3, <2>4, <2>6
  <2> QED
    BY <1>8, <2>2, <2>3, <2>5, <2>7 DEF ReviewerLimited
<1>9. CASE Read
  BY <1>9 DEF Read, Text, Seed, Reviews, Entries, Verdicts, Says
<1>10. CASE Irreplaceable
  BY <1>10 DEF Irreplaceable
<1>11. CASE Decide
  BY <1>11 DEF Decide, Approved, Readable
<1>12. CASE Die
  BY <1>12 DEF Die
<1>13. CASE Fix
  <2>1. <<loop, round, "reply">> \in Entries
    <3>1. loop \in 1..Loops /\ round \in 1..MaxRounds
      BY <1>13 DEF Fix
    <3> QED
      BY <3>1, EntryFacts
  <2>2. /\ review' \in Reviews
        /\ \A entry \in review'.has : entry[1] = loop
        /\ replied' => review'.state = "text"
                       /\ <<loop, round, "reply">> \in review'.has
        /\ replied' \in BOOLEAN
    <3>1. \A entry \in review.has : entry[1] = loop
      BY <1>13 DEF Fix
    <3>2. CASE /\ review' = Text(review.has \union {<<loop, round, "reply">>})
               /\ replied' = TRUE
      BY <2>1, <3>1, <3>2, ReviewFacts
    <3>3. CASE review' \in {review, Missing, Unreadable} /\ replied' = FALSE
      BY <3>1, <3>3, ReviewFacts
    <3> QED
      BY <1>13, <3>2, <3>3 DEF Fix
  <2> QED
    BY <1>13, <2>2 DEF Fix, WorkerCall, ToGate
<1>14. CASE WorkerGivesUp
  BY <1>14 DEF WorkerGivesUp
<1>15. CASE NextLoop
  BY <1>15 DEF NextLoop
<1>16. CASE UNCHANGED vars
  BY <1>16 DEF vars
<1> QED
  BY <1>1, <1>2, <1>3, <1>4, <1>5, <1>6, <1>7, <1>8, <1>9, <1>10, <1>11, <1>12, <1>13, <1>14, <1>15, <1>16 DEF Next

LEMMA Inductive == Spec => []IInv
  BY InitIInv, NextIInv, PTL DEF Spec

-----------------------------------------------------------------------------
\* The variables keep their types.
THEOREM TypeCorrect == Spec => []TypeOK
<1>1. IInv => TypeOK
  BY DEF IInv
<1> QED
  BY <1>1, Inductive, PTL

\* However many rounds, retries and stages came before, a loop that ends
\* approved has the approval of this round's reviewer about this content.
THEOREM ApprovalIsFresh == Spec => []ApprovedByThisRound
<1>1. IInv => ApprovedByThisRound
  BY DEF IInv, Fresh, Sound, ApprovedByThisRound
<1> QED
  BY <1>1, Inductive, PTL

\* The content a gated stage hands to a reviewer has passed the gate, and it is
\* approved as it was handed over or as its own reviewer edited it.
THEOREM ReviewIsGreen == Spec => []ReviewedIsGreen
<1>1. IInv => ReviewedIsGreen
  BY DEF IInv, Green, ReviewedIsGreen
<1> QED
  BY <1>1, Inductive, PTL

\* The review behind an approval was not lost.
THEOREM ApprovalIsReadable == Spec => []ApprovedIsReadable
<1>1. IInv => ApprovedIsReadable
  BY DEF IInv, Sound, ApprovedIsReadable
<1> QED
  BY <1>1, Inductive, PTL

\* The conversation of worker and reviewer is kept within a loop and cut off
\* between loops.
THEOREM RepliesReachReviewer == Spec => []ReviewerSeesReplies
<1>1. IInv => ReviewerSeesReplies
  BY DEF IInv, OfThisLoop, ReplyKept, ReviewerSeesReplies, InRound
<1> QED
  BY <1>1, Inductive, PTL

\* MAX_ROUNDS is used up, and not exceeded, before a human is asked.
THEOREM GivesUpExactly == Spec => []GivesUpAtLimit
<1>1. IInv => GivesUpAtLimit
  BY DEF IInv, Counted, GivesUpAtLimit
<1> QED
  BY <1>1, Inductive, PTL

\* The four together: the loop ends as it should.
THEOREM EndIsRight == Spec => []EndsRightly
<1>1. IInv => EndsRightly
  BY DEF IInv, Fresh, Sound, Green, Counted, EndsRightly, ApprovedByThisRound,
         ReviewedIsGreen, ApprovedIsReadable, GivesUpAtLimit
<1> QED
  BY <1>1, Inductive, PTL
-----------------------------------------------------------------------------
\* How much is left: loops, rounds of this loop, steps of this round, and calls
\* that the step at hand may still repeat.
StepsLeft ==
  CASE pc \in {"produce", "fix"} -> 7
    [] pc \in {"gate", "repair"} -> 6
    [] pc \in {"reset", "prepare"} -> 5
    [] pc = "reviewer" -> 4
    [] pc = "read" -> 3
    [] pc = "decide" -> 2
    [] pc = "approved" -> 1
    [] OTHER -> 0

CallsLeft ==
  CASE pc = "gate" -> 2 * (MaxRounds - attempt)
    [] pc = "repair" -> 2 * (MaxRounds - attempt) + 1
    [] pc = "reviewer" -> RetryMax + 1 - try
    [] OTHER -> 0

Left == <<Loops - loop, MaxRounds - round, StepsLeft, CallsLeft>>

\* A step leaves less than there was.
Descends == <<Left', Left>> \in Below(4)

LeftIsNat ==
  /\ Loops - loop \in Nat /\ MaxRounds - round \in Nat
  /\ StepsLeft \in Nat /\ CallsLeft \in Nat

LEMMA LeftInIInv == IInv => LeftIsNat
<1> SUFFICES ASSUME TypeOK PROVE LeftIsNat
  BY DEF IInv
<1> USE LoopsAssumption, MaxRoundsAssumption, RetryMaxAssumption DEF TypeOK
<1>1. Loops - loop \in Nat /\ MaxRounds - round \in Nat /\ MaxRounds - attempt \in Nat
      /\ RetryMax + 1 - try \in Nat
  OBVIOUS
<1>2. StepsLeft \in Nat
  BY DEF StepsLeft
<1>3. CallsLeft \in Nat
  BY <1>1 DEF CallsLeft
<1> QED
  BY <1>1, <1>2, <1>3 DEF LeftIsNat

LEMMA NextDescends == IInv /\ LeftIsNat /\ LeftIsNat' /\ Next => Descends
<1> SUFFICES ASSUME IInv, LeftIsNat, LeftIsNat', Next PROVE Descends
  OBVIOUS
<1>0. TypeOK /\ OfThisLoop
  BY DEF IInv
<1> DEFINE less ==
      \/ Loops - loop' < Loops - loop
      \/ loop' = loop /\ MaxRounds - round' < MaxRounds - round
      \/ loop' = loop /\ round' = round /\ StepsLeft' < StepsLeft
      \/ loop' = loop /\ round' = round /\ StepsLeft' = StepsLeft /\ CallsLeft' < CallsLeft
<1> SUFFICES less
  BY BelowFour DEF Descends, Left, LeftIsNat
<1> USE LoopsAssumption, MaxRoundsAssumption, RetryMaxAssumption
<1> USE DEF TypeOK, StepsLeft, CallsLeft, OfThisLoop, InRound
<1>1. CASE Produce \/ Fix
  BY <1>0, <1>1 DEF Produce, Fix, ToGate
<1>2. CASE GatePass \/ GateFail \/ Repair
  BY <1>0, <1>2 DEF GatePass, GateFail, Repair
<1>3. CASE Reset \/ Prepare
  BY <1>0, <1>3 DEF Reset, Prepare
<1>4. CASE ReviewerEnds \/ ReviewerLimited
  BY <1>0, <1>4 DEF ReviewerEnds, ReviewerLimited
<1>5. CASE Read \/ Irreplaceable
  BY <1>0, <1>5 DEF Read, Irreplaceable
<1>6. CASE Decide
  BY <1>0, <1>6 DEF Decide
<1>7. CASE Die \/ WorkerGivesUp
  BY <1>0, <1>7 DEF Die, WorkerGivesUp
<1>8. CASE NextLoop
  BY <1>0, <1>8 DEF NextLoop
<1> QED
  BY <1>1, <1>2, <1>3, <1>4, <1>5, <1>6, <1>7, <1>8 DEF Next

\* Every step of the process leaves less, in an order without endless descents
\* (NoEndlessDescent): however gates, retries, rounds and stages are nested and
\* whatever resets which counter, they do not go on for ever.
THEOREM EveryStepDescends == Spec => [][Descends]_vars
<1>1. IInv /\ LeftIsNat /\ LeftIsNat' /\ [Next]_vars => [Descends]_vars
  BY NextDescends
<1> QED
  BY <1>1, LeftInIInv, Inductive, PTL DEF Spec
=============================================================================
