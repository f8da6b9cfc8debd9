----------------------------- MODULE ReviewLoop -----------------------------
(***************************************************************************)
(* The review loop and the quality-gate loop: review_loop and run_review   *)
(* of review.py, gate_loop of gates.py and the retries of agent_call, for  *)
(* the review loops that one process runs one after the other.             *)
(*                                                                         *)
(* Reviewer and worker are separate programs.  They talk to the workflow   *)
(* through two files that outlive a round and a loop, verdict.json and     *)
(* review.md, and may leave them untouched, remove them or leave them      *)
(* unreadable.  A reviewer has write permission for the whole workspace    *)
(* (agents.py), so it may also edit what it reviews.  A gate command may   *)
(* pass or fail on any content.                                            *)
(*                                                                         *)
(* What the worker's call does to protected files is in ProtectedWork.     *)
(***************************************************************************)
EXTENDS Integers, FiniteSets

CONSTANTS
  Loops,       \* number of review loops the process runs
  GatedLoops,  \* the loops of stages with a gate command
  MaxRounds,   \* MAX_ROUNDS
  RetryMax     \* RETRY_MAX: retries of a rate-limited call

ASSUME LoopsAssumption == Loops \in Nat \ {0} /\ GatedLoops \subseteq 1..Loops
ASSUME MaxRoundsAssumption == MaxRounds \in Nat \ {0}
ASSUME RetryMaxAssumption == RetryMax \in Nat

VARIABLES
  pc,       \* the next step
  loop,     \* which review loop
  round,    \* cur_round; 0 before the loop
  attempt,  \* attempt of gate_loop
  try,      \* attempt of agent_call at the reviewer
  verdict,  \* verdict.json: what it says, and the round and try that wrote it
  review,   \* review.md: its condition and the entries it holds
  lost,     \* review_unreadable of this round
  green,    \* history: the gate has passed on the content as it is now
  edited,   \* history: this round's reviewer has edited the content
  judged,   \* history: no worker changed the content since verdict.json's call
  replied,  \* history: the worker of this round left a reply in review.md
  rejects   \* history: rounds of this loop that ended without approval

files == <<verdict, review>>
hist == <<green, edited, judged, replied, rejects>>
vars == <<pc, loop, round, attempt, try, files, lost, hist>>

Busy == {"produce", "gate", "repair", "reset", "prepare", "reviewer", "read",
         "decide", "fix", "approved"}
Steps == Busy \union {"done", "noGate", "noReview", "quota", "noFile", "died"}

\* "invalid" is no JSON, or an object that does not approve and can be taken
\* apart; "wrongType" is JSON that is not an object, or one whose blockers or
\* suggestions cannot be iterated, on which the code raises.
Says == {"seed", "approve", "reject", "invalid", "wrongType", "unreadable",
         "missing"}
ByReviewer == Says \ {"seed"}

Verdicts ==
  [says : Says, loop : 0..Loops, round : 0..MaxRounds, try : 0..(RetryMax + 1)]
Entries == (1..Loops) \X (1..MaxRounds) \X {"finding", "reply"}
Reviews == [state : {"text", "unreadable", "missing"}, has : SUBSET Entries]

Text(entries) == [state |-> "text", has |-> entries]
Missing == [state |-> "missing", has |-> {}]
Unreadable == [state |-> "unreadable", has |-> {}]

\* FAILED_VERDICT, written by the workflow itself.
Seed == [says |-> "seed", loop |-> loop, round |-> round, try |-> 0]

Init ==
  /\ pc = "produce" /\ loop = 1 /\ round = 0 /\ attempt = 1 /\ try = 1
  /\ verdict = [says |-> "missing", loop |-> 0, round |-> 0, try |-> 0]
  /\ review = Missing /\ lost = FALSE
  /\ green = FALSE /\ edited = FALSE /\ judged = FALSE
  /\ replied = FALSE /\ rejects = 0

\* A worker call changes the content or not.
WorkerCall ==
  /\ \E same \in BOOLEAN :
       green' = (green /\ same) /\ judged' = (judged /\ same)
  /\ edited' = edited

\* gate_loop does nothing without a command.
ToGate(to) ==
  /\ pc' = IF loop \in GatedLoops THEN "gate" ELSE to
  /\ attempt' = 1

-----------------------------------------------------------------------------
\* The stage body before its review loop: produces the content that the first
\* round reviews, after the gate if the stage has one.
Produce ==
  /\ pc = "produce"
  /\ WorkerCall
  /\ ToGate("reset")
  /\ UNCHANGED <<loop, round, try, files, lost, replied, rejects>>

GatePass ==
  /\ pc = "gate"
  /\ green' = TRUE
  /\ pc' = IF round = 0 THEN "reset" ELSE "prepare"
  /\ UNCHANGED <<loop, round, attempt, try, files, lost, edited, judged,
                 replied, rejects>>

\* Mutation: one repair more than the limit allows.
GateFailOnceMore ==
  /\ pc = "gate"
  /\ IF attempt > MaxRounds
       THEN pc' = "noGate" /\ attempt' = attempt
       ELSE pc' = "repair" /\ attempt' = attempt + 1
  /\ UNCHANGED <<loop, round, try, files, lost, hist>>

GateFail ==
  /\ pc = "gate"
  /\ IF attempt >= MaxRounds
       THEN pc' = "noGate" /\ attempt' = attempt
       ELSE pc' = "repair" /\ attempt' = attempt + 1
  /\ UNCHANGED <<loop, round, try, files, lost, hist>>

\* Mutation: every repair starts the gate loop's count again.
RepairForgetsCount ==
  /\ pc = "repair"
  /\ WorkerCall
  /\ pc' = "gate" /\ attempt' = 1
  /\ UNCHANGED <<loop, round, try, files, lost, replied, rejects>>

Repair ==
  /\ pc = "repair"
  /\ WorkerCall
  /\ pc' = "gate"
  /\ UNCHANGED <<loop, round, attempt, try, files, lost, replied, rejects>>

\* Mutation: the findings of the previous loop stay.
ResetKeeps ==
  /\ pc = "reset"
  /\ round' = 1 /\ rejects' = 0 /\ replied' = FALSE
  /\ pc' = "prepare"
  /\ UNCHANGED <<loop, attempt, try, files, lost, green, edited,
                 judged>>

\* _reset_review_file, at the start of review_loop.
Reset ==
  /\ pc = "reset"
  /\ round' = 1 /\ rejects' = 0 /\ replied' = FALSE
  /\ review' = Text({})
  /\ pc' = "prepare"
  /\ UNCHANGED <<loop, attempt, try, verdict, lost, green, edited,
                 judged>>

\* run_review before the call: review.md exists, with the content it had if it
\* can be read, and verdict.json holds a failed verdict.
Prepare ==
  /\ pc = "prepare"
  /\ review' = IF review.state = "text" THEN review ELSE Text({})
  /\ verdict' = Seed
  /\ try' = 1 /\ edited' = FALSE
  /\ pc' = "reviewer"
  /\ UNCHANGED <<loop, round, attempt, lost, green, judged, replied, rejects>>

\* One run of the reviewer's program, whatever its exit code.  Only its prompt
\* keeps it from editing the content, before or after it writes its verdict.
ReviewerWrites ==
  /\ \E edits \in BOOLEAN :
       green' = (green /\ ~edits) /\ edited' = (edited \/ edits)
  /\ \/ UNCHANGED <<verdict, judged>>
     \/ \E says \in ByReviewer :
          /\ verdict' = [says |-> says, loop |-> loop, round |-> round,
                         try |-> try]
          /\ judged' = TRUE
  /\ LET found == <<loop, round, "finding">>
     IN review' \in {review, Text({found}), Text(review.has \union {found}),
                     Missing, Unreadable}

\* It ends: exit code 0, or an error that is not a rate limit.
ReviewerEnds ==
  /\ pc = "reviewer"
  /\ ReviewerWrites
  /\ pc' = "read"
  /\ UNCHANGED <<loop, round, attempt, try, lost, replied, rejects>>

\* It hits a rate limit: agent_call waits and calls again, or gives up.
ReviewerLimited ==
  /\ pc = "reviewer"
  /\ ReviewerWrites
  /\ \/ try <= RetryMax /\ try' = try + 1 /\ pc' = "reviewer"
     \/ try' = try /\ pc' = "quota"
  /\ UNCHANGED <<loop, round, attempt, lost, replied, rejects>>

\* Reading what it left: an unreadable file is replaced by a safe fallback.
Read ==
  /\ pc = "read"
  /\ verdict' = IF verdict.says = "unreadable" THEN Seed ELSE verdict
  /\ lost' = (review.state = "unreadable")
  /\ review' = IF review.state = "unreadable" THEN Text({}) ELSE review
  /\ pc' = "decide"
  /\ UNCHANGED <<loop, round, attempt, try, hist>>

\* _recover_unreadable_output may be unable to replace the file.
Irreplaceable ==
  /\ \/ pc \in {"reset", "prepare", "read"} /\ review.state = "unreadable"
     \/ pc = "read" /\ verdict.says = "unreadable"
  /\ pc' = "noFile"
  /\ UNCHANGED <<loop, round, attempt, try, files, lost, hist>>

Readable == ~lost /\ review.state = "text"

Approved == Readable /\ verdict.says = "approve"

\* A missing verdict is noticed first.  Then collect_suggestions (of a round
\* that can be read) or verdict_approved and show_blockers take it apart.
Dies == verdict.says = "wrongType"

Decide ==
  /\ pc = "decide" /\ (Readable => ~Dies)
  /\ IF Approved
       THEN pc' = "approved" /\ UNCHANGED <<round, rejects>>
       ELSE /\ rejects' = rejects + 1
            /\ IF round >= MaxRounds
                 THEN pc' = "noReview" /\ round' = round
                 ELSE pc' = "fix" /\ round' = round + 1
  /\ UNCHANGED <<loop, attempt, try, files, lost, green, edited, judged,
                 replied>>

\* A type error that no handler of main knows ends the process.
Die ==
  /\ pc = "decide" /\ Readable /\ Dies
  /\ pc' = "died"
  /\ UNCHANGED <<loop, round, attempt, try, files, lost, hist>>

\* Mutation: a fix goes to the reviewer without passing the gate.
FixUngated ==
  /\ pc = "fix"
  /\ WorkerCall
  /\ review' = review /\ replied' = FALSE
  /\ pc' = "prepare"
  /\ UNCHANGED <<loop, round, attempt, try, verdict, lost, rejects>>

\* The worker's call on the findings; it may reply to them in review.md, or
\* spoil the file.  Then the gate again.
Fix ==
  /\ pc = "fix"
  /\ WorkerCall
  /\ \/ review' = Text(review.has \union {<<loop, round, "reply">>})
        /\ replied' = TRUE
     \/ review' \in {review, Missing, Unreadable} /\ replied' = FALSE
  /\ ToGate("prepare")
  /\ UNCHANGED <<loop, round, try, verdict, lost, rejects>>

\* A worker call gives up on its quota, or meets tampered protected tests.
WorkerGivesUp ==
  /\ pc \in {"produce", "repair", "fix"}
  /\ pc' = "quota"
  /\ UNCHANGED <<loop, round, attempt, try, files, lost, hist>>

\* The stage ends; the next loop is that of the next stage.
NextLoop ==
  /\ pc = "approved"
  /\ IF loop < Loops
       THEN loop' = loop + 1 /\ round' = 0 /\ pc' = "produce"
       ELSE pc' = "done" /\ UNCHANGED <<loop, round>>
  /\ UNCHANGED <<attempt, try, files, lost, hist>>

Next ==
  \/ Produce \/ GatePass \/ GateFail \/ Repair \/ Reset \/ Prepare
  \/ ReviewerEnds \/ ReviewerLimited \/ Read \/ Irreplaceable
  \/ Decide \/ Die \/ Fix \/ WorkerGivesUp \/ NextLoop

Spec == Init /\ [][Next]_vars

\* Gate commands and agents end, and the process goes on.
FairSpec == Spec /\ WF_vars(Next)

-----------------------------------------------------------------------------
TypeOK ==
  /\ pc \in Steps
  /\ loop \in 1..Loops
  /\ round \in 0..MaxRounds
  /\ attempt \in 1..MaxRounds
  /\ try \in 1..(RetryMax + 1)
  /\ verdict \in Verdicts
  /\ review \in Reviews
  /\ lost \in BOOLEAN /\ green \in BOOLEAN /\ edited \in BOOLEAN
  /\ judged \in BOOLEAN /\ replied \in BOOLEAN
  /\ rejects \in 0..MaxRounds

\* A loop ends approved only on an approval that a reviewer of this loop and
\* this round wrote, with no worker's change after it: never on the verdict of
\* an earlier round or stage that is still on disk.
ApprovedByThisRound ==
  pc = "approved" =>
    /\ verdict.says = "approve"
    /\ verdict.loop = loop /\ verdict.round = round
    /\ judged

\* Where there is a gate command, a round reviews only content on which it has
\* passed, whatever workers and earlier reviewers changed; and what is approved
\* is that content, unless the reviewer of the approving round, after whom no
\* gate runs, edited it itself.
ReviewedIsGreen ==
  loop \in GatedLoops =>
    /\ pc = "prepare" => green
    /\ pc = "approved" => green \/ edited

\* The findings behind an approval can be read: an approving round whose
\* review.md was lost is a failed round.
ApprovedIsReadable == pc = "approved" => review.state = "text" /\ ~lost

\* A reviewer sees the replies to its predecessor's findings, and nothing that
\* was written in another stage's loop.
ReviewerSeesReplies ==
  pc = "reviewer" /\ try = 1 =>
    /\ \A entry \in review.has : entry[1] = loop
    /\ replied => <<loop, round, "reply">> \in review.has

\* The loop gives up after MAX_ROUNDS failed rounds, and not before.
GivesUpAtLimit == pc = "noReview" => rejects = MaxRounds

\* However it ends, the loop ends as it should: approved, on a verdict of this
\* round, about content that has passed the gate but for what this round's
\* reviewer edited, with a review that can be read; or given up, with every
\* allowed round used.
EndsRightly ==
  ApprovedByThisRound /\ ReviewedIsGreen /\ ApprovedIsReadable /\ GivesUpAtLimit

\* Every loop ends: with an approval or by an abort that asks for a human.
Terminates == <>(pc \notin Busy)

-----------------------------------------------------------------------------
\* What the documentation says and the code does not do.

\* docs/artifact-contract.md, C1: a verdict of "a wrong type" counts as not
\* approved (and so leads to another round or to the end of the loop).
WrongTypeIsNotApproved == pc # "died"

\* docs/artifact-contract.md, C1: the file is seeded with a failed verdict
\* "before every reviewer call", so that "a reviewer that omits the file"
\* loses: an approval was written by the call that ended the review.
OmittingReviewerLoses == pc = "approved" => verdict.try = try
=============================================================================
