------------------------- MODULE AgentCallsProofs --------------------------
(***************************************************************************)
(* Whose conversation a call resumes and how long it waits for a reset,    *)
(* for every set of refs, any number of begun stages and retries and       *)
(* whatever the agents report at whatever time of day.                     *)
(*                                                                         *)
(* ResumesOwnConversation speaks of the last attempt.  What carries it is  *)
(* that the stored session always belongs to the stored owner and to the   *)
(* stage that was begun last: BeginStage clears both, and run_worker       *)
(* clears the session before it changes the owner.                         *)
(*                                                                         *)
(* That a wait without a report is a number of seconds (TypeCorrect,       *)
(* BackoffDoubles) needs 2^n, a recursive function, whose existence and    *)
(* type Descent gives.  CallIsFinite is the safety half of CallEnds.       *)
(***************************************************************************)
EXTENDS AgentCalls, Descent, TLAPS

\* A conversation that ref r may be told to resume.
OwnOf(r, c) == c = None \/ c = <<r, life>> \/ (c = Null /\ CLI(r) = "claude")

SessionOfOwner == OwnOf(owner, session) \/ session = None

IInv == SessionOfOwner /\ ResumesOwnConversation

-----------------------------------------------------------------------------
LEMMA InitIInv == Init => IInv
  BY DEF Init, IInv, SessionOfOwner, OwnOf, ResumesOwnConversation, Limits

\* run_worker hands the adapter a conversation of the ref it calls.
LEMMA HeldIsOwn == SessionOfOwner => OwnOf(ref, Held)
  BY DEF SessionOfOwner, OwnOf, Held

\* Every adapter resumes what it is given or nothing, and stores a conversation
\* of its ref.
LEMMA AdapterKeepsOwn ==
  ASSUME SessionOfOwner,
         WorkerClaude \/ WorkerThread \/ GuardOpencode \/ RunGeneric
  PROVE  OwnOf(ref, resumed') /\ OwnOf(ref, session')
<1>1. OwnOf(ref, Held)
  BY HeldIsOwn
<1>2. CASE WorkerClaude
  BY <1>1, <1>2 DEF WorkerClaude, OwnOf, Own
<1>3. CASE WorkerThread
  BY <1>1, <1>3 DEF WorkerThread, RunThread, OwnOf, Own
<1>4. CASE GuardOpencode
  BY <1>1, <1>4 DEF GuardOpencode, RunThread, OwnOf, Own
<1>5. CASE RunGeneric
  BY <1>1, <1>5 DEF RunGeneric, OwnOf
<1> QED
  BY <1>2, <1>3, <1>4, <1>5

LEMMA NextIInv == IInv /\ [Next]_vars => IInv'
<1> SUFFICES ASSUME IInv, [Next]_vars PROVE IInv'
  OBVIOUS
<1> USE DEF Limits
<1>1. CASE BeginStage
  BY <1>1 DEF BeginStage, IInv, SessionOfOwner, OwnOf, ResumesOwnConversation
<1>2. ASSUME NEW as \in {"worker", "reviewer"}, Begin(as) PROVE IInv'
  BY <1>2 DEF Begin, conversation, IInv, SessionOfOwner, OwnOf,
     ResumesOwnConversation
<1>3. CASE RunWorker
  <2>1. OwnOf(ref, resumed') /\ OwnOf(ref, session')
    BY <1>3, AdapterKeepsOwn DEF RunWorker, IInv
  <2>2. owner' = ref /\ ref' = ref /\ life' = life
    BY <1>3 DEF RunWorker
  <2> QED
    BY <2>1, <2>2 DEF IInv, SessionOfOwner, OwnOf, ResumesOwnConversation
<1>4. CASE RunReviewer
  BY <1>4 DEF RunReviewer, IInv, SessionOfOwner, OwnOf, ResumesOwnConversation
<1>5. CASE Return \/ GiveUp
  BY <1>5 DEF Return, GiveUp, conversation, IInv, SessionOfOwner, OwnOf,
     ResumesOwnConversation
<1>6. CASE Sleep
  BY <1>6 DEF Sleep, conversation, IInv, SessionOfOwner, OwnOf,
     ResumesOwnConversation
<1>7. CASE Wake
  BY <1>7 DEF Wake, conversation, IInv, SessionOfOwner, OwnOf,
     ResumesOwnConversation
<1>8. CASE UNCHANGED vars
  BY <1>8 DEF vars, conversation, IInv, SessionOfOwner, OwnOf,
     ResumesOwnConversation
<1> QED
  BY <1>1, <1>2, <1>3, <1>4, <1>5, <1>6, <1>7, <1>8 DEF Next, InCall

LEMMA Inductive == Spec => []IInv
  BY InitIInv, NextIInv, PTL DEF Spec

\* A call resumes only a conversation that the same ref opened in the same
\* stage, or Claude's null, in the first attempt and in every retry.
THEOREM ConversationIsOwn == Spec => []ResumesOwnConversation
  BY Inductive, PTL DEF IInv

-----------------------------------------------------------------------------
\* How far a clock time is ahead: less than a day.
LEMMA DayRemainder ==
  ASSUME NEW x \in Int, -Day < x, x < Day
  PROVE  x % Day = IF x < 0 THEN x + Day ELSE x
<1>1. Day = 86400
  BY DEF Day, Hour, Minute
<1>2. x < 0 => x % 86400 = x + 86400
  BY <1>1
<1>3. x >= 0 => x % 86400 = x
  BY <1>1
<1> QED
  BY <1>1, <1>2, <1>3

LEMMA HourOfDay ==
  ASSUME NEW hour \in 1..12, NEW pm \in BOOLEAN
  PROVE  Hour24(hour, pm) = (IF hour = 12 THEN 0 ELSE hour) + (IF pm THEN 12 ELSE 0)
<1>1. hour % 12 = IF hour = 12 THEN 0 ELSE hour
  OBVIOUS
<1> QED
  BY <1>1 DEF Hour24

\* The next moment at which the clock shows a time.
LEMMA ClockIsAhead ==
  ASSUME NEW now \in Nat, now < Day,
         NEW hour, NEW pm, Hour24(hour, pm) \in 0..23, NEW minute \in 0..59,
         NEW clock, clock = Hour24(hour, pm) * Hour + minute * Minute
  PROVE  /\ NextClock(now, hour, minute, pm) = IF clock = now THEN Day ELSE (clock - now) % Day
         /\ NextClock(now, hour, minute, pm) \in Nat
         /\ NextClock(now, hour, minute, pm) <= Day
<1>1. NextClock(now, hour, minute, pm) = IF clock <= now THEN clock + Day - now ELSE clock - now
  BY DEF NextClock
<1>2. Day = 86400 /\ Hour = 3600 /\ Minute = 60
  BY DEF Day, Hour, Minute
<1>3. clock \in Nat /\ clock < Day
  <2> DEFINE h == Hour24(hour, pm)
  <2>1. h \in Nat /\ h <= 23
    OBVIOUS
  <2> HIDE DEF h
  <2>2. clock = h * 3600 + minute * 60
    BY <1>2 DEF h
  <2> QED
    BY <1>2, <2>1, <2>2
<1>4. (clock - now) % Day = IF clock - now < 0 THEN clock - now + Day ELSE clock - now
  <2>1. Day \in Nat
    BY <1>2
  <2> QED
    BY <1>3, <2>1, DayRemainder
<1> QED
  BY <1>1, <1>2, <1>3, <1>4

LEMMA InRange ==
  ASSUME NEW m \in Int, NEW x \in 0..m
  PROVE  x \in Nat /\ x <= m
  OBVIOUS

LEMMA MomentInDay ==
  ASSUME NEW now \in Moments
  PROVE  now \in Nat /\ now < Day
<1>1. Day = 86400
  BY DEF Day, Hour, Minute
<1>2. Day - 1 \in Int
  BY <1>1
<1>3. now \in 0..(Day - 1)
  BY ReportsAssumption, Zenon
<1>4. now \in Nat /\ now <= Day - 1
  BY <1>2, <1>3, InRange, Zenon
<1> QED
  BY <1>1, <1>4

\* What is read from a wording is later than what it says, but for what it does
\* not count of it, or it is taken for an artefact and a month away.
LEMMA TextIsHonoured ==
  ASSUME NEW now \in Moments, report \in Reports,
         report.after = None, report.epoch = None \/ EpochWait(report.epoch) = None,
         NEW waited, waited = TextWait(now, report.text),
         NEW meant, meant = Meant(now)
  PROVE  /\ waited \in Int \union {None} /\ meant \in Int \union {None}
         /\ meant = None => waited = None
         /\ meant # None /\ meant < 29 * Day =>
              waited # None /\ waited >= meant - Uncounted(meant)
<1> DEFINE text == report.text
<1>0. /\ TypeOfText(text) /\ now \in Nat /\ now < Day /\ None \notin Int
      /\ Day = 86400 /\ Hour = 3600
  <2>1. Day = 86400 /\ Hour = 3600
    BY DEF Day, Hour, Minute
  <2>2. now \in Nat /\ now < Day
    BY MomentInDay
  <2>3. TypeOfText(text) /\ None \notin Int
    BY ReportsAssumption, NoneAssumption DEF TypeOfReport
  <2> QED
    BY <2>1, <2>2, <2>3
<1>1. CASE text[1] \in {"clock", "clockAt"}
  <2> DEFINE buffer == IF text[1] = "clock" THEN 120 ELSE 30
  <2>1. waited = ClockWait(now, text, buffer)
    BY <1>1 DEF TextWait
  <2>2. text[2] \in Nat /\ text[3] \in Nat /\ text[4] \in BOOLEAN
    BY <1>0, <1>1 DEF TypeOfText
  <2>3. CASE text[2] \in 1..12 /\ text[3] \in 0..59
    <3>1. /\ meant = NextClock(now, text[2], text[3], text[4])
          /\ meant \in Nat /\ meant <= Day
      <4> DEFINE hour == text[2]
                 minute == text[3]
                 pm == text[4]
                 clock == ((IF hour = 12 THEN 0 ELSE hour) + (IF pm THEN 12 ELSE 0)) * Hour
                            + minute * Minute
      <4>1. meant = IF clock = now THEN Day ELSE (clock - now) % Day
        BY <1>1, <2>3 DEF Meant
      <4>2. hour \in 1..12 /\ minute \in 0..59 /\ pm \in BOOLEAN
        BY <2>2, <2>3
      <4>3. now \in Nat /\ now < Day
        BY <1>0
      <4>4. Hour24(hour, pm) \in 0..23 /\ clock = Hour24(hour, pm) * Hour + minute * Minute
        <5>1. Hour24(hour, pm) = (IF hour = 12 THEN 0 ELSE hour) + (IF pm THEN 12 ELSE 0)
          BY <4>2, HourOfDay
        <5>2. Hour24(hour, pm) \in 0..23
          BY <4>2, <5>1
        <5> QED
          BY <5>1, <5>2
      <4> HIDE DEF hour, minute, pm, clock
      <4>5. /\ NextClock(now, hour, minute, pm) =
                 IF clock = now THEN Day ELSE (clock - now) % Day
            /\ NextClock(now, hour, minute, pm) \in Nat
            /\ NextClock(now, hour, minute, pm) <= Day
        BY <4>2, <4>3, <4>4, ClockIsAhead
      <4> QED
        BY <4>1, <4>5 DEF hour, minute, pm
    <3>2. waited = Sane(meant + buffer)
      BY <2>1, <2>3, <3>1 DEF ClockWait
    <3>3. waited = meant + buffer
      BY <1>0, <3>1, <3>2 DEF Sane
    <3> QED
      BY <1>0, <1>1, <3>1, <3>3 DEF Uncounted
  <2>4. CASE ~(text[2] \in 1..12 /\ text[3] \in 0..59)
    BY <1>1, <2>1, <2>4, <1>0 DEF ClockWait, Meant
  <2> QED
    BY <2>3, <2>4
<1>2. CASE text[1] = "in"
  <2>1. /\ text[2] \in Nat /\ text[3] \in Units /\ text[4] \in Nat
        /\ Counted(text[2], text[3]) \in Nat
    BY <1>0, <1>2 DEF TypeOfText, Units, Counted, Seconds, Minute, Hour
  <2>2. waited = Sane(Counted(text[2], text[3]) + 30)
    BY <1>2 DEF TextWait
  <2>3. CASE text[3] = "ms"
    <3>1. /\ meant = (text[2] \div 1000) + text[4]
          /\ Uncounted(meant) = meant
      BY <1>2, <2>3 DEF Meant, Uncounted
    <3>2. text[2] \div 1000 \in Int
      BY <2>1
    <3>3. waited = 31
      BY <1>0, <2>2, <2>3 DEF Counted, Sane
    <3> QED
      BY <1>0, <2>1, <3>1, <3>2, <3>3
  <2>4. CASE text[3] # "ms"
    <3>1. /\ meant = Counted(text[2], text[3]) + text[4]
          /\ Uncounted(meant) = text[4]
      BY <1>2, <2>4 DEF Meant, Uncounted, Counted
    <3> QED
      BY <1>0, <2>1, <2>2, <3>1 DEF Sane
  <2> QED
    BY <2>3, <2>4
<1>3. CASE text[1] = "on"
  BY <1>0, <1>3 DEF TypeOfText, TextWait, Meant, Sane, Uncounted
<1>4. CASE text[1] = "none"
  BY <1>0, <1>4 DEF TextWait, Meant
<1> QED
  BY <1>0, <1>1, <1>2, <1>3, <1>4 DEF TypeOfText

LEMMA NameIsHonoured ==
  ASSUME NEW now \in Moments, report \in Reports,
         NEW named, named = NamedWait(now), NEW meant, meant = Meant(now)
  PROVE  /\ named \in Int \union {None} /\ meant \in Int \union {None}
         /\ meant = None => named = None
         /\ meant # None /\ meant < 29 * Day =>
              named # None /\ named >= meant - Uncounted(meant)
<1>0. /\ report.after \in Nat \union {None} /\ report.epoch \in Int \union {None}
      /\ None \notin Int
  BY ReportsAssumption, NoneAssumption DEF TypeOfReport
<1>1. CASE report.after # None
  BY <1>0, <1>1 DEF NamedWait, Meant, Uncounted
<1>2. CASE report.after = None /\ report.epoch # None /\ EpochWait(report.epoch) # None
  <2>1. EpochWait(report.epoch) = report.epoch + 120
    BY <1>0, <1>2 DEF EpochWait, Sane
  <2> QED
    BY <1>0, <1>2, <2>1 DEF NamedWait, Meant, Uncounted
<1>3. CASE report.after = None /\ (report.epoch = None \/ EpochWait(report.epoch) = None)
  <2>1. named = TextWait(now, report.text)
    BY <1>3 DEF NamedWait
  <2> QED
    BY <1>3, <2>1, TextIsHonoured
<1> QED
  BY <1>1, <1>2, <1>3

-----------------------------------------------------------------------------
\* The recursion behind 1 << k has a solution, of natural numbers.
LEMMA ShiftedMeans ==
  /\ Shifted \in [Nat -> Nat]
  /\ Shifted[0] = 1
  /\ \A k \in Nat : Shifted[k + 1] = 2 * Shifted[k]
<1> DEFINE double == [x \in Nat |-> 2 * x]
           Defines(f) == f = [k \in Nat |-> IF k = 0 THEN 1 ELSE 2 * f[k - 1]]
<1>1. \E f : Defines(f)
  <2>1. Recursions(Nat, 1, double) # {}
    <3>1. double \in [Nat -> Nat] /\ 1 \in Nat
      OBVIOUS
    <3> HIDE DEF double
    <3> QED
      BY <3>1, RecursionExists
  <2>2. PICK f \in [Nat -> Nat] : f[0] = 1 /\ \A k \in Nat : f[k + 1] = double[f[k]]
    <3> HIDE DEF double
    <3> QED
      BY <2>1 DEF Recursions
  <2>3. ASSUME NEW k \in Nat PROVE f[k] = IF k = 0 THEN 1 ELSE 2 * f[k - 1]
    <3>1. CASE k = 0
      BY <2>2, <3>1
    <3>2. CASE k # 0
      <4>1. k - 1 \in Nat /\ (k - 1) + 1 = k
        BY <3>2
      <4>2. f[k] = double[f[k - 1]] /\ f[k - 1] \in Nat
        BY <2>2, <4>1
      <4> QED
        BY <3>2, <4>2
    <3> QED
      BY <3>1, <3>2
  <2>4. f = [k \in Nat |-> IF k = 0 THEN 1 ELSE 2 * f[k - 1]]
    BY <2>2, <2>3
  <2> QED
    BY <2>4
<1>2. Shifted = [k \in Nat |-> IF k = 0 THEN 1 ELSE 2 * Shifted[k - 1]]
  <2>1. Shifted = CHOOSE f : Defines(f)
    BY Zenon DEF Shifted
  <2> HIDE DEF Defines
  <2>2. Defines(Shifted)
    BY <1>1, <2>1, Zenon
  <2> QED
    BY <2>2 DEF Defines
<1> HIDE DEF Defines
<1>3. Shifted[0] = 1
  BY <1>2
<1>4. ASSUME NEW k \in Nat PROVE Shifted[k + 1] = 2 * Shifted[k]
  <2>1. k + 1 \in Nat /\ k + 1 # 0 /\ (k + 1) - 1 = k
    OBVIOUS
  <2> QED
    BY <1>2, <2>1
<1>5. \A k \in Nat : Shifted[k] \in Nat
  <2> DEFINE T == {k \in Nat : Shifted[k] \in Nat}
  <2>1. 0 \in T
    BY <1>3
  <2>2. ASSUME NEW k \in Nat, k \in T PROVE k + 1 \in T
    BY <1>4, <2>2
  <2>3. Nat \subseteq T
    <3> HIDE DEF T
    <3> QED
      BY <2>1, <2>2, SetInduction
  <2> QED
    BY <2>3
<1>6. Shifted \in [Nat -> Nat]
  BY <1>2, <1>5
<1> QED
  BY <1>3, <1>4, <1>6

\* The wait of a limit without a report: it doubles with every retry until it
\* meets RETRY_MAX_WAIT, and is not negative.
THEOREM BackoffDoubles ==
  /\ Backoff(1) = IF BaseWait < MaxWait THEN BaseWait ELSE MaxWait
  /\ \A tries \in Nat \ {0} :
       /\ Backoff(tries) \in 0..MaxWait
       /\ Backoff(tries + 1) =
            IF 2 * Backoff(tries) < MaxWait THEN 2 * Backoff(tries) ELSE MaxWait
<1>0. BaseWait \in Nat /\ MaxWait \in Nat
  BY BoundsAssumption
<1>1. Backoff(1) = IF BaseWait < MaxWait THEN BaseWait ELSE MaxWait
  <2>1. Shifted[1 - 1] = 1
    BY ShiftedMeans
  <2> QED
    BY <1>0, <2>1 DEF Backoff
<1>2. ASSUME NEW tries \in Nat \ {0}
      PROVE  /\ Backoff(tries) \in 0..MaxWait
             /\ Backoff(tries + 1) =
                  IF 2 * Backoff(tries) < MaxWait THEN 2 * Backoff(tries) ELSE MaxWait
  <2> DEFINE b == BaseWait * Shifted[tries - 1]
             c == BaseWait * Shifted[(tries + 1) - 1]
  <2>1. tries - 1 \in Nat /\ (tries - 1) + 1 = (tries + 1) - 1
    OBVIOUS
  <2>2. Shifted[tries - 1] \in Nat /\ Shifted[(tries + 1) - 1] = 2 * Shifted[tries - 1]
    BY <2>1, ShiftedMeans
  <2>3. b \in Nat
    BY <1>0, <2>2
  <2>4. c = 2 * b
    BY <1>0, <2>2
  <2>5. /\ Backoff(tries) = IF b < MaxWait THEN b ELSE MaxWait
        /\ Backoff(tries + 1) = IF c < MaxWait THEN c ELSE MaxWait
    BY DEF Backoff
  <2> HIDE DEF b, c
  <2> QED
    BY <1>0, <2>3, <2>4, <2>5
<1> QED
  BY <1>1, <1>2
-----------------------------------------------------------------------------
\* What is known when an attempt has been refused.
Refused == n \in 0..RetryMax /\ (pc = "limited" => report \in Reports)

LEMMA WaitNext == Refused /\ WaitHonoured /\ [Next]_vars => Refused' /\ WaitHonoured'
<1> SUFFICES ASSUME Refused, WaitHonoured, [Next]_vars PROVE Refused' /\ WaitHonoured'
  OBVIOUS
<1> USE BoundsAssumption DEF Refused, WaitHonoured, Limits
<1>1. CASE BeginStage
  BY <1>1 DEF BeginStage
<1>2. ASSUME NEW as \in {"worker", "reviewer"}, Begin(as) PROVE Refused' /\ WaitHonoured'
  BY <1>2 DEF Begin
<1>3. CASE RunWorker
  BY <1>3 DEF RunWorker, WorkerClaude, WorkerThread, GuardOpencode, RunGeneric, RunThread,
     Ends, Reported
<1>4. CASE RunReviewer
  BY <1>4 DEF RunReviewer, Ends, Reported
<1>5. CASE Return \/ GiveUp
  BY <1>5 DEF Return, GiveUp
<1>6. CASE Sleep
  <2>1. PICK now \in Moments :
          /\ ~TooFar(NamedWait(now))
          /\ wait' = IF NamedWait(now) = None THEN Backoff(n + 1) ELSE NamedWait(now)
          /\ due' = Meant(now)
    BY <1>6 DEF Sleep
  <2>2. n + 1 \in 0..RetryMax /\ report \in Reports /\ n' = n + 1 /\ pc' = "asleep"
    BY <1>6 DEF Sleep, RetriesLeft
  <2>3. /\ NamedWait(now) \in Int \union {None} /\ due' \in Int \union {None}
        /\ due' = None => NamedWait(now) = None
        /\ due' # None /\ due' < 29 * Day =>
             NamedWait(now) # None /\ NamedWait(now) >= due' - Uncounted(due')
    BY <2>1, <2>2, NameIsHonoured
  <2>4. Backoff(n + 1) \in Nat /\ Backoff(n + 1) <= MaxWait
    <3>1. n + 1 \in Nat \ {0}
      BY <2>2
    <3>2. Backoff(n + 1) \in 0..MaxWait
      BY <3>1, BackoffDoubles, Zenon
    <3> QED
      BY <3>2
  <2>5. CASE NamedWait(now) = None
    BY <2>1, <2>2, <2>3, <2>4, <2>5
  <2>6. CASE NamedWait(now) # None
    <3>1. Uncounted(due)' = Uncounted(due')
      <4>1. report' = report
        BY <1>6 DEF Sleep
      <4> QED
        BY <4>1 DEF Uncounted, EpochWait, Sane
    <3> QED
      BY <2>1, <2>2, <2>3, <2>6, <3>1 DEF TooFar
  <2> QED
    BY <2>5, <2>6
<1>7. CASE Wake
  BY <1>7 DEF Wake
<1>8. CASE UNCHANGED vars
  <2>1. Uncounted(due)' = Uncounted(due)
    BY <1>8 DEF vars, Uncounted, EpochWait, Sane
  <2> QED
    BY <1>8, <2>1 DEF vars
<1> QED
  BY <1>1, <1>2, <1>3, <1>4, <1>5, <1>6, <1>7, <1>8 DEF Next, InCall

\* A retry begins no earlier than the reset the agent has named, at any time of
\* day, but for what the parser does not count of a relative wording, and no sleep is longer than the settings allow.
THEOREM ResetIsAwaited == Spec => []WaitHonoured
<1>1. Init => Refused /\ WaitHonoured
  BY BoundsAssumption DEF Init, Refused, WaitHonoured
<1>2. Refused /\ WaitHonoured /\ [Next]_vars => (Refused /\ WaitHonoured)'
  BY WaitNext
<1> QED
  BY <1>1, <1>2, PTL DEF Spec
-----------------------------------------------------------------------------
\* What is slept is a number of seconds that is not negative.
LEMMA NextClockIsNat ==
  ASSUME NEW now \in Moments, NEW hour \in 1..12, NEW minute \in 0..59, NEW pm \in BOOLEAN
  PROVE  NextClock(now, hour, minute, pm) \in Nat
<1> DEFINE clock == Hour24(hour, pm) * Hour + minute * Minute
<1>1. now \in Nat /\ now < Day
  BY MomentInDay
<1>2. Hour24(hour, pm) \in 0..23
  <2>1. Hour24(hour, pm) = (IF hour = 12 THEN 0 ELSE hour) + (IF pm THEN 12 ELSE 0)
    BY HourOfDay
  <2> QED
    BY <2>1
<1>3. clock = Hour24(hour, pm) * Hour + minute * Minute
  OBVIOUS
<1> HIDE DEF clock
<1> QED
  BY <1>1, <1>2, <1>3, ClockIsAhead

LEMMA SaneIsNat ==
  ASSUME NEW seconds \in Nat
  PROVE  Sane(seconds) \in Nat \union {None}
  BY DEF Sane

LEMMA ClockWaitIsNat ==
  ASSUME NEW now \in Moments, NEW buffer \in Nat, NEW text,
         text[4] \in BOOLEAN
  PROVE  ClockWait(now, text, buffer) \in Nat \union {None}
<1>1. CASE text[2] \in 1..12 /\ text[3] \in 0..59
  <2> DEFINE ahead == NextClock(now, text[2], text[3], text[4])
  <2>1. ahead \in Nat
    BY <1>1, NextClockIsNat
  <2> HIDE DEF ahead
  <2>2. ahead + buffer \in Nat
    BY <2>1
  <2>3. Sane(ahead + buffer) \in Nat \union {None}
    BY <2>2, SaneIsNat
  <2> QED
    BY <1>1, <2>3 DEF ClockWait, ahead
<1>2. CASE ~(text[2] \in 1..12 /\ text[3] \in 0..59)
  BY <1>2 DEF ClockWait
<1> QED
  BY <1>1, <1>2

LEMMA TextWaitIsNat ==
  ASSUME NEW now \in Moments, NEW text, TypeOfText(text)
  PROVE  TextWait(now, text) \in Nat \union {None}
<1>1. CASE text[1] \in {"clock", "clockAt"}
  <2>1. /\ ClockWait(now, text, 120) \in Nat \union {None}
        /\ ClockWait(now, text, 30) \in Nat \union {None}
    BY <1>1, ClockWaitIsNat DEF TypeOfText
  <2> QED
    BY <1>1, <2>1 DEF TextWait
<1>2. CASE text[1] = "in"
  <2>1. Counted(text[2], text[3]) + 30 \in Nat
    BY <1>2 DEF TypeOfText, Units, Counted, Seconds, Minute, Hour
  <2> QED
    BY <1>2, <2>1, SaneIsNat DEF TextWait
<1>3. CASE text[1] = "on"
  BY <1>3, SaneIsNat DEF TextWait, TypeOfText
<1>4. CASE text[1] = "none"
  BY <1>4 DEF TextWait
<1> QED
  BY <1>1, <1>2, <1>3, <1>4 DEF TypeOfText

LEMMA NamedWaitIsNat ==
  ASSUME NEW now \in Moments, report \in Reports
  PROVE  NamedWait(now) \in Nat \union {None}
<1>0. /\ report.after \in Nat \union {None} /\ report.epoch \in Int \union {None}
      /\ TypeOfText(report.text) /\ None \notin Int
  BY ReportsAssumption, NoneAssumption DEF TypeOfReport
<1>1. report.epoch # None => EpochWait(report.epoch) \in Nat \union {None}
  <2>1. ASSUME report.epoch \in Int, report.epoch + 120 >= 0
        PROVE  Sane(report.epoch + 120) \in Nat \union {None}
    BY <2>1, SaneIsNat
  <2> QED
    BY <1>0, <2>1 DEF EpochWait
<1>2. TextWait(now, report.text) \in Nat \union {None}
  BY <1>0, TextWaitIsNat
<1> QED
  BY <1>0, <1>1, <1>2 DEF NamedWait

Conversations == {None, Null} \union (Refs \X (1..MaxLives))

LEMMA TypeNext == TypeOK /\ Refused /\ [Next]_vars => TypeOK'
<1> SUFFICES ASSUME TypeOK, Refused, [Next]_vars PROVE TypeOK'
  OBVIOUS
<1> USE BoundsAssumption DEF TypeOK, Limits
<1>1. CASE BeginStage
  BY <1>1 DEF BeginStage
<1>2. ASSUME NEW as \in {"worker", "reviewer"}, Begin(as) PROVE TypeOK'
  <2>1. /\ ref' \in Refs /\ role' = as /\ n' = 0 /\ pc' = "attempt"
        /\ UNCHANGED <<life, session, owner, resumed, retry, report, wait>>
    BY <1>2 DEF Begin, conversation
  <2>2. n' \in 0..RetryMax
    BY <2>1
  <2> QED
    BY <2>1, <2>2, Zenon
<1>3. CASE RunWorker
  <2>1. Held \in Conversations /\ None \in Conversations /\ Null \in Conversations
    BY DEF Held, Conversations
  <2>2. Own \in Conversations
    BY DEF Own, Conversations
  <2>3. /\ session' \in Conversations /\ resumed' \in Conversations
        /\ pc' \in {"ok", "failed"} \union Limits
    BY <1>3, <2>1, <2>2 DEF RunWorker, WorkerClaude, WorkerThread, GuardOpencode,
       RunGeneric, RunThread, Ends
  <2>4. /\ owner' = ref /\ report' \in {None} \union Reports
        /\ UNCHANGED <<life, role, ref, n, retry, wait>>
    BY <1>3 DEF RunWorker, Reported
  <2> QED
    BY <2>3, <2>4, Zenon DEF Conversations
<1>4. CASE RunReviewer
  BY <1>4 DEF RunReviewer, Ends, Reported
<1>5. CASE Return \/ GiveUp
  BY <1>5 DEF Return, GiveUp, conversation
<1>6. CASE Sleep
  <2>1. PICK now \in Moments :
          wait' = IF NamedWait(now) = None THEN Backoff(n + 1) ELSE NamedWait(now)
    BY <1>6 DEF Sleep
  <2>2. report \in Reports /\ n + 1 \in 0..RetryMax
    BY <1>6 DEF Sleep, RetriesLeft, Refused
  <2>3. Backoff(n + 1) \in Nat
    <3>1. n + 1 \in Nat \ {0}
      BY <2>2
    <3>2. Backoff(n + 1) \in 0..MaxWait
      BY <3>1, BackoffDoubles, Zenon
    <3> QED
      BY <3>2
  <2>4. NamedWait(now) \in Nat \union {None}
    BY <2>2, NamedWaitIsNat
  <2>5. wait' \in Nat
    BY <2>1, <2>3, <2>4
  <2> QED
    BY <1>6, <2>2, <2>5 DEF Sleep, conversation
<1>7. CASE Wake
  BY <1>7 DEF Wake, conversation
<1>8. CASE UNCHANGED vars
  BY <1>8 DEF vars, conversation
<1> QED
  BY <1>1, <1>2, <1>3, <1>4, <1>5, <1>6, <1>7, <1>8 DEF Next, InCall

\* The variables keep their types; in particular a sleep is a number of seconds,
\* whatever was reported and however often the call was refused.
THEOREM TypeCorrect == Spec => []TypeOK
<1>1. Init => TypeOK /\ Refused /\ WaitHonoured
  BY BoundsAssumption DEF Init, TypeOK, Refused, WaitHonoured, Limits
<1>2. TypeOK /\ Refused /\ WaitHonoured /\ [Next]_vars
        => (TypeOK /\ Refused /\ WaitHonoured)'
  BY TypeNext, WaitNext
<1> QED
  BY <1>1, <1>2, PTL DEF Spec
-----------------------------------------------------------------------------
\* How much of a call is left: retries, and steps of this attempt.
StepsLeft ==
  CASE pc = "asleep" -> 4
    [] pc = "attempt" -> 3
    [] pc \in Limits -> 2
    [] pc \in {"ok", "failed"} -> 1
    [] OTHER -> 0

Left == <<RetryMax - n, StepsLeft>>

Descends == <<Left', Left>> \in Below(2)

LeftIsNat == RetryMax - n \in Nat /\ StepsLeft \in Nat

LEMMA LeftInTypeOK == TypeOK => LeftIsNat
<1> SUFFICES ASSUME TypeOK PROVE LeftIsNat
  OBVIOUS
<1>1. StepsLeft \in Nat
  BY DEF StepsLeft
<1>2. RetryMax - n \in Nat
  BY BoundsAssumption DEF TypeOK
<1> QED
  BY <1>1, <1>2 DEF LeftIsNat

LEMMA CallDescends ==
  TypeOK /\ LeftIsNat /\ LeftIsNat' /\ pc \notin {"idle", "aborted"} /\ Next => Descends
<1> SUFFICES ASSUME TypeOK, LeftIsNat, LeftIsNat', pc \notin {"idle", "aborted"}, Next
             PROVE  Descends
  OBVIOUS
<1>0. n \in 0..RetryMax
  BY DEF TypeOK
<1> SUFFICES \/ RetryMax - n' < RetryMax - n
             \/ RetryMax - n' = RetryMax - n /\ StepsLeft' < StepsLeft
  BY BelowTwo DEF Descends, Left, LeftIsNat
<1> USE BoundsAssumption DEF StepsLeft, Limits
<1>1. CASE RunWorker
  BY <1>0, <1>1 DEF RunWorker, WorkerClaude, WorkerThread, GuardOpencode, RunGeneric,
     RunThread, Ends
<1>2. CASE RunReviewer
  BY <1>0, <1>2 DEF RunReviewer, Ends
<1>3. CASE Return \/ GiveUp
  BY <1>0, <1>3 DEF Return, GiveUp
<1>4. CASE Sleep
  BY <1>0, <1>4 DEF Sleep
<1>5. CASE Wake
  BY <1>0, <1>5 DEF Wake
<1>6. CASE BeginStage
  BY <1>6 DEF BeginStage
<1>7. ASSUME NEW as \in {"worker", "reviewer"}, Begin(as) PROVE FALSE
  BY <1>7 DEF Begin
<1> QED
  BY <1>1, <1>2, <1>3, <1>4, <1>5, <1>6, <1>7 DEF Next, InCall

\* Until a call has returned or is given up, every step leaves less of it, in an
\* order without endless descents (NoEndlessDescent): no mix of limits, sleeps and
\* attempts goes on for ever.
THEOREM CallIsFinite == Spec => [][pc \notin {"idle", "aborted"} => Descends]_vars
<1>1. TypeOK /\ LeftIsNat /\ LeftIsNat' /\ [Next]_vars
        => [pc \notin {"idle", "aborted"} => Descends]_vars
  BY CallDescends
<1> QED
  BY <1>1, LeftInTypeOK, TypeCorrect, PTL DEF Spec
=============================================================================
