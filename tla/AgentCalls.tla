---------------------------- MODULE AgentCalls -----------------------------
(***************************************************************************)
(* Calls to agents: agent_call of ratelimit.py, which retries what a rate  *)
(* limit refused after waiting for its reset, around run_worker and        *)
(* run_reviewer of agents.py, which keep the one worker conversation.      *)
(*                                                                         *)
(* Conversations go by the ref and the life they were opened in: a life is *)
(* a stage as it was begun by one attempt.  Times are in seconds; a report *)
(* of a reset time is taken apart by what it says, not by its wording, and *)
(* days with a change of the clock are left out.                           *)
(***************************************************************************)
EXTENDS Integers

CONSTANTS
  Refs,           \* agent refs: <<CLI, slot>>
  MaxLives,       \* bound on begun stages and attempts
  RetryMax,       \* RETRY_MAX
  BaseWait,       \* RETRY_BASE_WAIT
  MaxWait,        \* RETRY_MAX_WAIT
  MaxResetWait,   \* RETRY_MAX_RESET_WAIT
  Moments,        \* times of day at which an attempt fails
  Reports,        \* what a limited attempt says of its reset, see TypeOfReport
  None            \* no value

ASSUME BoundsAssumption ==
  /\ MaxLives \in Nat \ {0} /\ RetryMax \in Nat
  /\ BaseWait \in Nat /\ MaxWait \in Nat /\ MaxResetWait \in Nat

Minute == 60
Hour == 60 * Minute
Day == 24 * Hour

\* after: the delay an agent names; epoch: its reset time, from now; text: the
\* wording, <<format, ...>>, with an hour, a minute and PM; with a date, from
\* now; or with a number, its unit and the seconds, rounded up, that the digits
\* after its point are worth (or what is left of the milliseconds).
Units == {"ms", "s", "m", "h"}

\* What one of a unit is worth, and 1000 milliseconds.
Seconds(unit) == CASE unit = "m" -> Minute [] unit = "h" -> Hour [] OTHER -> 1

TypeOfText(text) ==
  /\ text[1] \in {"none", "clock", "clockAt", "in", "on"}
  /\ text[1] \in {"clock", "clockAt"} =>
       text[2] \in Nat /\ text[3] \in Nat /\ text[4] \in BOOLEAN
  /\ text[1] = "in" =>
       text[2] \in Nat /\ text[3] \in Units /\ text[4] \in 0..Seconds(text[3])
  /\ text[1] = "on" => text[2] \in Int

TypeOfReport ==
  \A report \in Reports :
    /\ DOMAIN report = {"after", "epoch", "text"}
    /\ report.after \in Nat \union {None} /\ report.epoch \in Int \union {None}
    /\ TypeOfText(report.text)
ASSUME ReportsAssumption == TypeOfReport /\ Moments \subseteq 0..(Day - 1)
ASSUME NoneAssumption == None \notin Int

CLI(ref) == ref[1]
\* What the JSON null of a missing session_id reads as.
Null == <<<<"null", "null">>, 0>>

VARIABLES
  life,     \* the stage that was begun last
  session,  \* AgentSession.worker_session: a conversation, Null or None
  owner,    \* AgentSession.owner
  pc,       \* where agent_call is
  role,     \* "worker" or "reviewer"
  ref,      \* whom is called
  n,        \* retries so far
  retry,    \* RETRY_ON_LIMIT
  report,   \* of the limit that refused the attempt
  wait,     \* what is slept before the retry
  due,      \* history: time to the reset as the agent means it, or None
  resumed   \* history: the conversation the last attempt was to resume

conversation == <<life, session, owner, resumed>>
vars == <<conversation, pc, role, ref, n, retry, report, wait, due>>

Init ==
  /\ life = 1 /\ session = None /\ owner = None /\ resumed = None
  /\ pc = "idle" /\ role = "worker" /\ ref \in Refs
  /\ n = 0 /\ retry \in BOOLEAN
  /\ report = None /\ wait = 0 /\ due = None

-----------------------------------------------------------------------------
\* wait_until_epoch: 120 s after the reset; 30 days are a parsing artefact.
Sane(seconds) == IF seconds > 30 * Day THEN None ELSE seconds

EpochWait(epoch) == IF epoch + 120 < 0 THEN None ELSE Sane(epoch + 120)

\* Mutation: noon and midnight are twelve hours off.
Hour24Plain(hour12, pm) == IF pm THEN hour12 + 12 ELSE hour12

\* _hour24.
Hour24(hour12, pm) == IF pm THEN (hour12 % 12) + 12 ELSE hour12 % 12

\* _next_clock_epoch, from the time of day now: today if it is still to come.
NextClock(now, hour12, minute, pm) ==
  LET target == Hour24(hour12, pm) * Hour + minute * Minute
  IN IF target <= now THEN target + Day - now ELSE target - now

\* parse_reset_wait, for a text in one of its formats or in none.
ClockWait(now, text, buffer) ==
  IF text[2] \in 1..12 /\ text[3] \in 0..59
    THEN Sane(NextClock(now, text[2], text[3], text[4]) + buffer) ELSE None

\* _RELATIVE skips the digits after the point; any milliseconds are one second.
Counted(number, unit) == IF unit = "ms" THEN 1 ELSE number * Seconds(unit)

TextWait(now, text) ==
  CASE text[1] = "clock" -> ClockWait(now, text, 120)
    [] text[1] = "in" -> Sane(Counted(text[2], text[3]) + 30)
    [] text[1] = "on" -> IF text[2] <= 0 THEN 30 ELSE Sane(text[2] + 30)
    [] text[1] = "clockAt" -> ClockWait(now, text, 30)
    [] OTHER -> None

\* A named delay beats a reported reset time, which beats the wording.
NamedWait(now) ==
  IF report.after # None THEN report.after
  ELSE IF report.epoch # None /\ EpochWait(report.epoch) # None
    THEN EpochWait(report.epoch)
    ELSE TextWait(now, report.text)

TooFar(named) == named # None /\ named > MaxResetWait

\* 1 << k.
Shifted[k \in Nat] == IF k = 0 THEN 1 ELSE 2 * Shifted[k - 1]

Backoff(tries) ==
  LET doubled == BaseWait * Shifted[tries - 1]
  IN IF doubled < MaxWait THEN doubled ELSE MaxWait

\* How a reader takes the report: a clock shows a time once a day.
Meant(now) ==
  LET text == report.text
      hour == IF text[2] = 12 THEN 0 ELSE text[2]
      clock == (hour + (IF text[4] THEN 12 ELSE 0)) * Hour + text[3] * Minute
  IN IF report.after # None THEN report.after
     ELSE IF report.epoch # None /\ EpochWait(report.epoch) # None
       THEN report.epoch
     ELSE CASE text[1] = "on" -> text[2]
            [] text[1] = "in" ->
                 (IF text[3] = "ms" THEN text[2] \div 1000
                                    ELSE text[2] * Seconds(text[3])) + text[4]
            [] text[1] \in {"clock", "clockAt"} ->
                 IF text[2] \in 1..12 /\ text[3] \in 0..59
                   THEN IF clock = now THEN Day ELSE (clock - now) % Day
                   ELSE None
            [] OTHER -> None

-----------------------------------------------------------------------------
\* begin_stage, of this process or of one that resumes the run.
BeginStage ==
  /\ pc \in {"idle", "aborted"} /\ life < MaxLives
  /\ life' = life + 1 /\ pc' = "idle"
  /\ session' = None /\ owner' = None
  /\ UNCHANGED <<resumed, role, ref, n, retry, report, wait, due>>

\* agent_call is entered.
Begin(as) ==
  /\ pc = "idle"
  /\ ref' \in Refs
  /\ role' = as /\ n' = 0 /\ pc' = "attempt"
  /\ UNCHANGED <<conversation, retry, report, wait, due>>

\* Mutation: the conversation of another owner is kept.
HeldByAnyone == session

\* run_worker: another owner's conversation is discarded.
Held == IF owner = ref THEN session ELSE None

Own == <<ref, life>>

\* An attempt ends: rc is 0, it failed, or a rate limit refused it, of a kind
\* that clears or not.
Limits == {"limited", "hopeless"}
Ends == pc' \in {"ok", "failed"} \union Limits

\* _worker_claude: a failure or unparsable output leaves the session, an
\* envelope sets it, with the word null for a missing id.
WorkerClaude ==
  /\ CLI(ref) = "claude"
  /\ resumed' = Held
  /\ \/ session' = Held /\ Ends
     \/ session' \in {Own, Null} /\ pc' = "ok"
     \/ session' = None /\ pc' \in {"failed"} \union Limits

\* _worker_codex, _worker_agy and _worker_opencode: an id replaces the last.
RunThread(given) ==
  /\ resumed' = given
  /\ session' \in {given, Own}
  /\ Ends

WorkerThread ==
  /\ CLI(ref) \in {"codex", "agy", "opencode"}
  /\ RunThread(Held)

\* OpenCode 2 looks the conversation up first: one that is gone is dropped, a
\* check without an answer fails the call.
GuardOpencode ==
  /\ CLI(ref) = "opencode2"
  /\ \/ RunThread(Held)
     \/ Held # None /\ RunThread(None)
     \/ Held # None /\ resumed' = None /\ session' = Held /\ pc' = "failed"

RunGeneric ==
  /\ CLI(ref) = "custom"
  /\ resumed' = None /\ session' = Held
  /\ Ends

\* What the agent says when it was refused; of no interest otherwise.
Reported == report' \in IF pc' = "limited" THEN Reports ELSE {None}

RunWorker ==
  /\ pc = "attempt" /\ role = "worker"
  /\ owner' = ref
  /\ WorkerClaude \/ WorkerThread \/ GuardOpencode \/ RunGeneric
  /\ Reported
  /\ UNCHANGED <<life, role, ref, n, retry, wait, due>>

\* Every reviewer's call is a conversation of its own.
RunReviewer ==
  /\ pc = "attempt" /\ role = "reviewer"
  /\ resumed' = None
  /\ Ends
  /\ Reported
  /\ UNCHANGED <<life, session, owner, role, ref, n, retry, wait, due>>

\* The call is over; a failure that is no rate limit is the caller's business.
Return ==
  /\ pc \in {"ok", "failed"}
  /\ pc' = "idle"
  /\ UNCHANGED <<conversation, role, ref, n, retry, report, wait, due>>

\* Mutation: one retry more.
RetriesLeftOnceMore == n <= RetryMax

RetriesLeft == n < RetryMax

\* QUOTA_ABORT_RC: no wait can clear the limit, retries are off or used up, or
\* the reset is too far away.
GiveUp ==
  /\ \/ pc = "hopeless"
     \/ pc = "limited" /\ (~retry \/ ~RetriesLeft)
     \/ pc = "limited" /\ \E now \in Moments : TooFar(NamedWait(now))
  /\ pc' = "aborted"
  /\ UNCHANGED <<conversation, role, ref, n, retry, report, wait, due>>

\* Mutation: what was slept does not count as a retry.
SleepUncounted ==
  /\ pc = "limited" /\ retry /\ RetriesLeft
  /\ \E now \in Moments :
       LET named == NamedWait(now)
       IN /\ ~TooFar(named)
          /\ wait' = IF named = None THEN Backoff(n + 1) ELSE named
          /\ due' = Meant(now)
  /\ n' = n /\ pc' = "asleep"
  /\ UNCHANGED <<conversation, role, ref, retry, report>>

Sleep ==
  /\ pc = "limited" /\ retry /\ RetriesLeft
  /\ \E now \in Moments :
       LET named == NamedWait(now)
       IN /\ ~TooFar(named)
          /\ wait' = IF named = None THEN Backoff(n + 1) ELSE named
          /\ due' = Meant(now)
  /\ n' = n + 1 /\ pc' = "asleep"
  /\ UNCHANGED <<conversation, role, ref, retry, report>>

Wake ==
  /\ pc = "asleep"
  /\ pc' = "attempt" /\ report' = None /\ wait' = 0 /\ due' = None
  /\ UNCHANGED <<conversation, role, ref, n, retry>>

InCall == RunWorker \/ RunReviewer \/ Return \/ GiveUp \/ Sleep \/ Wake

Next == BeginStage \/ Begin("worker") \/ Begin("reviewer") \/ InCall

Spec == Init /\ [][Next]_vars

\* Agents end and sleeps are over some time.
FairSpec == Spec /\ WF_vars(InCall)

-----------------------------------------------------------------------------
TypeOK ==
  /\ life \in 1..MaxLives
  /\ session \in {None, Null} \union (Refs \X (1..MaxLives))
  /\ owner \in {None} \union Refs
  /\ resumed \in {None, Null} \union (Refs \X (1..MaxLives))
  /\ pc \in {"idle", "attempt", "ok", "failed", "asleep", "aborted"}
           \union Limits
  /\ role \in {"worker", "reviewer"} /\ ref \in Refs
  /\ n \in 0..RetryMax /\ retry \in BOOLEAN
  /\ report \in {None} \union Reports
  /\ wait \in Nat

\* An attempt, the first or a retry, resumes at most a conversation that the
\* same ref opened in the same stage, whoever was called in between; or, for
\* Claude only, the one by the name null.
ResumesOwnConversation ==
  pc \in {"ok", "failed", "asleep"} \union Limits =>
    \/ resumed \in {None, <<ref, life>>}
    \/ resumed = Null /\ CLI(ref) = "claude"

\* What parse_reset_wait does not count of a relative wording that decides: the
\* digits after the point, and milliseconds altogether.
Uncounted(meant) ==
  IF /\ report.after = None
     /\ report.epoch = None \/ EpochWait(report.epoch) = None
     /\ report.text[1] = "in"
    THEN IF report.text[3] = "ms" THEN meant ELSE report.text[4]
    ELSE 0

\* A retry never begins before the reset the agent has named, whatever the time
\* of day, but for what is Uncounted (after "try again in 1.5 hours" it begins in
\* an hour and 30 s), and no sleep is longer than the settings allow.  (A reset
\* in a month or later is taken for an artefact.)
WaitHonoured ==
  pc = "asleep" =>
    /\ due # None /\ due < 29 * Day => wait >= due - Uncounted(due)
    /\ wait <= MaxResetWait \/ wait <= MaxWait
    /\ due = None => wait <= MaxWait

\* However often it is refused, a call ends.
CallEnds == pc = "attempt" ~> pc \in {"ok", "failed", "aborted"}
=============================================================================
