------------------------------ MODULE ChannelSend ----------------------------
(***************************************************************************)
(* One delivery inside a channel's Send: requests to the service, the      *)
(* bounded retries a channel makes itself, and what it reports to the      *)
(* queue, whose deadline bounds all of it.  Seconds are the code's.        *)
(***************************************************************************)
EXTENDS Integers, Sequences

CONSTANTS
  Kinds,    \* channels tried: a subset of the five below
  Numbers,  \* bound: recipients of the voice channel
  Times,    \* bound: how long a request takes
  Advised   \* bound: what Retry-After says; 0 when it says nothing

VARIABLES
  kind,
  at,        \* "request", "wait", "done"
  to,        \* the recipient being served
  attempt,   \* the loop's counter
  broken,    \* serverErrors
  wait,      \* the delay it sleeps
  elapsed,   \* seconds since the queue's deadline was set
  accepted, failures, skipped, \* dialResult
  rung       \* ghost: recipient -> requests the service acted on

vars == <<kind, at, to, attempt, broken, wait, elapsed, accepted, failures, skipped, rung>>

Deadline == 60      \* channel.DefaultSendTimeout
ClientTimeout == 20
Probe == 3          \* ntfy's reachabilityProbe

Ladder ==  \* retryBackoff
  [ntfy |-> <<2, 8, 20>>, pushover |-> <<1, 4, 10>>, webhook |-> <<1, 4, 10>>,
   voice |-> <<2, 6>>, email |-> <<>>]
MaxRetryAfter == [ntfy |-> 30, pushover |-> 30, webhook |-> 15, voice |-> 30, email |-> 0]
MaxServerErrorRetries == 1

Recipients(k) == 1 .. (IF k = "voice" THEN Numbers ELSE 1)

Init ==
  /\ kind \in Kinds /\ at = "request" /\ to = 1 /\ attempt = 0 /\ broken = 0 /\ wait = 0
  /\ elapsed = 0 /\ accepted = {} /\ failures = {} /\ skipped = {}
  /\ rung = [n \in Recipients(kind) |-> 0]

\* What comes of a request.  A refusal and a rate limit are not acted on; an answer
\* of the 2xx class may not be the service's, and an error may hide an acceptance.
Outcomes == {"ok", "unreadable", "limited", "broken", "refused", "lost"}
MayLand == {"ok", "unreadable", "broken", "lost"}
MustLand == {"ok"}

\* What each channel's attempt makes of it.  Only Pushover and Twilio answer with
\* something to read.
Ntfy(o) == CASE o \in {"ok", "unreadable"} -> "accepted" [] o = "limited" -> "retry" [] OTHER -> "failed"
Webhook(o) ==
  CASE o \in {"ok", "unreadable"} -> "accepted" [] o \in {"limited", "broken"} -> "retry" [] OTHER -> "failed"
Pushover(o) == CASE o = "ok" -> "accepted" [] o \in {"limited", "broken"} -> "retry" [] OTHER -> "failed"
Email(o) == IF o \in {"ok", "unreadable"} THEN "accepted" ELSE "failed"

\* Mutant: a server that broke is asked as often as one that is busy.
RetryAll(o, before) == Pushover(o)

\* A call that broke may have been placed, and is dialled once more only.
Voice(o, before) ==
  CASE o = "ok" -> "accepted"
    [] o = "limited" \/ (o = "broken" /\ before < MaxServerErrorRetries) -> "retry"
    [] OTHER -> "failed"

Verdict(o) ==
  CASE kind = "ntfy" -> Ntfy(o) [] kind = "webhook" -> Webhook(o) [] kind = "pushover" -> Pushover(o)
    [] kind = "email" -> Email(o) [] kind = "voice" -> Voice(o, broken)

Delay(k, o, advised) ==
  IF advised > 0 /\ advised <= MaxRetryAfter[k] /\ (k = "voice" => o = "limited")
    THEN advised ELSE Ladder[k][attempt + 1]

FitsInBudget(now, d) == now + d < Deadline

\* Mutant: the recipients left over are gone without a word.
NextForgets(now) ==
  IF to = Len(rung) \/ ~FitsInBudget(now, 0)
    THEN at' = "done" /\ UNCHANGED <<to, attempt, broken, skipped>>
    ELSE at' = "request" /\ to' = to + 1 /\ attempt' = 0 /\ broken' = 0 /\ UNCHANGED skipped

\* dial: the next recipient, unless the time is used up.
NextRecipient(now) ==
  IF to = Len(rung) THEN at' = "done" /\ UNCHANGED <<to, attempt, broken, skipped>>
  ELSE IF FitsInBudget(now, 0)
    THEN at' = "request" /\ to' = to + 1 /\ attempt' = 0 /\ broken' = 0 /\ UNCHANGED skipped
    ELSE at' = "done" /\ skipped' = to + 1 .. Len(rung) /\ UNCHANGED <<to, attempt, broken>>

GivesUp(now) == failures' = failures \cup {to} /\ NextRecipient(now) /\ UNCHANGED <<wait, accepted>>

\* What place, post and publish make of what came of it.
Conclude(o, now, d) ==
  IF Verdict(o) = "accepted"
    THEN accepted' = accepted \cup {to} /\ NextRecipient(now) /\ UNCHANGED <<wait, failures>>
  ELSE IF attempt < Len(Ladder[kind]) /\ Verdict(o) = "retry" /\ FitsInBudget(now, d)
    THEN /\ at' = "wait" /\ wait' = d
         /\ broken' = broken + (IF o = "broken" THEN 1 ELSE 0)
         /\ UNCHANGED <<to, attempt, accepted, failures, skipped>>
  ELSE GivesUp(now)

\* attempt.
Request ==
  /\ at = "request"
  /\ \E t \in Times, outcome \in Outcomes, advised \in Advised :
       LET over == elapsed + t >= Deadline \/ t >= ClientTimeout
           o    == IF over THEN "lost" ELSE outcome
           now  == (IF elapsed + t > Deadline THEN Deadline ELSE elapsed + t)
                   + (IF kind = "ntfy" /\ o = "lost" THEN Probe ELSE 0)
       IN  /\ over => outcome = "lost"
           /\ outcome \notin {"limited", "broken"} => advised = 0
           /\ elapsed' = now
           /\ \E landed \in {(o \in MustLand), (o \in MayLand)} :
                rung' = [rung EXCEPT ![to] = @ + (IF landed THEN 1 ELSE 0)]
           /\ Conclude(o, now, Delay(kind, o, advised))
  /\ UNCHANGED kind

Sleep ==
  /\ at = "wait" /\ at' = "request" /\ elapsed' = elapsed + wait /\ attempt' = attempt + 1
  /\ UNCHANGED <<kind, to, broken, wait, accepted, failures, skipped, rung>>

\* Told, or why not.
Done == at = "done" /\ UNCHANGED vars

Next == Request \/ Sleep \/ Done

Spec == Init /\ [][Next]_vars

-----------------------------------------------------------------------------
\* Properties.

TypeOK ==
  /\ at \in {"request", "wait", "done"} /\ to \in DOMAIN rung
  /\ attempt \in 0 .. Len(Ladder[kind]) /\ elapsed \in 0 .. Deadline + Probe

\* No retry rings a telephone, or posts to a receiver, more often than the channel
\* allows: twice for a call, whose acceptance an error may hide.
RungAtMostTwice == kind = "voice" => \A n \in DOMAIN rung : rung[n] <= 2

\* When it is over, everybody is accounted for: called, refused, or named as never
\* attempted.
EverybodyAccounted == at = "done" => accepted \cup failures \cup skipped = DOMAIN rung
=============================================================================
