------------------------------- MODULE AlertText -----------------------------
(***************************************************************************)
(* What the channels make of an alert: which of its parts each carries,    *)
(* and what is cut where the service has a limit.  A text is its length in *)
(* characters, and the acknowledgement link is either carried whole, where *)
(* it can be tapped or copied, or not at all.                              *)
(***************************************************************************)
EXTENDS Integers

CONSTANTS
  Lengths,   \* bound: lengths of the title, the entity's name and the body
  Links,     \* bound: lengths of the acknowledgement link; 0 when there is none
  Repeats    \* bound: how often the incident was alerted before

VARIABLES alert, sent

vars == <<alert, sent>>

Severities == {"critical", "high", "medium", "low", "info"}
\* The characters of the link that ntfy's action must quote.
Marks == {"plain", "comma", "both quotes"}
Nothing == [channel |-> "none"]

Init ==
  /\ alert \in [title : Lengths, entity : Lengths, body : Lengths, link : Links, marks : Marks,
                repeat : Repeats, severity : Severities, arrival : BOOLEAN, open : BOOLEAN]
  /\ sent = Nothing

Larger(a, b) == IF a >= b THEN a ELSE b

-----------------------------------------------------------------------------
\* What the text channels share.

\* truncateRunes.
Cut(length, limit, marker) ==
  IF limit <= 0 THEN 0 ELSE IF length <= limit THEN length ELSE Larger(limit, limit - marker)

Digits(n) == IF n >= 10 THEN 2 ELSE 1
TitleOf(a) == IF a.title > 0 THEN a.title ELSE IF a.entity > 0 THEN a.entity ELSE 11

\* whenLine: "<entity> received 03:14:07 GMT".
WhenLine(a) == (IF a.entity > 0 THEN a.entity + 1 ELSE 0) + (IF a.arrival THEN 8 ELSE 2) + 13

Body(a) ==
  (IF a.body > 0 THEN a.body + 2 ELSE 0) + WhenLine(a) + (IF a.open THEN 16 ELSE 0)

-----------------------------------------------------------------------------
\* Pushover refuses what is longer than its limits.

MaxMessage == 1024
MaxTitle == 250
MaxURL == 512
MinBody == 80
PushoverMarker == 12

PushoverTitle(a) ==
  LET marker == IF a.repeat > 0 THEN 12 + Digits(a.repeat) ELSE 0
  IN  [length |-> Cut(TitleOf(a), MaxTitle - marker, PushoverMarker) + marker, reminder |-> a.repeat]

\* ackTrailer, for a link the url field cannot carry.
AckTrailer(a) ==
  LET t == a.link + 15 IN IF a.link = 0 \/ t > MaxMessage - MinBody THEN 0 ELSE t

\* Mutant: the message is cut once it is complete.
PushoverCutLast(a) ==
  LET field   == a.link > 0 /\ a.link <= MaxURL
      trailer == IF field THEN 0 ELSE AckTrailer(a)
  IN  [channel |-> "pushover", title |-> PushoverTitle(a),
       message |-> Cut(Body(a) + trailer, MaxMessage, PushoverMarker),
       link |-> field \/ (trailer > 0 /\ Body(a) + trailer <= MaxMessage)]

\* The link claims its room first, and the prose has what is left.
Pushover(a) ==
  LET field   == a.link > 0 /\ a.link <= MaxURL
      trailer == IF field THEN 0 ELSE AckTrailer(a)
  IN  [channel |-> "pushover", title |-> PushoverTitle(a),
       message |-> Cut(Body(a), MaxMessage - trailer, PushoverMarker) + trailer,
       link |-> field \/ trailer > 0]

\* Priority 2 would start a ladder of Pushover's own.
PushoverPriority(a) ==
  CASE a.severity \in {"critical", "high"} -> 1 [] a.severity = "medium" -> 0 [] OTHER -> -1

-----------------------------------------------------------------------------
\* ntfy, email and the webhook have no limits of their own.

Title(a) == [length |-> TitleOf(a) + (IF a.repeat > 0 THEN 12 + Digits(a.repeat) ELSE 0),
             reminder |-> a.repeat]

\* quoteActionValue: a value with both kinds of quote cannot be an action.
AckAction(a) == a.link > 0 /\ a.marks # "both quotes"

Ntfy(a) ==
  [channel |-> "ntfy", title |-> Title(a),
   message |-> Body(a) + (IF a.link > 0 /\ ~AckAction(a) THEN a.link + 15 ELSE 0),
   link |-> a.link > 0]

\* "urgent" is what a telephone on do-not-disturb lets through.
NtfyPriority(a) ==
  CASE a.severity = "critical" -> "urgent" [] a.severity \in {"high", "medium"} -> "high"
    [] a.severity = "low" -> "default" [] OTHER -> "low"

EmailSubject(a) == [length |-> TitleOf(a) + (IF a.repeat > 0 THEN 12 + Digits(a.repeat) ELSE 0) + 11,
                    reminder |-> a.repeat]

\* The link is in the plain part as in the other.
Email(a) ==
  [channel |-> "email", title |-> EmailSubject(a), message |-> Body(a) + a.link, link |-> a.link > 0]

Webhook(a) ==
  [channel |-> "webhook", title |-> [length |-> a.title, reminder |-> a.repeat],
   message |-> a.body, link |-> a.link > 0]

-----------------------------------------------------------------------------
\* The voice channel says it in one breath, and carries no link.

MaxSpoken == 240
SpokenMarker == 10
MaxSpokenTitle == 120
MaxSpokenEntity == 60

SpokenSeverity(a) ==
  CASE a.severity = "critical" -> 8 [] a.severity = "high" -> 13 [] a.severity = "medium" -> 7
    [] a.severity = "low" -> 12 [] OTHER -> 15

SpokenWhen(a) == IF a.arrival THEN 18 ELSE 12

\* A clause and the space before it.
Clause(length) == IF length = 0 THEN 0 ELSE length + 2

\* Mutant: only the script as a whole is cut.
ScriptUncut(a) ==
  12 + Clause(SpokenSeverity(a)) + Clause(a.title) + Clause(IF a.title = 0 THEN 0 ELSE a.entity)
  + 1 + SpokenWhen(a)

\* script, up to and including the time: what a listener needs to decide.
Script(a) ==
  12 + Clause(SpokenSeverity(a)) + Clause(Cut(a.title, MaxSpokenTitle, SpokenMarker))
  + Clause(Cut(IF a.title = 0 THEN 0 ELSE a.entity, MaxSpokenEntity, SpokenMarker))
  + 1 + SpokenWhen(a)

Reminder(a) == IF a.repeat > 0 THEN 11 + Digits(a.repeat) ELSE 0

Voice(a) ==
  LET whole == Script(a) + Reminder(a)
  IN  [channel |-> "voice", title |-> [length |-> 0, reminder |-> a.repeat],
       message |-> Cut(whole, MaxSpoken, SpokenMarker), link |-> FALSE,
       timed |-> whole <= MaxSpoken \/ Script(a) <= MaxSpoken - SpokenMarker]

Send ==
  /\ sent = Nothing
  /\ sent' \in {Pushover(alert), Ntfy(alert), Email(alert), Webhook(alert), Voice(alert)}
  /\ UNCHANGED alert

Next == Send

Spec == Init /\ [][Next]_vars

-----------------------------------------------------------------------------
\* Properties.

TypeOK == alert.severity \in Severities /\ PushoverPriority(alert) \in -1 .. 1

\* Every channel a person acknowledges from carries the whole link or none, and the
\* text keeps within the service's limits: a cut link is one that fails when tapped.
\* Pushover has none only where the link would leave no room for the alert.
LinkWithinLimits ==
  sent.channel \in {"pushover", "ntfy", "email", "webhook"} =>
    /\ sent.link = (alert.link > 0 /\ (sent.channel = "pushover" => alert.link <= MaxMessage - MinBody - 15))
    /\ sent.channel = "pushover" => sent.message <= MaxMessage /\ sent.title.length <= MaxTitle

\* "a very long camera name cannot swallow the severity and the time".
TimeIsSpoken == sent.channel = "voice" => sent.timed
=============================================================================
