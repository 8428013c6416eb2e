------------------------ MODULE MCIncidentLifecycle -------------------------
(***************************************************************************)
(* Instances of IncidentLifecycle for TLC: what sources may report in each *)
(* run, and the ladders, scaled down from escalate.DefaultPolicies so that *)
(* every rung, repeat and horizon falls inside the bounded clock.          *)
(***************************************************************************)
EXTENDS IncidentLifecycle, TLC

Alarm(key, severity) == [kind |-> "alarm", key |-> key, severity |-> severity]
Clear(key) == [kind |-> "clear", key |-> key, severity |-> 2]
Void(key) == [kind |-> "occurrence", key |-> key, severity |-> 2]
Fault(key) == [kind |-> "fault", key |-> key, severity |-> 2]

AlarmsOnly == {Alarm(k, 2) : k \in Keys}
AlarmsAndClears == AlarmsOnly \cup {Clear(k) : k \in Keys}
Voids == {Void(k) : k \in Keys}
VoidsAndFaults == Voids \cup {Fault(k) : k \in Keys}
\* One key whose occurrences and faults handlers swap, beside one they write plainly.
SwappedBesidePlain == {Void("swapped"), Fault("swapped"), Alarm("plain", 2), Clear("plain")}
RisingAlarms == {Alarm(k, s) : k \in Keys, s \in Severities}
FaultsAndClears == {Fault(k) : k \in Keys} \cup {Clear(k) : k \in Keys}
RisingAlarmsAndClears == RisingAlarms \cup {Clear(k) : k \in Keys}
Everything == RisingAlarms \cup FaultsAndClears

Rungs(ladder) == [s \in DOMAIN ladder |->
                    [after |-> ladder[s][1], channels |-> {ladder[s][2]}]]

\* Critical: never gives up, never held.
CriticalPolicy == [stages |-> Rungs(<<<<0, "ntfy">>, <<2, "email">>>>),
                   repeatEvery |-> 2, giveUpAfter |-> 0, respectsQuiet |-> FALSE]

\* Low: one rung, held in quiet hours, gives up.
LowPolicy == [stages |-> Rungs(<<<<0, "ntfy">>>>),
              repeatEvery |-> 0, giveUpAfter |-> 2, respectsQuiet |-> TRUE]

\* High: two rungs and a repeat, gives up.
HighPolicy == [stages |-> Rungs(<<<<0, "ntfy">>, <<2, "email">>>>),
               repeatEvery |-> 2, giveUpAfter |-> 5, respectsQuiet |-> FALSE]

\* Medium: two rungs, held in quiet hours, gives up.
MediumPolicy == [stages |-> Rungs(<<<<0, "ntfy">>, <<2, "email">>>>),
                 repeatEvery |-> 0, giveUpAfter |-> 4, respectsQuiet |-> TRUE]

LowOnly == 2 :> LowPolicy
LowAndCritical == 2 :> LowPolicy @@ 5 :> CriticalPolicy
MediumOnly == 2 :> MediumPolicy

\* Info, whose first rung is the channel that works, beside a warning whose first
\* rung is one that never does and whose second is that of info.
MailOnly == [stages |-> Rungs(<<<<0, "email">>>>),
             repeatEvery |-> 0, giveUpAfter |-> 2, respectsQuiet |-> TRUE]
PushThenMail == [stages |-> Rungs(<<<<0, "ntfy">>, <<2, "email">>>>),
                 repeatEvery |-> 0, giveUpAfter |-> 4, respectsQuiet |-> TRUE]
MailBesidePush == 2 :> MailOnly @@ 3 :> PushThenMail
HighOnly == 2 :> HighPolicy
NoPolicies == << >>

ThreeIds == 1 .. 3
TwoIds == 1 .. 2
OneId == 1 .. 1
EarlyQuiet == 1 .. 4
NoTimes == {}

Symmetric == Permutations(Handlers)
=============================================================================
