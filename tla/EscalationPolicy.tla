-------------------------- MODULE EscalationPolicy --------------------------
(***************************************************************************)
(* When an incident should next be alerted, and through which channels:    *)
(* the pure functions of internal/escalate/policy.go.                      *)
(*                                                                         *)
(* A policy is a ladder of stages, each with the age at which it is due    *)
(* and the channels it names, and what happens after the last of them.     *)
(* Stages are numbered from 1.  An answer the code returns with a flag is  *)
(* a set here: empty, or holding the one answer.                           *)
(***************************************************************************)
EXTENDS Incident, Sequences

CONSTANT Channels

Stages == [after : Nat, channels : SUBSET Channels \ {{}}]

Policies == [stages        : Seq(Stages),
             repeatEvery   : Nat,
             giveUpAfter   : Nat,
             respectsQuiet : BOOLEAN]

\* Validate: a policy that could produce silence during an alarm is refused.
Valid(pol, severity) ==
  /\ pol.stages # << >>
  /\ \A i, j \in DOMAIN pol.stages :
       i < j => pol.stages[i].after < pol.stages[j].after
  /\ severity = Critical => ~pol.respectsQuiet /\ pol.giveUpAfter = 0

-----------------------------------------------------------------------------

Rung(pol, inc, s) == inc.openedAt + pol.stages[s].after

\* The stages scheduled strictly after the last successful alert.
StagesAhead(pol, inc) ==
  {s \in DOMAIN pol.stages : Rung(pol, inc, s) > inc.lastAlertAt}

\* Empty, or the one least (greatest) element.
Least(S) == {s \in S : \A t \in S : s <= t}
Greatest(S) == {s \in S : \A t \in S : t <= s}

\* Whether the incident still wants anybody's attention by the ladder.
Escalates(inc) == ~Terminal(inc) /\ ~Acknowledged(inc) /\ ~inc.resolved

NextDue(pol, inc) ==
  IF ~Escalates(inc) THEN {}
  ELSE IF ~Alerted(inc) THEN {[at |-> Rung(pol, inc, 1), stage |-> 1]}
  ELSE IF StagesAhead(pol, inc) # {}
    THEN {[at |-> Rung(pol, inc, s), stage |-> s] : s \in Least(StagesAhead(pol, inc))}
  ELSE IF pol.repeatEvery = 0 THEN {}
  ELSE {[at |-> inc.lastAlertAt + pol.repeatEvery, stage |-> Len(pol.stages)]}

HighestRungDue(pol, inc, now) ==
  Greatest({1} \cup {s \in DOMAIN pol.stages : Rung(pol, inc, s) <= now})

ChannelsUpTo(pol, stage) ==
  UNION {pol.stages[s].channels : s \in 1 .. stage}

\* Mutant: the rung of NextDue, which is the first until a delivery succeeds.
DueAtFirstRung(pol, inc, now) ==
  {[stage |-> d.stage, channels |-> pol.stages[d.stage].channels]
     : d \in {x \in NextDue(pol, inc) : x.at <= now}}

\* While nobody has been reached the rung is decided by the incident's age and
\* every channel up to it is tried; after that the due stage names them.
DueNow(pol, inc, now) ==
  LET due == {d \in NextDue(pol, inc) : d.at <= now}
  IN  IF due = {} THEN {}
      ELSE IF Alerted(inc)
        THEN {[stage |-> d.stage, channels |-> pol.stages[d.stage].channels] : d \in due}
        ELSE {[stage |-> s, channels |-> ChannelsUpTo(pol, s)]
                : s \in HighestRungDue(pol, inc, now)}

\* Mutant: what is resolved is never delivered.
NothingOwed(pol, inc) == {}

\* A condition that cleared before anybody was told is owed one delivery.
OwedFinalDelivery(pol, inc) ==
  IF ~Terminal(inc) /\ Unanswered(inc) /\ ~Alerted(inc)
    THEN {[stage |-> 1, channels |-> ChannelsUpTo(pol, 1)]}
    ELSE {}

\* Mutant: the horizon alone.
GiveUpUntold(pol, inc, now) ==
  /\ pol.giveUpAfter > 0
  /\ ~Terminal(inc)
  /\ ~Acknowledged(inc)
  /\ now - inc.openedAt > pol.giveUpAfter

\* The horizon applies only once somebody has actually been told.
ShouldGiveUp(pol, inc, now) ==
  /\ pol.giveUpAfter > 0
  /\ ~Terminal(inc)
  /\ ~Acknowledged(inc)
  /\ Alerted(inc)
  /\ now - inc.openedAt > pol.giveUpAfter
=============================================================================
