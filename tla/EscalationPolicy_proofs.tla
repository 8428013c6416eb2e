----------------------- MODULE EscalationPolicy_proofs -----------------------
(***************************************************************************)
(* Facts about the operations on an incident and about the ladder, for any *)
(* incident and any policy.                                                *)
(***************************************************************************)
EXTENDS EscalationPolicy, TLAPS

\* Touching an incident changes its version alone.
LEMMA TouchType ==
  ASSUME NEW inc \in Incidents, NEW at \in Nat
  PROVE  Touch(inc, at) \in Incidents /\ Touch(inc, at).id = inc.id
<1>1. \A v \in Nat : /\ [inc EXCEPT !.updatedAt = v] \in Incidents
                      /\ [inc EXCEPT !.updatedAt = v].id = inc.id
  BY DEF Incidents
<1>2. (IF at > inc.updatedAt THEN at ELSE inc.updatedAt) \in Nat
  BY DEF Incidents
<1> QED BY <1>1, <1>2 DEF Touch

\* Every operation on an incident yields an incident, under the same id.
LEMMA OperationTypes ==
  ASSUME NEW inc \in Incidents, NEW at \in Nat, NEW stage \in Nat,
         NEW severity \in Severities, NEW reason \in CloseReasons
  PROVE  /\ Acknowledge(inc, at) \in Incidents /\ Acknowledge(inc, at).id = inc.id
         /\ Resolve(inc, at) \in Incidents /\ Resolve(inc, at).id = inc.id
         /\ Occur(inc, at) \in Incidents /\ Occur(inc, at).id = inc.id
         /\ Close(inc, at, reason) \in Incidents /\ Close(inc, at, reason).id = inc.id
         /\ RecordAlert(inc, at, stage) \in Incidents
         /\ RecordAlert(inc, at, stage).id = inc.id
         /\ RecordDeliveryFailure(inc, at) \in Incidents
         /\ RecordDeliveryFailure(inc, at).id = inc.id
         /\ RaiseSeverity(inc, severity) \in Incidents
         /\ RaiseSeverity(inc, severity).id = inc.id
         /\ [inc EXCEPT !.updatedAt = at] \in Incidents
<1>1. Acknowledge(inc, at) \in Incidents /\ Acknowledge(inc, at).id = inc.id
  <2> DEFINE new == [inc EXCEPT !.ackedAt = at]
  <2>1. new \in Incidents /\ new.id = inc.id
    BY DEF Incidents
  <2> QED BY <2>1, TouchType DEF Acknowledge
<1>2. Resolve(inc, at) \in Incidents /\ Resolve(inc, at).id = inc.id
  <2> DEFINE new == [inc EXCEPT !.resolved = TRUE]
  <2>1. new \in Incidents /\ new.id = inc.id
    BY DEF Incidents
  <2> QED BY <2>1, TouchType DEF Resolve
<1>3. Occur(inc, at) \in Incidents /\ Occur(inc, at).id = inc.id
  <2> DEFINE new == [inc EXCEPT !.occurrences = @ + 1]
  <2>1. new \in Incidents /\ new.id = inc.id
    BY DEF Incidents
  <2> QED BY <2>1, TouchType DEF Occur
<1>4. Close(inc, at, reason) \in Incidents /\ Close(inc, at, reason).id = inc.id
  <2> DEFINE new == [inc EXCEPT !.closed = reason]
  <2>1. new \in Incidents /\ new.id = inc.id
    BY DEF Incidents
  <2> QED BY <2>1, TouchType DEF Close
<1>5. RecordAlert(inc, at, stage) \in Incidents /\ RecordAlert(inc, at, stage).id = inc.id
  <2> DEFINE rung == IF stage > inc.stage THEN stage ELSE inc.stage
             count == inc.alertCount + 1
             new == [inc EXCEPT !.lastAlertAt = at, !.alertCount = count,
                                !.stage = rung, !.failing = FALSE]
  <2>1. rung \in Nat /\ count \in Nat
    BY DEF Incidents
  <2>2. RecordAlert(inc, at, stage) = Touch(new, at)
    BY DEF RecordAlert
  <2>3. new \in Incidents /\ new.id = inc.id
    <3> HIDE DEF rung, count
    <3> QED BY <2>1 DEF Incidents
  <2> QED BY ZenonT(60), <2>2, <2>3, TouchType
<1>6. /\ RecordDeliveryFailure(inc, at) \in Incidents
      /\ RecordDeliveryFailure(inc, at).id = inc.id
  <2> DEFINE new == [inc EXCEPT !.failing = TRUE]
  <2>1. new \in Incidents /\ new.id = inc.id
    BY DEF Incidents
  <2> QED BY <2>1, TouchType DEF RecordDeliveryFailure
<1>7. RaiseSeverity(inc, severity) \in Incidents /\ RaiseSeverity(inc, severity).id = inc.id
  <2>1. \A s \in Severities : /\ [inc EXCEPT !.severity = s] \in Incidents
                               /\ [inc EXCEPT !.severity = s].id = inc.id
    BY DEF Incidents
  <2>2. inc.severity \in Severities
    BY DEF Incidents
  <2> QED BY <2>1, <2>2 DEF RaiseSeverity
<1>8. [inc EXCEPT !.updatedAt = at] \in Incidents
  BY DEF Incidents
<1> QED BY <1>1, <1>2, <1>3, <1>4, <1>5, <1>6, <1>7, <1>8

\* A new incident, linked to a predecessor or not, is an incident.
LEMMA NewIncidentTypes ==
  ASSUME NEW id \in Ids, NEW key \in Keys, NEW severity \in Severities, NEW now \in Nat
  PROVE  /\ Open(id, key, severity, now) \in Incidents
         /\ \A prev \in Incidents : Recur(prev, id, severity, now) \in Incidents
BY DEF Open, Recur, Incidents, Unset, NoIncident, CloseReasons

\* Whatever the ladder asks for, it asks for a stage number and channels that
\* exist.
LEMMA DeliveryTypes ==
  ASSUME NEW pol \in Policies, pol.stages # << >>, NEW inc \in Incidents, NEW now \in Nat
  PROVE  \A d \in DueNow(pol, inc, now) \cup OwedFinalDelivery(pol, inc) :
           d.stage \in Nat /\ d.channels \subseteq Channels
<1>1. pol.stages \in Seq(Stages) /\ Len(pol.stages) \in DOMAIN pol.stages
      /\ DOMAIN pol.stages = 1 .. Len(pol.stages) /\ Len(pol.stages) \in Nat
  BY DEF Policies
<1>2. \A s \in DOMAIN pol.stages : pol.stages[s].channels \subseteq Channels
  <2>1. \A s \in DOMAIN pol.stages : pol.stages[s] \in Stages
    BY <1>1
  <2> QED BY <2>1 DEF Stages
<1>3. \A d \in NextDue(pol, inc) : d.stage \in DOMAIN pol.stages
  BY <1>1 DEF NextDue, Least, StagesAhead
<1>4. \A s \in HighestRungDue(pol, inc, now) : s \in DOMAIN pol.stages
  BY <1>1 DEF HighestRungDue, Greatest
<1>5. \A s \in DOMAIN pol.stages : ChannelsUpTo(pol, s) \subseteq Channels
  BY <1>1, <1>2 DEF ChannelsUpTo
<1>6. 1 \in DOMAIN pol.stages
  BY <1>1
<1>7. \A d \in DueNow(pol, inc, now) : d.stage \in Nat /\ d.channels \subseteq Channels
  BY <1>1, <1>2, <1>3, <1>4, <1>5 DEF DueNow
<1>8. \A d \in OwedFinalDelivery(pol, inc) : d.stage \in Nat /\ d.channels \subseteq Channels
  BY <1>5, <1>6 DEF OwedFinalDelivery
<1> QED BY <1>7, <1>8

\* One delivery settles everything that was due: once an alert is recorded at
\* an instant nothing is due again at that instant, however many rungs and
\* repeats were missed while the program was down.  This is why a restart never
\* produces a burst (Policy.NextDue).
THEOREM NoBurst ==
  ASSUME NEW pol \in Policies, NEW inc \in Incidents, NEW now \in Nat \ {0},
         NEW stage \in Nat
  PROVE  DueNow(pol, RecordAlert(inc, now, stage), now) = {}
<1> DEFINE told == RecordAlert(inc, now, stage)
<1>1. told.lastAlertAt = now /\ told.openedAt = inc.openedAt
      /\ told.openedAt \in Nat /\ Alerted(told)
  BY DEF RecordAlert, Touch, Incidents, Alerted, Unset
<1>2. \A s \in DOMAIN pol.stages : Rung(pol, told, s) \in Nat
  <2>1. \A s \in DOMAIN pol.stages : pol.stages[s] \in Stages
    BY DEF Policies
  <2> QED BY <1>1, <2>1 DEF Rung, Stages
<1>3. \A s \in Least(StagesAhead(pol, told)) : Rung(pol, told, s) > now
  BY <1>1, <1>2 DEF Least, StagesAhead
<1>4. pol.repeatEvery # 0 => now + pol.repeatEvery > now
  BY DEF Policies
<1>5. ASSUME NEW d \in NextDue(pol, told) PROVE ~(d.at <= now)
  <2>1. CASE StagesAhead(pol, told) # {}
    <3>1. PICK s \in Least(StagesAhead(pol, told)) : d.at = Rung(pol, told, s)
      BY <1>1, <1>5, <2>1 DEF NextDue
    <3>2. s \in DOMAIN pol.stages
      BY DEF Least, StagesAhead
    <3> QED BY <1>2, <1>3, <3>1, <3>2
  <2>2. CASE StagesAhead(pol, told) = {}
    <3>1. d.at = now + pol.repeatEvery /\ pol.repeatEvery # 0
      BY <1>1, <1>5, <2>2 DEF NextDue
    <3> QED BY <1>4, <3>1 DEF Policies
  <2> QED BY <2>1, <2>2
<1> QED BY <1>5 DEF DueNow
=============================================================================
