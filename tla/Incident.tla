------------------------------ MODULE Incident ------------------------------
(***************************************************************************)
(* An incident: a condition that was observed and has not yet been dealt   *)
(* with, as internal/incident keeps it, and the operations on one.         *)
(*                                                                         *)
(* A stamp is a natural number and Unset stands for a nil time.  An id is  *)
(* a number, NoIncident stands for the empty id.  LastAlertAt and          *)
(* FirstAlertAt become non-nil in the same assignment of RecordAlert and   *)
(* the program only ever asks whether FirstAlertAt is nil, so lastAlertAt  *)
(* stands for both.  ResolvedAt and ClosedAt are also only tested for nil: *)
(* resolved is a Boolean, and closed names the close reason, "no" while    *)
(* ClosedAt is nil.  failing says that LastDeliveryError is not empty.     *)
(* Stages are numbered from 1, one more than the code's.                   *)
(* Titles, details and the ack channel are left out.                       *)
(***************************************************************************)
EXTENDS Integers

CONSTANTS Ids,         \* incident ids the store can hold: 1 .. some maximum
          Keys,        \* dedup keys: one per condition of one entity
          Severities   \* ranks of severityRank that events may carry

Unset == 0
NoIncident == 0

\* The rank of SeverityCritical.
Critical == 5

CloseReasons == {"gave-up", "returned", "reviewed", "operator", "silenced"}

Incidents == [id          : Ids,
              key         : Keys,
              severity    : Severities,
              openedAt    : Nat,
              lastAlertAt : Nat,
              alertCount  : Nat,
              stage       : Nat,
              ackedAt     : Nat,
              resolved    : BOOLEAN,
              closed      : CloseReasons \cup {"no"},
              failing     : BOOLEAN,
              predecessor : Ids \cup {NoIncident},
              updatedAt   : Nat,
              occurrences : Nat]

-----------------------------------------------------------------------------

Acknowledged(inc) == inc.ackedAt # Unset
Alerted(inc) == inc.lastAlertAt # Unset

\* Closed explicitly, or closed by derivation: a person saw it and it ended.
Terminal(inc) == \/ inc.closed # "no"
                 \/ Acknowledged(inc) /\ inc.resolved

\* A condition that came back to a resolved incident nobody acknowledged.
Unanswered(inc) == inc.resolved /\ ~Acknowledged(inc)

\* UpdatedAt advances and never moves backwards: it is the version the
\* store's compare-and-swap compares.
Touch(inc, at) == [inc EXCEPT !.updatedAt = IF at > @ THEN at ELSE @]

Open(id, key, severity, now) ==
  [id |-> id, key |-> key, severity |-> severity, openedAt |-> now,
   lastAlertAt |-> Unset, alertCount |-> 0, stage |-> 1, ackedAt |-> Unset,
   resolved |-> FALSE, closed |-> "no", failing |-> FALSE,
   predecessor |-> NoIncident, updatedAt |-> now, occurrences |-> 1]

\* A recurrence is a new incident linked to its predecessor; the engine gives
\* it the severity of the arrival that opened it.
Recur(prev, id, severity, now) ==
  [Open(id, prev.key, severity, now) EXCEPT !.predecessor = prev.id]

\* The four operations below refuse a terminal incident with ErrClosed: their
\* callers test Terminal.
RecordAlert(inc, at, stage) ==
  Touch([inc EXCEPT !.lastAlertAt = at,
                    !.alertCount  = @ + 1,
                    !.stage       = IF stage > @ THEN stage ELSE @,
                    !.failing     = FALSE], at)

\* Mutants: an acknowledgement, or a close, that leaves the version alone.
UntouchedAcknowledge(inc, at) ==
  IF Acknowledged(inc) THEN inc ELSE [inc EXCEPT !.ackedAt = at]
UntouchedClose(inc, at, reason) ==
  IF inc.closed # "no" THEN inc ELSE [inc EXCEPT !.closed = reason]

Acknowledge(inc, at) ==
  IF Acknowledged(inc) THEN inc ELSE Touch([inc EXCEPT !.ackedAt = at], at)

Resolve(inc, at) ==
  IF inc.resolved THEN inc ELSE Touch([inc EXCEPT !.resolved = TRUE], at)

Occur(inc, at) == Touch([inc EXCEPT !.occurrences = @ + 1], at)

\* These two are accepted by a terminal incident.
RecordDeliveryFailure(inc, at) == Touch([inc EXCEPT !.failing = TRUE], at)

Close(inc, at, reason) ==
  IF inc.closed # "no" THEN inc ELSE Touch([inc EXCEPT !.closed = reason], at)

\* Severity only rises on a live incident (rule.Engine's occur and update).
RaiseSeverity(inc, severity) ==
  [inc EXCEPT !.severity = IF severity > @ THEN severity ELSE @]
=============================================================================
