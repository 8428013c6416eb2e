--------------------------- MODULE IncidentPromise --------------------------
(***************************************************************************)
(* What a person who is told of an incident and answers it relies on       *)
(* (incident.Store, ack.Handler, escalate.Scheduler): an incident stays on *)
(* record, an answer stands once it is given, nothing is given up that was *)
(* answered or that nobody was told of.  A give-up may still be overtaken, *)
(* by an answer or by a write that knew nothing of it.                     *)
(***************************************************************************)
EXTENDS Naturals

CONSTANT Ids

VARIABLES known,      \* the incidents on record
          told,       \* id -> deliveries at least one channel accepted
          answered,   \* the incidents whose record says they were acknowledged
          confirmed,  \* the incidents of which a person was told so
          givenUp     \* the incidents whose record says they were given up

vars == <<known, told, answered, confirmed, givenUp>>

Init ==
  /\ known = {} /\ told = [i \in Ids |-> 0]
  /\ answered = {} /\ confirmed = {} /\ givenUp = {}

Open(i) ==
  /\ i \notin known /\ known' = known \cup {i}
  /\ UNCHANGED <<told, answered, confirmed, givenUp>>

Tell(i) ==
  /\ i \in known /\ told' = [told EXCEPT ![i] = @ + 1]
  /\ UNCHANGED <<known, answered, confirmed, givenUp>>

Answer(i) ==
  /\ i \in known \ answered
  /\ answered' = answered \cup {i} /\ givenUp' = givenUp \ {i}
  /\ confirmed' \in {confirmed, confirmed \cup {i}}
  /\ UNCHANGED <<known, told>>

Confirm(i) ==
  /\ i \in answered /\ confirmed' = confirmed \cup {i}
  /\ UNCHANGED <<known, told, answered, givenUp>>

GiveUp(i) ==
  /\ i \in known \ answered /\ told[i] > 0
  /\ givenUp' = givenUp \cup {i}
  /\ UNCHANGED <<known, told, answered, confirmed>>

Overtake(i) ==
  /\ i \in givenUp /\ givenUp' = givenUp \ {i}
  /\ UNCHANGED <<known, told, answered, confirmed>>

Next == \E i \in Ids : \/ Open(i) \/ Tell(i) \/ Answer(i) \/ Confirm(i)
                       \/ GiveUp(i) \/ Overtake(i)

Spec == Init /\ [][Next]_vars
=============================================================================
