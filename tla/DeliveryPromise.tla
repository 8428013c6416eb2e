--------------------------- MODULE DeliveryPromise --------------------------
(***************************************************************************)
(* What the scheduler relies on when it hands an alert to Deliver          *)
(* (escalate.DeliverFunc): one answer, and success only if at least one    *)
(* channel accepted the message.  A channel may still accept it after a    *)
(* failure was answered: it errs toward a duplicate, never toward silence. *)
(***************************************************************************)
CONSTANT Alerts

VARIABLES accepted,  \* the alerts at least one channel accepted
          answer     \* alert -> "none", "told" or "failed"

vars == <<accepted, answer>>

Init == accepted = {} /\ answer = [a \in Alerts |-> "none"]

Accept(a) == a \notin accepted /\ accepted' = accepted \cup {a} /\ UNCHANGED answer

Tell(a) ==
  /\ a \in accepted /\ answer[a] = "none"
  /\ answer' = [answer EXCEPT ![a] = "told"]
  /\ UNCHANGED accepted

Fail(a) ==
  /\ answer[a] = "none"
  /\ answer' = [answer EXCEPT ![a] = "failed"]
  /\ UNCHANGED accepted

Next == \E a \in Alerts : Accept(a) \/ Tell(a) \/ Fail(a)

Spec == Init /\ [][Next]_vars
=============================================================================
