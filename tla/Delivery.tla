------------------------------ MODULE Delivery ------------------------------
(***************************************************************************)
(* The delivery of alerts: config.Delivery, which fans an alert out to the *)
(* channels of its stage, the channel.Queue and worker of each channel,    *)
(* and the replacement of the whole set by a new configuration             *)
(* (swapDelivery), which closes the old queues while a call may be using   *)
(* them.                                                                   *)
(*                                                                         *)
(* Deliver has one caller, the scheduler.  Each of its waiters (one per    *)
(* channel, in SendAndWait), each worker and the goroutine that swaps the  *)
(* set take steps of their own.  Only Deliver reads the time, once a call: *)
(* a timeout may pass whenever something is being waited for.              *)
(***************************************************************************)
EXTENDS Integers, Sequences

CONSTANTS Channels,
          Asks,        \* the sets of channels the stages name
          Configured,  \* the channels of each set, one set per configuration
          Depth,       \* DefaultQueueDepth
          Ladder,      \* failureBackoff
          MaxAlerts,   \* bound: alerts handed over
          Horizon,     \* bound: the last instant
          None

Alerts == 1 .. MaxAlerts
Sets == DOMAIN Configured
Queues == {q \in Sets \X Channels : q[2] \in Configured[q[1]]}
Jobs == [alert : Alerts, now : 0 .. Horizon]
Calls == [alert : Alerts, now : 0 .. Horizon, set : Sets]

ASSUME DeliveryAssumption ==
  /\ Asks \subseteq SUBSET Channels
  /\ Configured \in Seq(SUBSET Channels) /\ Configured # << >>
  /\ Depth \in Nat \ {0} /\ MaxAlerts \in Nat /\ Horizon \in Nat
  /\ Ladder \in Seq(Nat) /\ Ladder # << >>
  /\ None \notin Jobs \cup Calls

VARIABLES
  clock,
  live,      \* deliveryRef: the set calls are made on
  closing,   \* the queue swapDelivery is closing, None otherwise
  released,  \* the queues whose Close returned
  closed,    \* the queues whose closed channel is closed
  buffer,    \* queue -> the jobs in it
  worker,    \* queue -> "idle", "busy" or "exited"
  job,       \* queue -> what its worker is busy with
  fails,     \* queue -> consecutiveFails
  notBefore, \* queue -> the end of its hold
  call,      \* the call of Deliver: [alert, now, set], or None
  waiter,    \* channel -> where the call's SendAndWait on it is
  result,    \* channel -> the answer waiting for it, while it waits
  next,      \* the alerts handed over so far
  accepted,  \* alerts at least one channel accepted
  answer     \* alert -> what Deliver returned

backoff == <<fails, notBefore>>
queueVars == <<closed, buffer, worker, job, backoff>>
callVars == <<call, waiter, result, next, answer>>
swapVars == <<live, closing, released>>
vars == <<clock, swapVars, queueVars, callVars, accepted>>

Init ==
  /\ clock = 0 /\ live = 1 /\ closing = None /\ released = {}
  /\ closed = {} /\ buffer = [q \in Queues |-> << >>]
  /\ worker = [q \in Queues |-> "idle"] /\ job = [q \in Queues |-> None]
  /\ fails = [q \in Queues |-> 0] /\ notBefore = [q \in Queues |-> 0]
  /\ call = None /\ waiter = [c \in Channels |-> "out"]
  /\ result = [c \in Channels |-> "none"]
  /\ next = 0 /\ accepted = {} /\ answer = [a \in Alerts |-> "none"]

-----------------------------------------------------------------------------
\* Deliver and its waiters.

\* The instant and the set are read once; a channel the set does not have
\* fails at once.
Deliver ==
  /\ call = None /\ next < MaxAlerts
  /\ next' = next + 1
  /\ clock' \in clock .. Horizon
  /\ call' = [alert |-> next', now |-> clock', set |-> live]
  /\ \E S \in Asks :
       waiter' = [c \in Channels |-> IF c \notin S THEN "out"
                                     ELSE IF c \in Configured[live] THEN "check"
                                     ELSE "failed"]
  /\ UNCHANGED <<swapVars, queueVars, result, answer, accepted>>

Asked(c) == <<call.set, c>>
Settle(c, where) ==
  /\ waiter' = [waiter EXCEPT ![c] = where]
  /\ result' = [result EXCEPT ![c] = "none"]

CheckClosed(c) ==
  /\ waiter[c] = "check"
  /\ Settle(c, IF Asked(c) \in closed THEN "failed" ELSE "put")
  /\ UNCHANGED <<clock, swapVars, queueVars, call, next, answer, accepted>>

\* Mutant: one alert beyond the depth.
PutBeyond(c) ==
  /\ waiter[c] = "put"
  /\ IF Len(buffer[Asked(c)]) <= Depth
       THEN /\ buffer' = [buffer EXCEPT ![Asked(c)] =
                            Append(@, [alert |-> call.alert, now |-> call.now])]
            /\ Settle(c, "wait")
       ELSE Settle(c, "failed") /\ UNCHANGED buffer
  /\ UNCHANGED <<clock, swapVars, closed, worker, job, backoff, call, next, answer, accepted>>

\* Never blocks: a full backlog drops the alert.
Put(c) ==
  /\ waiter[c] = "put"
  /\ IF Len(buffer[Asked(c)]) < Depth
       THEN /\ buffer' = [buffer EXCEPT ![Asked(c)] =
                            Append(@, [alert |-> call.alert, now |-> call.now])]
            /\ Settle(c, "wait")
       ELSE Settle(c, "failed") /\ UNCHANGED buffer
  /\ UNCHANGED <<clock, swapVars, closed, worker, job, backoff, call, next, answer, accepted>>

\* Mutant: only the answer ends the wait.
AwaitAnswer(c) ==
  /\ waiter[c] = "wait"
  /\ result[c] # "none"
  /\ Settle(c, IF result[c] = "sent" THEN "ok" ELSE "failed")
  /\ UNCHANGED <<clock, swapVars, queueVars, call, next, answer, accepted>>

\* The worker's answer, the call's deadline, or the queue's end: whichever the
\* select takes.
Wait(c) ==
  /\ waiter[c] = "wait"
  /\ \/ /\ result[c] # "none"
        /\ Settle(c, IF result[c] = "sent" THEN "ok" ELSE "failed")
     \/ Settle(c, "failed")
  /\ UNCHANGED <<clock, swapVars, queueVars, call, next, answer, accepted>>

\* At least one channel accepted, or every one failed.
Return ==
  /\ call # None
  /\ \A c \in Channels : waiter[c] \in {"out", "ok", "failed"}
  /\ answer' = [answer EXCEPT ![call.alert] =
                  IF \E c \in Channels : waiter[c] = "ok" THEN "told" ELSE "failed"]
  /\ call' = None /\ waiter' = [c \in Channels |-> "out"]
  /\ UNCHANGED <<clock, swapVars, queueVars, result, next, accepted>>

-----------------------------------------------------------------------------
\* A queue and its worker.

\* The caller's buffered channel: an answer nobody waits for is lost.
Answer(q, what) ==
  result' = IF waiter[q[2]] = "wait" /\ q[1] = call.set /\ job[q].alert = call.alert
              THEN [result EXCEPT ![q[2]] = what] ELSE result

\* The select takes a job even when the queue is closed.
Take(q) ==
  /\ worker[q] = "idle" /\ buffer[q] # << >>
  /\ worker' = [worker EXCEPT ![q] = "busy"]
  /\ job' = [job EXCEPT ![q] = Head(buffer[q])]
  /\ buffer' = [buffer EXCEPT ![q] = Tail(@)]
  /\ UNCHANGED <<clock, swapVars, closed, backoff, callVars, accepted>>

Rest(q) == worker' = [worker EXCEPT ![q] = "idle"] /\ job' = [job EXCEPT ![q] = None]
Holding(q) == worker[q] = "busy" /\ job[q].now < notBefore[q]

\* Mutant: an attempt that is held back is answered as sent.
HoldAsSent(q) ==
  /\ Holding(q)
  /\ Answer(q, "sent") /\ Rest(q)
  /\ UNCHANGED <<clock, swapVars, closed, buffer, backoff, call, waiter, next, answer, accepted>>

\* Inside a hold nothing is tried, and the hold does not grow.
Hold(q) ==
  /\ Holding(q)
  /\ Answer(q, "failed") /\ Rest(q)
  /\ UNCHANGED <<clock, swapVars, closed, buffer, backoff, call, waiter, next, answer, accepted>>

\* The wait after n consecutive failures.
BackoffFor(n) == IF n > Len(Ladder) THEN Ladder[Len(Ladder)] ELSE Ladder[n]

\* recordOutcome: a hold is measured from the instant of the call.
RecordOutcome(q, err) ==
  LET n == IF err THEN fails[q] + 1 ELSE 0
      hold == IF err THEN BackoffFor(n) ELSE 0
  IN  /\ fails' = [fails EXCEPT ![q] = n]
      /\ notBefore' = [notBefore EXCEPT ![q] = IF hold > 0 THEN job[q].now + hold ELSE 0]

\* Mutant: the answer is handed to a caller that still waits.
SendToCaller(q) ==
  /\ worker[q] = "busy" /\ ~Holding(q)
  /\ call # None /\ waiter[q[2]] = "wait"
  /\ \E took, err \in BOOLEAN :
       /\ took \/ err
       /\ accepted' = IF took THEN accepted \cup {job[q].alert} ELSE accepted
       /\ RecordOutcome(q, err)
       /\ Answer(q, IF err THEN "failed" ELSE "sent")
  /\ Rest(q)
  /\ UNCHANGED <<clock, swapVars, closed, buffer, call, waiter, next, answer>>

\* The channel accepts, or fails, or accepts and is not heard in time.  The
\* outcome is recorded and answered whether or not anybody still waits.
Send(q) ==
  /\ worker[q] = "busy" /\ ~Holding(q)
  /\ \E took, err \in BOOLEAN :
       /\ took \/ err
       /\ accepted' = IF took THEN accepted \cup {job[q].alert} ELSE accepted
       /\ RecordOutcome(q, err)
       /\ Answer(q, IF err THEN "failed" ELSE "sent")
  /\ Rest(q)
  /\ UNCHANGED <<clock, swapVars, closed, buffer, call, waiter, next, answer>>

Exit(q) ==
  /\ worker[q] = "idle" /\ q \in closed
  /\ worker' = [worker EXCEPT ![q] = "exited"]
  /\ UNCHANGED <<clock, swapVars, closed, buffer, job, backoff, callVars, accepted>>

Work(q) == Take(q) \/ Hold(q) \/ Send(q) \/ Exit(q)

\* The test button: a test that works ends the hold, one that fails changes
\* nothing.  It bypasses the queue and its worker.
Test(q) ==
  /\ q[1] = live /\ q \notin closed
  /\ fails[q] > 0
  /\ fails' = [fails EXCEPT ![q] = 0] /\ notBefore' = [notBefore EXCEPT ![q] = 0]
  /\ UNCHANGED <<clock, swapVars, closed, buffer, worker, job, callVars, accepted>>

-----------------------------------------------------------------------------
\* swapDelivery: the new set is in place before the old one is closed, one
\* queue after the other.

Old == {q \in Queues : q[1] < live /\ q \notin released}

Swap ==
  /\ Old = {} /\ closing = None /\ live + 1 \in Sets
  /\ live' = live + 1
  /\ UNCHANGED <<clock, closing, released, queueVars, callVars, accepted>>

BeginClose(q) ==
  /\ q \in Old /\ closing = None
  /\ closing' = q /\ closed' = closed \cup {q}
  /\ UNCHANGED <<clock, live, released, buffer, worker, job, backoff, callVars, accepted>>

\* Mutant: without waiting for the worker.
EndCloseAtOnce ==
  /\ closing # None
  /\ released' = released \cup {closing} /\ closing' = None
  /\ UNCHANGED <<clock, live, queueVars, callVars, accepted>>

EndClose ==
  /\ closing # None
  /\ worker[closing] = "exited"
  /\ released' = released \cup {closing} /\ closing' = None
  /\ UNCHANGED <<clock, live, queueVars, callVars, accepted>>

Waiter(c) == CheckClosed(c) \/ Put(c) \/ Wait(c)
Closing == (\E q \in Queues : BeginClose(q)) \/ EndClose

Next == \/ Deliver \/ Return \/ Swap \/ Closing
        \/ \E c \in Channels : Waiter(c)
        \/ \E q \in Queues : Work(q) \/ Test(q)

Spec == Init /\ [][Next]_vars

\* Goroutines run, and every wait of theirs has a timeout of its own: it is
\* enough that some waiter and some worker go on.
FairSpec ==
  /\ Spec /\ WF_vars(Return) /\ WF_vars(Closing)
  /\ WF_vars(\E c \in Channels : Waiter(c)) /\ WF_vars(\E q \in Queues : Work(q))

-----------------------------------------------------------------------------
\* Properties.

\* Every variable has its type, and no backlog exceeds its depth.
TypeOK ==
  /\ clock \in 0 .. Horizon /\ live \in Sets /\ next \in 0 .. MaxAlerts
  /\ closing \in Queues \cup {None} /\ released \subseteq closed /\ closed \subseteq Queues
  /\ buffer \in [Queues -> Seq(Jobs)] /\ \A q \in Queues : Len(buffer[q]) <= Depth
  /\ worker \in [Queues -> {"idle", "busy", "exited"}]
  /\ job \in [Queues -> Jobs \cup {None}]
  /\ \A q \in Queues : worker[q] = "busy" <=> job[q] # None
  /\ fails \in [Queues -> Nat] /\ notBefore \in [Queues -> Nat]
  /\ result \in [Channels -> {"none", "sent", "failed"}]
  /\ call \in Calls \cup {None}
  /\ waiter \in [Channels -> {"out", "check", "put", "wait", "ok", "failed"}]
  /\ accepted \subseteq Alerts /\ answer \in [Alerts -> {"none", "told", "failed"}]

\* Deliver keeps its promise: it reports success only for an alert that some
\* channel accepted, whatever is closed, held or timed out meanwhile.
Promise == INSTANCE DeliveryPromise WITH
  Alerts <- Alerts, accepted <- accepted, answer <- answer
KeepsPromise == Promise!Spec

\* Once Close of a queue returned, its worker sends nothing more.
ClosedIsQuiet == \A q \in released : worker[q] = "exited"

\* Every call of Deliver returns, also one whose alert reached a queue that was
\* closed before its worker took it: the scheduler is never stuck in it.
CallsReturn == call # None ~> call = None

\* Every swap ends: Close never waits for ever for a worker.
SwapsEnd == Old # {} ~> Old = {}
=============================================================================
