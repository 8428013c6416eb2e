-------------------------- MODULE Delivery_proofs ---------------------------
(***************************************************************************)
(* Theorems about Delivery: its types, the quiet of closed queues, and the *)
(* refinement of DeliveryPromise.                                          *)
(***************************************************************************)
EXTENDS Delivery, TLAPS

\* A queue that is being closed is marked closed; a queue whose Close returned
\* has no worker.
ClosingOK == closing # None => closing \in closed

TypeInv == TypeOK /\ ClosingOK

LEMMA BackoffType ==
  ASSUME NEW n \in Nat \ {0}
  PROVE  BackoffFor(n) \in Nat
<1>1. Ladder \in Seq(Nat) /\ Len(Ladder) >= 1
  BY DeliveryAssumption DEF DeliveryAssumption
<1>2. Ladder[Len(Ladder)] \in Nat
  BY <1>1
<1>3. n <= Len(Ladder) => Ladder[n] \in Nat
  BY <1>1
<1> QED
  BY <1>1, <1>2, <1>3 DEF BackoffFor

LEMMA TypeInit == Init => TypeInv
<1> SUFFICES ASSUME Init PROVE TypeInv
  OBVIOUS
<1> USE DeliveryAssumption DEF Init
<1>1. 1 \in Sets
  BY DEF DeliveryAssumption, Sets
<1>2. /\ clock \in 0 .. Horizon /\ live \in Sets /\ next \in 0 .. MaxAlerts
      /\ closing \in Queues \cup {None} /\ released \subseteq closed /\ closed \subseteq Queues
  BY <1>1 DEF DeliveryAssumption
<1>3. /\ buffer \in [Queues -> Seq(Jobs)]
      /\ \A q \in Queues : Len(buffer[q]) <= Depth
  BY DEF DeliveryAssumption
<1>4. /\ worker \in [Queues -> {"idle", "busy", "exited"}]
      /\ job \in [Queues -> Jobs \cup {None}]
      /\ \A q \in Queues : worker[q] = "busy" <=> job[q] # None
      /\ fails \in [Queues -> Nat] /\ notBefore \in [Queues -> Nat]
  OBVIOUS
<1> QED
  BY <1>2, <1>3, <1>4 DEF TypeInv, TypeOK, ClosingOK

-----------------------------------------------------------------------------
\* Types: one lemma per action.

LEMMA DeliverType == TypeInv /\ Deliver => TypeInv'
<1> SUFFICES ASSUME TypeInv, Deliver PROVE TypeInv'
  OBVIOUS
<1> USE DeliveryAssumption DEF TypeInv, TypeOK
<1>1. next' \in Alerts /\ next' \in 0 .. MaxAlerts /\ clock' \in 0 .. Horizon
  BY DEF Deliver, Alerts, DeliveryAssumption
<1>2. call' \in Calls
  BY <1>1 DEF Deliver, Calls
<1>3. waiter' \in [Channels -> {"out", "check", "put", "wait", "ok", "failed"}]
  <2>1. PICK S \in Asks :
          waiter' = [c \in Channels |-> IF c \notin S THEN "out"
                                        ELSE IF c \in Configured[live] THEN "check"
                                        ELSE "failed"]
    BY DEF Deliver
  <2> QED
    BY <2>1
<1> QED
  BY <1>1, <1>2, <1>3 DEF Deliver, ClosingOK, swapVars, queueVars, backoff

LEMMA SettleType ==
  ASSUME TypeInv, NEW c \in Channels, NEW where \in {"put", "wait", "ok", "failed"},
         Settle(c, where)
  PROVE  /\ waiter' \in [Channels -> {"out", "check", "put", "wait", "ok", "failed"}]
         /\ result' \in [Channels -> {"none", "sent", "failed"}]
  BY DEF Settle, TypeInv, TypeOK

LEMMA CheckClosedType ==
  ASSUME TypeInv, NEW c \in Channels, CheckClosed(c) PROVE TypeInv'
<1> DEFINE where == IF Asked(c) \in closed THEN "failed" ELSE "put"
<1>1. Settle(c, where)
  BY DEF CheckClosed
<1>2. /\ waiter' \in [Channels -> {"out", "check", "put", "wait", "ok", "failed"}]
      /\ result' \in [Channels -> {"none", "sent", "failed"}]
  BY <1>1, SettleType
<1> QED
  BY <1>2 DEF CheckClosed, TypeInv, TypeOK, ClosingOK, swapVars, queueVars, backoff

LEMMA PutType ==
  ASSUME TypeInv, NEW c \in Channels, Put(c), call # None PROVE TypeInv'
<1> DEFINE j == [alert |-> call.alert, now |-> call.now]
           Room == Len(buffer[Asked(c)]) < Depth
<1> USE DEF TypeInv, TypeOK
<1>1. j \in Jobs
  BY DEF Jobs, Calls
<1>2. Settle(c, IF Room THEN "wait" ELSE "failed")
  BY DEF Put
<1>3. /\ waiter' \in [Channels -> {"out", "check", "put", "wait", "ok", "failed"}]
      /\ result' \in [Channels -> {"none", "sent", "failed"}]
  BY <1>2, SettleType
<1>4. buffer' \in [Queues -> Seq(Jobs)] /\ \A q \in Queues : Len(buffer'[q]) <= Depth
  <2>1. CASE Room
    <3>1. buffer' = [buffer EXCEPT ![Asked(c)] = Append(@, j)]
      BY <2>1 DEF Put
    <3>2. ASSUME NEW q \in Queues
          PROVE  Append(buffer[q], j) \in Seq(Jobs) /\ Len(Append(buffer[q], j)) = Len(buffer[q]) + 1
      BY <1>1
    <3>3. ASSUME NEW q \in Queues, q = Asked(c)
          PROVE  buffer'[q] \in Seq(Jobs) /\ Len(buffer'[q]) <= Depth
      BY SMTT(30), <2>1, <3>1, <3>2, <3>3, DeliveryAssumption DEF DeliveryAssumption
    <3>4. ASSUME NEW q \in Queues, q # Asked(c)
          PROVE  buffer'[q] = buffer[q]
      BY <3>1, <3>4
    <3>5. buffer' = [q \in Queues |-> buffer'[q]]
      BY <3>1
    <3> QED
      BY <3>3, <3>4, <3>5
  <2>2. CASE ~Room
    BY <2>2 DEF Put
  <2> QED
    BY <2>1, <2>2
<1> QED
  BY <1>3, <1>4 DEF Put, ClosingOK, swapVars, backoff

LEMMA WaitType ==
  ASSUME TypeInv, NEW c \in Channels, Wait(c) PROVE TypeInv'
<1>1. PICK where \in {"ok", "failed"} : Settle(c, where)
  BY DEF Wait
<1>2. /\ waiter' \in [Channels -> {"out", "check", "put", "wait", "ok", "failed"}]
      /\ result' \in [Channels -> {"none", "sent", "failed"}]
  BY <1>1, SettleType
<1> QED
  BY <1>2 DEF Wait, TypeInv, TypeOK, ClosingOK, swapVars, queueVars, backoff

LEMMA ReturnType == TypeInv /\ Return => TypeInv'
  BY ZenonT(60) DEF Return, TypeInv, TypeOK, ClosingOK, swapVars, queueVars, backoff

LEMMA AnswerType ==
  ASSUME TypeInv, NEW q \in Queues, NEW what \in {"sent", "failed"}, Answer(q, what)
  PROVE  result' \in [Channels -> {"none", "sent", "failed"}]
  BY DEF Answer, TypeInv, TypeOK

LEMMA TakeType ==
  ASSUME TypeInv, NEW q \in Queues, Take(q) PROVE TypeInv'
<1> USE DEF TypeInv, TypeOK
<1>1. buffer[q] \in Seq(Jobs) /\ buffer[q] # << >>
  BY DEF Take
<1>2. /\ Head(buffer[q]) \in Jobs /\ Tail(buffer[q]) \in Seq(Jobs)
      /\ Len(Tail(buffer[q])) = Len(buffer[q]) - 1
  BY <1>1
<1>3. buffer' \in [Queues -> Seq(Jobs)]
  BY <1>2 DEF Take
<1>4. \A p \in Queues : Len(buffer'[p]) <= Depth
  <2> SUFFICES ASSUME NEW p \in Queues PROVE Len(buffer'[p]) <= Depth
    OBVIOUS
  <2>1. CASE p = q
    <3>1. buffer'[q] = Tail(buffer[q])
      BY DEF Take
    <3>2. Len(buffer[q]) \in Nat /\ Len(buffer[q]) <= Depth /\ Depth \in Nat
      BY <1>1, DeliveryAssumption DEF DeliveryAssumption
    <3> QED
      BY <1>2, <2>1, <3>1, <3>2
  <2>2. CASE p # q
    BY <2>2 DEF Take
  <2> QED
    BY <2>1, <2>2
<1>5. /\ worker' \in [Queues -> {"idle", "busy", "exited"}]
      /\ job' \in [Queues -> Jobs \cup {None}]
      /\ \A p \in Queues : worker'[p] = "busy" <=> job'[p] # None
  BY <1>2, DeliveryAssumption DEF Take, DeliveryAssumption
<1> QED
  BY <1>3, <1>4, <1>5 DEF Take, ClosingOK, swapVars, backoff, callVars

LEMMA RestType ==
  ASSUME TypeInv, NEW q \in Queues, Rest(q)
  PROVE  /\ worker' \in [Queues -> {"idle", "busy", "exited"}]
         /\ job' \in [Queues -> Jobs \cup {None}]
         /\ \A p \in Queues : worker'[p] = "busy" <=> job'[p] # None
  BY DEF Rest, TypeInv, TypeOK

LEMMA HoldType ==
  ASSUME TypeInv, NEW q \in Queues, Hold(q) PROVE TypeInv'
<1>1. result' \in [Channels -> {"none", "sent", "failed"}]
  BY AnswerType DEF Hold
<1>2. Rest(q)
  BY DEF Hold
<1> QED
  BY <1>1, <1>2, RestType DEF Hold, TypeInv, TypeOK, ClosingOK, swapVars, backoff

LEMMA RecordType ==
  ASSUME TypeInv, NEW q \in Queues, NEW err \in BOOLEAN, job[q] \in Jobs,
         RecordOutcome(q, err)
  PROVE  fails' \in [Queues -> Nat] /\ notBefore' \in [Queues -> Nat]
<1> DEFINE n == IF err THEN fails[q] + 1 ELSE 0
           hold == IF err THEN BackoffFor(n) ELSE 0
<1>1. fails[q] \in Nat /\ n \in Nat
  BY DEF TypeInv, TypeOK
<1>2. hold \in Nat
  <2>1. err => n \in Nat \ {0}
    BY <1>1
  <2> QED
    BY <2>1, BackoffType
<1>3. job[q].now \in Nat
  BY DEF Jobs
<1>4. /\ fails' = [fails EXCEPT ![q] = n]
      /\ notBefore' = [notBefore EXCEPT ![q] = IF hold > 0 THEN job[q].now + hold ELSE 0]
  BY DEF RecordOutcome
<1> HIDE DEF n, hold
<1> QED
  BY SMTT(30), <1>1, <1>2, <1>3, <1>4 DEF TypeInv, TypeOK

LEMMA SendType ==
  ASSUME TypeInv, NEW q \in Queues, Send(q) PROVE TypeInv'
<1>1. job[q] \in Jobs
  BY DEF Send, TypeInv, TypeOK
<1>2. PICK took, err \in BOOLEAN :
        /\ took \/ err
        /\ accepted' = IF took THEN accepted \cup {job[q].alert} ELSE accepted
        /\ RecordOutcome(q, err)
        /\ Answer(q, IF err THEN "failed" ELSE "sent")
  BY DEF Send
<1>3. accepted' \subseteq Alerts
  BY <1>1, <1>2 DEF Jobs, TypeInv, TypeOK
<1>4. fails' \in [Queues -> Nat] /\ notBefore' \in [Queues -> Nat]
  BY <1>1, <1>2, RecordType
<1>5. result' \in [Channels -> {"none", "sent", "failed"}]
  BY <1>2, AnswerType
<1>6. Rest(q)
  BY DEF Send
<1> QED
  BY <1>3, <1>4, <1>5, <1>6, RestType DEF Send, TypeInv, TypeOK, ClosingOK, swapVars

LEMMA ExitType ==
  ASSUME TypeInv, NEW q \in Queues, Exit(q) PROVE TypeInv'
  BY DEF Exit, TypeInv, TypeOK, ClosingOK, swapVars, backoff, callVars

LEMMA TestType ==
  ASSUME TypeInv, NEW q \in Queues, Test(q) PROVE TypeInv'
  BY DEF Test, TypeInv, TypeOK, ClosingOK, swapVars, callVars

LEMMA SwapType == TypeInv /\ (Swap \/ Closing) => TypeInv'
<1> USE DEF TypeInv, TypeOK, ClosingOK, queueVars, backoff, callVars
<1>1. TypeInv /\ Swap => TypeInv'
  BY DEF Swap
<1>2. ASSUME TypeInv, NEW q \in Queues, BeginClose(q) PROVE TypeInv'
  BY <1>2 DEF BeginClose, Old
<1>3. TypeInv /\ EndClose => TypeInv'
  BY DEF EndClose
<1> QED
  BY <1>1, <1>2, <1>3 DEF Closing

-----------------------------------------------------------------------------
\* The promise: what the call and its waiters know.

\* No waiter outlives its call; a call is for the last alert handed over, which
\* has no answer yet; an answer is addressed to a waiter that waits; and a
\* waiter that heard "sent", or is about to, has been sent what it asked.
CallOK ==
  /\ call = None => \A c \in Channels : waiter[c] = "out"
  /\ call # None => call.alert = next /\ answer[next] = "none"
  /\ \A a \in Alerts : a > next => answer[a] = "none"
  /\ \A c \in Channels : result[c] # "none" => waiter[c] = "wait"
  /\ \A c \in Channels : waiter[c] = "ok" \/ result[c] = "sent" => call.alert \in accepted

IInv == TypeInv /\ CallOK

LEMMA IInit == Init => IInv
<1> SUFFICES ASSUME Init PROVE IInv
  OBVIOUS
<1>1. TypeInv
  BY TypeInit
<1>2. CallOK
  BY DEF Init, CallOK, Alerts
<1> QED
  BY <1>1, <1>2 DEF IInv

LEMMA DeliverCall == IInv /\ Deliver => CallOK'
<1> SUFFICES ASSUME IInv, Deliver PROVE CallOK'
  OBVIOUS
<1> USE DEF IInv, TypeInv, TypeOK, CallOK
<1>1. TypeInv'
  BY DeliverType
<1>2. \A c \in Channels : result[c] = "none"
  BY DEF Deliver
<1>3. call'.alert = next' /\ answer'[next'] = "none"
  <2>1. next' \in Alerts /\ next' > next
    BY DeliveryAssumption DEF Deliver, Alerts, DeliveryAssumption
  <2>2. call'.alert = next' /\ answer' = answer
    BY DEF Deliver
  <2> QED
    BY <2>1, <2>2
<1>4. \A a \in Alerts : a > next' => answer'[a] = "none"
  BY DEF Deliver, Alerts
<1>5. call' # None
  <2>1. call' \in Calls
    <3>1. next' \in Alerts /\ clock' \in 0 .. Horizon
      BY DeliveryAssumption DEF Deliver, Alerts, DeliveryAssumption
    <3> QED
      BY <3>1 DEF Deliver, Calls
  <2> QED
    BY <2>1, DeliveryAssumption DEF DeliveryAssumption
<1>6. \A c \in Channels : waiter'[c] # "ok"
  <2>1. PICK S \in Asks :
          waiter' = [c \in Channels |-> IF c \notin S THEN "out"
                                        ELSE IF c \in Configured[live] THEN "check"
                                        ELSE "failed"]
    BY DEF Deliver
  <2> QED
    BY <2>1
<1> QED
  BY <1>2, <1>3, <1>4, <1>5, <1>6 DEF Deliver

\* A waiter that takes a step is one of a call, and ends with "ok" only for an
\* answer it had.
LEMMA SettleCall ==
  ASSUME IInv, NEW c \in Channels, NEW where \in {"put", "wait", "ok", "failed"},
         Settle(c, where), waiter[c] # "out",
         where = "ok" => result[c] = "sent",
         UNCHANGED <<call, next, answer, accepted>>
  PROVE  CallOK'
<1> USE DEF IInv, TypeInv, TypeOK, CallOK
<1>1. call # None
  OBVIOUS
<1>2. \A d \in Channels :
        /\ waiter'[d] = IF d = c THEN where ELSE waiter[d]
        /\ result'[d] = IF d = c THEN "none" ELSE result[d]
  BY DEF Settle
<1>3. \A d \in Channels : result'[d] # "none" => waiter'[d] = "wait"
  BY <1>2
<1>4. \A d \in Channels : waiter'[d] = "ok" \/ result'[d] = "sent" => call'.alert \in accepted'
  BY <1>2
<1> QED
  BY <1>1, <1>3, <1>4

LEMMA WaiterCall ==
  ASSUME IInv, NEW c \in Channels, Waiter(c) PROVE CallOK'
<1>1. CASE CheckClosed(c)
  <2>1. PICK where \in {"put", "failed"} : Settle(c, where)
    BY <1>1 DEF CheckClosed
  <2> QED
    BY <1>1, <2>1, SettleCall DEF CheckClosed
<1>2. CASE Put(c)
  <2>1. PICK where \in {"wait", "failed"} : Settle(c, where)
    BY <1>2 DEF Put
  <2> QED
    BY <1>2, <2>1, SettleCall DEF Put
<1>3. CASE Wait(c)
  <2>1. PICK where \in {"ok", "failed"} :
          Settle(c, where) /\ (where = "ok" => result[c] = "sent")
    BY <1>3 DEF Wait
  <2> QED
    BY <1>3, <2>1, SettleCall DEF Wait
<1> QED
  BY <1>1, <1>2, <1>3 DEF Waiter

LEMMA ReturnCall == IInv /\ Return => CallOK'
<1> SUFFICES ASSUME IInv, Return PROVE CallOK'
  OBVIOUS
<1> USE DEF IInv, TypeInv, TypeOK, CallOK
<1>1. call # None /\ call.alert = next /\ call' = None /\ next' = next
  BY DEF Return
<1>2. \A c \in Channels : result[c] = "none"
  BY DEF Return
<1>3. \A a \in Alerts : a > next => answer'[a] = answer[a]
  BY <1>1 DEF Return, Alerts
<1> QED
  BY <1>1, <1>2, <1>3 DEF Return

\* An answer reaches only the waiter whose alert the worker had.
LEMMA AnswerCall ==
  ASSUME IInv, NEW q \in Queues, NEW what \in {"sent", "failed"}, Answer(q, what),
         what = "sent" => job[q].alert \in accepted',
         accepted \subseteq accepted',
         UNCHANGED <<call, waiter, next, answer>>
  PROVE  CallOK'
<1> USE DEF IInv, TypeInv, TypeOK, CallOK
<1> DEFINE Heard == waiter[q[2]] = "wait" /\ q[1] = call.set /\ job[q].alert = call.alert
<1>1. CASE Heard
  <2>1. result' = [result EXCEPT ![q[2]] = what]
    BY <1>1 DEF Answer
  <2>2. \A d \in Channels : result'[d] = IF d = q[2] THEN what ELSE result[d]
    BY <2>1
  <2>3. \A d \in Channels : result'[d] # "none" => waiter'[d] = "wait"
    BY <1>1, <2>2
  <2>4. \A d \in Channels : waiter'[d] = "ok" \/ result'[d] = "sent" => call'.alert \in accepted'
    BY <1>1, <2>2
  <2> QED
    BY <2>3, <2>4
<1>2. CASE ~Heard
  <2>1. result' = result
    BY <1>2 DEF Answer
  <2> QED
    BY <2>1
<1> QED
  BY <1>1, <1>2

LEMMA WorkCall ==
  ASSUME IInv, NEW q \in Queues, Work(q) PROVE CallOK'
<1>1. CASE Take(q)
  BY <1>1 DEF Take, IInv, CallOK, callVars
<1>2. CASE Hold(q)
  BY <1>2, AnswerCall DEF Hold
<1>3. CASE Send(q)
  <2>1. PICK took, err \in BOOLEAN :
          /\ took \/ err
          /\ accepted' = IF took THEN accepted \cup {job[q].alert} ELSE accepted
          /\ RecordOutcome(q, err)
          /\ Answer(q, IF err THEN "failed" ELSE "sent")
    BY <1>3 DEF Send
  <2>2. ~err => job[q].alert \in accepted'
    BY <2>1
  <2>3. accepted \subseteq accepted'
    BY <2>1
  <2>4. PICK what \in {"sent", "failed"} : Answer(q, what) /\ (what = "sent" => ~err)
    BY <2>1
  <2> QED
    BY <1>3, <2>2, <2>3, <2>4, AnswerCall DEF Send
<1>4. CASE Exit(q)
  BY <1>4 DEF Exit, IInv, CallOK, callVars
<1> QED
  BY <1>1, <1>2, <1>3, <1>4 DEF Work

LEMMA INext == IInv /\ [Next]_vars => IInv'
<1> SUFFICES ASSUME IInv, [Next]_vars PROVE IInv'
  OBVIOUS
<1> USE DEF IInv
<1>1. CASE Deliver
  BY <1>1, DeliverType, DeliverCall
<1>2. CASE Return
  BY <1>2, ReturnType, ReturnCall
<1>3. CASE Swap \/ Closing
  <2>1. UNCHANGED <<call, waiter, result, next, answer, accepted>>
    BY <1>3 DEF Swap, Closing, BeginClose, EndClose, callVars
  <2> QED
    BY <1>3, <2>1, SwapType DEF CallOK
<1>4. ASSUME NEW c \in Channels, Waiter(c) PROVE IInv'
  <2>1. CASE CheckClosed(c)
    BY <1>4, <2>1, CheckClosedType, WaiterCall
  <2>2. CASE Put(c)
    <3>1. call # None
      BY <2>2 DEF Put, CallOK
    <3> QED
      BY <1>4, <2>2, <3>1, PutType, WaiterCall
  <2>3. CASE Wait(c)
    BY <1>4, <2>3, WaitType, WaiterCall
  <2> QED
    BY <1>4, <2>1, <2>2, <2>3 DEF Waiter
<1>5. ASSUME NEW q \in Queues, Work(q) PROVE IInv'
  <2>1. TypeInv'
    BY <1>5, TakeType, HoldType, SendType, ExitType DEF Work
  <2> QED
    BY <1>5, <2>1, WorkCall
<1>6. ASSUME NEW q \in Queues, Test(q) PROVE IInv'
  BY <1>6, TestType DEF Test, CallOK, callVars
<1>7. CASE UNCHANGED vars
  BY <1>7 DEF vars, swapVars, queueVars, backoff, callVars, TypeInv, TypeOK, ClosingOK, CallOK
<1> QED
  BY <1>1, <1>2, <1>3, <1>4, <1>5, <1>6, <1>7 DEF Next

\* In every reachable state every variable has its type and no backlog exceeds
\* DefaultQueueDepth, for every number of channels, sets and alerts.
THEOREM DeliveryTypes == Spec => []TypeOK
<1>1. IInv => TypeOK
  BY DEF IInv, TypeInv
<1> QED
  BY <1>1, IInit, INext, PTL DEF Spec

-----------------------------------------------------------------------------
\* The quiet of closed queues.

LEMMA QuietNext == IInv /\ ClosedIsQuiet /\ [Next]_vars => ClosedIsQuiet'
<1> SUFFICES ASSUME IInv, ClosedIsQuiet, [Next]_vars PROVE ClosedIsQuiet'
  OBVIOUS
<1> USE DEF ClosedIsQuiet, IInv, TypeInv, TypeOK
<1>1. CASE Deliver \/ Return \/ Swap \/ \E c \in Channels : Waiter(c)
  BY <1>1 DEF Deliver, Return, Swap, Waiter, CheckClosed, Put, Wait, swapVars, queueVars
<1>2. ASSUME NEW q \in Queues, BeginClose(q) PROVE ClosedIsQuiet'
  BY <1>2 DEF BeginClose
<1>3. CASE EndClose
  BY <1>3 DEF EndClose, queueVars
<1>4. ASSUME NEW q \in Queues, Work(q) PROVE ClosedIsQuiet'
  <2>1. released' = released /\ \A p \in Queues : worker[p] = "exited" => worker'[p] = "exited"
    BY <1>4 DEF Work, Take, Hold, Holding, Send, Rest, Exit, swapVars
  <2> QED
    BY <2>1
<1>5. ASSUME NEW q \in Queues, Test(q) PROVE ClosedIsQuiet'
  BY <1>5 DEF Test, swapVars
<1>6. CASE UNCHANGED vars
  BY <1>6 DEF vars, swapVars, queueVars
<1> QED
  BY <1>1, <1>2, <1>3, <1>4, <1>5, <1>6 DEF Next, Closing

\* A queue whose Close returned sends nothing more, though a job may be left in
\* its buffer: its worker has gone, and no step brings one back.
THEOREM QuietSafe == Spec => []ClosedIsQuiet
<1>1. Init => ClosedIsQuiet
  BY DEF Init, ClosedIsQuiet
<1> QED
  BY <1>1, IInit, INext, QuietNext, PTL DEF Spec

-----------------------------------------------------------------------------
\* The refinement.

LEMMA PromiseStep == IInv /\ [Next]_vars => [Promise!Next]_(Promise!vars)
<1> SUFFICES ASSUME IInv, [Next]_vars PROVE [Promise!Next]_(Promise!vars)
  OBVIOUS
<1> USE DEF IInv, TypeInv, TypeOK
<1>1. CASE Return
  <2>1. /\ call # None /\ call.alert \in Alerts /\ answer[call.alert] = "none"
        /\ accepted' = accepted
    BY <1>1 DEF Return, CallOK, Calls
  <2>2. CASE \E c \in Channels : waiter[c] = "ok"
    <3>1. call.alert \in accepted
      BY <2>2 DEF CallOK
    <3>2. answer' = [answer EXCEPT ![call.alert] = "told"]
      BY <1>1, <2>2 DEF Return
    <3> QED
      BY <2>1, <3>1, <3>2 DEF Promise!Next, Promise!Tell
  <2>3. CASE ~ \E c \in Channels : waiter[c] = "ok"
    <3>1. answer' = [answer EXCEPT ![call.alert] = "failed"]
      BY <1>1, <2>3 DEF Return
    <3> QED
      BY <2>1, <3>1 DEF Promise!Next, Promise!Fail
  <2> QED
    BY <2>2, <2>3
<1>2. ASSUME NEW q \in Queues, Send(q) PROVE [Promise!Next]_(Promise!vars)
  <2>1. job[q].alert \in Alerts
    BY <1>2 DEF Send, Jobs
  <2>2. accepted' = accepted \/ accepted' = accepted \cup {job[q].alert}
    BY <1>2 DEF Send
  <2>3. answer' = answer
    BY <1>2 DEF Send
  <2>4. CASE job[q].alert \in accepted
    BY <2>2, <2>3, <2>4 DEF Promise!vars
  <2>5. CASE job[q].alert \notin accepted
    BY <2>1, <2>2, <2>3, <2>5 DEF Promise!Next, Promise!Accept, Promise!vars
  <2> QED
    BY <2>4, <2>5
<1>3. CASE Deliver \/ Swap \/ Closing \/ \E c \in Channels : Waiter(c)
  BY <1>3 DEF Deliver, Swap, Closing, BeginClose, EndClose, Waiter, CheckClosed, Put, Wait,
              callVars, Promise!vars
<1>4. ASSUME NEW q \in Queues, Take(q) \/ Hold(q) \/ Exit(q) \/ Test(q)
      PROVE  UNCHANGED Promise!vars
  BY <1>4 DEF Take, Hold, Exit, Test, callVars, Promise!vars
<1>5. CASE UNCHANGED vars
  BY <1>5 DEF vars, callVars, Promise!vars
<1> QED
  BY <1>1, <1>2, <1>3, <1>4, <1>5 DEF Next, Work

\* Deliver implements its contract: every step of the queues, of the waiters
\* and of a replacement is a step of DeliveryPromise or leaves it alone, so
\* success is answered only for an alert that a channel accepted.
THEOREM PromiseKept == Spec => KeepsPromise
<1>1. Init => Promise!Init
  BY DEF Init, Promise!Init
<1> QED
  BY <1>1, IInit, INext, PromiseStep, PTL DEF Spec, KeepsPromise, Promise!Spec
=============================================================================
