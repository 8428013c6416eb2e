------------------------ MODULE IncidentSafety_proofs ------------------------
(***************************************************************************)
(* The safety invariants of the life of an incident, for every number of   *)
(* goroutines, every input, every policy and every bound.                  *)
(***************************************************************************)
EXTENDS IncidentLifecycle_proofs, FiniteSetTheorems

-----------------------------------------------------------------------------
(* One live incident of a key *)

OneLive(table) ==
  \A i, j \in Active(table) : table[i].key = table[j].key => i = j

\* The index refuses a second live incident, and the one write that does not
\* look at it stores a closed copy.
OneLiveInv ==
  /\ OneLive(rows)
  /\ \A h \in Handlers : At(h, "close") => Terminal(Copy(h))

\* A write the index lets through keeps one live incident of a key.
LEMMA PutOneLive ==
  ASSUME NEW table, NEW inc, OneLive(table), ~ActiveExists(table, inc)
  PROVE  OneLive(Put(table, inc))
<1> SUFFICES ASSUME NEW i \in Active(Put(table, inc)), NEW j \in Active(Put(table, inc)),
                    Put(table, inc)[i].key = Put(table, inc)[j].key, i # j
             PROVE  FALSE
  BY DEF OneLive
<1>1. ASSUME NEW k \in Active(Put(table, inc)), k # inc.id
      PROVE  k \in Active(table) /\ Put(table, inc)[k] = table[k]
  BY <1>1 DEF Active, Put
<1>2. inc.id \in Active(Put(table, inc)) => ~Terminal(inc)
  BY DEF Active, Put
<1>3. Put(table, inc)[inc.id] = inc
  BY DEF Put
<1>4. ASSUME NEW k \in Active(Put(table, inc)), k # inc.id,
             inc.id \in Active(Put(table, inc)), Put(table, inc)[k].key = inc.key
      PROVE  FALSE
  <2>1. k \in LiveFor(table, inc.key) \ {inc.id}
    BY <1>1, <1>4 DEF LiveFor
  <2> QED BY <1>2, <1>4, <2>1 DEF ActiveExists
<1>5. CASE i = inc.id
  BY <1>3, <1>4, <1>5
<1>6. CASE j = inc.id
  BY <1>3, <1>4, <1>6
<1>7. CASE i # inc.id /\ j # inc.id
  BY <1>1, <1>7 DEF OneLive
<1> QED BY <1>5, <1>6, <1>7

\* What a handler closes is terminal from then on.
LEMMA FoldedCloses ==
  ASSUME TypeOK, NEW h \in Handlers, At(h, "lookup"), NEW inc \in Incidents,
         Folded(h, inc).pc = "close"
  PROVE  Terminal(Folded(h, inc).copy)
<1>1. proc[h] \in States /\ h \in Procs
  BY Before DEF Procs
<1>2. \A where, copy, expect :
        Holding(h, where, copy, expect).pc = where /\ Holding(h, where, copy, expect).copy = copy
  BY <1>1 DEF Holding, States
<1>3. \/ Folded(h, inc).copy = Close(inc, Now(h), "returned")
      \/ Folded(h, inc).copy = Close(inc, Now(h), "reviewed")
  BY <1>2, IdleType DEF Folded
<1>4. \A reason \in {"returned", "reviewed"} : Terminal(Close(inc, Now(h), reason))
  <2> SUFFICES ASSUME NEW reason \in {"returned", "reviewed"}
               PROVE  Close(inc, Now(h), reason).closed # "no"
    BY DEF Terminal
  <2> QED BY DEF Close, Touch, Incidents
<1> QED BY <1>3, <1>4

\* Every write is let through by the index.
LEMMA WritesOneLive ==
  ASSUME TypeOK, OneLiveInv, [Next]_vars
  PROVE  OneLive(rows')
<1>1. \/ UNCHANGED rows
      \/ \E p \in Procs : Write(Copy(p)) /\ ~ActiveExists(rows, Copy(p))
  <2>1. ASSUME NEW h \in Handlers, Handler(h)
        PROVE  UNCHANGED rows \/ (Write(Copy(h)) /\ ~ActiveExists(rows, Copy(h)))
    <3>1. CASE PutClosed(h)
      BY <3>1 DEF OneLiveInv, PutClosed, ActiveExists
    <3>2. CASE PutFolded(h) \/ PutOccurrence(h) \/ Insert(h)
      BY <3>2 DEF PutFolded, PutOccurrence, Insert
    <3>3. CASE \/ Receive(h) \/ FindNothing(h) \/ FindLive(h)
               \/ BuildNew(h) \/ AddOccurrence(h)
      BY <3>3 DEF Receive, FindNothing, FindLive, BuildNew, AddOccurrence, tables
    <3> QED BY <2>1, <3>1, <3>2, <3>3 DEF Handler
  <2>2. ASSUME Schedule
        PROVE  UNCHANGED rows \/ (Write(Copy(Self)) /\ ~ActiveExists(rows, Copy(Self)))
    <3>1. CASE Commit
      BY <3>1 DEF Commit
    <3>2. CASE Tick \/ Scan \/ DeliverySucceeds \/ DeliveryFails \/ Reload \/ EndTick
      BY <3>2 DEF Tick, Scan, DeliverySucceeds, DeliveryFails, Reload, EndTick, tables
    <3>3. CASE ProcessNext
      BY <3>3 DEF ProcessNext, NotDue, Hold, BeginGiveUp, BeginDelivery, Turn, tables
    <3> QED BY <2>2, <3>1, <3>2, <3>3 DEF Schedule
  <2>3. ASSUME NEW p \in People, Person(p)
        PROVE  UNCHANGED rows \/ (Write(Copy(p)) /\ ~ActiveExists(rows, Copy(p)))
    BY <2>3 DEF Person, Ask, Answer, tables
  <2>4. CASE Crash \/ Elapse \/ UNCHANGED vars
    BY <2>4 DEF Crash, Elapse, vars, tables
  <2> QED BY <2>1, <2>2, <2>3, <2>4 DEF Next, Procs, Self
<1> QED BY <1>1, PutOneLive DEF OneLiveInv, OneLive, Write

\* A handler comes to close only by folding.
LEMMA ClosesAreTerminal ==
  ASSUME TypeOK, OneLiveInv, [Next]_vars, NEW h \in Handlers, At(h, "close")'
  PROVE  Terminal(Copy(h))'
<1>1. /\ proc \in [Procs -> States] /\ h \in Procs /\ h # Scheduler /\ h \notin People
      /\ proc[h] \in States
  BY Before, ProcsAssumption DEF TypeOK, ProcsOK, Procs
<1>2. CASE proc'[h] = proc[h]
  BY <1>2 DEF OneLiveInv, At, Copy
<1>3. CASE FindLive(h)
  <2>1. PICK i \in LiveFor(rows, Job(h).key) : Become(h, Folded(h, rows[i]))
    BY <1>3 DEF FindLive
  <2>2. rows[i] \in Incidents /\ At(h, "lookup")
    BY <1>3 DEF TypeOK, TablesOK, LiveFor, Active, FindLive
  <2>3. proc'[h] = Folded(h, rows[i])
    BY <1>1, <2>1 DEF Become
  <2> QED BY <2>2, <2>3, FoldedCloses DEF At, Copy
<1>4. ASSUME \E st : proc' = [proc EXCEPT ![h] = st] /\ st.pc # "close"
      PROVE  FALSE
  BY <1>1, <1>4 DEF At
<1>5. ASSUME NEW q \in Procs, q # h, NEW st, proc' = [proc EXCEPT ![q] = st]
      PROVE  proc'[h] = proc[h]
  BY <1>1, <1>5
<1>6. CASE Handler(h)
  <2>1. CASE Receive(h)
    <3>1. PICK e \in Arrivals :
            proc' = [proc EXCEPT ![h] = [Idle EXCEPT !.pc = "lookup", !.stamp = clock', !.job = e]]
      BY <2>1 DEF Receive, Become
    <3>2. [Idle EXCEPT !.pc = "lookup", !.stamp = clock', !.job = e].pc = "lookup"
      BY IdleType DEF States
    <3> QED BY <1>4, <3>1, <3>2
  <2>2. CASE FindNothing(h)
    <3>1. \/ proc' = [proc EXCEPT ![h] = Idle]
          \/ proc' = [proc EXCEPT ![h] = [proc[h] EXCEPT !.pc = "open"]]
          \/ proc' = [proc EXCEPT ![h] = [proc[h] EXCEPT !.pc = "open", !.stamp = clock']]
      BY <2>2 DEF FindNothing, Become
    <3>2. /\ [proc[h] EXCEPT !.pc = "open"].pc = "open"
          /\ [proc[h] EXCEPT !.pc = "open", !.stamp = clock'].pc = "open"
      BY <1>1 DEF States
    <3> QED BY <1>4, <3>1, <3>2, IdleType
  <2>3. CASE BuildNew(h)
    <3>1. PICK inc : proc' = [proc EXCEPT ![h] = Holding(h, "insert", inc, Unset)]
      BY <2>3 DEF BuildNew, Become
    <3>2. Holding(h, "insert", inc, Unset).pc = "insert"
      BY <1>1 DEF Holding, States
    <3> QED BY <1>4, <3>1, <3>2
  <2>4. CASE PutFolded(h) \/ AddOccurrence(h)
    <3>1. proc' = [proc EXCEPT ![h] = Idle]
      BY <2>4 DEF PutFolded, AddOccurrence, Become
    <3> QED BY <1>4, <3>1, IdleType
  <2>5. CASE Retry(h, "lookup", Idle)
    <3>1. "lookup" \in Places
      BY DEF Places
    <3> QED BY <1>1, <1>4, <2>5, <3>1, RetryType, IdleType
  <2>6. CASE PutClosed(h) \/ PutOccurrence(h) \/ Insert(h)
    <3>1. \/ Become(h, Idle) \/ Retry(h, "lookup", Idle)
          \/ Become(h, [proc[h] EXCEPT !.pc = "record"])
      BY <2>6 DEF PutClosed, PutOccurrence, Insert
    <3>2. [proc[h] EXCEPT !.pc = "record"].pc = "record"
      BY <1>1 DEF States
    <3> QED BY <1>4, <2>5, <3>1, <3>2, IdleType DEF Become
  <2> QED BY <1>3, <1>6, <2>1, <2>2, <2>3, <2>4, <2>6 DEF Handler
<1>7. ASSUME NEW q \in Handlers, q # h, Handler(q) PROVE proc'[h] = proc[h]
  <2>1. \E st : proc' = [proc EXCEPT ![q] = st]
    BY ZenonT(60), <1>7 DEF Handler, Receive, FindNothing, FindLive, PutFolded, PutClosed,
                PutOccurrence, BuildNew, Insert, AddOccurrence, Become, Retry
  <2> QED BY <1>5, <1>7, <2>1 DEF Procs
<1>8. ASSUME Schedule PROVE proc'[h] = proc[h]
  <2>1. UNCHANGED proc \/ \E st : proc' = [proc EXCEPT ![Scheduler] = st]
    BY <1>8 DEF Schedule, Tick, Scan, ProcessNext, NotDue, Hold, BeginGiveUp,
                BeginDelivery, DeliverySucceeds, DeliveryFails, Reload, Commit,
                EndTick, Become, Retry, Self
  <2> QED BY SMTT(30), <1>1, <1>5, <2>1 DEF Procs
<1>9. ASSUME NEW p \in People, Person(p) PROVE proc'[h] = proc[h]
  <2>1. \E st : proc' = [proc EXCEPT ![p] = st]
    BY <1>9 DEF Person, Ask, Answer, Become, Retry
  <2> QED BY <1>1, <1>5, <2>1 DEF Procs
<1>10. CASE Crash
  BY <1>1, <1>10, IdleType DEF Crash, At
<1>11. CASE Elapse \/ UNCHANGED vars
  BY <1>2, <1>11 DEF Elapse, vars
<1> QED BY <1>2, <1>6, <1>7, <1>8, <1>9, <1>10, <1>11 DEF Next

\* The board never shows two live incidents for one condition, whoever races.
THEOREM OneLiveSafe == Spec => []OneLivePerKey
<1>1. Init => OneLiveInv
  BY IdleType DEF Init, OneLiveInv, OneLive, Active, At, Procs
<1>2. TypeOK /\ OneLiveInv /\ [Next]_vars => OneLiveInv'
  BY WritesOneLive, ClosesAreTerminal DEF OneLiveInv, OneLive
<1>3. OneLiveInv => OneLivePerKey
  BY DEF OneLiveInv, OneLive, OneLivePerKey
<1> QED BY <1>1, <1>2, <1>3, TypeSafe, PTL DEF Spec

-----------------------------------------------------------------------------
(* No alert is recorded that no channel accepted *)

\* One, while the scheduler has a delivery of the incident still to record.
Owed(i) ==
  IF /\ proc[Scheduler].pc \in {"reload", "commit"}
     /\ proc[Scheduler].job.what = "alert"
     /\ proc[Scheduler].job.inc.id = i
    THEN 1 ELSE 0

\* The deliveries a copy of the incident may speak of.
Known(i) == told[i] - Owed(i)

Honest(inc, n) ==
  /\ inc.alertCount <= n
  /\ Alerted(inc) \/ inc.closed = "gave-up" => inc.alertCount > 0

Held == Writing \cup {"write"}

\* No row, and no copy anybody is about to write, claims more deliveries than
\* happened; the scheduler's own copy may claim the one it has yet to record.
HonestInv ==
  /\ \A i \in DOMAIN rows : Honest(rows[i], Known(i))
  /\ \A p \in Handlers \cup People :
       proc[p].pc \in Held => Honest(proc[p].copy, Known(proc[p].copy.id))
  /\ At(Scheduler, "commit") => Honest(Copy(Scheduler), told[Copy(Scheduler).id])

\* Honesty is about three fields, and only giving up needs an alert.
LEMMA HonestCopy ==
  ASSUME NEW inc, NEW other, NEW n, Honest(inc, n),
         other.alertCount = inc.alertCount, other.lastAlertAt = inc.lastAlertAt,
         other.closed = inc.closed \/ other.closed # "gave-up"
  PROVE  Honest(other, n)
BY DEF Honest, Alerted

LEMMA HonestMore ==
  ASSUME NEW inc \in Incidents, NEW n \in Int, NEW m \in Int, Honest(inc, n), n <= m
  PROVE  Honest(inc, m)
BY DEF Honest, Incidents

\* What may be known of an incident is a count.
LEMMA KnownType ==
  ASSUME TypeOK, HonestInv, NEW i \in Ids
  PROVE  /\ Known(i) \in Nat /\ told[i] \in Nat /\ Known(i) <= told[i]
         /\ Owed(i) \in {0, 1} /\ Known(i) = told[i] - Owed(i)
<1>1. told[i] \in Nat /\ Owed(i) \in {0, 1}
  BY DEF TypeOK, HistoryOK, Owed
<1>2. CASE i \in DOMAIN rows
  <2>1. rows[i] \in Incidents /\ Honest(rows[i], Known(i))
    BY <1>2 DEF TypeOK, TablesOK, HonestInv
  <2>2. rows[i].alertCount \in Nat /\ rows[i].alertCount <= Known(i)
    BY <2>1 DEF Incidents, Honest
  <2> QED BY <1>1, <2>2 DEF Known
<1>3. CASE i \notin DOMAIN rows
  <2>1. Owed(i) = 0
    BY <1>3, SchedulerBefore DEF Owed, SchedulerOK, Self
  <2> QED BY <1>1, <2>1 DEF Known
<1> QED BY <1>2, <1>3

\* What keeps the invariant, whoever moves: what is known of an incident does
\* not shrink, and every new row and copy is honest.
LEMMA HonestStep ==
  ASSUME TypeOK, TypeOK', HonestInv,
         \A i \in Ids : Known(i)' \in Int /\ Known(i) <= Known(i)',
         \A i \in DOMAIN rows' :
           \/ i \in DOMAIN rows /\ rows'[i] = rows[i]
           \/ Honest(rows'[i], Known(i)'),
         \A p \in Handlers \cup People :
           \/ proc'[p] = proc[p] \/ proc'[p].pc \notin Held
           \/ Honest(proc'[p].copy, Known(proc[p].copy.id)'),
         At(Scheduler, "commit")'
           => Honest(Copy(Scheduler), told[Copy(Scheduler).id])'
  PROVE  HonestInv'
<1>1. ASSUME NEW i \in DOMAIN rows'
      PROVE  Honest(rows'[i], Known(i)')
  <2>1. rows'[i] \in Incidents /\ i \in Ids
    BY DEF TypeOK, TablesOK
  <2>2. CASE i \in DOMAIN rows /\ rows'[i] = rows[i]
    <3>1. Honest(rows'[i], Known(i))
      BY <2>2 DEF HonestInv
    <3>2. Known(i) \in Int /\ Known(i)' \in Int /\ Known(i) <= Known(i)'
      BY <2>1, KnownType
    <3> QED BY <2>1, <3>1, <3>2, HonestMore
  <2> QED BY <2>2
<1>2. ASSUME NEW p \in Handlers \cup People, proc'[p].pc \in Held
      PROVE  Honest(proc'[p].copy, Known(proc[p].copy.id)')
  <2>1. CASE proc'[p] = proc[p]
    <3>1. proc[p].copy \in Incidents
      BY <1>2, <2>1 DEF TypeOK, ProcsOK, HandlerOK, PersonOK, Held, Writing
    <3>2. proc[p].copy.id \in Ids
      BY <3>1 DEF Incidents
    <3>3. PICK i \in Ids : i = proc[p].copy.id
      BY <3>2
    <3>4. Honest(proc[p].copy, Known(i))
      BY <1>2, <2>1, <3>3 DEF HonestInv
    <3>5. Known(i) \in Int /\ Known(i)' \in Int /\ Known(i) <= Known(i)'
      BY KnownType
    <3>6. Honest(proc'[p].copy, Known(i)')
      BY <2>1, <3>1, <3>4, <3>5, HonestMore
    <3> QED BY <2>1, <3>3, <3>6 DEF Known, Owed
  <2> QED BY <1>2, <2>1
<1> QED BY <1>1, <1>2 DEF HonestInv

\* A step of anybody but the scheduler leaves what is known as it is.
LEMMA OthersKnow ==
  ASSUME TypeOK, HonestInv, proc'[Scheduler] = proc[Scheduler], told' = told
  PROVE  /\ \A i \in Ids : Known(i)' = Known(i) /\ Known(i)' \in Int
                           /\ Known(i) <= Known(i)'
         /\ At(Scheduler, "commit")'
              => Honest(Copy(Scheduler), told[Copy(Scheduler).id])'
<1>1. \A i \in Ids : Known(i)' = Known(i)
  BY DEF Known, Owed
<1>2. \A i \in Ids : Known(i) \in Int
  BY KnownType
<1>3. At(Scheduler, "commit")'
        => Honest(Copy(Scheduler), told[Copy(Scheduler).id])'
  BY DEF HonestInv, At, Copy
<1> QED BY <1>1, <1>2, <1>3

\* A handler or a person that moves, writing at most the copy it holds.
LEMMA HonestMove ==
  ASSUME TypeOK, TypeOK', HonestInv, NEW p \in Handlers \cup People, NEW st,
         proc' = [proc EXCEPT ![p] = st], told' = told,
         \/ UNCHANGED rows
         \/ proc[p].pc \in Held /\ Write(Copy(p)),
         \/ st.pc \notin Held
         \/ st.copy \in Incidents /\ Honest(st.copy, Known(st.copy.id))
  PROVE  HonestInv'
<1>1. /\ proc \in [Procs -> States] /\ p \in Procs /\ p # Scheduler
      /\ Handlers \cup People \subseteq Procs
  BY ProcsAssumption DEF TypeOK, ProcsOK, Procs
<1>2. /\ proc'[p] = st /\ proc'[Scheduler] = proc[Scheduler]
      /\ \A q \in Handlers \cup People : q # p => proc'[q] = proc[q]
  BY <1>1 DEF Procs
<1>3. \A i \in Ids : Known(i)' = Known(i) /\ Known(i)' \in Int /\ Known(i) <= Known(i)'
  BY <1>2, OthersKnow
<1>4. At(Scheduler, "commit")' => Honest(Copy(Scheduler), told[Copy(Scheduler).id])'
  BY <1>2, OthersKnow
<1>5. ASSUME NEW i \in DOMAIN rows'
      PROVE  \/ i \in DOMAIN rows /\ rows'[i] = rows[i]
             \/ Honest(rows'[i], Known(i)')
  <2>1. CASE UNCHANGED rows
    BY <1>5, <2>1
  <2>2. CASE proc[p].pc \in Held /\ Write(Copy(p))
    <3>1. rows' = Put(rows, Copy(p))
      BY <2>2 DEF Write
    <3>2. CASE i = Copy(p).id
      <4>1. i \in Ids
        BY DEF TypeOK, TablesOK
      <4>2. Honest(Copy(p), Known(i))
        BY <2>2, <3>2 DEF HonestInv, Copy
      <4>3. rows'[i] = Copy(p)
        BY <3>1, <3>2 DEF Put
      <4> QED BY <1>3, <4>1, <4>2, <4>3
    <3>3. CASE i # Copy(p).id
      BY <3>1, <3>3 DEF Put
    <3> QED BY <3>2, <3>3
  <2> QED BY <2>1, <2>2
<1>6. ASSUME NEW q \in Handlers \cup People
      PROVE  \/ proc'[q] = proc[q] \/ proc'[q].pc \notin Held
             \/ Honest(proc'[q].copy, Known(proc[q].copy.id)')
  <2>1. CASE q # p \/ st.pc \notin Held
    BY <1>2, <2>1
  <2>2. CASE q = p /\ st.pc \in Held
    <3>1. st.copy.id \in Ids
      BY <2>2 DEF Incidents
    <3>2. PICK i \in Ids : i = st.copy.id
      BY <3>1
    <3>3. Honest(st.copy, Known(i)')
      BY <1>3, <2>2, <3>2
    <3> QED BY <1>2, <2>2, <3>2, <3>3 DEF Known, Owed
  <2> QED BY <2>1, <2>2
<1> QED BY <1>3, <1>4, <1>5, <1>6, HonestStep

\* Folding an arrival into a live incident claims nothing.
LEMMA HonestFolded ==
  ASSUME TypeOK, NEW h \in Handlers, At(h, "lookup"), NEW inc \in Incidents,
         NEW n, Honest(inc, n), Folded(h, inc).pc \in Held
  PROVE  Honest(Folded(h, inc).copy, n)
<1> DEFINE now == Now(h)
           raised == RaiseSeverity(inc, Job(h).severity)
           folded == [raised EXCEPT !.updatedAt = now]
<1>1. \A where, copy, expect :
        Holding(h, where, copy, expect).pc = where /\ Holding(h, where, copy, expect).copy = copy
  BY Before DEF Holding, States, Procs
<1>2. \/ Folded(h, inc).copy = Resolve(inc, now)
      \/ Folded(h, inc).copy = Close(inc, now, "returned")
      \/ Folded(h, inc).copy = Close(inc, now, "reviewed")
      \/ Folded(h, inc).copy = Occur(raised, now)
      \/ Folded(h, inc).copy = folded
  BY <1>1, IdleType DEF Folded, Held, Writing
<1>3. \A other \in {Resolve(inc, now), Close(inc, now, "returned"),
                    Close(inc, now, "reviewed"), Occur(raised, now), folded} :
        /\ other.alertCount = inc.alertCount /\ other.lastAlertAt = inc.lastAlertAt
        /\ other.closed = inc.closed \/ other.closed # "gave-up"
  <2>1. raised \in Incidents /\ raised.alertCount = inc.alertCount
        /\ raised.lastAlertAt = inc.lastAlertAt /\ raised.closed = inc.closed
    <3>1. Job(h).severity \in Severities
      BY Before DEF HandlerOK, At, Job, Procs, Events
    <3> QED BY <3>1 DEF RaiseSeverity, Incidents
  <2>2. /\ folded.alertCount = inc.alertCount /\ folded.lastAlertAt = inc.lastAlertAt
        /\ folded.closed = inc.closed
    <3> HIDE DEF raised
    <3> QED BY <2>1 DEF Incidents
  <2>3. /\ Occur(raised, now).alertCount = inc.alertCount
        /\ Occur(raised, now).lastAlertAt = inc.lastAlertAt
        /\ Occur(raised, now).closed = inc.closed
    <3> HIDE DEF raised
    <3> QED BY <2>1 DEF Occur, Touch, Incidents
  <2>4. /\ Resolve(inc, now).alertCount = inc.alertCount
        /\ Resolve(inc, now).lastAlertAt = inc.lastAlertAt
        /\ Resolve(inc, now).closed = inc.closed
    BY DEF Resolve, Touch, Incidents
  <2>5. \A reason \in {"returned", "reviewed"} :
          /\ Close(inc, now, reason).alertCount = inc.alertCount
          /\ Close(inc, now, reason).lastAlertAt = inc.lastAlertAt
          /\ \/ Close(inc, now, reason).closed = inc.closed
             \/ Close(inc, now, reason).closed # "gave-up"
    BY DEF Close, Touch, Incidents
  <2> HIDE DEF now, raised, folded
  <2> QED BY <2>2, <2>3, <2>4, <2>5
<1> HIDE DEF now, raised, folded
<1> QED BY <1>2, <1>3, HonestCopy

LEMMA HonestHandler ==
  ASSUME TypeOK, TypeOK', HonestInv, NEW h \in Handlers, Handler(h)
  PROVE  HonestInv'
<1>1. /\ proc[h] \in States /\ h \in Procs /\ h \in Handlers \cup People
      /\ "lookup" \in Places /\ Idle \in States /\ Idle.pc \notin Held
      /\ "lookup" \notin Held /\ "open" \notin Held
      /\ {"put", "close", "occur", "record", "insert"} \subseteq Held
  BY Before, IdleType DEF Procs, Places, Held, Writing
<1>2. told' = told
  BY DEF Handler, Receive, FindNothing, FindLive, PutFolded, PutClosed, PutOccurrence,
         BuildNew, Insert, AddOccurrence, history
<1>3. CASE Receive(h)
  <2>1. PICK e \in Arrivals :
          proc' = [proc EXCEPT ![h] = [Idle EXCEPT !.pc = "lookup", !.stamp = clock', !.job = e]]
    BY <1>3 DEF Receive, Become
  <2>2. [Idle EXCEPT !.pc = "lookup", !.stamp = clock', !.job = e].pc = "lookup"
    BY IdleType DEF States
  <2> QED BY <1>1, <1>2, <1>3, <2>1, <2>2, HonestMove DEF Receive, tables
<1>4. CASE FindNothing(h)
  <2>1. \/ proc' = [proc EXCEPT ![h] = Idle]
        \/ proc' = [proc EXCEPT ![h] = [proc[h] EXCEPT !.pc = "open"]]
        \/ proc' = [proc EXCEPT ![h] = [proc[h] EXCEPT !.pc = "open", !.stamp = clock']]
    BY <1>4 DEF FindNothing, Become
  <2>2. /\ [proc[h] EXCEPT !.pc = "open"].pc = "open"
        /\ [proc[h] EXCEPT !.pc = "open", !.stamp = clock'].pc = "open"
    BY <1>1 DEF States
  <2> QED BY <1>1, <1>2, <1>4, <2>1, <2>2, HonestMove DEF FindNothing, tables
<1>5. CASE FindLive(h)
  <2>1. PICK i \in LiveFor(rows, Job(h).key) : proc' = [proc EXCEPT ![h] = Folded(h, rows[i])]
    BY <1>5 DEF FindLive, Become
  <2>2. /\ rows[i] \in Incidents /\ rows[i].id = i /\ At(h, "lookup")
        /\ Honest(rows[i], Known(i)) /\ rows' = rows
    BY <1>5 DEF TypeOK, TablesOK, LiveFor, Active, FindLive, HonestInv, tables
  <2> DEFINE st == Folded(h, rows[i])
  <2>3. /\ st \in States /\ HandlerOK(st)
        /\ st.pc \in Writing => st.copy.id = rows[i].id
    BY <2>2, FoldedType
  <2>4. CASE st.pc \in Held
    <3>1. st.pc \in Writing
      BY <2>3, <2>4 DEF Held, HandlerOK, Writing
    <3>2. st.copy \in Incidents /\ st.copy.id = i
      BY <2>2, <2>3, <3>1 DEF HandlerOK
    <3>3. Honest(st.copy, Known(i))
      BY <2>2, <2>4, HonestFolded
    <3> HIDE DEF st
    <3> QED BY <1>1, <1>2, <2>1, <2>2, <3>2, <3>3, HonestMove DEF st
  <2>5. CASE st.pc \notin Held
    BY <1>1, <1>2, <2>1, <2>2, <2>5, HonestMove
  <2> QED BY <2>4, <2>5
<1>6. CASE PutFolded(h) \/ AddOccurrence(h)
  <2>1. /\ proc' = [proc EXCEPT ![h] = Idle]
        /\ \/ UNCHANGED rows
           \/ proc[h].pc \in Held /\ Write(Copy(h))
    BY <1>1, <1>6 DEF PutFolded, AddOccurrence, Become, At
  <2> QED BY <1>1, <1>2, <2>1, HonestMove
<1>7. CASE PutClosed(h) \/ PutOccurrence(h) \/ Insert(h)
  <2>1. /\ proc[h].pc \in Held /\ proc[h].pc \in Writing
        /\ UNCHANGED rows \/ Write(Copy(h))
        /\ \/ proc' = [proc EXCEPT ![h] = Idle]
           \/ Retry(h, "lookup", Idle)
           \/ proc' = [proc EXCEPT ![h] = [proc[h] EXCEPT !.pc = "record"]]
    BY <1>1, <1>7 DEF PutClosed, PutOccurrence, Insert, Become, At, Writing
  <2>2. CASE proc' = [proc EXCEPT ![h] = Idle]
    BY <1>1, <1>2, <2>1, <2>2, HonestMove
  <2>3. CASE Retry(h, "lookup", Idle)
    <3>1. PICK st \in States : /\ proc' = [proc EXCEPT ![h] = st]
                               /\ st.pc \notin Held
      BY <1>1, <2>3, RetryType
    <3> QED BY <1>1, <1>2, <2>1, <3>1, HonestMove
  <2>4. CASE proc' = [proc EXCEPT ![h] = [proc[h] EXCEPT !.pc = "record"]]
    <3> DEFINE st == [proc[h] EXCEPT !.pc = "record"]
    <3>1. st.copy = proc[h].copy
      BY <1>1 DEF States
    <3>2. proc[h].copy \in Incidents /\ Honest(proc[h].copy, Known(proc[h].copy.id))
      BY <1>1, <2>1, WritingHandler DEF HonestInv, Copy
    <3>3. proc' = [proc EXCEPT ![h] = st]
      BY <2>4
    <3> HIDE DEF st
    <3> QED BY <1>1, <1>2, <2>1, <3>1, <3>2, <3>3, HonestMove
  <2> QED BY <2>1, <2>2, <2>3, <2>4
<1>8. CASE BuildNew(h)
  <2>1. PICK inc \in NewIncidents(Job(h), Now(h)) :
          proc' = [proc EXCEPT ![h] = Holding(h, "insert", inc, Unset)]
    BY <1>8 DEF BuildNew, Become
  <2>2. inc \in Incidents /\ inc.alertCount = 0 /\ inc.lastAlertAt = Unset /\ inc.closed = "no"
    <3>1. /\ nextId \in Ids /\ Job(h).key \in Keys /\ Job(h).severity \in Severities
          /\ Now(h) \in Nat
      BY <1>1, <1>8, Before DEF BuildNew, Job, Now, Events, HandlerOK, At
    <3>2. \/ inc = Open(nextId, Job(h).key, Job(h).severity, Now(h))
          \/ \E i \in DOMAIN rows : inc = Recur(rows[i], nextId, Job(h).severity, Now(h))
      BY <2>1 DEF NewIncidents, LatestFor
    <3>3. \A i \in DOMAIN rows : rows[i] \in Incidents
      BY DEF TypeOK, TablesOK
    <3>4. inc \in Incidents
      BY <3>1, <3>2, <3>3, NewIncidentTypes
    <3>5. CASE inc = Open(nextId, Job(h).key, Job(h).severity, Now(h))
      BY <3>4, <3>5 DEF Open
    <3>6. CASE \E i \in DOMAIN rows : inc = Recur(rows[i], nextId, Job(h).severity, Now(h))
      <4>1. PICK i \in DOMAIN rows : inc = Recur(rows[i], nextId, Job(h).severity, Now(h))
        BY <3>6
      <4> QED BY <3>4, <4>1 DEF Open, Recur
    <3> QED BY <3>2, <3>5, <3>6
  <2>3. inc.id \in Ids
    BY <2>2 DEF Incidents
  <2>4. Honest(inc, Known(inc.id))
    BY <2>2, <2>3, KnownType DEF Honest, Alerted
  <2>5. Holding(h, "insert", inc, Unset).copy = inc
    BY <1>1 DEF Holding, States
  <2> QED BY <1>1, <1>2, <1>8, <2>1, <2>2, <2>4, <2>5, HonestMove DEF BuildNew, tables
<1> QED BY <1>3, <1>4, <1>5, <1>6, <1>7, <1>8 DEF Handler

\* A request answered by a person claims nothing.
LEMMA HonestPerson ==
  ASSUME TypeOK, TypeOK', HonestInv, NEW p \in People, Person(p)
  PROVE  HonestInv'
<1>1. /\ proc[p] \in States /\ p \in Procs /\ p \in Handlers \cup People
      /\ PersonOK(proc[p], DOMAIN rows) /\ "read" \in Places
      /\ Idle \in States /\ Idle.pc \notin Held /\ "read" \notin Held
  BY Before, IdleType DEF Procs, Places, Held, Writing
<1>2. told' = told
  BY DEF Person, Ask, Answer, history
<1>3. CASE Ask(p)
  <2>1. rows' = rows /\ clock' \in Nat
    BY <1>3, ClockType DEF Ask, tables
  <2>2. PICK r \in Asked(p) :
          \/ proc' = [proc EXCEPT ![p] = Idle]
          \/ proc' = [proc EXCEPT ![p] =
                        [proc[p] EXCEPT !.pc = "write", !.stamp = clock', !.job = r,
                           !.copy = Applied(r, rows[r.id], clock'),
                           !.expect = rows[r.id].updatedAt]]
    BY <1>3 DEF Ask, Become
  <2>3. CASE proc' = [proc EXCEPT ![p] = Idle]
    BY <1>1, <1>2, <2>1, <2>3, HonestMove
  <2>4. CASE proc' # [proc EXCEPT ![p] = Idle]
    <3> DEFINE inc == rows[r.id]
               copy == Applied(r, inc, clock')
               st == [proc[p] EXCEPT !.pc = "write", !.stamp = clock', !.job = r,
                        !.copy = copy, !.expect = inc.updatedAt]
    <3>1. r.id \in DOMAIN rows
      <4>1. CASE At(p, "idle")
        BY <4>1 DEF Asked
      <4>2. CASE At(p, "read")
        BY <1>1, <4>2 DEF Asked, PersonOK, At, Job
      <4> QED BY <1>3, <4>1, <4>2 DEF Ask
    <3>2. /\ inc \in Incidents /\ inc.id = r.id /\ r.id \in Ids
          /\ Honest(inc, Known(r.id))
      BY <3>1 DEF TypeOK, TablesOK, HonestInv
    <3>3. /\ copy \in Incidents /\ copy.id = r.id
          /\ copy.alertCount = inc.alertCount /\ copy.lastAlertAt = inc.lastAlertAt
          /\ copy.closed = inc.closed \/ copy.closed # "gave-up"
      <4>1. "operator" \in CloseReasons /\ inc.severity \in Severities
        BY <3>2 DEF CloseReasons, Incidents
      <4>2. /\ Close(inc, clock', "operator") \in Incidents
            /\ Close(inc, clock', "operator").id = inc.id
            /\ Acknowledge(inc, clock') \in Incidents
            /\ Acknowledge(inc, clock').id = inc.id
        <5> HIDE DEF inc
        <5> QED BY ZenonT(60), <2>1, <3>2, <4>1, OperationTypes
      <4>3. /\ Close(inc, clock', "operator").alertCount = inc.alertCount
            /\ Close(inc, clock', "operator").lastAlertAt = inc.lastAlertAt
            /\ \/ Close(inc, clock', "operator").closed = inc.closed
               \/ Close(inc, clock', "operator").closed # "gave-up"
            /\ Acknowledge(inc, clock').alertCount = inc.alertCount
            /\ Acknowledge(inc, clock').lastAlertAt = inc.lastAlertAt
            /\ Acknowledge(inc, clock').closed = inc.closed
        <5> HIDE DEF inc
        <5> QED BY <3>2 DEF Close, Acknowledge, Touch, Incidents
      <4> QED BY <3>2, <4>2, <4>3 DEF Applied
    <3>4. Honest(copy, Known(copy.id))
      <4> HIDE DEF inc, copy
      <4> QED BY <3>2, <3>3, HonestCopy
    <3>5. st.copy = copy
      <4> HIDE DEF copy
      <4> QED BY <1>1 DEF States
    <3>6. proc' = [proc EXCEPT ![p] = st]
      BY <2>2, <2>4
    <3> HIDE DEF st, copy
    <3> QED BY <1>1, <1>2, <2>1, <3>3, <3>4, <3>5, <3>6, HonestMove
  <2> QED BY <2>3, <2>4
<1>4. CASE Answer(p)
  <2>1. /\ proc[p].pc \in Held
        /\ UNCHANGED rows \/ Write(Copy(p))
        /\ proc' = [proc EXCEPT ![p] = Idle] \/ Retry(p, "read", Idle)
    BY <1>4 DEF Answer, Become, At, Held
  <2>2. CASE proc' = [proc EXCEPT ![p] = Idle]
    BY <1>1, <1>2, <2>1, <2>2, HonestMove
  <2>3. CASE Retry(p, "read", Idle)
    <3>1. PICK st \in States : proc' = [proc EXCEPT ![p] = st] /\ st.pc \notin Held
      BY <1>1, <2>3, RetryType
    <3> QED BY <1>1, <1>2, <2>1, <3>1, HonestMove
  <2> QED BY <2>1, <2>2, <2>3
<1> QED BY <1>3, <1>4 DEF Person

\* A step of the scheduler that neither records nor fetches a delivery.
LEMMA SchedulerIdle ==
  ASSUME TypeOK, TypeOK', HonestInv, UNCHANGED <<rows, told>>,
         \A p \in Handlers \cup People :
           proc'[p] = proc[p] \/ proc'[p].pc \notin Held,
         proc'[Scheduler].pc # "commit",
         proc'[Scheduler].pc = "reload" => proc'[Scheduler].job.what # "alert"
  PROVE  HonestInv'
<1>1. \A i \in Ids : Known(i)' = told[i]
  BY DEF Known, Owed, TypeOK, HistoryOK
<1>2. \A i \in Ids : Known(i)' \in Int /\ Known(i) <= Known(i)'
  BY <1>1, KnownType
<1>3. ~At(Scheduler, "commit")'
  BY DEF At
<1> QED BY <1>2, <1>3, HonestStep

\* The copy the scheduler makes for its write claims at most the deliveries
\* that happened.
LEMMA HonestMutated ==
  ASSUME NEW task \in Tasks, NEW fresh \in Incidents, NEW now \in Nat, NEW n \in Nat,
         task.what # "deliver",
         Honest(fresh, IF task.what = "alert" THEN n - 1 ELSE n)
  PROVE  \A inc \in Mutated(task, fresh, now) : Honest(inc, n)
<1>1. SUFFICES ASSUME NEW inc \in Mutated(task, fresh, now)
               PROVE  Honest(inc, n)
  OBVIOUS
<1>2. task.what \in {"alert", "failure", "give-up"}
  BY DEF Tasks
<1>3. fresh.alertCount \in Nat
  BY DEF Incidents
<1>4. CASE task.what = "give-up"
  <2>1. inc = Close(fresh, now, "gave-up") /\ Alerted(fresh)
    BY <1>1, <1>4 DEF Mutated, ShouldGiveUp
  <2>2. inc.alertCount = fresh.alertCount /\ inc.lastAlertAt = fresh.lastAlertAt
    BY <2>1 DEF Close, Touch, Incidents
  <2> QED BY <1>4, <2>1, <2>2 DEF Honest, Alerted
<1>5. CASE task.what = "alert"
  <2>1. inc = RecordAlert(fresh, now, task.stage)
    BY <1>1, <1>5 DEF Mutated
  <2>2. inc.alertCount = fresh.alertCount + 1
    BY <2>1 DEF RecordAlert, Touch, Incidents
  <2> QED BY <1>3, <1>5, <2>2 DEF Honest
<1>6. CASE task.what = "failure"
  <2>1. inc = RecordDeliveryFailure(fresh, now)
    BY <1>1, <1>6 DEF Mutated
  <2>2. /\ inc.alertCount = fresh.alertCount /\ inc.lastAlertAt = fresh.lastAlertAt
        /\ inc.closed = fresh.closed
    BY <2>1 DEF RecordDeliveryFailure, Touch, Incidents
  <2> QED BY <1>6, <2>2, HonestCopy
<1> QED BY <1>2, <1>4, <1>5, <1>6

\* The scheduler moves alone.
LEMMA SchedulerAlone ==
  ASSUME TypeOK, NEW st, proc' = [proc EXCEPT ![Scheduler] = st]
  PROVE  /\ proc'[Scheduler] = st
         /\ \A p \in Handlers \cup People : proc'[p] = proc[p]
BY ProcsAssumption DEF TypeOK, ProcsOK, Procs

LEMMA HonestPass ==
  ASSUME TypeOK, TypeOK', HonestInv,
         Tick \/ Scan \/ ProcessNext \/ EndTick \/ DeliveryFails
  PROVE  HonestInv'
<1>1. UNCHANGED <<rows, told>>
  BY DEF Tick, Scan, ProcessNext, NotDue, Hold, BeginGiveUp, BeginDelivery, Turn, EndTick,
         DeliveryFails, tables, history
<1>2. /\ proc[Self] \in States /\ Idle \in States /\ Settled \in States
      /\ Idle.pc = "idle" /\ Self = Scheduler /\ Settled.pc = "next"
  BY SchedulerBefore, IdleType, SettledType
<1>3. CASE \E st : /\ proc' = [proc EXCEPT ![Scheduler] = st] /\ st.pc # "commit"
                   /\ st.pc = "reload" => st.job.what # "alert"
  BY <1>1, <1>3, SchedulerAlone, SchedulerIdle
<1>4. CASE Tick
  <2> DEFINE st == [Idle EXCEPT !.pc = "scan", !.stamp = clock']
  <2>1. st.pc = "scan"
    BY <1>2 DEF States
  <2>2. proc' = [proc EXCEPT ![Scheduler] = st]
    BY <1>4 DEF Tick, Become, Self
  <2> HIDE DEF st
  <2> QED BY <1>3, <2>1, <2>2
<1>5. CASE Scan
  <2> DEFINE st == [proc[Self] EXCEPT !.pc = "next"]
  <2>1. st.pc = "next"
    BY <1>2 DEF States
  <2>2. proc' = [proc EXCEPT ![Scheduler] = st]
    BY <1>5 DEF Scan, Become, Self
  <2> HIDE DEF st
  <2> QED BY <1>3, <2>1, <2>2
<1>6. CASE EndTick
  BY <1>2, <1>3, <1>6 DEF EndTick, Become
<1>7. CASE DeliveryFails
  <2> DEFINE st == [proc[Self] EXCEPT !.pc = "reload", !.job.what = "failure"]
  <2>1. proc[Self].job \in Tasks
    BY <1>7, SchedulerBefore DEF SchedulerOK, DeliveryFails, At
  <2>2. st.pc = "reload" /\ st.job.what = "failure"
    BY <1>2, <2>1 DEF States, Tasks
  <2>3. proc' = [proc EXCEPT ![Scheduler] = st]
    BY <1>7 DEF DeliveryFails, Become, Self
  <2> HIDE DEF st
  <2> QED BY <1>3, <2>2, <2>3
<1>8. CASE ProcessNext
  <2>1. PICK inc \in pending : \/ NotDue(inc) \/ Hold(inc)
                              \/ BeginGiveUp(inc) \/ BeginDelivery(inc)
    BY <1>8 DEF ProcessNext
  <2>2. At(Self, "next")
    BY <2>1 DEF NotDue, Hold, BeginGiveUp, BeginDelivery, Turn
  <2>3. CASE NotDue(inc) \/ Hold(inc)
    <3>1. UNCHANGED proc
      BY <2>3 DEF NotDue, Hold
    <3> QED BY <1>1, <1>2, <2>2, <3>1, SchedulerIdle DEF At
  <2>4. CASE BeginGiveUp(inc)
    <3> DEFINE task == Task("give-up", inc, [stage |-> 0, channels |-> {}])
               st == [Settled EXCEPT !.pc = "reload", !.job = task]
    <3>1. st.job = task /\ task.what = "give-up"
      BY <1>2 DEF States, Task
    <3>2. st.pc = "reload"
      <4> HIDE DEF task
      <4> QED BY <1>2 DEF States
    <3>3. proc' = [proc EXCEPT ![Scheduler] = st]
      BY <2>4 DEF BeginGiveUp, Become, Self
    <3> HIDE DEF st, task
    <3> QED BY <1>3, <3>1, <3>2, <3>3
  <2>5. CASE BeginDelivery(inc)
    <3>1. PICK d \in Wanted(inc, Now(Self)) :
            proc' = [proc EXCEPT ![Scheduler] =
                       [Settled EXCEPT !.pc = "deliver", !.job = Task("deliver", inc, d)]]
      BY <2>5 DEF BeginDelivery, Become, Self
    <3> DEFINE task == Task("deliver", inc, d)
               st == [Settled EXCEPT !.pc = "deliver", !.job = task]
    <3>2. st.pc = "deliver"
      <4> HIDE DEF task
      <4> QED BY <1>2 DEF States
    <3>3. proc' = [proc EXCEPT ![Scheduler] = st]
      BY <3>1
    <3> HIDE DEF st
    <3> QED BY <1>3, <3>2, <3>3
  <2> QED BY <2>1, <2>3, <2>4, <2>5
<1> QED BY SMTT(30), <1>4, <1>5, <1>6, <1>7, <1>8

LEMMA HonestDelivery ==
  ASSUME TypeOK, TypeOK', HonestInv, DeliverySucceeds
  PROVE  HonestInv'
<1> DEFINE st == [proc[Self] EXCEPT !.pc = "reload", !.job.what = "alert"]
           id == proc[Self].job.inc.id
<1>1. /\ proc[Self] \in States /\ proc[Self].job \in Tasks /\ Self = Scheduler
      /\ proc[Self].pc = "deliver" /\ id \in Ids
  BY SchedulerBefore DEF SchedulerOK, DeliverySucceeds, At, TypeOK, TablesOK
<1>2. st.pc = "reload" /\ st.job.what = "alert" /\ st.job.inc.id = id
  BY <1>1 DEF States, Tasks
<1>3. /\ proc'[Scheduler] = st
      /\ \A p \in Handlers \cup People : proc'[p] = proc[p]
  <2>1. proc' = [proc EXCEPT ![Scheduler] = st]
    BY DEF DeliverySucceeds, Become, Self
  <2> HIDE DEF st
  <2> QED BY <2>1, SchedulerAlone
<1>4. told' = [told EXCEPT ![id] = @ + 1] /\ rows' = rows
  BY DEF DeliverySucceeds, Job, tables
<1>5. \A i \in Ids : Known(i) = told[i] /\ told[i] \in Nat
  BY <1>1 DEF Known, Owed, TypeOK, HistoryOK
<1>6. \A i \in Ids : Known(i)' = told[i]
  <2> SUFFICES ASSUME NEW i \in Ids PROVE Known(i)' = told[i]
    OBVIOUS
  <2>1. Owed(i)' = IF i = id THEN 1 ELSE 0
    <3> HIDE DEF st, id
    <3> QED BY <1>2, <1>3 DEF Owed
  <2>2. told'[i] = IF i = id THEN told[i] + 1 ELSE told[i]
    <3> HIDE DEF id
    <3> QED BY <1>4 DEF TypeOK, HistoryOK
  <2> QED BY <1>5, <2>1, <2>2 DEF Known
<1>7. \A i \in Ids : Known(i)' \in Int /\ Known(i) <= Known(i)'
  BY <1>5, <1>6
<1>8. ~At(Scheduler, "commit")'
  <2> HIDE DEF st
  <2> QED BY <1>2, <1>3 DEF At
<1> QED BY <1>3, <1>4, <1>7, <1>8, HonestStep

LEMMA HonestReload ==
  ASSUME TypeOK, TypeOK', HonestInv, Reload
  PROVE  HonestInv'
<1> DEFINE fresh == rows[Job(Self).inc.id]
           id == proc[Self].job.inc.id
<1>1. /\ proc[Self] \in States /\ Self = Scheduler /\ Scheduler \in Procs
      /\ Settled.pc = "next" /\ proc[Self].pc = "reload" /\ proc[Self].stamp \in Nat
  BY SchedulerBefore, SettledType DEF Reload, At
<1>2. UNCHANGED <<rows, told>>
  BY DEF Reload, tables, history
<1>3. CASE Become(Self, Settled)
  <2>1. proc' = [proc EXCEPT ![Scheduler] = Settled]
    BY <1>1, <1>3 DEF Become
  <2> QED BY <1>1, <1>2, <2>1, SchedulerAlone, SchedulerIdle
<1>4. ASSUME NEW inc \in Mutated(Job(Self), fresh, Now(Self)),
             Become(Self, Holding(Self, "commit", inc, fresh.updatedAt))
      PROVE  HonestInv'
  <2> DEFINE st == Holding(Self, "commit", inc, fresh.updatedAt)
  <2>1. /\ proc[Self].job \in Tasks /\ id \in Ids /\ proc[Self].job.what # "deliver"
        /\ fresh \in Incidents /\ fresh.id = id /\ Honest(fresh, Known(id))
    BY <1>1, AtWork DEF Job, HonestInv, TypeOK, TablesOK
  <2>2. /\ Known(id) \in Nat /\ told[id] \in Nat
        /\ Known(id) = IF proc[Self].job.what = "alert" THEN told[id] - 1 ELSE told[id]
    <3>1. Owed(id) = IF proc[Self].job.what = "alert" THEN 1 ELSE 0
      BY <1>1 DEF Owed
    <3> HIDE DEF id
    <3> QED BY <2>1, <3>1, KnownType
  <2>3. inc \in Incidents /\ inc.id = id /\ Honest(inc, told[id])
    <3> HIDE DEF id, fresh
    <3> QED BY <1>1, <2>1, <2>2, MutatedType, HonestMutated DEF Job, Now
  <2>4. /\ st.pc = "commit" /\ st.copy = inc /\ st.job = proc[Self].job
    BY <1>1 DEF Holding, States
  <2>5. /\ proc'[Scheduler] = st
        /\ \A p \in Handlers \cup People : proc'[p] = proc[p]
    <3>1. proc' = [proc EXCEPT ![Scheduler] = st]
      BY <1>1, <1>4 DEF Become
    <3> HIDE DEF st
    <3> QED BY <3>1, SchedulerAlone
  <2>6. \A i \in Ids : Known(i)' = Known(i)
    <3> HIDE DEF st
    <3> QED BY <1>1, <1>2, <2>4, <2>5 DEF Known, Owed
  <2>7. \A i \in Ids : Known(i)' \in Int /\ Known(i) <= Known(i)'
    BY <2>6, KnownType
  <2>8. Honest(Copy(Scheduler), told[Copy(Scheduler).id])'
    <3> HIDE DEF st
    <3> QED BY <1>2, <2>3, <2>4, <2>5 DEF Copy
  <2> QED BY <1>2, <2>5, <2>7, <2>8, HonestStep
<1> QED BY <1>3, <1>4 DEF Reload

LEMMA HonestCommit ==
  ASSUME TypeOK, TypeOK', HonestInv, Commit
  PROVE  HonestInv'
<1> DEFINE copy == Copy(Scheduler)
<1>1. /\ proc[Self] \in States /\ Self = Scheduler /\ proc[Self].pc = "commit"
      /\ Settled \in States /\ Settled.pc = "next" /\ Scheduler \in Procs
      /\ "reload" \in Places
  BY SchedulerBefore, SettledType DEF Commit, At, Places
<1>2. copy \in Incidents /\ copy.id \in Ids /\ Honest(copy, told[copy.id])
  BY <1>1, SchedulerBefore DEF SchedulerOK, HonestInv, At, Copy, Incidents
<1>3. told' = told
  BY DEF Commit, history
<1>4. CASE Become(Self, Settled) /\ (Write(copy) \/ UNCHANGED rows)
  <2>1. /\ proc'[Scheduler] = Settled
        /\ \A p \in Handlers \cup People : proc'[p] = proc[p]
    BY <1>1, <1>4, SchedulerAlone DEF Become
  <2>2. \A i \in Ids : Known(i)' = told[i] /\ told[i] \in Nat
    BY <1>1, <1>3, <2>1 DEF Known, Owed, TypeOK, HistoryOK
  <2>3. \A i \in Ids : Known(i)' \in Int /\ Known(i) <= Known(i)'
    BY <2>2, KnownType
  <2>4. ASSUME NEW i \in DOMAIN rows'
        PROVE  \/ i \in DOMAIN rows /\ rows'[i] = rows[i]
               \/ Honest(rows'[i], Known(i)')
    <3>1. CASE UNCHANGED rows
      BY <2>4, <3>1
    <3>2. CASE Write(copy) /\ i # copy.id
      BY <2>4, <3>2 DEF Write, Put
    <3>3. CASE Write(copy) /\ i = copy.id
      <4>1. rows'[i] = copy
        BY <3>3 DEF Write, Put
      <4>2. Known(i)' = told[i]
        BY <1>2, <2>2, <3>3
      <4> QED BY <1>2, <3>3, <4>1, <4>2
    <3> QED BY <1>4, <3>1, <3>2, <3>3
  <2>5. ~At(Scheduler, "commit")'
    BY <1>1, <2>1 DEF At
  <2> QED BY <2>1, <2>3, <2>4, <2>5, HonestStep
<1>5. CASE Retry(Self, "reload", Settled) /\ UNCHANGED rows
  <2>1. PICK st \in States :
          /\ proc' = [proc EXCEPT ![Scheduler] = st]
          /\ st = Settled \/ (st.pc = "reload" /\ st.job = proc[Scheduler].job)
    BY <1>1, <1>5, RetryType
  <2>2. /\ proc'[Scheduler] = st
        /\ \A p \in Handlers \cup People : proc'[p] = proc[p]
    BY <2>1, SchedulerAlone
  <2>3. CASE st = Settled
    BY <1>1, <1>3, <1>5, <2>2, <2>3, SchedulerIdle
  <2>4. CASE st.pc = "reload" /\ st.job = proc[Scheduler].job
    <3>1. \A i \in Ids : Known(i)' = Known(i)
      BY <1>1, <1>3, <2>2, <2>4 DEF Known, Owed
    <3>2. \A i \in Ids : Known(i)' \in Int /\ Known(i) <= Known(i)'
      BY <3>1, KnownType
    <3>3. ~At(Scheduler, "commit")'
      BY <2>2, <2>4 DEF At
    <3> QED BY <1>5, <2>2, <3>2, <3>3, HonestStep
  <2> QED BY <2>1, <2>3, <2>4
<1>6. \/ Become(Self, Settled) /\ (Write(copy) \/ UNCHANGED rows)
      \/ Retry(Self, "reload", Settled) /\ UNCHANGED rows
  BY <1>1 DEF Commit
<1> QED BY <1>4, <1>5, <1>6

LEMMA HonestNext == TypeOK /\ TypeOK' /\ HonestInv /\ [Next]_vars => HonestInv'
<1> SUFFICES ASSUME TypeOK, TypeOK', HonestInv, [Next]_vars PROVE HonestInv'
  OBVIOUS
<1>1. CASE Crash
  <2>1. /\ UNCHANGED <<rows, told>> /\ Idle.pc = "idle"
        /\ \A p \in Procs : proc'[p] = Idle
    BY <1>1, IdleType DEF Crash, tables, history
  <2> QED BY <2>1, SchedulerIdle DEF Procs, Held, Writing
<1>2. CASE Elapse \/ UNCHANGED vars
  <2>1. UNCHANGED <<rows, proc, told>>
    BY <1>2 DEF Elapse, vars, tables, history
  <2>2. \A i \in Ids : Known(i)' \in Int /\ Known(i) <= Known(i)'
    BY <2>1, OthersKnow
  <2> QED BY <2>1, <2>2, OthersKnow, HonestStep
<1>3. CASE Schedule
  BY <1>3, HonestPass, HonestDelivery, HonestReload, HonestCommit DEF Schedule
<1> QED BY <1>1, <1>2, <1>3, HonestHandler, HonestPerson DEF Next

LEMMA HonestAlways == Spec => []HonestInv
<1>1. Init => HonestInv
  <2>1. Idle.pc = "idle"
    BY IdleType
  <2> QED BY <2>1 DEF Init, HonestInv, At, Procs, Held, Writing
<1> QED BY <1>1, TypeSafe, HonestNext, PTL DEF Spec

\* The row never claims an alert that no channel accepted, whatever is lost
\* between the delivery and its commit (Scheduler.process).
THEOREM AlertsSafe == Spec => []AlertsWereDelivered
<1>1. TypeOK /\ HonestInv => AlertsWereDelivered
  <2> SUFFICES ASSUME TypeOK, HonestInv, NEW i \in DOMAIN rows
               PROVE  /\ rows[i].alertCount <= told[i]
                      /\ Alerted(rows[i]) => rows[i].alertCount > 0
    BY DEF AlertsWereDelivered
  <2>1. /\ rows[i] \in Incidents /\ Honest(rows[i], Known(i))
        /\ Known(i) \in Nat /\ told[i] \in Nat /\ Known(i) <= told[i]
    BY KnownType DEF TypeOK, TablesOK, HonestInv
  <2> QED BY <2>1 DEF Honest, Incidents
<1> QED BY <1>1, TypeSafe, HonestAlways, PTL

\* Nothing is given up that nobody was told of (Policy.ShouldGiveUp, judged
\* again in Scheduler.commit).
THEOREM GiveUpSafe == Spec => []GaveUpAfterTelling
<1>1. TypeOK /\ HonestInv => GaveUpAfterTelling
  <2> SUFFICES ASSUME TypeOK, HonestInv, NEW i \in DOMAIN rows,
                      rows[i].closed = "gave-up"
               PROVE  told[i] > 0
    BY DEF GaveUpAfterTelling
  <2>1. /\ rows[i] \in Incidents /\ Honest(rows[i], Known(i))
        /\ Known(i) \in Nat /\ told[i] \in Nat /\ Known(i) <= told[i]
    BY KnownType DEF TypeOK, TablesOK, HonestInv
  <2> QED BY <2>1 DEF Honest, Incidents
<1> QED BY <1>1, TypeSafe, HonestAlways, PTL

-----------------------------------------------------------------------------
(* An acknowledgement is kept, where a key is written by swapping only *)

LEMMA SameKeys == SwappedKeys' = SwappedKeys
BY DEF SwappedKeys

\* What holds of the rows of such a key.
RowOK(row) ==
  row.key \in SwappedKeys =>
    ~row.resolved /\ row.ackedAt <= row.updatedAt /\ row.updatedAt <= clock

\* A copy is of a row, and of its key.
CopyOf(copy) == copy.id \in DOMAIN rows /\ copy.key = rows[copy.id].key

\* A copy read at version e, to be written by comparing versions. Either the row
\* still says of the acknowledgement what it said then, or it was acknowledged
\* since, at an instant later than that version.
SwapOK(copy, e) ==
  /\ CopyOf(copy) /\ RowOK(copy)
  /\ copy.key \in SwappedKeys =>
       /\ e <= copy.updatedAt
       /\ IF Acknowledged(rows[copy.id])
            THEN copy.ackedAt = rows[copy.id].ackedAt \/ e < rows[copy.id].ackedAt
            ELSE /\ e <= rows[copy.id].updatedAt
                 /\ Acknowledged(copy) => e < copy.ackedAt

\* A copy to be written whatever the version: of such a key, handle closes only what
\* was acknowledged.
CloseOK(copy) ==
  /\ CopyOf(copy) /\ RowOK(copy)
  /\ copy.key \in SwappedKeys =>
       Acknowledged(copy) /\ copy.ackedAt = rows[copy.id].ackedAt

NewOK(copy) == /\ copy.id \notin DOMAIN rows /\ copy.id < nextId
               /\ RowOK(copy) /\ ~Acknowledged(copy)

Suits(job) == job.key \in SwappedKeys => job.kind \in {"occurrence", "fault"}

\* What the handler h may hold in the state s.
HoldsOK(s) ==
  /\ s.pc = "idle" \/ Suits(s.job)
  /\ s.pc = "put" => CloseOK(s.copy) /\ s.copy.key \notin SwappedKeys
  /\ s.pc = "close" => CloseOK(s.copy)
  /\ s.pc = "insert" => NewOK(s.copy)

AckInv ==
  /\ \A i \in DOMAIN rows : RowOK(rows[i]) /\ i < nextId
  /\ \A p \in Procs : proc[p].pc \in Swapping => SwapOK(proc[p].copy, proc[p].expect)
  /\ \A h \in Handlers : HoldsOK(proc[h])
  /\ \A g, h \in Handlers :
       At(g, "insert") /\ At(h, "insert") /\ Copy(g).id = Copy(h).id => g = h
  /\ \A p \in People : At(p, "write") /\ Job(p).kind # "close" => Acknowledged(Copy(p))
  /\ SwappedAckKept

\* What a write leaves of what everybody holds.
Keeps ==
  /\ \A i \in DOMAIN rows' : RowOK(rows[i])' /\ i < nextId'
  /\ \A copy \in Incidents, e \in Nat : SwapOK(copy, e) => SwapOK(copy, e)'
  /\ \A copy \in Incidents : CloseOK(copy) => CloseOK(copy)'
  /\ \A copy \in Incidents :
       NewOK(copy) /\ copy.id \notin DOMAIN rows' => NewOK(copy)'
  /\ \A i \in DOMAIN rows :
       /\ i \in DOMAIN rows' /\ rows'[i].key = rows[i].key
       /\ rows[i].key \in SwappedKeys /\ Acknowledged(rows[i]) => Acknowledged(rows'[i])

RowsOK == \A i \in DOMAIN rows : rows[i] \in Incidents /\ RowOK(rows[i]) /\ i < nextId

\* A step that writes no row.
LEMMA IdleKeeps ==
  ASSUME RowsOK, UNCHANGED rows, clock \in Nat, clock' \in Nat, clock <= clock',
         nextId \in Nat, nextId' \in Nat, nextId <= nextId', Ids \subseteq Nat,
         DOMAIN rows \subseteq Ids
  PROVE  Keeps
<1>1. \A copy \in Incidents : RowOK(copy) => RowOK(copy)'
  BY SameKeys DEF RowOK, Incidents
<1>2. \A i \in DOMAIN rows' : RowOK(rows[i])' /\ i < nextId'
  <2> TAKE i \in DOMAIN rows'
  <2>1. rows[i] \in Incidents /\ RowOK(rows[i]) /\ i < nextId /\ i \in Nat
    BY DEF RowsOK
  <2> QED BY <2>1, <1>1
<1>3. \A copy \in Incidents, e \in Nat : SwapOK(copy, e) => SwapOK(copy, e)'
  BY <1>1, SameKeys DEF SwapOK, CopyOf
<1>4. \A copy \in Incidents : CloseOK(copy) => CloseOK(copy)'
  BY <1>1, SameKeys DEF CloseOK, CopyOf
<1>5. \A copy \in Incidents : NewOK(copy) => NewOK(copy)'
  <2> SUFFICES ASSUME NEW copy \in Incidents, NewOK(copy)
               PROVE  NewOK(copy)'
    OBVIOUS
  <2>1. copy.id \in Nat
    BY DEF Incidents
  <2>2. copy.id < nextId' /\ RowOK(copy)'
    BY <1>1, <2>1 DEF NewOK
  <2> QED BY <2>2 DEF NewOK
<1> QED BY <1>2, <1>3, <1>4, <1>5 DEF Keeps

\* A write keeps it all: a swap over the version that was read, a close of what was
\* acknowledged, and a new row.
LEMMA WriteKeeps ==
  ASSUME RowsOK, NEW inc \in Incidents, NEW expect \in Nat, Write(inc),
         UNCHANGED <<clock, nextId>>,
         \/ SwapOK(inc, expect) /\ rows[inc.id].updatedAt = expect
         \/ CloseOK(inc)
         \/ NewOK(inc)
  PROVE  Keeps
<1>1. /\ DOMAIN rows' = DOMAIN rows \cup {inc.id} /\ rows'[inc.id] = inc
      /\ \A i \in DOMAIN rows \ {inc.id} : rows'[i] = rows[i]
  BY DEF Write, Put
<1>2. /\ RowOK(inc) /\ (inc.id \in DOMAIN rows \/ inc.id < nextId)
      /\ inc.id \in DOMAIN rows => inc.key = rows[inc.id].key
  BY DEF SwapOK, CloseOK, NewOK, CopyOf
<1>3. \A copy : RowOK(copy) => RowOK(copy)'
  BY SameKeys DEF RowOK
<1>4. \A i \in DOMAIN rows' : RowOK(rows[i])' /\ i < nextId'
  <2> SUFFICES ASSUME NEW i \in DOMAIN rows'
               PROVE  RowOK(rows'[i]) /\ i < nextId
    BY SameKeys DEF RowOK
  <2> QED BY <1>1, <1>2 DEF RowsOK
<1>5. /\ inc.ackedAt \in Nat /\ inc.updatedAt \in Nat
      /\ inc.key \in SwappedKeys => inc.ackedAt <= inc.updatedAt
  BY <1>2 DEF Incidents, RowOK
<1>6. ASSUME inc.id \in DOMAIN rows, inc.key \in SwappedKeys
      PROVE  IF Acknowledged(rows[inc.id]) THEN inc.ackedAt = rows[inc.id].ackedAt
             ELSE \A e \in Nat : e <= rows[inc.id].updatedAt
                    => e <= inc.updatedAt /\ (Acknowledged(inc) => e < inc.ackedAt)
  <2>1. /\ rows[inc.id].ackedAt \in Nat /\ rows[inc.id].updatedAt \in Nat
        /\ rows[inc.id].ackedAt <= rows[inc.id].updatedAt
    BY <1>2, <1>6 DEF RowsOK, RowOK, Incidents
  <2>2. CASE SwapOK(inc, expect) /\ rows[inc.id].updatedAt = expect
    BY <1>5, <1>6, <2>1, <2>2 DEF SwapOK
  <2>3. CASE CloseOK(inc)
    BY <1>5, <1>6, <2>1, <2>3 DEF CloseOK, Acknowledged
  <2>4. CASE NewOK(inc)
    BY <1>6, <2>4 DEF NewOK
  <2> QED BY <2>2, <2>3, <2>4
<1>7. ASSUME NEW copy \in Incidents, NEW e \in Nat, SwapOK(copy, e)
      PROVE  SwapOK(copy, e)'
  <2>1. CopyOf(copy)' /\ RowOK(copy)'
    BY <1>1, <1>2, <1>3, <1>7 DEF SwapOK, CopyOf
  <2>2. CASE copy.id # inc.id
    <3>1. rows'[copy.id] = rows[copy.id]
      BY <1>1, <1>7, <2>2 DEF SwapOK, CopyOf
    <3> QED BY <1>7, <2>1, <3>1, SameKeys DEF SwapOK
  <2>3. CASE copy.id = inc.id /\ copy.key \notin SwappedKeys
    BY <2>1, <2>3, SameKeys DEF SwapOK
  <2>4. CASE copy.id = inc.id /\ copy.key \in SwappedKeys
    <3>0. inc.id \in DOMAIN rows /\ inc.key \in SwappedKeys /\ e <= copy.updatedAt
      BY <1>2, <1>7, <2>4 DEF SwapOK, CopyOf
    <3>1. rows'[copy.id] = inc
      BY <1>1, <2>4
    <3>2. IF Acknowledged(inc)
            THEN copy.ackedAt = inc.ackedAt \/ e < inc.ackedAt
            ELSE e <= inc.updatedAt /\ (Acknowledged(copy) => e < copy.ackedAt)
      <4>1. IF Acknowledged(rows[inc.id])
              THEN copy.ackedAt = rows[inc.id].ackedAt \/ e < rows[inc.id].ackedAt
              ELSE e <= rows[inc.id].updatedAt /\ (Acknowledged(copy) => e < copy.ackedAt)
        BY <1>7, <2>4 DEF SwapOK
      <4>3. CASE Acknowledged(rows[inc.id])
        <5>1. inc.ackedAt = rows[inc.id].ackedAt
          BY <1>6, <3>0, <4>3
        <5>2. Acknowledged(inc)
          BY <4>3, <5>1 DEF Acknowledged
        <5> QED BY <4>1, <4>3, <5>1, <5>2
      <4>4. CASE ~Acknowledged(rows[inc.id])
        BY <1>6, <3>0, <4>1, <4>4
      <4> QED BY <4>3, <4>4
    <3> QED BY <2>1, <2>4, <3>0, <3>1, <3>2 DEF SwapOK
  <2> QED BY <2>2, <2>3, <2>4
<1>8. ASSUME NEW copy \in Incidents, CloseOK(copy)
      PROVE  CloseOK(copy)'
  <2>1. CopyOf(copy)' /\ RowOK(copy)'
    BY <1>1, <1>2, <1>3, <1>8 DEF CloseOK, CopyOf
  <2>2. ASSUME copy.key \in SwappedKeys
        PROVE  rows'[copy.id].ackedAt = rows[copy.id].ackedAt
    <3>1. /\ copy.id \in DOMAIN rows /\ copy.key = rows[copy.id].key
          /\ Acknowledged(rows[copy.id])
      BY <1>8, <2>2 DEF CloseOK, CopyOf, Acknowledged
    <3>2. CASE copy.id # inc.id
      BY <1>1, <3>1, <3>2
    <3>3. CASE copy.id = inc.id
      BY <1>1, <1>2, <1>6, <2>2, <3>1, <3>3
    <3> QED BY <3>2, <3>3
  <2> QED BY <1>8, <2>1, <2>2, SameKeys DEF CloseOK
<1>9. ASSUME NEW i \in DOMAIN rows
      PROVE  /\ i \in DOMAIN rows' /\ rows'[i].key = rows[i].key
             /\ rows[i].key \in SwappedKeys /\ Acknowledged(rows[i]) => Acknowledged(rows'[i])
  <2>1. CASE i # inc.id
    BY <1>1, <2>1
  <2>2. CASE i = inc.id
    BY <1>1, <1>2, <1>6, <2>2 DEF Acknowledged
  <2> QED BY <2>1, <2>2
<1>10. \A copy : NewOK(copy) /\ copy.id \notin DOMAIN rows' => NewOK(copy)'
  BY <1>3 DEF NewOK
<1> QED BY <1>4, <1>7, <1>8, <1>9, <1>10 DEF Keeps

\* What follows a reading: the same incident at the same or a later version, which
\* says the same of the acknowledgement.
Later(inc, row, now) ==
  /\ inc.id = row.id /\ inc.key = row.key
  /\ inc.resolved = row.resolved /\ inc.ackedAt = row.ackedAt
  /\ row.updatedAt <= inc.updatedAt
  /\ inc.updatedAt \in {row.updatedAt, now}

LEMMA LaterOperations ==
  ASSUME NEW row \in Incidents, NEW now \in Nat
  PROVE  /\ \A reason : Later(Close(row, now, reason), row, now)
         /\ \A severity : Later(Occur(RaiseSeverity(row, severity), now), row, now)
         /\ \A stage : Later(RecordAlert(row, now, stage), row, now)
         /\ Later(RecordDeliveryFailure(row, now), row, now)
<1>1. row.updatedAt \in Nat
  BY DEF Incidents
<1>3. \A reason : Later(Close(row, now, reason), row, now)
  BY <1>1 DEF Later, Close, Touch, Incidents
<1>4. \A severity : Later(Occur(RaiseSeverity(row, severity), now), row, now)
  <2> SUFFICES ASSUME NEW severity
               PROVE  Later(Occur(RaiseSeverity(row, severity), now), row, now)
    OBVIOUS
  <2> QED BY <1>1 DEF Later, Occur, RaiseSeverity, Touch, Incidents
<1>5. \A stage : Later(RecordAlert(row, now, stage), row, now)
  BY <1>1 DEF Later, RecordAlert, Touch, Incidents
<1>6. Later(RecordDeliveryFailure(row, now), row, now)
  BY <1>1 DEF Later, RecordDeliveryFailure, Touch, Incidents
<1> QED BY <1>3, <1>4, <1>5, <1>6

\* A copy made of a row just read may be swapped, and may be closed with if the row
\* was acknowledged or its key is none of those keys.
LEMMA ReadCopy ==
  ASSUME TypeOK, RowsOK, NEW i \in DOMAIN rows, NEW inc, NEW now \in Nat, now <= clock,
         Later(inc, rows[i], now)
  PROVE  /\ SwapOK(inc, rows[i].updatedAt)
         /\ Acknowledged(rows[i]) \/ rows[i].key \notin SwappedKeys => CloseOK(inc)
<1>1. /\ rows[i] \in Incidents /\ rows[i].id = i /\ RowOK(rows[i])
      /\ rows[i].ackedAt \in Nat /\ rows[i].updatedAt \in Nat /\ clock \in Nat
  BY BoundsAssumption DEF TypeOK, TablesOK, RowsOK, Incidents
<1>2. /\ RowOK(inc) /\ inc.id = i /\ inc.key = rows[i].key
      /\ inc.ackedAt = rows[i].ackedAt /\ rows[i].updatedAt <= inc.updatedAt
  BY <1>1 DEF RowOK, Later
<1>3. SwapOK(inc, rows[i].updatedAt)
  BY <1>1, <1>2 DEF SwapOK, CopyOf, Acknowledged
<1>4. Acknowledged(rows[i]) \/ rows[i].key \notin SwappedKeys => CloseOK(inc)
  BY <1>1, <1>2 DEF CloseOK, CopyOf, Acknowledged
<1> QED BY <1>3, <1>4

\* The rows of a state that satisfies the invariant.
LEMMA AckRows ==
  ASSUME TypeOK, AckInv
  PROVE  /\ RowsOK /\ clock \in Nat /\ nextId \in Nat /\ Ids \subseteq Nat
         /\ DOMAIN rows \subseteq Ids
         /\ \A p \in Procs : proc[p] \in States /\ proc[p].expect \in Nat
         /\ \A p \in Procs : proc[p].pc \in Swapping => proc[p].copy \in Incidents
         /\ \A h \in Handlers : proc[h].pc \in Writing => proc[h].copy \in Incidents
<1>1. RowsOK
  BY DEF RowsOK, AckInv, TypeOK, TablesOK
<1>2. \A p \in Procs : proc[p] \in States /\ proc[p].expect \in Nat
  BY Before DEF States
<1>3. ASSUME NEW p \in Procs, proc[p].pc \in Swapping
      PROVE  proc[p].copy \in Incidents
  <2>1. CASE p \in Handlers
    BY <1>3, <2>1 DEF TypeOK, ProcsOK, HandlerOK, Swapping, Writing
  <2>2. CASE p \in People
    BY <1>3, <2>2 DEF TypeOK, ProcsOK, PersonOK, Swapping
  <2>3. CASE p = Scheduler
    BY <1>3, <2>3 DEF TypeOK, ProcsOK, SchedulerOK, Swapping
  <2> QED BY <2>1, <2>2, <2>3 DEF Procs
<1>4. \A h \in Handlers : proc[h].pc \in Writing => proc[h].copy \in Incidents
  BY DEF TypeOK, ProcsOK, HandlerOK
<1> QED BY <1>1, <1>2, <1>3, <1>4, BoundsAssumption DEF TypeOK, TablesOK

\* One goroutine moves, to a state that is as it should be, and what the others hold
\* is kept. A new row is nobody else's.
LEMMA AckMove ==
  ASSUME TypeOK, AckInv, Keeps, NEW p \in Procs, NEW st,
         proc' = [proc EXCEPT ![p] = st],
         st.pc \in Swapping => SwapOK(st.copy, st.expect)',
         p \in Handlers => HoldsOK(st)',
         p \in People /\ st.pc = "write" /\ st.job.kind # "close" => Acknowledged(st.copy),
         \A h \in Handlers \ {p} :
           At(h, "insert") => /\ Copy(h).id \notin DOMAIN rows'
                              /\ p \in Handlers /\ st.pc = "insert" => Copy(h).id # st.copy.id,
         \A i \in acks' : (i \in acks /\ i \in DOMAIN rows) \/ Acknowledged(rows'[i])
  PROVE  AckInv'
<1>1. /\ proc'[p] = st
      /\ \A q \in Procs \ {p} : proc'[q] = proc[q]
      /\ Handlers \subseteq Procs /\ People \subseteq Procs
  BY DEF TypeOK, ProcsOK, Procs
<1>2. \A i \in DOMAIN rows' : RowOK(rows[i])' /\ i < nextId'
  BY DEF Keeps
<1>3. ASSUME NEW q \in Procs, proc'[q].pc \in Swapping
      PROVE  SwapOK(proc[q].copy, proc[q].expect)'
  <2>1. CASE q = p
    BY <1>1, <1>3, <2>1 DEF SwapOK, CopyOf, RowOK
  <2>2. CASE q # p
    <3>1. /\ proc'[q] = proc[q] /\ proc[q].copy \in Incidents /\ proc[q].expect \in Nat
          /\ SwapOK(proc[q].copy, proc[q].expect)
      BY <1>1, <1>3, <2>2, AckRows DEF AckInv
    <3>2. PICK copy \in Incidents, e \in Nat : copy = proc[q].copy /\ e = proc[q].expect
      BY <3>1
    <3>3. SwapOK(copy, e)'
      BY <3>1, <3>2 DEF Keeps
    <3> QED BY <3>1, <3>2, <3>3 DEF SwapOK, CopyOf, RowOK
  <2> QED BY <2>1, <2>2
<1>4. ASSUME NEW h \in Handlers
      PROVE  HoldsOK(proc[h])'
  <2>1. CASE h = p
    BY <1>1, <2>1 DEF HoldsOK, Suits, CloseOK, CopyOf, NewOK, RowOK
  <2>2. CASE h # p
    <3>1. proc'[h] = proc[h] /\ HoldsOK(proc[h])
      BY <1>1, <2>2 DEF AckInv
    <3>0. proc[h].pc = "idle" \/ Suits(proc[h].job)'
      BY <3>1, SameKeys DEF HoldsOK, Suits
    <3>2. CASE proc[h].pc \in {"put", "close"}
      <4>1. /\ proc[h].copy \in Incidents /\ CloseOK(proc[h].copy)
            /\ proc[h].pc = "put" => proc[h].copy.key \notin SwappedKeys
        BY <3>1, <3>2, AckRows DEF HoldsOK, Writing
      <4>2. PICK copy \in Incidents : copy = proc[h].copy
        BY <4>1
      <4>3. CloseOK(copy)'
        BY <4>1, <4>2 DEF Keeps
      <4> QED BY <3>0, <3>1, <3>2, <4>1, <4>2, <4>3, SameKeys
              DEF HoldsOK, Suits, CloseOK, CopyOf, RowOK
    <3>3. CASE proc[h].pc = "insert"
      <4>1. /\ proc[h].copy \in Incidents /\ NewOK(proc[h].copy)
            /\ proc[h].copy.id \notin DOMAIN rows'
        BY <2>2, <3>1, <3>3, AckRows DEF HoldsOK, Writing, At, Copy
      <4>2. PICK copy \in Incidents : copy = proc[h].copy
        BY <4>1
      <4>3. NewOK(copy)'
        BY <4>1, <4>2 DEF Keeps
      <4> QED BY <3>0, <3>1, <3>3, <4>2, <4>3 DEF HoldsOK, Suits, NewOK, RowOK
    <3>4. CASE proc[h].pc \notin {"put", "close", "insert"}
      BY <3>0, <3>1, <3>4 DEF HoldsOK, Suits
    <3> QED BY <3>2, <3>3, <3>4
  <2> QED BY <2>1, <2>2
<1>5. ASSUME NEW g \in Handlers, NEW h \in Handlers, At(g, "insert")', At(h, "insert")',
             (Copy(g).id = Copy(h).id)'
      PROVE  g = h
  <2>1. CASE g # p /\ h # p
    BY <1>1, <1>5, <2>1 DEF AckInv, At, Copy
  <2>2. CASE g = p /\ h # p
    BY <1>1, <1>5, <2>2 DEF At, Copy
  <2>3. CASE g # p /\ h = p
    BY <1>1, <1>5, <2>3 DEF At, Copy
  <2> QED BY <2>1, <2>2, <2>3
<1>6. ASSUME NEW q \in People, At(q, "write")', (Job(q).kind # "close")'
      PROVE  Acknowledged(Copy(q))'
  BY <1>1, <1>6 DEF AckInv, At, Job, Copy, Acknowledged
<1>7. SwappedAckKept'
  <2> SUFFICES ASSUME NEW i \in acks', rows'[i].key \in SwappedKeys
               PROVE  Acknowledged(rows'[i])
    BY SameKeys DEF SwappedAckKept, Acknowledged
  <2> QED BY DEF AckInv, SwappedAckKept, Keeps
<1> QED BY <1>2, <1>3, <1>4, <1>5, <1>6, <1>7 DEF AckInv

\* What a handler does with the live incident it found: of a key that is written by
\* swapping it swaps, or closes what was acknowledged.
LEMMA FoldedAcks ==
  ASSUME TypeOK, AckInv, NEW h \in Handlers, At(h, "lookup"),
         NEW i \in LiveFor(rows, Job(h).key), NEW st, st = Folded(h, rows[i])
  PROVE  /\ HoldsOK(st) /\ st.pc # "insert"
         /\ st.pc \in Swapping => SwapOK(st.copy, st.expect)
<1> PICK row : row = rows[i]
  OBVIOUS
<1> DEFINE raised == RaiseSeverity(row, Job(h).severity)
           over(reason) == Close(row, Now(h), reason)
           more == Occur(raised, Now(h))
<1>1. /\ proc[h] \in States /\ Now(h) \in Nat /\ Now(h) <= clock
      /\ Job(h) \in Events /\ Suits(Job(h)) /\ Idle.pc = "idle"
      /\ row \in Incidents /\ RowsOK /\ row.id = i
  <2>1. h \in Procs /\ i \in DOMAIN rows
    BY DEF Procs, LiveFor, Active
  <2> QED BY <2>1, AckRows, Before, IdleType
       DEF AckInv, HoldsOK, At, Now, Job, RowsOK, TypeOK, ProcsOK, HandlerOK, TablesOK
<1>2. i \in DOMAIN rows /\ row.key = Job(h).key /\ RowOK(row)
  BY <1>1 DEF LiveFor, Active, RowsOK
<1>3. /\ SwapOK(more, row.updatedAt)
      /\ \A reason : Acknowledged(row) \/ row.key \notin SwappedKeys => CloseOK(over(reason))
  <2>1. (\A reason : Later(over(reason), row, Now(h))) /\ Later(more, row, Now(h))
    BY <1>1, LaterOperations
  <2> HIDE DEF over, more
  <2> QED BY <1>1, <1>2, <2>1, ReadCopy
<1>4. \/ st = Idle
      \/ /\ Job(h).kind \in {"clear", "alarm"}
         /\ st \in {Holding(h, "put", Resolve(row, Now(h)), Unset),
                   Holding(h, "put", [raised EXCEPT !.updatedAt = Now(h)], Unset)}
      \/ /\ Unanswered(row) \/ Acknowledged(row)
         /\ st \in {Holding(h, "close", over("returned"), Unset),
                   Holding(h, "close", over("reviewed"), Unset)}
      \/ st = Holding(h, "occur", more, row.updatedAt)
  <2>1. Job(h).kind \in {"alarm", "occurrence", "clear", "fault"}
    BY <1>1 DEF Events, ArrivalKinds
  <2> QED BY <2>1 DEF Folded
<1>5. CASE st = Idle
  BY <1>1, <1>5 DEF HoldsOK, Swapping
<1>6. ASSUME NEW copy, st = Holding(h, "put", copy, Unset), Job(h).kind \in {"clear", "alarm"},
             copy.id = row.id, copy.key = row.key
      PROVE  HoldsOK(st) /\ st.pc \notin Swapping \cup {"insert"}
  <2>1. st.pc = "put" /\ st.copy = copy /\ st.job = Job(h)
    BY <1>1, <1>6 DEF Holding, States, Job
  <2>2. row.key \notin SwappedKeys
    BY <1>1, <1>2, <1>6 DEF Suits
  <2>3. CloseOK(copy) /\ copy.key \notin SwappedKeys
    BY <1>1, <1>2, <1>6, <2>2 DEF CloseOK, CopyOf, RowOK
  <2> QED BY <1>1, <2>1, <2>3 DEF HoldsOK, Swapping
<1>7. ASSUME NEW reason, st = Holding(h, "close", over(reason), Unset),
             Unanswered(row) \/ Acknowledged(row)
      PROVE  HoldsOK(st) /\ st.pc \notin Swapping \cup {"insert"}
  <2> PICK copy : copy = over(reason)
    OBVIOUS
  <2> HIDE DEF over, more
  <2>1. st.pc = "close" /\ st.copy = copy /\ st.job = Job(h)
    BY <1>1, <1>7 DEF Holding, States, Job
  <2>2. Acknowledged(row) \/ row.key \notin SwappedKeys
    BY <1>2, <1>7 DEF Unanswered, RowOK
  <2>3. CloseOK(copy)
    BY <1>3, <2>2
  <2> QED BY <1>1, <2>1, <2>3 DEF HoldsOK, Swapping
<1>8. CASE st = Holding(h, "occur", more, row.updatedAt)
  <2> HIDE DEF more
  <2>1. st.pc = "occur" /\ st.copy = more /\ st.expect = row.updatedAt /\ st.job = Job(h)
    BY <1>1, <1>8 DEF Holding, States, Job
  <2> QED BY <1>1, <1>3, <2>1 DEF HoldsOK, Swapping
<1>9. /\ Resolve(row, Now(h)).id = row.id /\ Resolve(row, Now(h)).key = row.key
      /\ [raised EXCEPT !.updatedAt = Now(h)].id = row.id
      /\ [raised EXCEPT !.updatedAt = Now(h)].key = row.key
  BY <1>1 DEF Resolve, Touch, RaiseSeverity, Incidents
<1> HIDE DEF raised, over, more
<1> QED BY <1>4, <1>5, <1>6, <1>7, <1>8, <1>9

\* A step of a goroutine that writes nothing and holds nothing new to be written.
LEMMA AckRest ==
  ASSUME TypeOK, TypeOK', AckInv, UNCHANGED <<rows, nextId, acks>>, clock <= clock',
         NEW p \in Procs, NEW st, proc' = [proc EXCEPT ![p] = st],
         st.pc \notin Swapping \cup {"put", "close", "insert"},
         p \in Handlers => st.pc = "idle" \/ Suits(st.job)
  PROVE  AckInv'
<1>1. Keeps
  BY AckRows, IdleKeeps, BoundsAssumption DEF TypeOK
<1>2. \A h \in Handlers : At(h, "insert") => Copy(h).id \notin DOMAIN rows'
  BY DEF AckInv, HoldsOK, NewOK, At, Copy
<1>3. \A i \in acks' : i \in acks /\ i \in DOMAIN rows
  BY DEF TypeOK, HistoryOK
<1>4. p \in Handlers => HoldsOK(st)'
  BY SameKeys DEF HoldsOK, Suits
<1>5. st.pc \notin Swapping /\ st.pc # "write" /\ st.pc # "insert"
  BY DEF Swapping
<1> QED BY <1>1, <1>2, <1>3, <1>4, <1>5, AckMove

\* A goroutine that wrote its copy and holds nothing to be written any more.
LEMMA AckWrite ==
  ASSUME TypeOK, AckInv, NEW p \in Procs, NEW st, proc' = [proc EXCEPT ![p] = st],
         st.pc \notin Swapping \cup {"put", "close", "insert"},
         p \in Handlers => st.pc = "idle" \/ Suits(st.job),
         proc[p].copy \in Incidents, Write(proc[p].copy), UNCHANGED <<clock, nextId>>,
         \/ /\ SwapOK(proc[p].copy, proc[p].expect)
            /\ rows[proc[p].copy.id].updatedAt = proc[p].expect
         \/ CloseOK(proc[p].copy)
         \/ /\ p \in Handlers /\ proc[p].pc = "insert" /\ NewOK(proc[p].copy),
         \/ acks' = acks
         \/ acks' = acks \cup {proc[p].copy.id} /\ Acknowledged(proc[p].copy)
  PROVE  AckInv'
<1>1. PICK inc \in Incidents, e \in Nat : inc = proc[p].copy /\ e = proc[p].expect
  BY AckRows
<1>2. Keeps
  BY <1>1, AckRows, WriteKeeps
<1>3. rows' = Put(rows, inc)
  BY <1>1 DEF Write
<1>4. DOMAIN rows' = DOMAIN rows \cup {inc.id} /\ rows'[inc.id] = inc
  BY <1>3 DEF Put
<1>5. ASSUME NEW h \in Handlers \ {p}, At(h, "insert")
      PROVE  Copy(h).id \notin DOMAIN rows'
  <2>1. NewOK(Copy(h))
    BY <1>5 DEF AckInv, HoldsOK, At, Copy
  <2>2. CASE inc.id \in DOMAIN rows
    BY <1>4, <2>1, <2>2 DEF NewOK
  <2>3. CASE inc.id \notin DOMAIN rows
    <3>1. p \in Handlers /\ At(p, "insert") /\ Copy(p) = inc
      BY <1>1, <2>3 DEF SwapOK, CloseOK, CopyOf, At, Copy
    <3>2. Copy(h).id # inc.id
      BY <1>5, <3>1 DEF AckInv
    <3> QED BY <1>4, <2>1, <3>2 DEF NewOK
  <2> QED BY <2>2, <2>3
<1>6. \A i \in acks' : (i \in acks /\ i \in DOMAIN rows) \/ Acknowledged(rows'[i])
  BY <1>1, <1>4 DEF TypeOK, HistoryOK
<1>7. p \in Handlers => HoldsOK(st)'
  BY SameKeys DEF HoldsOK, Suits
<1>8. st.pc \notin Swapping /\ st.pc # "write" /\ st.pc # "insert"
  BY DEF Swapping
<1> QED BY <1>2, <1>5, <1>6, <1>7, <1>8, AckMove

LEMMA AckHandler ==
  ASSUME TypeOK, TypeOK', AckInv, NEW h \in Handlers, Handler(h)
  PROVE  AckInv'
<1>1. /\ proc[h] \in States /\ h \in Procs /\ "lookup" \in Places /\ Idle \in States
      /\ Idle.pc = "idle" /\ clock \in Nat /\ h \notin People
      /\ HoldsOK(proc[h]) /\ "record" \in Places
  BY Before, IdleType, AckRows, ProcsAssumption DEF Procs, Places, Writing, AckInv
<1>2. acks' = acks
  BY DEF Handler, Receive, FindNothing, FindLive, PutFolded, PutClosed, PutOccurrence,
         BuildNew, Insert, AddOccurrence, history
<1> DEFINE Rests(st) ==
             /\ st.pc \notin Swapping \cup {"put", "close", "insert"}
             /\ st.pc = "idle" \/ Suits(st.job)
<1>3. Rests(Idle)
  BY <1>1 DEF Swapping
<1>4. CASE Receive(h)
  <2>1. PICK e \in Arrivals :
          proc' = [proc EXCEPT ![h] = [Idle EXCEPT !.pc = "lookup", !.stamp = clock', !.job = e]]
    BY <1>4 DEF Receive, Become
  <2>2. UNCHANGED <<rows, nextId, acks>> /\ clock <= clock'
    BY <1>1, <1>2, <1>4 DEF Receive, tables, ReadClock
  <2>3. PICK st : st = [Idle EXCEPT !.pc = "lookup", !.stamp = clock', !.job = e]
    OBVIOUS
  <2>4. st.pc = "lookup" /\ st.job = e
    BY <1>1, <2>3 DEF States
  <2>5. Rests(st)
    BY <2>4 DEF Swapping, Suits, SwappedKeys
  <2> QED BY <1>1, <2>1, <2>2, <2>3, <2>5, AckRest
<1>5. CASE FindNothing(h)
  <2>1. UNCHANGED <<rows, nextId, acks>> /\ clock <= clock' /\ proc[h].pc = "lookup"
    BY <1>1, <1>2, <1>5 DEF FindNothing, tables, ReadClock, At
  <2>2. PICK st : /\ proc' = [proc EXCEPT ![h] = st]
                  /\ st \in {Idle, [proc[h] EXCEPT !.pc = "open"],
                             [proc[h] EXCEPT !.pc = "open", !.stamp = clock']}
    BY <1>5 DEF FindNothing, Become
  <2>3. st = Idle \/ (st.pc = "open" /\ st.job = proc[h].job)
    BY <1>1, <2>2 DEF States
  <2>4. Rests(st)
    BY <1>1, <1>3, <2>1, <2>3 DEF Swapping, HoldsOK
  <2> QED BY <1>1, <2>1, <2>2, <2>4, AckRest
<1>6. CASE FindLive(h)
  <2>0. PICK i \in LiveFor(rows, Job(h).key) : proc' = [proc EXCEPT ![h] = Folded(h, rows[i])]
    BY <1>6 DEF FindLive, Become
  <2>1. PICK st : st = Folded(h, rows[i]) /\ proc' = [proc EXCEPT ![h] = st]
    BY <2>0
  <2>2. UNCHANGED <<rows, nextId, clock>> /\ At(h, "lookup")
    BY <1>6 DEF FindLive, tables
  <2>3. /\ HoldsOK(st) /\ st.pc # "insert"
        /\ st.pc \in Swapping => SwapOK(st.copy, st.expect)
    BY <2>1, <2>2, FoldedAcks
  <2>4. Keeps
    BY <2>2, AckRows, IdleKeeps
  <2>5. \A g \in Handlers : At(g, "insert") => Copy(g).id \notin DOMAIN rows'
    BY <2>2 DEF AckInv, HoldsOK, NewOK, At, Copy
  <2>6. \A i_1 \in acks' : i_1 \in acks /\ i_1 \in DOMAIN rows
    BY <1>2 DEF TypeOK, HistoryOK
  <2>7. HoldsOK(st)' /\ (st.pc \in Swapping => SwapOK(st.copy, st.expect)')
    BY <2>2, <2>3, SameKeys DEF HoldsOK, Suits, CloseOK, CopyOf, NewOK, SwapOK, RowOK
  <2> QED BY <1>1, <2>1, <2>3, <2>4, <2>5, <2>6, <2>7, AckMove
<1>7. CASE AddOccurrence(h)
  <2>1. UNCHANGED <<rows, nextId, acks>> /\ clock <= clock' /\ proc' = [proc EXCEPT ![h] = Idle]
    BY <1>1, <1>2, <1>7 DEF AddOccurrence, Become
  <2> QED BY <1>1, <1>3, <2>1, AckRest
<1>8. CASE PutFolded(h) \/ PutClosed(h) \/ PutOccurrence(h) \/ Insert(h)
  <2>1. /\ proc[h].pc \in {"put", "close", "occur", "insert"} /\ UNCHANGED <<clock, nextId>>
        /\ \/ UNCHANGED rows
           \/ /\ Write(Copy(h))
              /\ \/ At(h, "put") \/ At(h, "close")
                 \/ At(h, "occur") /\ Unchanged(rows, Copy(h), proc[h].expect)
                 \/ At(h, "insert")
        /\ \/ proc' = [proc EXCEPT ![h] = Idle]
           \/ Retry(h, "lookup", Idle)
           \/ proc' = [proc EXCEPT ![h] = [proc[h] EXCEPT !.pc = "record"]]
    BY <1>1, <1>8 DEF PutFolded, PutClosed, PutOccurrence, Insert, Become, At
  <2>2. proc[h].copy \in Incidents /\ Suits(proc[h].job)
    BY <1>1, <2>1, AckRows DEF Writing, HoldsOK
  <2>3. PICK st : proc' = [proc EXCEPT ![h] = st] /\ Rests(st)
    <3>1. CASE proc' = [proc EXCEPT ![h] = Idle]
      BY <1>3, <3>1
    <3>2. CASE Retry(h, "lookup", Idle)
      <4>1. PICK st \in States : /\ proc' = [proc EXCEPT ![h] = st]
                                 /\ st = Idle \/ (st.pc = "lookup" /\ st.job = proc[h].job)
        BY <1>1, <3>2, RetryType
      <4>2. Rests(st)
        BY <1>3, <2>2, <4>1 DEF Swapping
      <4> QED BY <4>1, <4>2
    <3>3. CASE proc' = [proc EXCEPT ![h] = [proc[h] EXCEPT !.pc = "record"]]
      <4>1. PICK st : st = [proc[h] EXCEPT !.pc = "record"]
        OBVIOUS
      <4>2. st.pc = "record" /\ st.job = proc[h].job
        BY <1>1, <4>1 DEF States
      <4>3. Rests(st)
        BY <2>2, <4>2 DEF Swapping
      <4> QED BY <3>3, <4>1, <4>3
    <3> QED BY <2>1, <3>1, <3>2, <3>3
  <2>4. CASE UNCHANGED rows
    <3>1. clock <= clock'
      BY <1>1, <2>1
    <3> QED BY <1>1, <1>2, <2>1, <2>3, <2>4, <3>1, AckRest
  <2>5. CASE Write(proc[h].copy)
             /\ (\/ At(h, "put") \/ At(h, "close")
                 \/ At(h, "occur") /\ Unchanged(rows, Copy(h), proc[h].expect)
                 \/ At(h, "insert"))
    <3>1. \/ /\ SwapOK(proc[h].copy, proc[h].expect)
             /\ rows[proc[h].copy.id].updatedAt = proc[h].expect
          \/ CloseOK(proc[h].copy)
          \/ proc[h].pc = "insert" /\ NewOK(proc[h].copy)
      <4>1. CASE At(h, "put") \/ At(h, "close")
        BY <1>1, <4>1 DEF HoldsOK, At
      <4>2. CASE At(h, "occur") /\ Unchanged(rows, Copy(h), proc[h].expect)
        BY <1>1, <4>2 DEF AckInv, At, Swapping, Unchanged, Copy
      <4>3. CASE At(h, "insert")
        BY <1>1, <4>3 DEF HoldsOK, At
      <4> QED BY <2>5, <4>1, <4>2, <4>3
    <3> QED BY <1>1, <1>2, <2>1, <2>2, <2>3, <2>5, <3>1, AckWrite
  <2> QED BY <2>1, <2>4, <2>5 DEF Copy
<1>9. CASE BuildNew(h)
  <2>0. PICK inc \in NewIncidents(Job(h), Now(h)) :
          proc' = [proc EXCEPT ![h] = Holding(h, "insert", inc, Unset)]
    BY <1>9 DEF BuildNew, Become
  <2>1. PICK st : st = Holding(h, "insert", inc, Unset) /\ proc' = [proc EXCEPT ![h] = st]
    BY <2>0
  <2>2. /\ UNCHANGED <<rows, clock>> /\ nextId' = nextId + 1 /\ nextId \in Nat
        /\ At(h, "open") /\ Now(h) \in Nat /\ Now(h) <= clock
    BY <1>1, <1>9, AckRows, Before DEF BuildNew, tables, Now
  <2>3. /\ inc.id = nextId /\ ~inc.resolved /\ inc.ackedAt = Unset /\ inc.updatedAt = Now(h)
    <3>1. \/ inc = Open(nextId, Job(h).key, Job(h).severity, Now(h))
          \/ \E i \in DOMAIN rows : inc = Recur(rows[i], nextId, Job(h).severity, Now(h))
      BY <2>0 DEF NewIncidents, LatestFor
    <3>2. CASE inc = Open(nextId, Job(h).key, Job(h).severity, Now(h))
      BY <3>2 DEF Open
    <3>3. CASE \E i \in DOMAIN rows : inc = Recur(rows[i], nextId, Job(h).severity, Now(h))
      BY <3>3 DEF Open, Recur
    <3> QED BY <3>1, <3>2, <3>3
  <2>4. st.pc = "insert" /\ st.copy = inc /\ st.job = Job(h)
    BY <1>1, <2>1 DEF Holding, States, Job
  <2>5. \A i \in DOMAIN rows : i < nextId
    BY DEF AckInv
  <2>6. NewOK(inc)'
    BY <2>2, <2>3, <2>5 DEF NewOK, RowOK, Acknowledged, Unset
  <2>7. HoldsOK(st)'
    BY <1>1, <2>2, <2>4, <2>6, SameKeys DEF HoldsOK, Suits, At, Job
  <2>8. \A g \in Handlers \ {h} :
          At(g, "insert") => Copy(g).id \notin DOMAIN rows' /\ Copy(g).id # st.copy.id
    BY <2>2, <2>3, <2>4 DEF AckInv, HoldsOK, NewOK, At, Copy
  <2>9. \A i \in acks' : i \in acks /\ i \in DOMAIN rows
    BY <1>2 DEF TypeOK, HistoryOK
  <2>10. Keeps
    BY <2>2, AckRows, IdleKeeps
  <2>11. st.pc \notin Swapping
    BY <2>4 DEF Swapping
  <2> QED BY <1>1, <2>1, <2>7, <2>8, <2>9, <2>10, <2>11, AckMove
<1> QED BY <1>4, <1>5, <1>6, <1>7, <1>8, <1>9 DEF Handler

LEMMA AckPerson ==
  ASSUME TypeOK, TypeOK', AckInv, NEW p \in People, Person(p)
  PROVE  AckInv'
<1>1. /\ proc[p] \in States /\ p \in Procs /\ p \notin Handlers /\ "read" \in Places
      /\ PersonOK(proc[p], DOMAIN rows) /\ Idle \in States /\ Idle.pc = "idle"
      /\ clock \in Nat
  BY Before, IdleType, AckRows, ProcsAssumption DEF Procs, Places
<1>2. Idle.pc \notin Swapping \cup {"put", "close", "insert"}
  BY <1>1 DEF Swapping
<1>3. CASE Ask(p)
  <2>1. UNCHANGED <<rows, nextId, acks>> /\ clock <= clock'
    BY <1>1, <1>3 DEF Ask, tables, history, ReadClock
  <2>2. CASE Become(p, Idle)
    BY <1>1, <1>2, <2>1, <2>2, AckRest DEF Become
  <2>3. CASE ~Become(p, Idle)
    <3>0. PICK r \in Asked(p) :
            /\ clock' = clock + 1
            /\ proc' = [proc EXCEPT ![p] =
                 [proc[p] EXCEPT !.pc = "write", !.stamp = clock', !.job = r,
                    !.copy = Applied(r, rows[r.id], clock'),
                    !.expect = rows[r.id].updatedAt]]
      BY <1>3, <2>3 DEF Ask, Become, ReadClock
    <3>1. PICK st, copy, now :
            /\ now = clock' /\ now = clock + 1
            /\ copy = Applied(r, rows[r.id], now)
            /\ st = [proc[p] EXCEPT !.pc = "write", !.stamp = now, !.job = r,
                       !.copy = copy, !.expect = rows[r.id].updatedAt]
            /\ proc' = [proc EXCEPT ![p] = st]
      BY <1>1, <3>0
    <3>2. st.pc = "write" /\ st.job = r /\ st.copy = copy /\ st.expect = rows[r.id].updatedAt
      BY <1>1, <3>1 DEF States
    <3>3. r.id \in DOMAIN rows
      <4>1. CASE At(p, "idle")
        BY <4>1 DEF Asked
      <4>2. CASE At(p, "read")
        BY <1>1, <4>2 DEF Asked, PersonOK, At, Job
      <4> QED BY <1>3, <4>1, <4>2 DEF Ask
    <3>4. PICK row \in Incidents : row = rows[r.id] /\ row.id = r.id /\ RowOK(row)
      BY <3>3 DEF TypeOK, TablesOK, AckInv
    <3>5. row.updatedAt \in Nat /\ row.ackedAt \in Nat /\ now \in Nat /\ now # Unset
      BY <1>1, <3>1, <3>4 DEF Incidents, Unset
    <3>50. ASSUME row.key \in SwappedKeys
           PROVE  row.ackedAt <= row.updatedAt /\ row.updatedAt <= clock /\ ~row.resolved
      BY <3>4, <3>50 DEF RowOK
    <3>6. /\ copy.id = row.id /\ copy.key = row.key
          /\ r.kind # "close" => Acknowledged(copy)
          /\ row.key \in SwappedKeys =>
               /\ ~copy.resolved
               /\ row.updatedAt <= copy.updatedAt /\ copy.updatedAt <= now
               /\ \/ copy.ackedAt = row.ackedAt
                  \/ ~Acknowledged(row) /\ copy.ackedAt = now /\ copy.updatedAt = now
      <4>1. CASE r.kind = "close"
        <5>1. copy = Close(row, now, "operator")
          BY <3>1, <3>4, <4>1 DEF Applied
        <5>2. Later(Close(row, now, "operator"), row, now)
          BY <3>5, LaterOperations
        <5>3. Later(copy, row, now)
          BY <5>1, <5>2
        <5>4. row.key \in SwappedKeys => row.updatedAt <= now
          BY <1>1, <3>1, <3>5, <3>50
        <5> QED BY <3>5, <3>50, <4>1, <5>3, <5>4 DEF Later
      <4>2. CASE r.kind # "close" /\ Acknowledged(row)
        <5>1. copy = row
          BY <3>1, <3>4, <4>2 DEF Applied, Acknowledge
        <5> QED BY <1>1, <3>1, <3>5, <3>50, <4>2, <5>1
      <4>3. CASE r.kind # "close" /\ ~Acknowledged(row)
        <5>1. copy = Touch([row EXCEPT !.ackedAt = now], now)
          BY <3>1, <3>4, <4>3 DEF Applied, Acknowledge
        <5>2. /\ copy.id = row.id /\ copy.key = row.key /\ copy.resolved = row.resolved
              /\ copy.ackedAt = now
              /\ row.key \in SwappedKeys => copy.updatedAt = now
          <6>1. PICK base : base = [row EXCEPT !.ackedAt = now]
            OBVIOUS
          <6>2. /\ base.id = row.id /\ base.key = row.key /\ base.resolved = row.resolved
                /\ base.ackedAt = now /\ base.updatedAt = row.updatedAt
                /\ DOMAIN base = DOMAIN row
            BY <6>1 DEF Incidents
          <6>3. row.key \in SwappedKeys => now > base.updatedAt
            BY <1>1, <3>1, <3>5, <3>50, <6>2
          <6>4. PICK v : /\ copy = [base EXCEPT !.updatedAt = v]
                         /\ now > base.updatedAt => v = now
            BY <5>1, <6>1 DEF Touch
          <6> QED BY <6>2, <6>3, <6>4 DEF Incidents
        <5> QED BY <1>1, <3>1, <3>5, <3>50, <4>3, <5>2 DEF Acknowledged, Unset
      <4> QED BY <4>1, <4>2, <4>3
    <3>7. copy.updatedAt \in Nat
      BY <3>1, <3>4, <3>5 DEF Applied, Acknowledge, Close, Touch, Incidents
    <3>8. SwapOK(copy, row.updatedAt)'
      <4>0. copy.id = r.id /\ rows' = rows
        BY <2>1, <3>4, <3>6
      <4>1. rows'[copy.id] = row /\ copy.id \in DOMAIN rows'
        BY <3>3, <3>4, <4>0
      <4>2. RowOK(copy)'
        <5>1. row.key \in SwappedKeys => copy.ackedAt <= copy.updatedAt
          BY <3>5, <3>50, <3>6, <3>7
        <5> QED BY <3>1, <3>6, <5>1, SameKeys DEF RowOK
      <4>3. row.key \in SwappedKeys =>
            IF Acknowledged(row)
              THEN copy.ackedAt = row.ackedAt \/ row.updatedAt < row.ackedAt
              ELSE /\ row.updatedAt <= row.updatedAt
                   /\ Acknowledged(copy) => row.updatedAt < copy.ackedAt
        BY <1>1, <3>1, <3>5, <3>50, <3>6 DEF Acknowledged
      <4> QED BY <3>6, <4>1, <4>2, <4>3, SameKeys DEF SwapOK, CopyOf
    <3>80. SwapOK(st.copy, st.expect)'
      BY <3>2, <3>4, <3>8 DEF SwapOK, CopyOf, RowOK
    <3>9. st.pc = "write" /\ st.job.kind # "close" => Acknowledged(st.copy)
      BY <3>2, <3>6
    <3>10. Keeps
      BY <1>1, <2>1, <3>1, <3>5, AckRows, IdleKeeps
    <3>11. \A g \in Handlers : At(g, "insert") => Copy(g).id \notin DOMAIN rows'
      BY <2>1 DEF AckInv, HoldsOK, NewOK, At, Copy
    <3>12. \A i \in acks' : i \in acks /\ i \in DOMAIN rows
      BY <2>1 DEF TypeOK, HistoryOK
    <3> QED BY <1>1, <3>1, <3>80, <3>9, <3>10, <3>11, <3>12, AckMove
  <2> QED BY <2>2, <2>3
<1>4. CASE Answer(p)
  <2>1. /\ proc[p].pc = "write" /\ UNCHANGED <<clock, nextId>>
        /\ \/ UNCHANGED <<rows, acks>>
           \/ /\ Unchanged(rows, Copy(p), proc[p].expect) /\ Write(Copy(p))
              /\ acks' = IF Job(p).kind = "close" THEN acks ELSE acks \cup {Copy(p).id}
        /\ Become(p, Idle) \/ Retry(p, "read", Idle)
    BY <1>4 DEF Answer, At
  <2>2. proc[p].copy \in Incidents /\ SwapOK(proc[p].copy, proc[p].expect)
    BY <1>1, <2>1, AckRows DEF AckInv, Swapping
  <2>3. PICK st : /\ proc' = [proc EXCEPT ![p] = st]
                  /\ st.pc \notin Swapping \cup {"put", "close", "insert"}
    <3>1. CASE Become(p, Idle)
      BY <1>2, <3>1 DEF Become
    <3>2. CASE Retry(p, "read", Idle)
      <4>1. PICK st \in States : proc' = [proc EXCEPT ![p] = st] /\ (st = Idle \/ st.pc = "read")
        BY <1>1, <3>2, RetryType
      <4>2. st.pc \notin Swapping \cup {"put", "close", "insert"}
        BY <1>2, <4>1 DEF Swapping
      <4> QED BY <4>1, <4>2
    <3> QED BY <2>1, <3>1, <3>2
  <2>4. CASE UNCHANGED <<rows, acks>>
    <3>1. clock <= clock'
      BY <1>1, <2>1
    <3> QED BY <1>1, <2>1, <2>3, <2>4, <3>1, AckRest
  <2>5. CASE /\ Unchanged(rows, Copy(p), proc[p].expect) /\ Write(Copy(p))
             /\ acks' = IF Job(p).kind = "close" THEN acks ELSE acks \cup {Copy(p).id}
    <3>1. rows[proc[p].copy.id].updatedAt = proc[p].expect /\ Write(proc[p].copy)
      BY <2>5 DEF Unchanged, Copy
    <3>2. \/ acks' = acks
          \/ acks' = acks \cup {proc[p].copy.id} /\ Acknowledged(proc[p].copy)
      BY <2>1, <2>5 DEF AckInv, At, Copy
    <3> QED BY ZenonT(60), <1>1, <2>1, <2>2, <2>3, <3>1, <3>2, AckWrite
  <2> QED BY <2>1, <2>4, <2>5
<1> QED BY <1>3, <1>4 DEF Person

LEMMA AckSchedule ==
  ASSUME TypeOK, TypeOK', AckInv, Schedule
  PROVE  AckInv'
<1>1. /\ proc[Self] \in States /\ Self = Scheduler /\ Scheduler \in Procs
      /\ Scheduler \notin Handlers /\ Scheduler \notin People
      /\ Idle.pc = "idle" /\ Idle \in States /\ Settled \in States /\ Settled.pc = "next"
      /\ clock \in Nat /\ "reload" \in Places
  BY SMTT(30), SchedulerBefore, SettledType, IdleType, ProcsAssumption DEF Places
<1>2. acks' = acks /\ nextId' = nextId
  BY DEF Schedule, Tick, Scan, ProcessNext, NotDue, Hold, BeginGiveUp, BeginDelivery, Turn,
         DeliverySucceeds, DeliveryFails, Reload, Commit, EndTick, history
<1> DEFINE Rests(st) == st.pc \notin Swapping \cup {"put", "close", "insert"}
<1>3. ASSUME UNCHANGED rows, clock <= clock', NEW st,
             proc' = [proc EXCEPT ![Scheduler] = st], Rests(st)
      PROVE  AckInv'
  BY <1>1, <1>2, <1>3, AckRest
<1>4. CASE Tick \/ Scan \/ EndTick
  <2>1. UNCHANGED rows /\ clock <= clock'
    BY <1>1, <1>4 DEF Tick, Scan, EndTick, tables
  <2>2. PICK st : /\ proc' = [proc EXCEPT ![Scheduler] = st]
                  /\ st \in {Idle, [Idle EXCEPT !.pc = "scan", !.stamp = clock'],
                             [proc[Self] EXCEPT !.pc = "next"]}
    BY <1>1, <1>4 DEF Tick, Scan, EndTick, Become
  <2>3. st.pc \in {"idle", "scan", "next"}
    BY <1>1, <2>2 DEF States
  <2>4. Rests(st)
    BY <2>3 DEF Swapping
  <2> QED BY <1>3, <2>1, <2>2, <2>4
<1>5. CASE DeliverySucceeds \/ DeliveryFails
  <2>1. UNCHANGED <<rows, clock>> /\ clock <= clock'
    BY <1>1, <1>5 DEF DeliverySucceeds, DeliveryFails, tables
  <2>2. PICK st : /\ proc' = [proc EXCEPT ![Scheduler] = st]
                  /\ st \in {[proc[Self] EXCEPT !.pc = "reload", !.job.what = "alert"],
                             [proc[Self] EXCEPT !.pc = "reload", !.job.what = "failure"]}
    BY <1>1, <1>5 DEF DeliverySucceeds, DeliveryFails, Become
  <2>3. st.pc = "reload"
    BY <1>1, <2>2 DEF States
  <2>4. Rests(st)
    BY <2>3 DEF Swapping
  <2> QED BY <1>1, <1>3, <2>1, <2>2, <2>4
<1>6. CASE ProcessNext
  <2>1. PICK inc \in pending : \/ NotDue(inc) \/ Hold(inc)
                              \/ BeginGiveUp(inc) \/ BeginDelivery(inc)
    BY <1>6 DEF ProcessNext
  <2>0. UNCHANGED <<rows, clock>> /\ At(Self, "next")
    BY <2>1 DEF NotDue, Hold, BeginGiveUp, BeginDelivery, Turn, tables
  <2>2. UNCHANGED <<rows, clock>> /\ clock <= clock' /\ At(Self, "next")
    BY <1>1, <2>0
  <2>3. CASE NotDue(inc) \/ Hold(inc)
    <3>1. proc' = proc
      BY <2>3 DEF NotDue, Hold
    <3>2. proc' = [proc EXCEPT ![Scheduler] = proc[Self]]
      BY <1>1, <3>1 DEF TypeOK, ProcsOK
    <3>3. Rests(proc[Self])
      BY <2>2 DEF At, Swapping
    <3> QED BY <1>1, <1>3, <2>2, <3>2, <3>3
  <2>4. CASE BeginGiveUp(inc) \/ BeginDelivery(inc)
    <3>1. ASSUME NEW task, NEW place \in {"reload", "deliver"},
                 Become(Self, [Settled EXCEPT !.pc = place, !.job = task])
          PROVE  AckInv'
      <4>1. PICK st : /\ st = [Settled EXCEPT !.pc = place, !.job = task]
                      /\ proc' = [proc EXCEPT ![Scheduler] = st]
        BY <1>1, <3>1 DEF Become
      <4>2. st.pc = place
        BY <1>1, <4>1 DEF States
      <4>3. Rests(st)
        BY <4>2 DEF Swapping
      <4> QED BY ZenonT(60), <1>1, <1>3, <2>2, <4>1, <4>3
    <3>2. CASE BeginGiveUp(inc)
      BY <3>1, <3>2 DEF BeginGiveUp
    <3>3. CASE BeginDelivery(inc)
      <4>1. PICK d : Become(Self, [Settled EXCEPT !.pc = "deliver",
                                                  !.job = Task("deliver", inc, d)])
        BY <3>3 DEF BeginDelivery
      <4> QED BY <3>1, <4>1
    <3> QED BY <2>4, <3>2, <3>3
  <2> QED BY <2>1, <2>3, <2>4
<1>7. CASE Reload
  <2>1. UNCHANGED <<rows, clock>> /\ clock <= clock' /\ At(Self, "reload")
    BY <1>1, <1>7 DEF Reload, tables
  <2> DEFINE row == rows[Job(Self).inc.id]
  <2>2. CASE Become(Self, Settled)
    <3>1. Rests(Settled)
      BY <1>1 DEF Swapping
    <3> QED BY <1>1, <1>3, <2>1, <2>2, <3>1 DEF Become
  <2>3. CASE ~Become(Self, Settled)
    <3>0. PICK inc \in Mutated(Job(Self), row, Now(Self)) :
            proc' = [proc EXCEPT ![Scheduler] = Holding(Self, "commit", inc, row.updatedAt)]
      BY <1>1, <1>7, <2>3 DEF Reload, Become
    <3>1. PICK st : /\ st = Holding(Self, "commit", inc, row.updatedAt)
                    /\ proc' = [proc EXCEPT ![Scheduler] = st]
      BY <3>0
    <3>2. st.pc = "commit" /\ st.copy = inc /\ st.expect = row.updatedAt
      BY <1>1, <3>1 DEF Holding, States
    <3>3. /\ Job(Self).inc.id \in DOMAIN rows /\ row \in Incidents
          /\ Now(Self) \in Nat /\ Now(Self) <= clock
          /\ Job(Self).what \in {"alert", "failure", "give-up"}
      BY <2>1, AtWork, SchedulerBefore DEF At, Job, Now, Tasks
    <3>4. Later(inc, row, Now(Self))
      <4> HIDE DEF row
      <4> QED BY <3>0, <3>3, LaterOperations DEF Mutated
    <3>5. SwapOK(inc, row.updatedAt)
      BY <3>3, <3>4, AckRows, ReadCopy
    <3>6. SwapOK(st.copy, st.expect)'
      <4>1. SwapOK(st.copy, st.expect)
        BY <3>2, <3>5
      <4> QED BY <2>1, <4>1, SameKeys DEF SwapOK, CopyOf, RowOK
    <3>7. Keeps
      BY <1>1, <1>2, <2>1, AckRows, IdleKeeps
    <3>8. \A g \in Handlers : At(g, "insert") => Copy(g).id \notin DOMAIN rows'
      BY <2>1 DEF AckInv, HoldsOK, NewOK, At, Copy
    <3>9. \A i \in acks' : i \in acks /\ i \in DOMAIN rows
      BY <1>2 DEF TypeOK, HistoryOK
    <3> QED BY <1>1, <3>1, <3>6, <3>7, <3>8, <3>9, AckMove
  <2> QED BY <2>2, <2>3
<1>8. CASE Commit
  <2>1. /\ proc[Self].pc = "commit" /\ UNCHANGED clock /\ clock <= clock'
        /\ \/ UNCHANGED rows
           \/ Unchanged(rows, Copy(Self), proc[Self].expect) /\ Write(Copy(Self))
        /\ Become(Self, Settled) \/ Retry(Self, "reload", Settled)
    BY <1>1, <1>8 DEF Commit, At
  <2>2. proc[Self].copy \in Incidents /\ SwapOK(proc[Self].copy, proc[Self].expect)
    BY <1>1, <2>1, AckRows DEF AckInv, Swapping
  <2>3. PICK st : proc' = [proc EXCEPT ![Scheduler] = st] /\ Rests(st)
    <3>1. CASE Become(Self, Settled)
      BY <1>1, <3>1 DEF Become, Swapping
    <3>2. CASE Retry(Self, "reload", Settled)
      <4>1. PICK st \in States :
              proc' = [proc EXCEPT ![Self] = st] /\ (st = Settled \/ st.pc = "reload")
        BY <1>1, <3>2, RetryType
      <4>2. Rests(st)
        BY <1>1, <4>1 DEF Swapping
      <4> QED BY <1>1, <4>1, <4>2
    <3> QED BY <2>1, <3>1, <3>2
  <2>4. CASE UNCHANGED rows
    BY <1>1, <1>3, <2>1, <2>3, <2>4
  <2>5. CASE Unchanged(rows, Copy(Self), proc[Self].expect) /\ Write(Copy(Self))
    <3>1. /\ rows[proc[Scheduler].copy.id].updatedAt = proc[Scheduler].expect
          /\ Write(proc[Scheduler].copy)
      BY <1>1, <2>5 DEF Unchanged, Copy
    <3> QED BY <1>1, <1>2, <2>1, <2>2, <2>3, <3>1, AckWrite
  <2> QED BY <2>1, <2>4, <2>5
<1> QED BY <1>4, <1>5, <1>6, <1>7, <1>8 DEF Schedule

\* A step that moves nobody on: a crash, time that passes, a stutter.
LEMMA AckStill ==
  ASSUME TypeOK, TypeOK', AckInv, Crash \/ Elapse \/ UNCHANGED vars
  PROVE  AckInv'
<1>1. /\ UNCHANGED <<rows, nextId, acks>> /\ clock <= clock' /\ clock \in Nat
      /\ clock' \in Nat
  BY BoundsAssumption DEF Crash, Elapse, vars, tables, history, TypeOK
<1>2. Keeps
  BY <1>1, AckRows, IdleKeeps
<1>3. SwappedAckKept' /\ \A i \in DOMAIN rows' : RowOK(rows[i])' /\ i < nextId'
  BY <1>1, <1>2, SameKeys DEF AckInv, SwappedAckKept, Keeps
<1>4. CASE UNCHANGED proc
  <2>1. ASSUME NEW q \in Procs, proc'[q].pc \in Swapping
        PROVE  SwapOK(proc[q].copy, proc[q].expect)'
    <3>1. PICK copy \in Incidents, e \in Nat :
            copy = proc[q].copy /\ e = proc[q].expect /\ SwapOK(copy, e)
      BY <1>4, <2>1, AckRows DEF AckInv
    <3>2. SwapOK(copy, e)'
      BY <1>2, <3>1 DEF Keeps
    <3> QED BY <1>4, <3>1, <3>2 DEF SwapOK, CopyOf, RowOK
  <2>2. ASSUME NEW h \in Handlers
        PROVE  HoldsOK(proc[h])'
    <3>1. HoldsOK(proc[h]) /\ proc'[h] = proc[h]
      BY <1>4 DEF AckInv
    <3>2. ASSUME proc[h].pc \in {"put", "close", "insert"}
          PROVE  RowOK(proc[h].copy)'
      <4>1. proc[h].copy \in Incidents /\ RowOK(proc[h].copy)
        BY <3>1, <3>2, AckRows DEF HoldsOK, CloseOK, NewOK, Writing
      <4> QED BY <1>1, <1>4, <4>1, SameKeys DEF RowOK, Incidents
    <3> QED BY <1>1, <1>4, <3>1, <3>2, SameKeys DEF HoldsOK, Suits, CloseOK, CopyOf, NewOK
  <2>3. /\ \A g, h \in Handlers :
             (At(g, "insert") /\ At(h, "insert") /\ Copy(g).id = Copy(h).id)' => g = h
        /\ \A q \in People :
             (At(q, "write") /\ Job(q).kind # "close")' => Acknowledged(Copy(q))'
    BY <1>4 DEF AckInv, At, Job, Copy, Acknowledged
  <2> QED BY <1>3, <2>1, <2>2, <2>3 DEF AckInv
<1>5. CASE Crash
  <2>1. \A q \in Procs : proc'[q].pc = "idle"
    BY <1>5, IdleType DEF Crash
  <2>2. Handlers \subseteq Procs /\ People \subseteq Procs
    BY DEF Procs
  <2> QED BY <1>3, <2>1, <2>2 DEF AckInv, HoldsOK, At, Swapping
<1> QED BY <1>4, <1>5 DEF Elapse, vars

LEMMA AckInit == Init => AckInv
<1> SUFFICES ASSUME Init PROVE AckInv
  OBVIOUS
<1>1. DOMAIN rows = {} /\ acks = {} /\ \A p \in Procs : proc[p].pc = "idle"
  BY IdleType DEF Init
<1>2. Handlers \subseteq Procs /\ People \subseteq Procs
  BY DEF Procs
<1> QED BY <1>1, <1>2 DEF AckInv, HoldsOK, SwappedAckKept, At, Swapping

LEMMA AckNext == TypeOK /\ TypeOK' /\ AckInv /\ [Next]_vars => AckInv'
BY AckHandler, AckPerson, AckSchedule, AckStill DEF Next

\* On an incident of a key that is written by swapping only, a person who was answered
\* that the acknowledgement is recorded finds it ever after: over crashes, lost swaps, the
\* scheduler's commits, the closes of the engine, and whatever other keys meet.
THEOREM AckKeptSafe == Spec => []SwappedAckKept
<1>1. AckInv => SwappedAckKept
  BY DEF AckInv
<1> QED BY <1>1, TypeSafe, AckInit, AckNext, PTL DEF Spec

\* So where no arrival raises or clears a condition that lasts, every acknowledgement is
\* kept. Ack_erased_by_clear shows what a plain write does to it.
COROLLARY EveryAckKept ==
  ASSUME \A e \in Arrivals : e.kind \in {"occurrence", "fault"}
  PROVE  Spec => []AckKept
<1>1. TypeOK /\ SwappedAckKept => AckKept
  BY DEF SwappedAckKept, AckKept, SwappedKeys, TypeOK, TablesOK, HistoryOK, Incidents
<1> QED BY <1>1, TypeSafe, AckKeptSafe, PTL

-----------------------------------------------------------------------------
(* The occurrences kept in full are bounded, where a key is written by *)
(* swapping only                                                       *)

Crowd == Cardinality(Handlers)

\* What an arrival numbered m does not prune though it might: the numbers of S up
\* to the floor f that m - MaxOccurrences reaches.
Below(S, f, m) == {x \in S : x <= f /\ x <= m - MaxOccurrences}
Under(S, f) == {x \in S : x <= f}

\* A is what is kept of an incident, C the numbers handlers have yet to add, and f a
\* number the row has had: from it on numbers are few, since each handler that
\* takes one leaves the crowd.
Kept(A, C, f) ==
  \A m \in A : /\ Cardinality(Below(A \cup C, f, m)) < Crowd
               /\ Cardinality(Below(A \cup C, f, m)) + (m - f) <= Crowd
Coming(C, f) == \A t \in C : t > f => Cardinality(Under(C, f)) + (t - f) <= Crowd
Room(A, C, f) == Kept(A, C, f) /\ Coming(C, f)

Finite(S) == S \subseteq Nat /\ IsFiniteSet(S)

\* The greatest of the numbers, if there are any.
Topped(A) == A = {} \/ \E m \in A : \A x \in A : x <= m

Beyond(a, b) == (a + 1) .. b

Split(S, T, a, b) == \A x \in S : x \in T \/ x \in Beyond(a, b)

\* The handlers are finitely many.
LEMMA CrowdType == Crowd \in Nat
BY ProcsAssumption, FS_CardinalityType DEF Crowd

\* Parts of a finite set of numbers.
LEMMA FinitePart ==
  ASSUME NEW S, Finite(S), NEW T \in SUBSET S
  PROVE  /\ Finite(T) /\ Cardinality(T) \in Nat /\ Cardinality(S) \in Nat
         /\ Cardinality(T) <= Cardinality(S)
<1>1. IsFiniteSet(T) /\ Cardinality(T) <= Cardinality(S)
  BY FS_Subset DEF Finite
<1>2. Cardinality(T) \in Nat /\ Cardinality(S) \in Nat
  BY <1>1, FS_CardinalityType DEF Finite
<1> QED BY <1>1, <1>2 DEF Finite

\* The numbers up to a floor are among the numbers.
LEMMA UnderFew ==
  ASSUME NEW C, Finite(C), NEW f
  PROVE  /\ Cardinality(Under(C, f)) \in Nat
         /\ Cardinality(Under(C, f)) <= Cardinality(C)
<1>1. Under(C, f) \in SUBSET C
  BY DEF Under
<1> QED BY <1>1, FinitePart

\* A set with nothing but what another holds and the numbers after a up to b.
LEMMA PartAndInterval ==
  ASSUME NEW S, NEW T, Finite(S), Finite(T), NEW a \in Int, NEW b \in Int,
         Split(S, T, a, b)
  PROVE  /\ Cardinality(S) \in Nat /\ Cardinality(T) \in Nat
         /\ a <= b => Cardinality(S) <= Cardinality(T) + (b - a)
         /\ b <= a => Cardinality(S) <= Cardinality(T)
<1>1. Cardinality(S) \in Nat /\ Cardinality(T) \in Nat
  BY FS_CardinalityType DEF Finite
<1>2. IsFiniteSet((a + 1) .. b) /\ Cardinality((a + 1) .. b) = IF a + 1 > b THEN 0 ELSE b - (a + 1) + 1
  BY FS_Interval
<1>3. PICK I : I = (a + 1) .. b /\ I = Beyond(a, b)
  BY DEF Beyond
<1>4. /\ IsFiniteSet(T \cup I)
      /\ Cardinality(T \cup I) = Cardinality(T) + Cardinality(I) - Cardinality(T \cap I)
  BY <1>2, <1>3, FS_Union DEF Finite
<1>5. Cardinality(T \cap I) \in Nat /\ Cardinality(I) \in Nat
  BY <1>2, <1>3, FS_CardinalityType, FS_Intersection DEF Finite
<1>6. S \in SUBSET (T \cup I)
  BY <1>3 DEF Split
<1>7. Cardinality(S) <= Cardinality(T \cup I)
  BY <1>4, <1>6, FS_Subset
<1>8. Cardinality(S) <= Cardinality(T) + Cardinality(I)
  BY <1>1, <1>4, <1>5, <1>7
<1>9. Cardinality(I) = IF a + 1 > b THEN 0 ELSE b - (a + 1) + 1
  BY <1>2, <1>3
<1>10. a <= b => Cardinality(I) = b - a
  BY <1>9
<1>11. b <= a => Cardinality(I) = 0
  BY <1>9
<1> QED BY <1>1, <1>5, <1>8, <1>10, <1>11

\* With less there is as much room.
LEMMA RoomLess ==
  ASSUME NEW A, NEW C, NEW f \in Nat, Finite(A), Finite(C), Room(A, C, f),
         NEW B \in SUBSET A, NEW D \in SUBSET C
  PROVE  Room(B, D, f)
<1>1. Finite(A \cup C) /\ \A m : Below(A \cup C, f, m) \subseteq A \cup C
  BY FS_Union DEF Finite, Below
<1>2. ASSUME NEW m \in B
      PROVE  /\ Cardinality(Below(B \cup D, f, m)) < Crowd
             /\ Cardinality(Below(B \cup D, f, m)) + (m - f) <= Crowd
  <2>1. /\ Cardinality(Below(A \cup C, f, m)) < Crowd
        /\ Cardinality(Below(A \cup C, f, m)) + (m - f) <= Crowd
    BY DEF Room, Kept
  <2>2. Finite(Below(A \cup C, f, m))
    BY <1>1, FinitePart
  <2>3. Below(B \cup D, f, m) \in SUBSET Below(A \cup C, f, m)
    BY DEF Below
  <2>4. /\ Cardinality(Below(B \cup D, f, m)) \in Nat
        /\ Cardinality(Below(A \cup C, f, m)) \in Nat
        /\ Cardinality(Below(B \cup D, f, m)) <= Cardinality(Below(A \cup C, f, m))
    BY <2>2, <2>3, FinitePart
  <2>5. m \in Nat
    BY DEF Finite
  <2> QED BY <2>1, <2>4, <2>5, CrowdType
<1>3. ASSUME NEW t \in D, t > f
      PROVE  Cardinality(Under(D, f)) + (t - f) <= Crowd
  <2>1. Cardinality(Under(C, f)) + (t - f) <= Crowd
    BY <1>3 DEF Room, Coming
  <2>2. Finite(Under(C, f))
    BY FinitePart DEF Under
  <2>3. Under(D, f) \in SUBSET Under(C, f)
    BY DEF Under
  <2>4. /\ Cardinality(Under(D, f)) \in Nat /\ Cardinality(Under(C, f)) \in Nat
        /\ Cardinality(Under(D, f)) <= Cardinality(Under(C, f))
    BY <2>2, <2>3, FinitePart
  <2>5. t \in Nat
    BY DEF Finite
  <2> QED BY <2>1, <2>4, <2>5, CrowdType
<1> QED BY <1>2, <1>3 DEF Room, Kept, Coming

\* The floor may rise: what comes under it was few enough above it.
LEMMA RoomRise ==
  ASSUME NEW A, NEW C, NEW f \in Nat, NEW g \in Nat, f <= g, Finite(A), Finite(C),
         Room(A, C, f)
  PROVE  Room(A, C, g)
<1>1. Finite(A \cup C)
  BY FS_Union DEF Finite
<1>2. ASSUME NEW m \in A
      PROVE  /\ Cardinality(Below(A \cup C, g, m)) < Crowd
             /\ Cardinality(Below(A \cup C, g, m)) + (m - g) <= Crowd
  <2> DEFINE S == Below(A \cup C, g, m)
             T == Below(A \cup C, f, m)
  <2>1. Cardinality(T) < Crowd /\ Cardinality(T) + (m - f) <= Crowd
    BY DEF Room, Kept
  <2>2. Finite(S) /\ Finite(T) /\ S \subseteq Nat
    <3>1. S \in SUBSET (A \cup C) /\ T \in SUBSET (A \cup C)
      BY DEF Below
    <3> QED BY <1>1, <3>1, FinitePart DEF Finite
  <2>3. m \in Nat /\ MaxOccurrences \in Nat \ {0} /\ m - MaxOccurrences \in Int
    BY BoundsAssumption DEF Finite
  <2>4. Split(S, T, f, g)
    BY <2>2, <2>3 DEF Below, Beyond, Split
  <2>5. Split(S, T, f, m - MaxOccurrences)
    BY <2>2, <2>3 DEF Below, Beyond, Split
  <2> HIDE DEF S, T
  <2>6. /\ Cardinality(S) \in Nat /\ Cardinality(T) \in Nat
        /\ Cardinality(S) <= Cardinality(T) + (g - f)
    BY <2>2, <2>4, PartAndInterval
  <2>7. /\ f <= m - MaxOccurrences => Cardinality(S) <= Cardinality(T) + (m - MaxOccurrences - f)
        /\ m - MaxOccurrences <= f => Cardinality(S) <= Cardinality(T)
    BY <2>2, <2>3, <2>5, PartAndInterval
  <2>8. Cardinality(S) + (m - g) <= Crowd
    BY <2>1, <2>3, <2>6, CrowdType
  <2>9. Cardinality(S) < Crowd
    BY <2>1, <2>3, <2>6, <2>7, CrowdType
  <2> QED BY <2>8, <2>9 DEF S
<1>3. ASSUME NEW t \in C, t > g
      PROVE  Cardinality(Under(C, g)) + (t - g) <= Crowd
  <2>1. t \in Nat
    BY DEF Finite
  <2>2. Cardinality(Under(C, f)) + (t - f) <= Crowd
    BY <1>3, <2>1 DEF Room, Coming
  <2>3. Finite(Under(C, f)) /\ Finite(Under(C, g))
    BY FinitePart DEF Under
  <2>4. Split(Under(C, g), Under(C, f), f, g)
    BY DEF Under, Finite, Beyond, Split
  <2>5. /\ Cardinality(Under(C, g)) \in Nat /\ Cardinality(Under(C, f)) \in Nat
        /\ Cardinality(Under(C, g)) <= Cardinality(Under(C, f)) + (g - f)
    BY <2>3, <2>4, PartAndInterval
  <2> QED BY <2>1, <2>2, <2>5, CrowdType
<1> QED BY <1>2, <1>3 DEF Room, Kept, Coming

\* A number above the floor is taken to be added.
LEMMA RoomTake ==
  ASSUME NEW A, NEW C, NEW f \in Nat, NEW t \in Nat, f < t, Finite(A), Finite(C),
         Room(A, C, f), Cardinality(Under(C, f)) + (t - f) <= Crowd
  PROVE  Room(A, C \cup {t}, f) /\ Under(C \cup {t}, f) = Under(C, f)
<1>1. Under(C \cup {t}, f) = Under(C, f)
  BY DEF Under
<1>2. \A m : Below(A \cup (C \cup {t}), f, m) = Below(A \cup C, f, m)
  BY DEF Below
<1> QED BY <1>1, <1>2 DEF Room, Kept, Coming

\* A number is added, and what it prunes is gone: of the numbers it would have
\* pruned, only those come that other handlers carry.
LEMMA RoomAdd ==
  ASSUME NEW A, NEW C, NEW f \in Nat, Finite(A), Finite(C), Room(A, C, f),
         NEW t \in C, NEW D \in SUBSET C, Cardinality(D \ {t}) < Crowd
  PROVE  Room({x \in A \cup {t} : x > t - MaxOccurrences}, D, f)
<1> DEFINE B == {x \in A \cup {t} : x > t - MaxOccurrences}
<1>1. Finite(A \cup C) /\ Finite(D) /\ t \in Nat /\ Finite(D \ {t})
  <2>1. Finite(D)
    BY FinitePart
  <2>2. D \ {t} \in SUBSET D
    OBVIOUS
  <2> QED BY <2>1, <2>2, FinitePart, FS_Union DEF Finite
<1>2. ASSUME NEW m \in B
      PROVE  /\ Cardinality(Below(B \cup D, f, m)) < Crowd
             /\ Cardinality(Below(B \cup D, f, m)) + (m - f) <= Crowd
  <2>1. CASE m \in A
    <3>1. /\ Cardinality(Below(A \cup C, f, m)) < Crowd
          /\ Cardinality(Below(A \cup C, f, m)) + (m - f) <= Crowd
      BY <2>1 DEF Room, Kept
    <3>2. Below(A \cup C, f, m) \in SUBSET (A \cup C)
      BY DEF Below
    <3>3. Finite(Below(A \cup C, f, m))
      BY <1>1, <3>2, FinitePart
    <3>4. Below(B \cup D, f, m) \in SUBSET Below(A \cup C, f, m)
      BY DEF Below
    <3>5. /\ Cardinality(Below(B \cup D, f, m)) \in Nat
          /\ Cardinality(Below(A \cup C, f, m)) \in Nat
          /\ Cardinality(Below(B \cup D, f, m)) <= Cardinality(Below(A \cup C, f, m))
      BY <3>3, <3>4, FinitePart
    <3>6. m \in Nat
      BY <2>1 DEF Finite
    <3> QED BY <3>1, <3>5, <3>6, CrowdType
  <2>2. CASE m = t
    <3> DEFINE S == Below(B \cup D, f, t)
    <3>1. MaxOccurrences \in Nat \ {0}
      BY BoundsAssumption
    <3>2. S \in SUBSET (D \ {t}) /\ S \in SUBSET Under(D, f)
      <4>1. \A x \in S : x \in D /\ x # t /\ x <= f
        <5> SUFFICES ASSUME NEW x \in S PROVE x \in D /\ x # t /\ x <= f
          OBVIOUS
        <5>1. x \in B \cup D /\ x <= f /\ x <= t - MaxOccurrences
          BY DEF Below
        <5>2. x \in Nat
          BY <1>1, <5>1 DEF Finite
        <5>3. x \notin B
          BY <1>1, <3>1, <5>1, <5>2
        <5> HIDE DEF B
        <5> QED BY <1>1, <3>1, <5>1, <5>2, <5>3
      <4> HIDE DEF S
      <4> QED BY <4>1 DEF Under
    <3>3. Under(D, f) \in SUBSET D
      BY DEF Under
    <3>4. /\ Cardinality(S) \in Nat /\ Cardinality(D \ {t}) \in Nat
          /\ Cardinality(S) <= Cardinality(D \ {t})
      BY <1>1, <3>2, FinitePart
    <3>5. /\ Finite(Under(D, f)) /\ Cardinality(Under(D, f)) \in Nat
      BY <1>1, <3>3, FinitePart
    <3>6. Cardinality(S) <= Cardinality(Under(D, f))
      BY <3>2, <3>5, FinitePart
    <3>7. CASE t > f
      <4>1. Cardinality(Under(C, f)) + (t - f) <= Crowd
        BY <3>7 DEF Room, Coming
      <4>2. Under(D, f) \in SUBSET Under(C, f) /\ Under(C, f) \in SUBSET C
        BY DEF Under
      <4>3. Finite(Under(C, f))
        BY <4>2, FinitePart
      <4>4. /\ Cardinality(Under(C, f)) \in Nat
            /\ Cardinality(Under(D, f)) <= Cardinality(Under(C, f))
        BY <4>2, <4>3, FinitePart
      <4> QED BY <1>1, <2>2, <3>4, <3>5, <3>6, <4>1, <4>4, CrowdType
    <3>8. CASE t <= f
      <4> HIDE DEF S
      <4>1. Cardinality(S) < Crowd /\ Cardinality(S) + (t - f) <= Crowd
        BY <1>1, <3>4, <3>8, CrowdType
      <4> QED BY <2>2, <4>1 DEF S
    <3> QED BY <1>1, <3>7, <3>8
  <2> QED BY <2>1, <2>2
<1>3. Room(A, D, f)
  <2>1. A \in SUBSET A
    OBVIOUS
  <2> QED BY <2>1, RoomLess
<1> QED BY <1>2, <1>3 DEF Room, Kept

\* What the room bounds.
LEMMA RoomBound ==
  ASSUME NEW A, NEW C, NEW f \in Nat, Finite(A), Finite(C), Topped(A), Room(A, C, f)
  PROVE  Cardinality(A) < MaxOccurrences + Crowd
<1>1. MaxOccurrences \in Nat \ {0}
  BY BoundsAssumption
<1>2. CASE A = {}
  BY <1>1, <1>2, CrowdType, FS_EmptySet
<1>3. CASE A # {}
  <2>1. PICK m \in A : \A x \in A : x <= m
    BY <1>3 DEF Topped
  <2> DEFINE T == Below(A \cup C, f, m)
             low == IF f <= m - MaxOccurrences THEN f ELSE m - MaxOccurrences
  <2>2. Cardinality(T) < Crowd /\ Cardinality(T) + (m - f) <= Crowd /\ m \in Nat
    BY DEF Room, Kept, Finite
  <2>3. Finite(T)
    <3>1. Finite(A \cup C) /\ T \in SUBSET (A \cup C)
      BY FS_Union DEF Finite, Below
    <3> QED BY <3>1, FinitePart
  <2>4. Split(A, T, low, m)
    BY <1>1, <2>1, <2>2 DEF Below, Finite, Beyond, Split
  <2>5. low \in Int /\ low <= m
    BY <1>1, <2>2
  <2>6. /\ Cardinality(A) \in Nat /\ Cardinality(T) \in Nat
        /\ Cardinality(A) <= Cardinality(T) + (m - low)
    <3> HIDE DEF T, low
    <3> QED BY <2>2, <2>3, <2>4, <2>5, PartAndInterval
  <2> HIDE DEF T
  <2> QED BY <1>1, <2>2, <2>6, CrowdType
<1> QED BY <1>2, <1>3

\* A set of what a function gives on R has at most as many members.
LEMMA ImageFew ==
  ASSUME NEW R, IsFiniteSet(R), NEW F, NEW S, \A x \in S : \E h \in R : x = F[h]
  PROVE  /\ IsFiniteSet(S) /\ Cardinality(S) \in Nat /\ Cardinality(R) \in Nat
         /\ Cardinality(S) <= Cardinality(R)
<1> DEFINE Q == {h \in R : F[h] \in S}
           G == [h \in Q |-> F[h]]
<1>1. Q \in SUBSET R
  OBVIOUS
<1>2. IsFiniteSet(Q) /\ Cardinality(Q) <= Cardinality(R)
  BY <1>1, FS_Subset
<1>3. G \in [Q -> S] /\ \A x \in S : \E h \in Q : G[h] = x
  OBVIOUS
<1>4. G \in Surjection(Q, S)
  BY <1>3 DEF Surjection
<1>5. IsFiniteSet(S) /\ Cardinality(S) <= Cardinality(Q)
  BY <1>2, <1>4, FS_Surjection
<1>6. Cardinality(S) \in Nat /\ Cardinality(Q) \in Nat /\ Cardinality(R) \in Nat
  BY <1>2, <1>5, FS_CardinalityType
<1> QED BY <1>2, <1>5, <1>6

\* Two groups of handlers that share none are together no more than the crowd.
LEMMA CrowdShared ==
  ASSUME NEW L \in SUBSET Handlers, NEW R \in SUBSET Handlers, L \cap R = {}
  PROVE  /\ IsFiniteSet(L) /\ IsFiniteSet(R)
         /\ Cardinality(L) \in Nat /\ Cardinality(R) \in Nat
         /\ Cardinality(L) + Cardinality(R) <= Crowd
<1>1. IsFiniteSet(L) /\ IsFiniteSet(R)
  BY ProcsAssumption, FS_Subset
<1>2. Cardinality(L \cup R) = Cardinality(L) + Cardinality(R) - Cardinality(L \cap R)
  BY <1>1, FS_Union
<1>3. Cardinality(L \cap R) = 0
  BY FS_EmptySet
<1>4. L \cup R \in SUBSET Handlers
  OBVIOUS
<1>5. Cardinality(L \cup R) <= Crowd
  BY <1>4, ProcsAssumption, FS_Subset DEF Crowd
<1>6. Cardinality(L) \in Nat /\ Cardinality(R) \in Nat
  BY <1>1, FS_CardinalityType
<1> QED BY <1>1, <1>2, <1>3, <1>5, <1>6

\* The handlers that carry a number for the incident i, and the numbers.
Carrying(i) == {h \in Handlers : At(h, "record") /\ Copy(h).id = i}
Carried(i) == {Copy(h).occurrences : h \in Carrying(i)}

\* The handlers at work whose instant the row of i has reached: a swap of theirs
\* leaves its version alone.
Late(i) == {h \in Handlers : /\ proc[h].pc \notin {"idle", "record"}
                             /\ proc[h].stamp <= rows[i].updatedAt}

\* The goroutines that would swap the row of i as it is, and the count they read.
Live(i, q) == /\ proc[q].pc \in Swapping /\ Copy(q).id = i
              /\ proc[q].expect = rows[i].updatedAt
CountRead(q) == IF q \in Handlers THEN Copy(q).occurrences - 1 ELSE Copy(q).occurrences

\* Under one version the count of an incident moves between a floor and a peak, and
\* every late handler may lift the peak once.
Spread(i, f, p) ==
  /\ f <= rows[i].occurrences /\ rows[i].occurrences <= p
  /\ \A q \in Procs : Live(i, q) => f <= CountRead(q) /\ CountRead(q) <= p
  /\ (p - f) + Cardinality(Late(i)) + Cardinality(Under(Carried(i), f)) <= Crowd

\* What holds of the rows of a key that is written by swapping only.
RowDet(i) ==
  rows[i].key \in SwappedKeys =>
    /\ Finite(details[i]) /\ Topped(details[i])
    /\ \E f \in Nat : /\ Room(details[i], Carried(i), f)
                      /\ ~Acknowledged(rows[i]) => \E p \in Nat : Spread(i, f, p)

\* A handler swaps only a row that nobody acknowledged, and a new row counts one.
Ready(s) ==
  /\ s.pc = "occur" =>
       /\ ~Acknowledged(s.copy)
       /\ s.copy.updatedAt = IF s.stamp > s.expect THEN s.stamp ELSE s.expect
  /\ s.pc = "insert" => s.copy.occurrences = 1

DetInv ==
  /\ \A i \in DOMAIN rows : RowDet(i)
  /\ \A i \in Ids \ DOMAIN rows : details[i] = {}
  /\ \A h \in Handlers : /\ At(h, "record") => Copy(h).id \in DOMAIN rows
                         /\ Ready(proc[h])

\* What a handler carries is a number, and there are no more numbers than handlers.
CarriedOK(i) ==
  /\ Carrying(i) \in SUBSET Handlers /\ Late(i) \in SUBSET Handlers
  /\ Carrying(i) \cap Late(i) = {}
  /\ Finite(Carried(i)) /\ Cardinality(Carried(i)) <= Cardinality(Carrying(i))
  /\ \A f \in Nat : /\ Cardinality(Under(Carried(i), f)) \in Nat
                    /\ Cardinality(Under(Carried(i), f)) <= Cardinality(Carried(i))
  /\ Cardinality(Late(i)) \in Nat /\ Cardinality(Carried(i)) \in Nat
  /\ Cardinality(Late(i)) + Cardinality(Carried(i)) <= Crowd

LEMMA CarriedType == TypeOK => \A i : CarriedOK(i)
<1> SUFFICES ASSUME TypeOK, NEW i PROVE CarriedOK(i)
  OBVIOUS
<1>1. /\ Carrying(i) \in SUBSET Handlers /\ Late(i) \in SUBSET Handlers
      /\ Carrying(i) \cap Late(i) = {}
  BY DEF Carrying, Late, At
<1>2. /\ IsFiniteSet(Carrying(i)) /\ Cardinality(Carrying(i)) \in Nat
      /\ Cardinality(Late(i)) \in Nat
      /\ Cardinality(Late(i)) + Cardinality(Carrying(i)) <= Crowd
  BY <1>1, CrowdShared
<1>3. Carried(i) \subseteq Nat
  <2>1. \A h \in Carrying(i) : Copy(h) \in Incidents
    BY DEF Carrying, At, Copy, TypeOK, ProcsOK, HandlerOK, Writing
  <2> QED BY <2>1 DEF Carried, Incidents
<1>4. PICK F : F = [h \in Handlers |-> Copy(h).occurrences]
  OBVIOUS
<1>5. \A x \in Carried(i) : \E h \in Carrying(i) : x = F[h]
  BY <1>1, <1>4 DEF Carried
<1>6. /\ IsFiniteSet(Carried(i)) /\ Cardinality(Carried(i)) \in Nat
      /\ Cardinality(Carried(i)) <= Cardinality(Carrying(i))
  BY <1>2, <1>5, ImageFew
<1>7. Finite(Carried(i))
  BY <1>3, <1>6 DEF Finite
<1>8. ASSUME NEW f \in Nat
      PROVE  /\ Cardinality(Under(Carried(i), f)) \in Nat
             /\ Cardinality(Under(Carried(i), f)) <= Cardinality(Carried(i))
  BY <1>7, UnderFew
<1> QED BY <1>1, <1>2, <1>6, <1>7, <1>8, CrowdType DEF CarriedOK

\* What CarriedType says, after a step.
LEMMA CarriedNext == TypeOK' => \A i : CarriedOK(i)'
<1>1. (TypeOK => \A i : CarriedOK(i))'
  BY CarriedType, PTL
<1> QED BY <1>1

\* A goroutine moves to st: who carries and who is late afterwards.
Calm(p, st) ==
  p \in Handlers => \/ st.pc \in {"idle", "record"}
                    \/ st.stamp > clock
                    \/ proc[p].pc \notin {"idle", "record"} /\ st.stamp >= proc[p].stamp

WithOne(S, T, x) == S \subseteq T \cup {x}

\* Only the goroutine that moves may begin or cease to carry a number.
LEMMA CarriedAfter ==
  ASSUME TypeOK, NEW p \in Procs, NEW st, proc' = [proc EXCEPT ![p] = st], NEW i
  PROVE  /\ p \in Handlers /\ st.pc = "record" /\ st.copy.id = i
              => /\ Carrying(i)' \subseteq Carrying(i) \cup {p}
                 /\ WithOne(Carried(i)', Carried(i), st.copy.occurrences)
         /\ ~(p \in Handlers /\ st.pc = "record" /\ st.copy.id = i)
              => /\ Carrying(i)' \subseteq Carrying(i) \ {p}
                 /\ Carried(i)' \subseteq Carried(i)
         /\ Carried(i)' = {proc'[h].copy.occurrences : h \in Carrying(i)'}
<1>1. /\ Handlers \subseteq Procs /\ proc'[p] = st
      /\ \A q \in Procs : q # p => proc'[q] = proc[q]
  BY DEF TypeOK, ProcsOK, Procs
<1>2. /\ Carrying(i) = {h \in Handlers : proc[h].pc = "record" /\ proc[h].copy.id = i}
      /\ Carrying(i)' = {h \in Handlers : proc'[h].pc = "record" /\ proc'[h].copy.id = i}
      /\ Carried(i) = {proc[h].copy.occurrences : h \in Carrying(i)}
      /\ Carried(i)' = {proc'[h].copy.occurrences : h \in Carrying(i)'}
  BY DEF Carrying, Carried, At, Copy
<1>3. \A h \in Carrying(i)' : /\ h # p => h \in Carrying(i) /\ proc'[h] = proc[h]
                              /\ h = p => p \in Handlers /\ st.pc = "record" /\ st.copy.id = i
  BY <1>1, <1>2
<1>4. CASE p \in Handlers /\ st.pc = "record" /\ st.copy.id = i
  <2>1. Carrying(i)' \subseteq Carrying(i) \cup {p}
    BY <1>3
  <2>2. WithOne(Carried(i)', Carried(i), st.copy.occurrences)
    BY <1>1, <1>2, <1>3 DEF WithOne
  <2> QED BY <1>2, <1>4, <2>1, <2>2
<1>5. CASE ~(p \in Handlers /\ st.pc = "record" /\ st.copy.id = i)
  <2>1. \A h \in Carrying(i)' : h # p /\ h \in Carrying(i) /\ proc'[h] = proc[h]
    BY <1>3, <1>5
  <2>2. Carrying(i)' \subseteq Carrying(i) \ {p}
    BY <2>1
  <2>3. Carried(i)' \subseteq Carried(i)
    BY <1>2, <2>1
  <2> QED BY <1>2, <1>5, <2>2, <2>3
<1> QED BY <1>4, <1>5

\* A handler that begins to carry adds its own number and no other.
LEMMA CarriedMore ==
  ASSUME TypeOK, NEW p \in Handlers, NEW st, proc' = [proc EXCEPT ![p] = st],
         st.pc = "record"
  PROVE  WithOne(Carried(st.copy.id)', Carried(st.copy.id), st.copy.occurrences)
<1>1. p \in Procs
  BY DEF Procs
<1>2. PICK i : i = st.copy.id
  OBVIOUS
<1>3. p \in Handlers /\ st.pc = "record" /\ st.copy.id = i
              => /\ Carrying(i)' \subseteq Carrying(i) \cup {p}
                 /\ WithOne(Carried(i)', Carried(i), st.copy.occurrences)
  BY <1>1, CarriedAfter
<1>4. WithOne(Carried(i)', Carried(i), st.copy.occurrences)
  BY <1>2, <1>3
<1> QED BY <1>2, <1>4

\* No handler becomes late while the version of the row stays, and one that is done no
\* longer is: the version is no later than the clock.
LEMMA LateAfter ==
  ASSUME TypeOK, AckInv, NEW p \in Procs, NEW st, st.stamp \in Nat,
         proc' = [proc EXCEPT ![p] = st], Calm(p, st),
         NEW i \in DOMAIN rows, rows[i].key \in SwappedKeys,
         rows'[i].updatedAt = rows[i].updatedAt
  PROVE  /\ Late(i)' \subseteq Late(i)
         /\ p \in Handlers /\ st.pc \in {"idle", "record"} => p \notin Late(i)'
<1>1. /\ Handlers \subseteq Procs /\ proc'[p] = st
      /\ \A q \in Procs : q # p => proc'[q] = proc[q]
  BY DEF TypeOK, ProcsOK, Procs
<1>2. /\ rows[i].updatedAt \in Nat /\ rows[i].updatedAt <= clock /\ clock \in Nat
      /\ proc[p].stamp \in Nat
  BY AckRows, Before DEF RowsOK, RowOK, Incidents
<1>3. \A h \in Late(i)' : h \in Handlers /\ proc'[h].pc \notin {"idle", "record"}
                            /\ proc'[h].stamp <= rows[i].updatedAt
  BY DEF Late
<1>4. \A h \in Handlers : proc[h].pc \notin {"idle", "record"}
                            /\ proc[h].stamp <= rows[i].updatedAt => h \in Late(i)
  BY DEF Late
<1>5. ASSUME NEW h \in Late(i)'
      PROVE  h \in Late(i)
  <2>1. CASE h # p
    BY <1>1, <1>3, <1>4, <2>1
  <2>2. CASE h = p
    <3>1. st.pc \notin {"idle", "record"} /\ st.stamp <= rows[i].updatedAt /\ p \in Handlers
      BY <1>1, <1>3, <2>2
    <3>2. proc[p].pc \notin {"idle", "record"} /\ st.stamp >= proc[p].stamp
      BY <1>2, <3>1 DEF Calm
    <3>3. proc[p].stamp <= rows[i].updatedAt
      BY <1>2, <3>1, <3>2
    <3> QED BY <1>4, <2>2, <3>1, <3>2, <3>3
  <2> QED BY <2>1, <2>2
<1>6. p \in Handlers /\ st.pc \in {"idle", "record"} => p \notin Late(i)'
  BY <1>1, <1>3
<1> QED BY <1>5, <1>6

\* Less of everybody: the spread of an incident only shrinks.
LEMMA SpreadLess ==
  ASSUME TypeOK, TypeOK', NEW i, NEW f \in Nat, NEW p \in Nat, Spread(i, f, p),
         Late(i)' \subseteq Late(i), Carried(i)' \subseteq Carried(i),
         f <= rows'[i].occurrences, rows'[i].occurrences <= p,
         \A q \in Procs : Live(i, q)' => /\ f <= CountRead(q)' /\ CountRead(q)' <= p
  PROVE  Spread(i, f, p)'
<1>1. /\ IsFiniteSet(Late(i)) /\ Cardinality(Late(i)) \in Nat /\ Cardinality(Late(i)') \in Nat
      /\ Cardinality(Late(i)') <= Cardinality(Late(i))
  <2>1. IsFiniteSet(Late(i))
    BY CarriedType, ProcsAssumption, FS_Subset DEF CarriedOK
  <2>2. PICK L, M : L = Late(i) /\ M = Late(i)' /\ M \in SUBSET L
    OBVIOUS
  <2> QED BY <2>1, <2>2, FS_Subset, FS_CardinalityType
<1>2. /\ Cardinality(Under(Carried(i), f)) \in Nat /\ Cardinality(Under(Carried(i), f)') \in Nat
      /\ Cardinality(Under(Carried(i), f)') <= Cardinality(Under(Carried(i), f))
  <2>1. Finite(Carried(i))
    BY CarriedType DEF CarriedOK
  <2>2. PICK C, D : C = Carried(i) /\ D = Carried(i)' /\ Finite(C) /\ D \in SUBSET C
    BY <2>1
  <2>3. /\ Under(C, f) \in SUBSET C /\ Under(D, f) \in SUBSET Under(C, f)
    BY <2>2 DEF Under
  <2>4. Finite(Under(C, f))
    BY <2>2, <2>3, FinitePart
  <2>5. Cardinality(Under(D, f)) \in Nat /\ Cardinality(Under(C, f)) \in Nat
        /\ Cardinality(Under(D, f)) <= Cardinality(Under(C, f))
    BY <2>3, <2>4, FinitePart
  <2>6. Under(Carried(i), f)' = Under(D, f)
    BY <2>2 DEF Under
  <2> QED BY <2>2, <2>5, <2>6
<1>3. (p - f) + Cardinality(Late(i)) + Cardinality(Under(Carried(i), f)) <= Crowd
  BY DEF Spread
<1>4. (p - f) + Cardinality(Late(i)') + Cardinality(Under(Carried(i), f)') <= Crowd
  BY <1>1, <1>2, <1>3, CrowdType
<1>5. f <= rows'[i].occurrences /\ rows'[i].occurrences <= p
  OBVIOUS
<1>6. (p - f) + Cardinality(Late(i))' + Cardinality(Under(Carried(i), f))' <= Crowd
  BY <1>4
<1>7. (\A q \in Procs : Live(i, q) => f <= CountRead(q) /\ CountRead(q) <= p)'
  OBVIOUS
<1> QED BY <1>5, <1>6, <1>7 DEF Spread

\* What a goroutine may take up to swap: a row as it is, and its count.
Reads(p, st) ==
  st.pc \in Swapping =>
    /\ st.copy.id \in DOMAIN rows /\ st.expect = rows[st.copy.id].updatedAt
    /\ st.copy.occurrences = rows[st.copy.id].occurrences + (IF p \in Handlers THEN 1 ELSE 0)

\* A row that is left as it is while a goroutine moves.
LEMMA QuietRow ==
  ASSUME TypeOK, TypeOK', AckInv, DetInv, NEW p \in Procs, NEW st, st.stamp \in Nat,
         proc' = [proc EXCEPT ![p] = st], Calm(p, st), Reads(p, st),
         NEW i \in DOMAIN rows, i \in DOMAIN rows', rows'[i] = rows[i],
         details'[i] = details[i],
         p \in Handlers /\ st.pc = "record" => st.copy.id # i
  PROVE  RowDet(i)'
<1> SUFFICES ASSUME rows[i].key \in SwappedKeys
             PROVE  RowDet(i)'
  BY SameKeys DEF RowDet
<1>1. /\ Carried(i)' \subseteq Carried(i) /\ Late(i)' \subseteq Late(i)
      /\ Finite(Carried(i)) /\ Finite(details[i])
  BY CarriedAfter, LateAfter, CarriedType DEF DetInv, RowDet, CarriedOK
<1>2. PICK f \in Nat : /\ Room(details[i], Carried(i), f)
                       /\ ~Acknowledged(rows[i]) => \E n \in Nat : Spread(i, f, n)
  BY DEF DetInv, RowDet
<1>3. Room(details'[i], Carried(i)', f)
  <2>1. PICK A, C, D : /\ A = details[i] /\ C = Carried(i) /\ D = Carried(i)'
                       /\ A \in SUBSET A /\ D \in SUBSET C
    BY <1>1
  <2>2. Room(A, D, f)
    BY <1>1, <1>2, <2>1, RoomLess
  <2> QED BY <2>1, <2>2
<1>4. ASSUME NEW n \in Nat, Spread(i, f, n)
      PROVE  Spread(i, f, n)'
  <2>1. rows[i].occurrences \in Nat /\ f <= rows[i].occurrences /\ rows[i].occurrences <= n
    BY <1>4, AckRows DEF Spread, RowsOK, Incidents
  <2>2. ASSUME NEW q \in Procs, Live(i, q)'
        PROVE  f <= CountRead(q)' /\ CountRead(q)' <= n
    <3>0. /\ proc'[p] = st /\ (q # p => proc'[q] = proc[q])
          /\ Live(i, q)' = (/\ proc'[q].pc \in Swapping /\ proc'[q].copy.id = i
                            /\ proc'[q].expect = rows[i].updatedAt)
          /\ CountRead(q)' = IF q \in Handlers THEN proc'[q].copy.occurrences - 1
                                               ELSE proc'[q].copy.occurrences
      BY DEF TypeOK, ProcsOK, Live, CountRead, Copy
    <3>1. CASE q # p
      <4>1. Live(i, q) /\ CountRead(q)' = CountRead(q)
        BY <2>2, <3>0, <3>1 DEF Live, CountRead, Copy
      <4> QED BY <1>4, <4>1 DEF Spread
    <3>2. CASE q = p
      <4>1. CountRead(q)' = rows[i].occurrences
        <5>1. st.pc \in Swapping /\ st.copy.id = i
          BY <2>2, <3>0, <3>2
        <5>2. st.copy.occurrences = rows[i].occurrences + (IF p \in Handlers THEN 1 ELSE 0)
          BY <5>1 DEF Reads
        <5>3. CASE p \in Handlers
          <6>1. CountRead(q)' = st.copy.occurrences - 1
            BY <3>0, <3>2, <5>3
          <6> QED BY <2>1, <5>2, <5>3, <6>1
        <5>4. CASE p \notin Handlers
          BY <2>1, <3>0, <3>2, <5>2, <5>4
        <5> QED BY <5>3, <5>4
      <4> QED BY <2>1, <4>1
    <3> QED BY <3>1, <3>2
  <2>3. f <= rows'[i].occurrences /\ rows'[i].occurrences <= n
    BY <2>1
  <2> QED BY <1>1, <1>4, <2>2, <2>3, SpreadLess
<1>5. ~Acknowledged(rows'[i]) => \E n \in Nat : Spread(i, f, n)'
  BY <1>2, <1>4
<1>6. Finite(details'[i]) /\ Topped(details'[i])
  BY DEF DetInv, RowDet
<1> QED BY <1>3, <1>5, <1>6 DEF RowDet, Acknowledged

\* A step of one goroutine that writes no table.
LEMMA DetMove ==
  ASSUME TypeOK, TypeOK', AckInv, DetInv, UNCHANGED tables, NEW p \in Procs, NEW st,
         st.stamp \in Nat, proc' = [proc EXCEPT ![p] = st], Calm(p, st), Reads(p, st),
         p \in Handlers => st.pc # "record" /\ Ready(st)
  PROVE  DetInv'
<1>1. rows' = rows /\ details' = details
  BY DEF tables
<1>2. \A i \in DOMAIN rows : RowDet(i)'
  BY <1>1, QuietRow
<1>3. ASSUME NEW h \in Handlers
      PROVE  /\ At(h, "record")' => Copy(h)'.id \in DOMAIN rows'
             /\ Ready(proc[h])'
  <2>1. /\ h \in Procs /\ (h = p => proc'[h] = st) /\ (h # p => proc'[h] = proc[h])
    BY DEF TypeOK, ProcsOK, Procs
  <2>2. CASE h = p
    BY <2>1, <2>2 DEF At, Copy, Ready, Acknowledged
  <2>3. CASE h # p
    BY <1>1, <2>1, <2>3 DEF DetInv, At, Copy, Ready, Acknowledged
  <2> QED BY <2>2, <2>3
<1>4. \A i \in Ids \ DOMAIN rows' : details'[i] = {}
  BY <1>1 DEF DetInv
<1>5. \A i \in DOMAIN rows' : RowDet(i)'
  BY <1>1, <1>2
<1> QED BY <1>3, <1>4, <1>5 DEF DetInv

\* The row that is written, when it is acknowledged afterwards.
LEMMA AckedRow ==
  ASSUME TypeOK, TypeOK', DetInv, NEW p \in Procs, NEW st,
         proc' = [proc EXCEPT ![p] = st], st.pc # "record",
         NEW i \in DOMAIN rows, Acknowledged(rows'[i]), rows'[i].key = rows[i].key,
         details' = details
  PROVE  RowDet(i)'
<1> SUFFICES ASSUME rows[i].key \in SwappedKeys
             PROVE  RowDet(i)'
  BY SameKeys DEF RowDet
<1>1. /\ Carried(i)' \subseteq Carried(i)
      /\ Finite(Carried(i)) /\ Finite(details[i]) /\ Topped(details[i])
  BY CarriedAfter, CarriedType DEF DetInv, RowDet, CarriedOK
<1>2. PICK f \in Nat : Room(details[i], Carried(i), f)
  BY DEF DetInv, RowDet
<1>3. PICK A, C, D : /\ A = details[i] /\ C = Carried(i) /\ D = Carried(i)'
                     /\ A \in SUBSET A /\ D \in SUBSET C
  BY <1>1
<1>4. Room(A, D, f)
  BY <1>1, <1>2, <1>3, RoomLess
<1> QED BY <1>1, <1>3, <1>4 DEF RowDet, Acknowledged

\* A swap that leaves the row as unacknowledged as it was.
SwapsRow(p, i) ==
  /\ i \in DOMAIN rows /\ Copy(p).id = i /\ proc[p].pc \in Swapping
  /\ proc[p].expect = rows[i].updatedAt /\ rows' = Put(rows, Copy(p))
  /\ ~Acknowledged(Copy(p)) /\ Copy(p).key \in SwappedKeys

\* A swap that wins finds a row that nobody acknowledged, and takes no version back.
LEMMA SwapFacts ==
  ASSUME TypeOK, AckInv, NEW p \in Procs, NEW i, SwapsRow(p, i)
  PROVE  /\ ~Acknowledged(rows[i]) /\ Live(i, p)
         /\ rows'[i] = Copy(p) /\ rows[i].updatedAt \in Nat
         /\ rows[i].updatedAt <= rows'[i].updatedAt
         /\ rows'[i].occurrences \in Nat /\ rows'[i].updatedAt \in Nat
         /\ ~Acknowledged(rows'[i]) /\ rows[i].occurrences \in Nat
         /\ rows[i].key \in SwappedKeys
<1>1. /\ Copy(p) \in Incidents /\ SwapOK(Copy(p), proc[p].expect)
      /\ rows[i] \in Incidents /\ RowOK(rows[i]) /\ rows[i].key \in SwappedKeys
  BY AckRows DEF AckInv, SwapsRow, SwapOK, CopyOf, Copy, RowsOK
<1>2. rows'[i] = Copy(p) /\ Copy(p).id = i
  BY DEF SwapsRow, Put
<1>3. /\ rows[i].ackedAt \in Nat /\ rows[i].updatedAt \in Nat /\ Copy(p).updatedAt \in Nat
      /\ Copy(p).occurrences \in Nat /\ rows[i].ackedAt <= rows[i].updatedAt
      /\ rows[i].occurrences \in Nat
  BY <1>1 DEF Incidents, RowOK
<1>4. rows[i].updatedAt <= Copy(p).updatedAt
  BY <1>1 DEF SwapsRow, SwapOK
<1>5. ~Acknowledged(rows[i])
  <2> SUFFICES ASSUME Acknowledged(rows[i]) PROVE FALSE
    OBVIOUS
  <2>1. Copy(p).ackedAt = rows[i].ackedAt \/ rows[i].updatedAt < rows[i].ackedAt
    BY <1>1, <1>2 DEF SwapOK, SwapsRow
  <2>2. Copy(p).ackedAt = rows[i].ackedAt
    BY <1>3, <2>1
  <2> QED BY <2>2 DEF SwapsRow, Acknowledged
<1>6. Live(i, p)
  BY DEF Live, SwapsRow
<1> QED BY <1>1, <1>2, <1>3, <1>4, <1>5, <1>6 DEF SwapsRow, Acknowledged

\* The new version was not there to be read.
LEMMA NoneReadIt ==
  ASSUME TypeOK, AckInv, NEW p \in Procs, NEW st, proc' = [proc EXCEPT ![p] = st],
         st.pc \notin Swapping, NEW i, SwapsRow(p, i),
         rows[i].updatedAt < rows'[i].updatedAt
  PROVE  \A q \in Procs : ~Live(i, q)'
<1> SUFFICES ASSUME NEW q \in Procs, Live(i, q)' PROVE FALSE
  OBVIOUS
<1>1. proc'[p] = st /\ (q # p => proc'[q] = proc[q])
  BY DEF TypeOK, ProcsOK
<1>2. q # p
  BY <1>1 DEF Live
<1>3. proc[q].pc \in Swapping /\ proc[q].copy.id = i /\ proc[q].expect = rows'[i].updatedAt
  BY <1>1, <1>2 DEF Live, Copy
<1>4. SwapOK(proc[q].copy, proc[q].expect)
  BY <1>3 DEF AckInv
<1>5. /\ ~Acknowledged(rows[i]) /\ rows[i].updatedAt \in Nat /\ rows'[i].updatedAt \in Nat
      /\ rows[i].key \in SwappedKeys
  BY SwapFacts
<1>6. rows'[i].updatedAt <= rows[i].updatedAt
  BY <1>3, <1>4, <1>5 DEF SwapOK, CopyOf
<1> QED BY <1>5, <1>6

\* From a new version on, the floor and the peak are the count it has.
LEMMA NewVersion ==
  ASSUME TypeOK', NEW i, rows'[i].occurrences \in Nat, \A q \in Procs : ~Live(i, q)'
  PROVE  Spread(i, rows[i].occurrences, rows[i].occurrences)'
<1> DEFINE n == rows'[i].occurrences
<1>1. CarriedOK(i)'
  BY CarriedNext
<1>2. /\ Cardinality(Under(Carried(i)', n)) \in Nat /\ Cardinality(Carried(i)') \in Nat
      /\ Cardinality(Under(Carried(i)', n)) <= Cardinality(Carried(i)')
      /\ Cardinality(Late(i)') \in Nat
      /\ Cardinality(Late(i)') + Cardinality(Carried(i)') <= Crowd
  BY <1>1 DEF CarriedOK
<1>3. (n - n) + Cardinality(Late(i)') + Cardinality(Under(Carried(i)', n)) <= Crowd
  <2> HIDE DEF n
  <2> QED BY <1>2, CrowdType DEF n
<1> QED BY <1>3 DEF Spread

\* A swap of a person or of the scheduler.
LEMMA SwappedRow ==
  ASSUME TypeOK, TypeOK', AckInv, DetInv, NEW p \in Procs \ Handlers, NEW st, st.stamp \in Nat,
         proc' = [proc EXCEPT ![p] = st], st.pc \notin Swapping,
         NEW i, SwapsRow(p, i), details' = details
  PROVE  RowDet(i)'
<1>1. /\ ~Acknowledged(rows[i]) /\ Live(i, p) /\ i \in DOMAIN rows
      /\ rows'[i] = Copy(p) /\ rows[i].updatedAt \in Nat
      /\ rows[i].updatedAt <= rows'[i].updatedAt
      /\ rows'[i].occurrences \in Nat /\ rows'[i].updatedAt \in Nat
      /\ ~Acknowledged(rows'[i]) /\ rows[i].key \in SwappedKeys
  BY SwapFacts DEF SwapsRow
<1>2. /\ Carried(i)' \subseteq Carried(i) /\ Finite(Carried(i))
      /\ Finite(details[i]) /\ Topped(details[i])
  BY <1>1, CarriedAfter, CarriedType DEF DetInv, RowDet, CarriedOK
<1>3. PICK f \in Nat, n \in Nat : Room(details[i], Carried(i), f) /\ Spread(i, f, n)
  BY <1>1 DEF DetInv, RowDet
<1>4. rows'[i].occurrences = CountRead(p) /\ f <= CountRead(p) /\ CountRead(p) <= n
  BY <1>1, <1>3 DEF Spread, CountRead
<1>5. PICK A, C, D : /\ A = details[i] /\ C = Carried(i) /\ D = Carried(i)'
                     /\ A \in SUBSET A /\ D \in SUBSET C
  BY <1>2
<1>6. CASE rows'[i].updatedAt = rows[i].updatedAt
  <2>1. Room(A, D, f)
    BY <1>2, <1>3, <1>5, RoomLess
  <2>2. Late(i)' \subseteq Late(i)
    <3>1. Calm(p, st)
      BY DEF Calm
    <3> QED BY <1>1, <1>6, <3>1, LateAfter
  <2>3. ASSUME NEW q \in Procs, Live(i, q)'
        PROVE  f <= CountRead(q)' /\ CountRead(q)' <= n
    <3>1. proc'[p] = st /\ (q # p => proc'[q] = proc[q])
      BY DEF TypeOK, ProcsOK
    <3>2. q # p
      BY <2>3, <3>1 DEF Live
    <3>3. Live(i, q) /\ CountRead(q)' = CountRead(q)
      BY <1>6, <2>3, <3>1, <3>2 DEF Live, CountRead, Copy
    <3> QED BY <1>3, <3>3 DEF Spread
  <2>4. f <= rows'[i].occurrences /\ rows'[i].occurrences <= n
    BY <1>4
  <2>5. Spread(i, f, n)'
    BY <1>2, <1>3, <2>2, <2>3, <2>4, SpreadLess
  <2> QED BY <1>2, <1>5, <2>1, <2>5 DEF RowDet
<1>7. CASE rows[i].updatedAt < rows'[i].updatedAt
  <2>1. PICK g \in Nat : g = rows'[i].occurrences
    BY <1>1
  <2>2. f <= g
    BY <1>4, <2>1
  <2>3. Room(A, C, g)
    BY <1>2, <1>3, <1>5, <2>2, RoomRise
  <2>4. Room(A, D, g)
    BY <1>2, <1>5, <2>3, RoomLess
  <2>5. \A q \in Procs : ~Live(i, q)'
    BY <1>7, NoneReadIt
  <2>6. Spread(i, g, g)'
    BY <1>1, <2>1, <2>5, NewVersion DEF Spread
  <2> QED BY <1>2, <1>5, <2>4, <2>6 DEF RowDet
<1> QED BY <1>1, <1>6, <1>7

\* The swap of a handler, which then carries the number it gave.
LEMMA CountedRow ==
  ASSUME TypeOK, TypeOK', AckInv, DetInv, NEW p \in Handlers, NEW st, st.stamp \in Nat,
         At(p, "occur"), proc' = [proc EXCEPT ![p] = st],
         st.pc = "record", st.copy = Copy(p),
         NEW i, SwapsRow(p, i), details' = details
  PROVE  RowDet(i)'
<1>1. /\ ~Acknowledged(rows[i]) /\ Live(i, p) /\ i \in DOMAIN rows
      /\ rows'[i] = Copy(p) /\ rows[i].updatedAt \in Nat
      /\ rows[i].updatedAt <= rows'[i].updatedAt
      /\ rows'[i].occurrences \in Nat /\ rows'[i].updatedAt \in Nat
      /\ ~Acknowledged(rows'[i]) /\ p \in Procs /\ st.pc \notin Swapping
      /\ rows[i].occurrences \in Nat /\ rows[i].key \in SwappedKeys
  <2>1. p \in Procs
    BY DEF Procs
  <2> QED BY <2>1, SwapFacts DEF SwapsRow, Swapping
<1>2. PICK t \in Nat : t = rows'[i].occurrences
  BY <1>1
<1>3. /\ Carried(i)' \subseteq Carried(i) \cup {t} /\ Finite(Carried(i))
      /\ Finite(details[i]) /\ Topped(details[i])
  <2>1. st.copy.occurrences = t /\ st.copy.id = i
    BY <1>1, <1>2 DEF SwapsRow
  <2>2. Carried(i)' \subseteq Carried(i) \cup {t}
    <3>1. WithOne(Carried(i)', Carried(i), st.copy.occurrences)
      BY <2>1, CarriedMore
    <3> QED BY <2>1, <3>1 DEF WithOne
  <2> QED BY <1>1, <2>2, CarriedType DEF DetInv, RowDet, CarriedOK
<1>4. PICK f \in Nat, n \in Nat : Room(details[i], Carried(i), f) /\ Spread(i, f, n)
  BY <1>1 DEF DetInv, RowDet
<1>5. f < t /\ t <= n + 1
  <2>1. t - 1 = CountRead(p)
    BY <1>1, <1>2 DEF CountRead
  <2>2. f <= t - 1 /\ t - 1 <= n
    BY <1>1, <1>4, <2>1 DEF Spread
  <2> QED BY <2>2
<1>6. PICK A, C, D : /\ A = details[i] /\ C = Carried(i) /\ D = Carried(i)'
                     /\ A \in SUBSET A /\ D \in SUBSET (C \cup {t}) /\ Finite(C \cup {t})
                     /\ Finite(A) /\ Finite(C)
  <2>1. Finite(Carried(i) \cup {t})
    BY <1>3, FS_AddElement DEF Finite
  <2> QED BY <1>3, <2>1
<1>7. /\ Cardinality(Under(C, f)) \in Nat /\ Cardinality(C) \in Nat
      /\ Cardinality(C) < Crowd
  <2>1. p \notin Carrying(i)
    BY DEF Carrying, At
  <2>2. Carrying(i) \in SUBSET Handlers /\ {p} \in SUBSET Handlers /\ {p} \cap Carrying(i) = {}
    BY <2>1 DEF Carrying
  <2>3. /\ Cardinality({p}) + Cardinality(Carrying(i)) <= Crowd
        /\ Cardinality(Carrying(i)) \in Nat
    BY <2>2, CrowdShared
  <2>4. Cardinality({p}) = 1
    BY FS_Singleton
  <2>5. /\ Cardinality(C) \in Nat /\ Cardinality(C) <= Cardinality(Carrying(i))
        /\ Cardinality(Under(C, f)) \in Nat
    BY <1>6, CarriedType DEF CarriedOK
  <2> QED BY <2>3, <2>4, <2>5, CrowdType
<1>8. CASE rows'[i].updatedAt = rows[i].updatedAt
  <2>1. p \in Late(i)
    <3>1. Ready(proc[p]) /\ proc[p].stamp \in Nat /\ proc[p].expect = rows[i].updatedAt
      BY <1>1, Before DEF DetInv, SwapsRow
    <3>2. proc[p].stamp <= rows[i].updatedAt
      BY <1>1, <1>8, <3>1 DEF Ready, Copy, At
    <3> QED BY <3>2 DEF Late, At
  <2>2. Late(i)' \subseteq Late(i) \ {p}
    <3>1. Calm(p, st)
      BY DEF Calm
    <3> QED BY <1>1, <1>8, <3>1, LateAfter
  <2>3. /\ IsFiniteSet(Late(i)) /\ Cardinality(Late(i)') \in Nat /\ Cardinality(Late(i)) \in Nat
        /\ Cardinality(Late(i)') + 1 <= Cardinality(Late(i))
    <3>1. IsFiniteSet(Late(i))
      BY CarriedType, ProcsAssumption, FS_Subset DEF CarriedOK
    <3>2. PICK L, M : L = Late(i) /\ M = Late(i)' /\ M \in SUBSET (L \ {p})
      BY <2>2
    <3>3. IsFiniteSet(L \ {p}) /\ Cardinality(L \ {p}) = Cardinality(L) - 1
      BY <2>1, <3>1, <3>2, FS_RemoveElement
    <3>4. IsFiniteSet(M) /\ Cardinality(M) <= Cardinality(L \ {p})
      BY <3>2, <3>3, FS_Subset
    <3>5. Cardinality(M) \in Nat /\ Cardinality(L) \in Nat
      BY <3>1, <3>2, <3>4, FS_CardinalityType
    <3> QED BY <3>1, <3>2, <3>3, <3>4, <3>5
  <2>4. (n - f) + Cardinality(Late(i)) + Cardinality(Under(C, f)) <= Crowd
    BY <1>4, <1>6 DEF Spread
  <2>5. Cardinality(Under(C, f)) + (t - f) <= Crowd
    BY <1>5, <1>7, <2>3, <2>4, CrowdType
  <2>6. Room(A, C \cup {t}, f) /\ Under(C \cup {t}, f) = Under(C, f)
    BY <1>4, <1>5, <1>6, <2>5, RoomTake
  <2>7. Room(A, D, f)
    BY <1>6, <2>6, RoomLess
  <2>8. PICK k \in Nat : k = IF t > n THEN t ELSE n
    OBVIOUS
  <2>9. (k - f) + Cardinality(Late(i)') + Cardinality(Under(D, f)) <= Crowd
    <3>1. Under(D, f) \in SUBSET Under(C, f) /\ Under(C, f) \in SUBSET C
      BY <1>6, <2>6 DEF Under
    <3>2. Finite(Under(C, f))
      BY <1>6, <3>1, FinitePart
    <3>3. /\ Cardinality(Under(D, f)) \in Nat
          /\ Cardinality(Under(D, f)) <= Cardinality(Under(C, f))
      BY <3>1, <3>2, FinitePart
    <3> QED BY <1>5, <1>7, <2>3, <2>4, <2>8, <3>3, CrowdType
  <2>10. ASSUME NEW q \in Procs, Live(i, q)'
         PROVE  f <= CountRead(q)' /\ CountRead(q)' <= k
    <3>1. proc'[p] = st /\ (q # p => proc'[q] = proc[q])
      BY <1>1 DEF TypeOK, ProcsOK
    <3>2. q # p
      BY <1>1, <2>10, <3>1 DEF Live
    <3>3. Live(i, q) /\ CountRead(q)' = CountRead(q)
      BY <1>8, <2>10, <3>1, <3>2 DEF Live, CountRead, Copy
    <3>4. f <= CountRead(q) /\ CountRead(q) <= n
      BY <1>4, <3>3 DEF Spread
    <3>5. CountRead(q) \in Int
      <4>1. Copy(q).occurrences \in Nat
        BY <3>3, AckRows DEF Live, Copy, Incidents
      <4> QED BY <4>1 DEF CountRead
    <3> QED BY <2>8, <3>3, <3>4, <3>5
  <2>11. Spread(i, f, k)'
    <3>1. f <= rows'[i].occurrences /\ rows'[i].occurrences <= k
      BY <1>2, <1>5, <2>8
    <3> QED BY <1>6, <2>9, <2>10, <3>1 DEF Spread
  <2> QED BY <1>3, <1>6, <2>7, <2>11 DEF RowDet
<1>9. CASE rows[i].updatedAt < rows'[i].updatedAt
  <2>1. PICK g \in Nat : g = t - 1 /\ f <= g /\ g < t
    BY <1>5
  <2>2. Room(A, C, g)
    BY <1>4, <1>6, <2>1, RoomRise
  <2>3. Cardinality(Under(C, g)) + (t - g) <= Crowd
    <3>1. Cardinality(Under(C, g)) \in Nat /\ Cardinality(Under(C, g)) <= Cardinality(C)
      BY <1>6, UnderFew
    <3> QED BY <1>7, <2>1, <3>1, CrowdType
  <2>4. Room(A, C \cup {t}, g)
    BY <1>6, <2>1, <2>2, <2>3, RoomTake
  <2>5. Room(A, C \cup {t}, t)
    BY <1>6, <2>1, <2>4, RoomRise
  <2>6. Room(A, D, t)
    BY <1>6, <2>5, RoomLess
  <2>7. \A q \in Procs : ~Live(i, q)'
    BY <1>1, <1>9, NoneReadIt
  <2>8. Spread(i, t, t)'
    BY <1>1, <1>2, <2>7, NewVersion DEF Spread
  <2> QED BY <1>3, <1>6, <2>6, <2>8 DEF RowDet
<1> QED BY <1>1, <1>8, <1>9

\* A new row.
LEMMA InsertedRow ==
  ASSUME TypeOK, TypeOK', AckInv, DetInv, NEW p \in Handlers, NEW st, st.stamp \in Nat,
         proc' = [proc EXCEPT ![p] = st], st.pc \notin Swapping,
         st.pc = "record" => st.copy = Copy(p),
         NEW i \in Ids \ DOMAIN rows, rows'[i] = Copy(p), Copy(p).occurrences = 1,
         details' = details
  PROVE  RowDet(i)'
<1>1. p \in Procs
  BY DEF Procs
<1>2. Carrying(i) = {} /\ Carried(i) = {} /\ details[i] = {}
  BY DEF DetInv, Carrying, Carried
<1>3. Carried(i)' \subseteq {1}
  <2>1. CASE st.pc = "record" /\ st.copy.id = i
    <3>1. WithOne(Carried(i)', Carried(i), st.copy.occurrences)
      BY <2>1, CarriedMore
    <3>2. st.copy.occurrences = 1
      BY <2>1
    <3> QED BY <1>2, <3>1, <3>2 DEF WithOne
  <2>2. CASE ~(st.pc = "record" /\ st.copy.id = i)
    <3>1. Carried(i)' \subseteq Carried(i)
      BY <1>1, <2>2, CarriedAfter
    <3> QED BY <1>2, <3>1
  <2> QED BY <2>1, <2>2
<1>4. Room(details[i]', Carried(i)', 1)
  BY <1>2, <1>3 DEF Room, Kept, Coming
<1>5. ASSUME NEW q \in Procs, Live(i, q)' PROVE FALSE
  <2>1. proc'[p] = st /\ (q # p => proc'[q] = proc[q])
    BY <1>1 DEF TypeOK, ProcsOK
  <2>2. q # p
    BY <1>5, <2>1 DEF Live
  <2>3. proc[q].pc \in Swapping /\ proc[q].copy.id = i
    BY <1>5, <2>1, <2>2 DEF Live, Copy
  <2>4. SwapOK(proc[q].copy, proc[q].expect)
    BY <2>3 DEF AckInv
  <2> QED BY <2>3, <2>4 DEF SwapOK, CopyOf
<1>6. Spread(i, 1, 1)'
  <2>1. rows'[i].occurrences = 1
    OBVIOUS
  <2> QED BY <1>5, <2>1, NewVersion DEF Spread
<1>7. Finite(details[i]') /\ Topped(details[i]')
  BY <1>2, FS_EmptySet DEF Finite, Topped
<1> QED BY <1>4, <1>6, <1>7 DEF RowDet

\* A goroutine writes its copy.
LEMMA DetWrite ==
  ASSUME TypeOK, TypeOK', AckInv, DetInv, NEW p \in Procs, NEW st, st.stamp \in Nat,
         proc' = [proc EXCEPT ![p] = st], Calm(p, st),
         st.pc \notin Swapping, st.pc # "insert",
         Copy(p) \in Incidents, rows' = Put(rows, Copy(p)), details' = details,
         p \in Handlers /\ st.pc = "record" => st.copy = Copy(p),
         \/ CopyOf(Copy(p)) /\ Copy(p).key \notin SwappedKeys
         \/ CopyOf(Copy(p)) /\ Acknowledged(Copy(p)) /\ st.pc # "record"
         \/ p \notin Handlers /\ SwapsRow(p, Copy(p).id)
         \/ p \in Handlers /\ At(p, "occur") /\ st.pc = "record" /\ SwapsRow(p, Copy(p).id)
         \/ p \in Handlers /\ Copy(p).id \notin DOMAIN rows /\ Copy(p).occurrences = 1
  PROVE  DetInv'
<1>1. PICK i \in Ids : i = Copy(p).id
  BY DEF Incidents
<1>2. /\ DOMAIN rows' = DOMAIN rows \cup {i} /\ rows'[i] = Copy(p)
      /\ \A j \in DOMAIN rows \ {i} : rows'[j] = rows[j]
  BY <1>1 DEF Put
<1>3. RowDet(i)'
  <2>0. CASE CopyOf(Copy(p)) /\ Copy(p).key \notin SwappedKeys
    BY <1>2, <2>0, SameKeys DEF RowDet
  <2>1. CASE CopyOf(Copy(p)) /\ Acknowledged(Copy(p)) /\ st.pc # "record"
    <3>1. i \in DOMAIN rows /\ rows'[i].key = rows[i].key /\ Acknowledged(rows'[i])
      BY <1>1, <1>2, <2>1 DEF CopyOf
    <3> QED BY <2>1, <3>1, AckedRow
  <2>2. CASE p \notin Handlers /\ SwapsRow(p, Copy(p).id)
    BY <1>1, <2>2, SwappedRow
  <2>3. CASE p \in Handlers /\ At(p, "occur") /\ st.pc = "record" /\ SwapsRow(p, Copy(p).id)
    BY <1>1, <2>3, CountedRow
  <2>4. CASE p \in Handlers /\ Copy(p).id \notin DOMAIN rows /\ Copy(p).occurrences = 1
    BY <1>1, <1>2, <2>4, InsertedRow
  <2> QED BY <2>0, <2>1, <2>2, <2>3, <2>4
<1>4. ASSUME NEW j \in DOMAIN rows', j # i
      PROVE  RowDet(j)'
  <2>1. j \in DOMAIN rows /\ rows'[j] = rows[j] /\ details'[j] = details[j]
    BY <1>2, <1>4
  <2>2. Reads(p, st)
    BY DEF Reads
  <2>3. p \in Handlers /\ st.pc = "record" => st.copy.id # j
    BY <1>1, <1>4
  <2> QED BY <1>4, <2>1, <2>2, <2>3, QuietRow
<1>5. \A j \in DOMAIN rows' : RowDet(j)'
  BY <1>3, <1>4
<1>6. \A j \in Ids \ DOMAIN rows' : details'[j] = {}
  BY <1>2 DEF DetInv
<1>7. ASSUME NEW h \in Handlers
      PROVE  (At(h, "record") => Copy(h).id \in DOMAIN rows)' /\ Ready(proc[h])'
  <2>1. /\ h \in Procs /\ (h = p => proc'[h] = st) /\ (h # p => proc'[h] = proc[h])
    BY DEF TypeOK, ProcsOK, Procs
  <2>2. CASE h = p
    <3>1. (At(h, "record") => Copy(h).id \in DOMAIN rows)'
      BY <1>1, <1>2, <2>1, <2>2 DEF At, Copy
    <3>2. Ready(proc[h])'
      BY <2>1, <2>2 DEF Ready, Swapping
    <3> QED BY <3>1, <3>2
  <2>3. CASE h # p
    BY <1>2, <2>1, <2>3 DEF DetInv, At, Copy, Ready, Acknowledged
  <2> QED BY <2>2, <2>3
<1> QED BY <1>5, <1>6, <1>7 DEF DetInv

\* A handler adds its number, and what it prunes is gone.
LEMMA DetAdded ==
  ASSUME TypeOK, TypeOK', AckInv, DetInv, NEW h \in Handlers, AddOccurrence(h)
  PROVE  DetInv'
<1>1. /\ h \in Procs /\ At(h, "record") /\ rows' = rows
      /\ proc' = [proc EXCEPT ![h] = Idle]
      /\ details' = [details EXCEPT ![Copy(h).id] =
           {n \in @ \cup {Copy(h).occurrences} : n > Copy(h).occurrences - MaxOccurrences}]
  BY DEF Procs, AddOccurrence, Become
<1>2. PICK i, t : i = Copy(h).id /\ t = Copy(h).occurrences
  OBVIOUS
<1>3. /\ i \in DOMAIN rows /\ details \in [Ids -> SUBSET Nat] /\ i \in Ids /\ t \in Nat
      /\ t \in Carried(i) /\ h \in Carrying(i)
  <2>1. Copy(h) \in Incidents
    BY <1>1 DEF TypeOK, ProcsOK, HandlerOK, Writing, At, Copy
  <2>2. h \in Carrying(i)
    BY <1>1, <1>2 DEF Carrying
  <2>3. t \in Carried(i)
    BY <1>2, <2>2 DEF Carried
  <2> QED BY <1>1, <1>2, <2>1, <2>2, <2>3 DEF DetInv, TypeOK, TablesOK, Incidents
<1>4. PICK A, B, C, D : /\ A = details[i] /\ C = Carried(i) /\ D = Carried(i)'
                        /\ B = {n \in A \cup {t} : n > t - MaxOccurrences}
  OBVIOUS
<1>5. details'[i] = B /\ \A j \in Ids : j # i => details'[j] = details[j]
  BY <1>1, <1>2, <1>3, <1>4
<1>6. Idle.pc = "idle" /\ Idle.stamp \in Nat /\ Calm(h, Idle) /\ Reads(h, Idle)
  BY IdleType DEF Calm, Reads, Swapping
<1>7. \A j \in DOMAIN rows : j # i => RowDet(j)'
  <2>1. DOMAIN rows \subseteq Ids
    BY DEF TypeOK, TablesOK
  <2> QED BY <1>1, <1>5, <1>6, <2>1, QuietRow
<1>8. RowDet(i)'
  <2> SUFFICES ASSUME rows[i].key \in SwappedKeys
               PROVE  RowDet(i)'
    BY <1>1, SameKeys DEF RowDet
  <2>1. /\ D \subseteq C /\ Carrying(i)' \subseteq Carrying(i) \ {h}
    <3>1. /\ Carrying(i)' \subseteq Carrying(i) \ {h}
          /\ Carried(i)' \subseteq Carried(i)
      BY <1>1, <1>6, CarriedAfter
    <3> QED BY <1>4, <3>1
  <2>2. /\ Finite(A) /\ Topped(A) /\ Finite(C)
    BY <1>3, <1>4, CarriedType DEF DetInv, RowDet, CarriedOK
  <2>3. PICK f \in Nat : /\ Room(A, C, f)
                         /\ ~Acknowledged(rows[i]) => \E n \in Nat : Spread(i, f, n)
    BY <1>3, <1>4 DEF DetInv, RowDet
  <2>4. Cardinality(D \ {t}) < Crowd
    <3>1. CarriedOK(i)'
      BY CarriedNext
    <3>2. PICK R : R = Carrying(i)'
      OBVIOUS
    <3>3. R \in SUBSET Handlers /\ {h} \in SUBSET Handlers /\ {h} \cap R = {}
      BY <2>1, <3>1, <3>2 DEF CarriedOK
    <3>4. Cardinality({h}) + Cardinality(R) <= Crowd /\ Cardinality(R) \in Nat
      BY <3>3, CrowdShared
    <3>5. Cardinality({h}) = 1
      BY FS_Singleton
    <3>6. Finite(D) /\ Cardinality(D) <= Cardinality(R)
      BY <1>4, <3>1, <3>2 DEF CarriedOK
    <3>7. D \ {t} \in SUBSET D
      OBVIOUS
    <3>8. /\ Cardinality(D) \in Nat /\ Cardinality(D \ {t}) \in Nat
          /\ Cardinality(D \ {t}) <= Cardinality(D)
      BY <3>6, <3>7, FinitePart
    <3> QED BY <3>4, <3>5, <3>6, <3>8, CrowdType
  <2>5. Room(B, D, f)
    <3>1. t \in C /\ D \in SUBSET C
      BY <1>3, <1>4, <2>1
    <3> QED BY <1>4, <2>2, <2>3, <2>4, <3>1, RoomAdd
  <2>6. Finite(B)
    <3>1. Finite(A \cup {t})
      BY <1>3, <2>2, FS_AddElement DEF Finite
    <3>2. B \in SUBSET (A \cup {t})
      BY <1>4
    <3> QED BY <3>1, <3>2, FinitePart
  <2>7. Topped(B)
    <3>1. MaxOccurrences \in Nat \ {0}
      BY BoundsAssumption
    <3>2. CASE A = {}
      BY <1>3, <1>4, <3>1, <3>2 DEF Topped
    <3>3. CASE A # {}
      <4>1. PICK m \in A : \A x \in A : x <= m
        BY <2>2, <3>3 DEF Topped
      <4>2. m \in Nat /\ A \subseteq Nat
        BY <2>2 DEF Finite
      <4>3. CASE m > t
        BY <1>3, <1>4, <3>1, <4>1, <4>2, <4>3 DEF Topped
      <4>4. CASE m <= t
        BY <1>3, <1>4, <3>1, <4>1, <4>2, <4>4 DEF Topped
      <4> QED BY <1>3, <4>2, <4>3, <4>4
    <3> QED BY <3>2, <3>3
  <2>8. ASSUME NEW n \in Nat, Spread(i, f, n)
        PROVE  Spread(i, f, n)'
    <3>1. Late(i)' \subseteq Late(i)
      BY <1>1, <1>3, <1>6, LateAfter
    <3>2. ASSUME NEW q \in Procs, Live(i, q)'
          PROVE  f <= CountRead(q)' /\ CountRead(q)' <= n
      <4>1. proc'[h] = Idle /\ (q # h => proc'[q] = proc[q])
        BY <1>1 DEF TypeOK, ProcsOK
      <4>2. q # h
        BY <1>6, <3>2, <4>1 DEF Live, Swapping
      <4>3. Live(i, q) /\ CountRead(q)' = CountRead(q)
        BY <1>1, <3>2, <4>1, <4>2 DEF Live, CountRead, Copy
      <4> QED BY <2>8, <4>3 DEF Spread
    <3>3. f <= rows'[i].occurrences /\ rows'[i].occurrences <= n
      BY <1>1, <2>8 DEF Spread
    <3>4. Carried(i)' \subseteq Carried(i)
      BY <1>4, <2>1
    <3> QED BY <2>8, <3>1, <3>2, <3>3, <3>4, SpreadLess
  <2> QED BY <1>1, <1>4, <1>5, <2>3, <2>5, <2>6, <2>7, <2>8 DEF RowDet, Acknowledged
<1>9. ASSUME NEW g \in Handlers
      PROVE  (At(g, "record") => Copy(g).id \in DOMAIN rows)' /\ Ready(proc[g])'
  <2>1. /\ g \in Procs /\ (g = h => proc'[g] = Idle) /\ (g # h => proc'[g] = proc[g])
    BY <1>1 DEF TypeOK, ProcsOK, Procs
  <2>2. CASE g = h
    BY <1>6, <2>1, <2>2 DEF At, Ready
  <2>3. CASE g # h
    BY <1>1, <2>1, <2>3 DEF DetInv, At, Copy, Ready, Acknowledged
  <2> QED BY <2>2, <2>3
<1>10. \A j \in Ids \ DOMAIN rows' : details'[j] = {}
  BY <1>1, <1>3, <1>5 DEF DetInv
<1>11. \A j \in DOMAIN rows' : RowDet(j)'
  BY <1>1, <1>7, <1>8
<1> QED BY <1>9, <1>10, <1>11 DEF DetInv

\* What a handler takes up when it finds a live incident.
LEMMA FoldedDet ==
  ASSUME TypeOK, AckInv, NEW h \in Handlers, At(h, "lookup"),
         NEW i \in LiveFor(rows, Job(h).key), NEW st, st = Folded(h, rows[i])
  PROVE  /\ st.stamp \in Nat /\ Calm(h, st) /\ Reads(h, st)
         /\ st.pc # "record" /\ Ready(st)
<1> DEFINE row == rows[i]
           raised == RaiseSeverity(row, Job(h).severity)
           more == Occur(raised, Now(h))
<1>1. /\ proc[h] \in States /\ Now(h) \in Nat /\ proc[h].pc = "lookup" /\ h \in Procs
      /\ Job(h) \in Events /\ Idle.pc = "idle" /\ Idle.stamp \in Nat
      /\ i \in DOMAIN rows /\ row \in Incidents /\ row.id = i
  <2>1. h \in Procs
    BY DEF Procs
  <2>2. i \in DOMAIN rows
    BY DEF LiveFor, Active
  <2> QED BY <2>1, <2>2, AckRows, Before, IdleType
       DEF At, Now, Job, TypeOK, ProcsOK, HandlerOK, TablesOK
<1>2. \/ st = Idle
      \/ st \in {Holding(h, "put", Resolve(row, Now(h)), Unset),
                Holding(h, "put", [raised EXCEPT !.updatedAt = Now(h)], Unset),
                Holding(h, "close", Close(row, Now(h), "returned"), Unset),
                Holding(h, "close", Close(row, Now(h), "reviewed"), Unset)}
      \/ st = Holding(h, "occur", more, row.updatedAt) /\ ~Acknowledged(row)
  <2>1. Job(h).kind \in {"alarm", "occurrence", "clear", "fault"}
    BY <1>1 DEF Events, ArrivalKinds
  <2> QED BY <2>1 DEF Folded
<1>3. /\ more.id = i /\ more.occurrences = row.occurrences + 1 /\ more.ackedAt = row.ackedAt
      /\ more.updatedAt = IF Now(h) > row.updatedAt THEN Now(h) ELSE row.updatedAt
  <2>1. PICK base : base = [raised EXCEPT !.occurrences = @ + 1]
    OBVIOUS
  <2>2. /\ base.id = i /\ base.occurrences = row.occurrences + 1
        /\ base.ackedAt = row.ackedAt /\ base.updatedAt = row.updatedAt
        /\ DOMAIN base = DOMAIN row
    BY <1>1, <2>1 DEF RaiseSeverity, Incidents
  <2>3. more = [base EXCEPT !.updatedAt = IF Now(h) > @ THEN Now(h) ELSE @]
    BY <2>1 DEF Occur, Touch
  <2> HIDE DEF more
  <2> QED BY <1>1, <2>2, <2>3 DEF Incidents
<1> HIDE DEF more, row
<1>4. CASE st = Idle
  BY <1>1, <1>4 DEF Calm, Reads, Ready, Swapping
<1>5. ASSUME NEW copy, NEW where \in {"put", "close"}, st = Holding(h, where, copy, Unset)
      PROVE  st.stamp \in Nat /\ Calm(h, st) /\ Reads(h, st) /\ st.pc # "record" /\ Ready(st)
  <2>1. st.pc = where /\ st.stamp = Now(h)
    BY <1>1, <1>5 DEF Holding, States, Now
  <2> QED BY <1>1, <2>1 DEF Calm, Reads, Ready, Swapping, Now
<1>6. CASE st = Holding(h, "occur", more, row.updatedAt) /\ ~Acknowledged(row)
  <2>1. /\ st.pc = "occur" /\ st.copy = more /\ st.expect = row.updatedAt
        /\ st.stamp = Now(h)
    BY <1>1, <1>6 DEF Holding, States, Now
  <2>2. Calm(h, st)
    BY <1>1, <2>1 DEF Calm, Now
  <2>3. Reads(h, st)
    BY <1>1, <1>3, <2>1 DEF Reads, row
  <2>4. Ready(st)
    BY <1>3, <1>6, <2>1 DEF Ready, Acknowledged
  <2> QED BY <1>1, <2>1, <2>2, <2>3, <2>4
<1> QED BY <1>2, <1>4, <1>5, <1>6

\* Each step of a handler keeps the counts apart as DetInv says.
LEMMA DetHandler ==
  ASSUME TypeOK, TypeOK', AckInv, DetInv, NEW h \in Handlers, Handler(h)
  PROVE  DetInv'
<1>1. /\ proc[h] \in States /\ h \in Procs /\ "lookup" \in Places /\ Idle \in States
      /\ Idle.pc = "idle" /\ Idle.stamp \in Nat /\ clock \in Nat /\ proc[h].stamp \in Nat
      /\ proc[h].stamp <= clock /\ HoldsOK(proc[h]) /\ Ready(proc[h])
  BY Before, IdleType, AckRows DEF Procs, Places, AckInv, DetInv
<1>2. Calm(h, Idle) /\ Reads(h, Idle) /\ Ready(Idle)
  BY <1>1 DEF Calm, Reads, Ready, Swapping
<1>3. CASE Receive(h)
  <2>1. PICK e : proc' = [proc EXCEPT ![h] = [Idle EXCEPT !.pc = "lookup", !.stamp = clock', !.job = e]]
    BY <1>3 DEF Receive, Become
  <2>2. UNCHANGED tables /\ clock' = clock + 1
    BY <1>3 DEF Receive, ReadClock
  <2>3. PICK st, now : /\ st = [Idle EXCEPT !.pc = "lookup", !.stamp = now, !.job = e]
                       /\ now = clock'
    OBVIOUS
  <2>4. st.pc = "lookup" /\ st.stamp = now
    BY <1>1, <2>3 DEF States
  <2>5. Calm(h, st) /\ Reads(h, st) /\ Ready(st) /\ st.stamp \in Nat
    BY <1>1, <2>2, <2>3, <2>4 DEF Calm, Reads, Ready, Swapping
  <2> QED BY <1>1, <2>1, <2>2, <2>3, <2>4, <2>5, DetMove
<1>4. CASE FindNothing(h)
  <2>1. /\ UNCHANGED tables /\ proc[h].pc = "lookup"
        /\ clock' = clock \/ clock' = clock + 1
    BY <1>4 DEF FindNothing, ReadClock, At
  <2>2. PICK st : /\ proc' = [proc EXCEPT ![h] = st]
                  /\ st \in {Idle, [proc[h] EXCEPT !.pc = "open"],
                             [proc[h] EXCEPT !.pc = "open", !.stamp = clock']}
    BY <1>4 DEF FindNothing, Become
  <2>3. st = Idle \/ (st.pc = "open" /\ st.stamp \in {proc[h].stamp, clock'})
    BY <1>1, <2>2 DEF States
  <2>4. /\ Calm(h, st) /\ Reads(h, st) /\ Ready(st) /\ st.stamp \in Nat
        /\ st.pc # "record"
    BY <1>1, <1>2, <2>1, <2>3 DEF Calm, Reads, Ready, Swapping
  <2> QED BY <1>1, <2>1, <2>2, <2>4, DetMove
<1>5. CASE FindLive(h)
  <2>1. PICK i \in LiveFor(rows, Job(h).key) : proc' = [proc EXCEPT ![h] = Folded(h, rows[i])]
    BY <1>5 DEF FindLive, Become
  <2>2. PICK st : st = Folded(h, rows[i]) /\ proc' = [proc EXCEPT ![h] = st]
    BY <2>1
  <2>3. UNCHANGED tables /\ At(h, "lookup")
    BY <1>5 DEF FindLive
  <2>4. /\ st.stamp \in Nat /\ Calm(h, st) /\ Reads(h, st)
        /\ st.pc # "record" /\ Ready(st)
    BY <2>2, <2>3, FoldedDet
  <2> QED BY <1>1, <2>2, <2>3, <2>4, DetMove
<1>6. CASE PutFolded(h) \/ PutClosed(h) \/ PutOccurrence(h) \/ Insert(h)
  <2>1. /\ proc[h].pc \in {"put", "close", "occur", "insert"} /\ UNCHANGED details
        /\ \/ /\ UNCHANGED rows
              /\ proc' = [proc EXCEPT ![h] = Idle] \/ Retry(h, "lookup", Idle)
           \/ /\ rows' = Put(rows, Copy(h)) /\ (At(h, "put") \/ At(h, "close"))
              /\ proc' = [proc EXCEPT ![h] = Idle] \/ Retry(h, "lookup", Idle)
           \/ /\ rows' = Put(rows, Copy(h)) /\ At(h, "occur")
              /\ Unchanged(rows, Copy(h), proc[h].expect)
              /\ proc' = [proc EXCEPT ![h] = [proc[h] EXCEPT !.pc = "record"]]
           \/ /\ rows' = Put(rows, Copy(h)) /\ At(h, "insert")
              /\ \/ proc' = [proc EXCEPT ![h] = Idle]
                 \/ proc' = [proc EXCEPT ![h] = [proc[h] EXCEPT !.pc = "record"]]
    BY <1>1, <1>6 DEF PutFolded, PutClosed, PutOccurrence, Insert, Become, At, Write
  <2>2. proc[h].copy \in Incidents /\ Copy(h) \in Incidents
    BY <1>1, <2>1, AckRows DEF Writing, Copy
  <2>3. ASSUME proc' = [proc EXCEPT ![h] = Idle] \/ Retry(h, "lookup", Idle)
        PROVE  \E st : /\ proc' = [proc EXCEPT ![h] = st]
                       /\ st.pc \in {"idle", "lookup"} /\ st.stamp \in Nat
                       /\ Calm(h, st) /\ Reads(h, st) /\ Ready(st)
    <3>1. PICK st : /\ proc' = [proc EXCEPT ![h] = st]
                    /\ st = Idle \/ (st.pc = "lookup" /\ st.stamp = proc[h].stamp)
      <4>1. CASE Retry(h, "lookup", Idle)
        BY <1>1, <4>1, RetryType
      <4> QED BY <2>3, <4>1
    <3>2. st.pc \in {"idle", "lookup"} /\ st.stamp \in Nat
      BY <1>1, <3>1
    <3>3. Calm(h, st)
      BY <1>1, <2>1, <3>1 DEF Calm
    <3> QED BY <3>1, <3>2, <3>3 DEF Reads, Ready, Swapping
  <2>4. ASSUME proc' = [proc EXCEPT ![h] = [proc[h] EXCEPT !.pc = "record"]]
        PROVE  \E st : /\ proc' = [proc EXCEPT ![h] = st] /\ st.pc = "record"
                       /\ st.copy = Copy(h) /\ st.stamp \in Nat /\ Calm(h, st)
    <3>1. PICK st : st = [proc[h] EXCEPT !.pc = "record"]
      OBVIOUS
    <3>2. st.pc = "record" /\ st.copy = Copy(h) /\ st.stamp \in Nat
      BY <1>1, <3>1 DEF States, Copy
    <3> QED BY <2>4, <3>1, <3>2 DEF Calm
  <2>5. CASE /\ UNCHANGED rows
             /\ proc' = [proc EXCEPT ![h] = Idle] \/ Retry(h, "lookup", Idle)
    <3>1. PICK st : /\ proc' = [proc EXCEPT ![h] = st]
                    /\ st.pc \in {"idle", "lookup"} /\ st.stamp \in Nat
                    /\ Calm(h, st) /\ Reads(h, st) /\ Ready(st)
      BY <2>3, <2>5
    <3> QED BY <1>1, <2>1, <2>5, <3>1, DetMove DEF tables
  <2>6. CASE /\ rows' = Put(rows, Copy(h)) /\ (At(h, "put") \/ At(h, "close"))
             /\ proc' = [proc EXCEPT ![h] = Idle] \/ Retry(h, "lookup", Idle)
    <3>1. PICK st : /\ proc' = [proc EXCEPT ![h] = st]
                    /\ st.pc \in {"idle", "lookup"} /\ st.stamp \in Nat /\ Calm(h, st)
      BY <2>3, <2>6
    <3>2. CopyOf(Copy(h)) /\ (Acknowledged(Copy(h)) \/ Copy(h).key \notin SwappedKeys)
      BY <1>1, <2>6 DEF HoldsOK, CloseOK, At, Copy
    <3>3. st.pc \notin Swapping /\ st.pc # "insert" /\ st.pc # "record"
      BY <3>1 DEF Swapping
    <3> QED BY <1>1, <2>1, <2>2, <2>6, <3>1, <3>2, <3>3, DetWrite
  <2>7. CASE /\ rows' = Put(rows, Copy(h)) /\ At(h, "occur")
             /\ Unchanged(rows, Copy(h), proc[h].expect)
             /\ proc' = [proc EXCEPT ![h] = [proc[h] EXCEPT !.pc = "record"]]
    <3>1. PICK st : /\ proc' = [proc EXCEPT ![h] = st] /\ st.pc = "record"
                    /\ st.copy = Copy(h) /\ st.stamp \in Nat /\ Calm(h, st)
      BY <2>4, <2>7
    <3>2. SwapsRow(h, Copy(h).id) \/ (CopyOf(Copy(h)) /\ Copy(h).key \notin SwappedKeys)
      <4>1. CopyOf(Copy(h))
        BY <1>1, <2>7 DEF AckInv, SwapOK, At, Swapping, Copy
      <4> QED BY <1>1, <2>7, <4>1 DEF SwapsRow, Unchanged, At, Swapping, Ready, Copy
    <3>3. st.pc \notin Swapping /\ st.pc # "insert"
      BY <3>1 DEF Swapping
    <3> QED BY <1>1, <2>1, <2>2, <2>7, <3>1, <3>2, <3>3, DetWrite
  <2>8. CASE /\ rows' = Put(rows, Copy(h)) /\ At(h, "insert")
             /\ \/ proc' = [proc EXCEPT ![h] = Idle]
                \/ proc' = [proc EXCEPT ![h] = [proc[h] EXCEPT !.pc = "record"]]
    <3>1. PICK st : /\ proc' = [proc EXCEPT ![h] = st] /\ st.pc \in {"idle", "lookup", "record"}
                    /\ st.pc = "record" => st.copy = Copy(h)
                    /\ st.stamp \in Nat /\ Calm(h, st)
      BY <2>3, <2>4, <2>8
    <3>2. Copy(h).id \notin DOMAIN rows /\ Copy(h).occurrences = 1
      BY <1>1, <2>8 DEF HoldsOK, NewOK, At, Copy, Ready
    <3>3. st.pc \notin Swapping /\ st.pc # "insert"
      BY <3>1 DEF Swapping
    <3> QED BY <1>1, <2>1, <2>2, <2>8, <3>1, <3>2, <3>3, DetWrite
  <2> QED BY <2>1, <2>5, <2>6, <2>7, <2>8
<1>7. CASE BuildNew(h)
  <2>1. PICK inc \in NewIncidents(Job(h), Now(h)) :
          proc' = [proc EXCEPT ![h] = Holding(h, "insert", inc, Unset)]
    BY <1>7 DEF BuildNew, Become
  <2>2. PICK st : st = Holding(h, "insert", inc, Unset) /\ proc' = [proc EXCEPT ![h] = st]
    BY <2>1
  <2>3. UNCHANGED tables /\ proc[h].pc = "open"
    BY <1>7 DEF BuildNew, At
  <2>4. inc.occurrences = 1
    <3>1. \/ inc = Open(nextId, Job(h).key, Job(h).severity, Now(h))
          \/ \E i \in DOMAIN rows : inc = Recur(rows[i], nextId, Job(h).severity, Now(h))
      BY <2>1 DEF NewIncidents, LatestFor
    <3>2. CASE inc = Open(nextId, Job(h).key, Job(h).severity, Now(h))
      BY <3>2 DEF Open
    <3>3. CASE \E i \in DOMAIN rows : inc = Recur(rows[i], nextId, Job(h).severity, Now(h))
      BY <3>3 DEF Open, Recur
    <3> QED BY <3>1, <3>2, <3>3
  <2>5. st.pc = "insert" /\ st.copy = inc /\ st.stamp = proc[h].stamp
    BY <1>1, <2>2 DEF Holding, States
  <2>6. Calm(h, st) /\ Reads(h, st) /\ Ready(st)
    BY <1>1, <2>3, <2>4, <2>5 DEF Calm, Reads, Ready, Swapping
  <2> QED BY <1>1, <2>2, <2>3, <2>5, <2>6, DetMove
<1>8. CASE AddOccurrence(h)
  BY <1>8, DetAdded
<1> QED BY <1>3, <1>4, <1>5, <1>6, <1>7, <1>8 DEF Handler

\* Nothing but an occurrence changes the count.
LEMMA SameCount ==
  ASSUME NEW row \in Incidents, NEW now \in Nat
  PROVE  /\ \A reason : /\ Close(row, now, reason).occurrences = row.occurrences
                        /\ Close(row, now, reason).id = row.id
         /\ \A stage : /\ RecordAlert(row, now, stage).occurrences = row.occurrences
                       /\ RecordAlert(row, now, stage).id = row.id
         /\ RecordDeliveryFailure(row, now).occurrences = row.occurrences
         /\ RecordDeliveryFailure(row, now).id = row.id
         /\ Acknowledge(row, now).occurrences = row.occurrences
         /\ Acknowledge(row, now).id = row.id
<1>1. \A reason : /\ Close(row, now, reason).occurrences = row.occurrences
                  /\ Close(row, now, reason).id = row.id
  BY DEF Close, Touch, Incidents
<1>2. \A stage : /\ RecordAlert(row, now, stage).occurrences = row.occurrences
                 /\ RecordAlert(row, now, stage).id = row.id
  BY DEF RecordAlert, Touch, Incidents
<1>3. /\ RecordDeliveryFailure(row, now).occurrences = row.occurrences
      /\ RecordDeliveryFailure(row, now).id = row.id
  BY DEF RecordDeliveryFailure, Touch, Incidents
<1>4. /\ Acknowledge(row, now).occurrences = row.occurrences
      /\ Acknowledge(row, now).id = row.id
  BY DEF Acknowledge, Touch, Incidents
<1> QED BY <1>1, <1>2, <1>3, <1>4

\* A person or the scheduler moves and writes no row, or swaps one.
LEMMA DetOther ==
  ASSUME TypeOK, TypeOK', AckInv, DetInv, NEW p \in Procs \ Handlers, NEW st,
         proc' = [proc EXCEPT ![p] = st], details' = details,
         \/ rows' = rows /\ Reads(p, st)
         \/ /\ st.pc \notin Swapping \cup {"insert", "record"} /\ proc[p].pc \in Swapping
            /\ Unchanged(rows, Copy(p), proc[p].expect) /\ Write(Copy(p))
  PROVE  DetInv'
<1>1. proc'[p] = st /\ st.stamp \in Nat /\ Calm(p, st)
  BY DEF Calm, TypeOK, ProcsOK, States
<1>2. CASE rows' = rows /\ Reads(p, st)
  BY <1>1, <1>2, DetMove DEF tables
<1>3. CASE /\ st.pc \notin Swapping \cup {"insert", "record"} /\ proc[p].pc \in Swapping
           /\ Unchanged(rows, Copy(p), proc[p].expect) /\ Write(Copy(p))
  <2>1. Copy(p) \in Incidents /\ CopyOf(Copy(p))
    BY <1>3, AckRows DEF AckInv, SwapOK, Copy
  <2>2. CASE Acknowledged(Copy(p)) \/ Copy(p).key \notin SwappedKeys
    BY <1>1, <1>3, <2>1, <2>2, DetWrite DEF Write
  <2>3. CASE ~Acknowledged(Copy(p)) /\ Copy(p).key \in SwappedKeys
    <3>1. SwapsRow(p, Copy(p).id)
      BY <1>3, <2>1, <2>3 DEF SwapsRow, CopyOf, Unchanged, Write
    <3> QED BY <1>1, <1>3, <2>1, <3>1, DetWrite DEF Write
  <2> QED BY <2>2, <2>3
<1> QED BY <1>2, <1>3

\* People swap rows and count nothing.
LEMMA DetPerson ==
  ASSUME TypeOK, TypeOK', AckInv, DetInv, NEW p \in People, Person(p)
  PROVE  DetInv'
<1>1. /\ proc[p] \in States /\ p \in Procs \ Handlers /\ "read" \in Places
      /\ PersonOK(proc[p], DOMAIN rows) /\ Idle \in States /\ Idle.pc = "idle"
      /\ clock \in Nat /\ p \in Procs
  BY Before, IdleType, AckRows, ProcsAssumption DEF Procs, Places
<1>2. Reads(p, Idle) /\ Idle.pc \notin Swapping \cup {"insert", "record"}
  BY <1>1 DEF Reads, Swapping
<1>3. CASE Ask(p)
  <2>1. rows' = rows /\ details' = details
    BY <1>3 DEF Ask, tables
  <2>2. CASE Become(p, Idle)
    BY <1>1, <1>2, <2>1, <2>2, DetOther DEF Become
  <2>3. CASE ~Become(p, Idle)
    <3>0. PICK r \in Asked(p) :
            /\ clock' = clock + 1
            /\ proc' = [proc EXCEPT ![p] =
                 [proc[p] EXCEPT !.pc = "write", !.stamp = clock', !.job = r,
                    !.copy = Applied(r, rows[r.id], clock'),
                    !.expect = rows[r.id].updatedAt]]
      BY <1>3, <2>3 DEF Ask, Become, ReadClock
    <3>1. PICK st, copy, now :
            /\ now = clock' /\ now = clock + 1
            /\ copy = Applied(r, rows[r.id], now)
            /\ st = [proc[p] EXCEPT !.pc = "write", !.stamp = now, !.job = r,
                       !.copy = copy, !.expect = rows[r.id].updatedAt]
            /\ proc' = [proc EXCEPT ![p] = st]
      BY <1>1, <3>0
    <3>2. st.pc = "write" /\ st.copy = copy /\ st.expect = rows[r.id].updatedAt
      BY <1>1, <3>1 DEF States
    <3>3. r.id \in DOMAIN rows
      <4>1. CASE At(p, "idle")
        BY <4>1 DEF Asked
      <4>2. CASE At(p, "read")
        BY <1>1, <4>2 DEF Asked, PersonOK, At, Job
      <4> QED BY <1>3, <4>1, <4>2 DEF Ask
    <3>4. PICK row \in Incidents : row = rows[r.id] /\ row.id = r.id
      BY <3>3 DEF TypeOK, TablesOK
    <3>5. copy.id = r.id /\ copy.occurrences = row.occurrences /\ row.occurrences \in Nat
      <4>1. now \in Nat /\ row.occurrences \in Nat
        BY <1>1, <3>1, <3>4 DEF Incidents
      <4> QED BY <3>1, <3>4, <4>1, SameCount DEF Applied
    <3>6. Reads(p, st)
      BY <1>1, <3>2, <3>3, <3>4, <3>5 DEF Reads
    <3> QED BY <1>1, <2>1, <3>1, <3>6, DetOther
  <2> QED BY <2>2, <2>3
<1>4. CASE Answer(p)
  <2>1. /\ proc[p].pc \in Swapping /\ details' = details
        /\ \/ rows' = rows
           \/ Unchanged(rows, Copy(p), proc[p].expect) /\ Write(Copy(p))
        /\ Become(p, Idle) \/ Retry(p, "read", Idle)
    BY <1>4 DEF Answer, At, Swapping
  <2>2. PICK st : /\ proc' = [proc EXCEPT ![p] = st]
                  /\ st.pc \notin Swapping \cup {"insert", "record"}
    <3>1. CASE Become(p, Idle)
      BY <1>2, <3>1 DEF Become
    <3>2. CASE Retry(p, "read", Idle)
      <4>1. PICK st \in States : proc' = [proc EXCEPT ![p] = st] /\ (st = Idle \/ st.pc = "read")
        BY <1>1, <3>2, RetryType
      <4>2. st.pc \notin Swapping \cup {"insert", "record"}
        BY <1>2, <4>1 DEF Swapping
      <4> QED BY <4>1, <4>2
    <3> QED BY <2>1, <3>1, <3>2
  <2>3. Reads(p, st)
    BY <2>2 DEF Reads
  <2> QED BY <1>1, <2>1, <2>2, <2>3, DetOther
<1> QED BY <1>3, <1>4 DEF Person

\* So does the scheduler.
LEMMA DetSchedule ==
  ASSUME TypeOK, TypeOK', AckInv, DetInv, Schedule
  PROVE  DetInv'
<1>1. /\ proc[Self] \in States /\ Self = Scheduler /\ Scheduler \in Procs
      /\ Scheduler \in Procs \ Handlers /\ proc \in [Procs -> States]
      /\ Idle.pc = "idle" /\ Idle \in States /\ Settled \in States /\ Settled.pc = "next"
      /\ "reload" \in Places
  BY SMTT(30), SchedulerBefore, SettledType, IdleType, ProcsAssumption DEF Places, TypeOK, ProcsOK
<1>2. details' = details
  BY DEF Schedule, Tick, Scan, ProcessNext, NotDue, Hold, BeginGiveUp, BeginDelivery, Turn,
         DeliverySucceeds, DeliveryFails, Reload, Commit, EndTick, tables
<1>3. CASE Reload /\ ~Become(Self, Settled)
  <2> DEFINE row == rows[Job(Self).inc.id]
  <2>1. PICK inc \in Mutated(Job(Self), row, Now(Self)) :
          proc' = [proc EXCEPT ![Scheduler] = Holding(Self, "commit", inc, row.updatedAt)]
    BY <1>1, <1>3 DEF Reload, Become
  <2>2. PICK st : /\ st = Holding(Self, "commit", inc, row.updatedAt)
                  /\ proc' = [proc EXCEPT ![Scheduler] = st]
    BY <2>1
  <2>3. st.pc = "commit" /\ st.copy = inc /\ st.expect = row.updatedAt
    BY <1>1, <2>2 DEF Holding, States
  <2>4. /\ Job(Self).inc.id \in DOMAIN rows /\ row \in Incidents /\ Now(Self) \in Nat
        /\ row.id = Job(Self).inc.id /\ row.occurrences \in Nat
        /\ Job(Self).what \in {"alert", "failure", "give-up"} /\ rows' = rows
    BY <1>3, AtWork, SchedulerBefore
       DEF Reload, tables, At, Job, Now, Tasks, TypeOK, TablesOK, Incidents
  <2>5. inc.occurrences = row.occurrences /\ inc.id = row.id
    <3> HIDE DEF row
    <3> QED BY <2>1, <2>4, SameCount DEF Mutated
  <2>6. Reads(Scheduler, st)
    BY <1>1, <2>3, <2>4, <2>5 DEF Reads
  <2> QED BY <1>1, <1>2, <2>2, <2>4, <2>6, DetOther
<1>4. CASE Commit
  <2>1. /\ proc[Scheduler].pc \in Swapping
        /\ \/ rows' = rows
           \/ Unchanged(rows, Copy(Scheduler), proc[Scheduler].expect) /\ Write(Copy(Scheduler))
        /\ Become(Self, Settled) \/ Retry(Self, "reload", Settled)
    BY <1>1, <1>4 DEF Commit, At, Swapping
  <2>2. PICK st : /\ proc' = [proc EXCEPT ![Scheduler] = st]
                  /\ st.pc \notin Swapping \cup {"insert", "record"}
    <3>1. CASE Become(Self, Settled)
      BY <1>1, <3>1 DEF Become, Swapping
    <3>2. CASE Retry(Self, "reload", Settled)
      <4>1. PICK st \in States :
              proc' = [proc EXCEPT ![Self] = st] /\ (st = Settled \/ st.pc = "reload")
        BY <1>1, <3>2, RetryType
      <4>2. st.pc \notin Swapping \cup {"insert", "record"}
        BY <1>1, <4>1 DEF Swapping
      <4> QED BY <1>1, <4>1, <4>2
    <3> QED BY <2>1, <3>1, <3>2
  <2>3. Reads(Scheduler, st)
    BY SMTT(30), <2>2 DEF Reads
  <2> QED BY <1>1, <1>2, <2>1, <2>2, <2>3, DetOther
<1>5. CASE \/ Tick \/ Scan \/ EndTick \/ DeliverySucceeds \/ DeliveryFails \/ ProcessNext
           \/ Reload /\ Become(Self, Settled)
  <2>1. rows' = rows
    BY <1>5 DEF Tick, Scan, EndTick, DeliverySucceeds, DeliveryFails, ProcessNext, NotDue,
                Hold, BeginGiveUp, BeginDelivery, Turn, Reload, tables
  <2>2. PICK st : proc' = [proc EXCEPT ![Scheduler] = st] /\ st.pc \notin Swapping
    <3>1. CASE Tick \/ Scan \/ EndTick
      <4>1. PICK st : /\ proc' = [proc EXCEPT ![Scheduler] = st]
                      /\ st \in {Idle, [Idle EXCEPT !.pc = "scan", !.stamp = clock'],
                                 [proc[Self] EXCEPT !.pc = "next"]}
        BY <1>1, <3>1 DEF Tick, Scan, EndTick, Become
      <4>2. st.pc \in {"idle", "scan", "next"}
        BY <1>1, <4>1 DEF States
      <4> QED BY <4>1, <4>2 DEF Swapping
    <3>2. CASE DeliverySucceeds \/ DeliveryFails
      <4>1. PICK st : /\ proc' = [proc EXCEPT ![Scheduler] = st]
                      /\ st \in {[proc[Self] EXCEPT !.pc = "reload", !.job.what = "alert"],
                                 [proc[Self] EXCEPT !.pc = "reload", !.job.what = "failure"]}
        BY <1>1, <3>2 DEF DeliverySucceeds, DeliveryFails, Become
      <4>2. st.pc = "reload"
        BY <1>1, <4>1 DEF States
      <4> QED BY <4>1, <4>2 DEF Swapping
    <3>3. CASE ProcessNext
      <4>1. PICK inc \in pending : \/ NotDue(inc) \/ Hold(inc)
                                  \/ BeginGiveUp(inc) \/ BeginDelivery(inc)
        BY <3>3 DEF ProcessNext
      <4>2. CASE NotDue(inc) \/ Hold(inc)
        <5>1. proc' = [proc EXCEPT ![Scheduler] = proc[Self]] /\ proc[Self].pc = "next"
          BY <1>1, <4>2 DEF NotDue, Hold, Turn, At
        <5> QED BY <5>1 DEF Swapping
      <4>3. CASE BeginGiveUp(inc) \/ BeginDelivery(inc)
        <5>1. ASSUME NEW task, NEW place \in {"reload", "deliver"},
                     Become(Self, [Settled EXCEPT !.pc = place, !.job = task])
              PROVE  \E st : proc' = [proc EXCEPT ![Scheduler] = st] /\ st.pc \notin Swapping
          <6>1. PICK st : /\ st = [Settled EXCEPT !.pc = place, !.job = task]
                          /\ proc' = [proc EXCEPT ![Scheduler] = st]
            BY <1>1, <5>1 DEF Become
          <6>2. st.pc = place
            BY <1>1, <6>1 DEF States
          <6> QED BY ZenonT(60), <6>1, <6>2 DEF Swapping
        <5>2. CASE BeginGiveUp(inc)
          BY <5>1, <5>2 DEF BeginGiveUp
        <5>3. CASE BeginDelivery(inc)
          <6>1. PICK d : Become(Self, [Settled EXCEPT !.pc = "deliver",
                                                      !.job = Task("deliver", inc, d)])
            BY <5>3 DEF BeginDelivery
          <6> QED BY <5>1, <6>1
        <5> QED BY <4>3, <5>2, <5>3
      <4> QED BY <4>1, <4>2, <4>3
    <3>4. CASE Reload /\ Become(Self, Settled)
      BY <1>1, <3>4 DEF Become, Swapping
    <3> QED BY <1>5, <3>1, <3>2, <3>3, <3>4
  <2>3. Reads(Scheduler, st)
    BY <2>2 DEF Reads
  <2> QED BY <1>1, <1>2, <2>1, <2>2, <2>3, DetOther
<1> QED BY <1>3, <1>4, <1>5 DEF Schedule

\* A crash takes what is carried, and time what nobody notices.
LEMMA DetStill ==
  ASSUME TypeOK, TypeOK', AckInv, DetInv, Crash \/ Elapse \/ UNCHANGED vars
  PROVE  DetInv'
<1>1. rows' = rows /\ details' = details
  BY DEF Crash, Elapse, vars, tables
<1>2. CASE UNCHANGED proc
  <2>1. \A i : /\ Carried(i)' = Carried(i) /\ Late(i)' = Late(i)
    BY <1>1, <1>2 DEF Carried, Carrying, Late, At, Copy
  <2>2. \A i, f, n : Spread(i, f, n) => Spread(i, f, n)'
    BY <1>1, <1>2, <2>1 DEF Spread, Live, CountRead, Copy
  <2>3. ASSUME NEW i \in DOMAIN rows
        PROVE  RowDet(i)'
    BY <1>1, <2>1, <2>2, SameKeys DEF DetInv, RowDet, Acknowledged
  <2>4. \A h \in Handlers : /\ (At(h, "record") => Copy(h).id \in DOMAIN rows)'
                            /\ Ready(proc[h])'
    BY <1>1, <1>2 DEF DetInv, At, Copy, Ready, Acknowledged
  <2>5. \A i \in Ids \ DOMAIN rows' : details'[i] = {}
    BY <1>1 DEF DetInv
  <2>6. \A i \in DOMAIN rows' : RowDet(i)'
    BY <1>1, <2>3
  <2> QED BY <2>4, <2>5, <2>6 DEF DetInv
<1>3. CASE Crash
  <2>1. \A q \in Procs : proc'[q] = Idle
    BY <1>3 DEF Crash
  <2>2. Idle.pc = "idle" /\ Handlers \subseteq Procs
    BY IdleType DEF Procs
  <2>3. \A i : Carried(i)' = {} /\ Late(i)' = {}
    BY <2>1, <2>2 DEF Carried, Carrying, Late, At
  <2>4. ASSUME NEW i \in DOMAIN rows
        PROVE  RowDet(i)'
    <3> SUFFICES ASSUME rows[i].key \in SwappedKeys
                 PROVE  RowDet(i)'
      BY <1>1, SameKeys DEF RowDet
    <3>1. PICK f \in Nat : /\ Room(details[i], Carried(i), f)
                           /\ ~Acknowledged(rows[i]) => \E n \in Nat : Spread(i, f, n)
      BY DEF DetInv, RowDet
    <3>2. /\ Finite(details[i]) /\ Topped(details[i]) /\ Finite(Carried(i))
      BY CarriedType DEF DetInv, RowDet, CarriedOK
    <3>3. Room(details[i], Carried(i)', f)
      <4>1. PICK A, C, D : /\ A = details[i] /\ C = Carried(i) /\ D = Carried(i)'
                           /\ A \in SUBSET A /\ D \in SUBSET C
        BY <2>3
      <4>2. Room(A, D, f)
        BY <3>1, <3>2, <4>1, RoomLess
      <4> QED BY <4>1, <4>2
    <3>4. ASSUME NEW n \in Nat, Spread(i, f, n)
          PROVE  Spread(i, f, n)'
      <4>1. \A q \in Procs : ~Live(i, q)'
        BY <2>1, <2>2 DEF Live, Swapping
      <4>2. f <= rows'[i].occurrences /\ rows'[i].occurrences <= n
        BY <1>1, <3>4 DEF Spread
      <4>3. Carried(i)' \subseteq Carried(i) /\ Late(i)' \subseteq Late(i)
        BY <2>3
      <4> QED BY <3>4, <4>1, <4>2, <4>3, SpreadLess
    <3> QED BY <1>1, <3>1, <3>2, <3>3, <3>4 DEF RowDet, Acknowledged
  <2>5. \A h \in Handlers : /\ (At(h, "record") => Copy(h).id \in DOMAIN rows)'
                            /\ Ready(proc[h])'
    BY <2>1, <2>2 DEF At, Ready
  <2>6. \A i \in Ids \ DOMAIN rows' : details'[i] = {}
    BY <1>1 DEF DetInv
  <2>7. \A i \in DOMAIN rows' : RowDet(i)'
    BY <1>1, <2>4
  <2> QED BY <2>5, <2>6, <2>7 DEF DetInv
<1> QED BY <1>2, <1>3 DEF Elapse, vars

\* At the start nothing is counted.
LEMMA DetInit == Init => DetInv
<1> SUFFICES ASSUME Init PROVE DetInv
  OBVIOUS
<1>1. DOMAIN rows = {} /\ (\A i \in Ids : details[i] = {}) /\ \A p \in Procs : proc[p].pc = "idle"
  BY IdleType DEF Init
<1>2. Handlers \subseteq Procs
  BY DEF Procs
<1> QED BY <1>1, <1>2 DEF DetInv, At, Ready

\* Every step keeps DetInv.
LEMMA DetNext == TypeOK /\ TypeOK' /\ AckInv /\ DetInv /\ [Next]_vars => DetInv'
BY DetHandler, DetPerson, DetSchedule, DetStill DEF Next

\* Of an incident whose key is written by swapping only, the occurrences kept in full stay
\* fewer than the bound and the handlers together, however slowly handlers add the numbers
\* they were given, and though several may be given the same one.
THEOREM DetailsSafe == Spec => []DetailsBounded
<1>1. TypeOK /\ DetInv => DetailsBounded
  <2> SUFFICES ASSUME TypeOK, DetInv, NEW i \in Ids,
                      i \in DOMAIN rows => rows[i].key \in SwappedKeys
               PROVE  Cardinality(details[i]) < MaxOccurrences + Crowd
    BY DEF DetailsBounded, Crowd
  <2>1. CASE i \in DOMAIN rows
    <3>1. Finite(details[i]) /\ Topped(details[i]) /\ Finite(Carried(i))
      BY <2>1, CarriedType DEF DetInv, RowDet, CarriedOK
    <3>2. PICK f \in Nat : Room(details[i], Carried(i), f)
      BY <2>1 DEF DetInv, RowDet
    <3> QED BY <3>1, <3>2, RoomBound
  <2>2. CASE i \notin DOMAIN rows
    BY <2>2, CrowdType, FS_EmptySet, BoundsAssumption DEF DetInv
  <2> QED BY <2>1, <2>2
<1> QED BY <1>1, TypeSafe, AckInit, AckNext, DetInit, DetNext, PTL DEF Spec

-----------------------------------------------------------------------------
(* The steps a person sees are those of IncidentPromise *)

\* Nothing is both answered and given up.
Sane(inc) == ~(Acknowledged(inc) /\ inc.closed = "gave-up")

\* Where a goroutine holds a copy it is about to write.
Loaded == {"put", "close", "occur", "insert", "write", "commit"}

SaneCopy(s) == Sane(s.copy) /\ (s.pc = "insert" => s.copy.closed = "no")

SaneInv == /\ \A i \in DOMAIN rows : Sane(rows[i])
           /\ \A p \in Procs : proc[p].pc \in Loaded => SaneCopy(proc[p])

\* The operations keep it: a give-up is of what nobody acknowledged, an
\* acknowledgement of what was not given up.
LEMMA SaneOperations ==
  ASSUME NEW row \in Incidents, Sane(row), NEW now
  PROVE  /\ Sane(Resolve(row, now))
         /\ \A reason \in {"returned", "reviewed", "operator"} : Sane(Close(row, now, reason))
         /\ ~Acknowledged(row) => Sane(Close(row, now, "gave-up"))
         /\ \A severity : /\ Sane(Occur(RaiseSeverity(row, severity), now))
                          /\ Sane([RaiseSeverity(row, severity) EXCEPT !.updatedAt = now])
         /\ \A stage : Sane(RecordAlert(row, now, stage))
         /\ Sane(RecordDeliveryFailure(row, now))
         /\ row.closed # "gave-up" => Sane(Acknowledge(row, now))
<1>1. \A inc : inc.ackedAt = row.ackedAt /\ inc.closed = row.closed => Sane(inc)
  BY DEF Sane, Acknowledged
<1>2. Sane(Resolve(row, now))
  BY <1>1 DEF Resolve, Touch, Incidents
<1>3. \A reason \in {"returned", "reviewed", "operator"} : Sane(Close(row, now, reason))
  BY DEF Close, Touch, Incidents, Sane, Acknowledged
<1>4. ~Acknowledged(row) => Sane(Close(row, now, "gave-up"))
  BY DEF Close, Touch, Incidents, Sane, Acknowledged
<1>5. ASSUME NEW severity
      PROVE  /\ Sane(Occur(RaiseSeverity(row, severity), now))
             /\ Sane([RaiseSeverity(row, severity) EXCEPT !.updatedAt = now])
  BY <1>1 DEF Occur, RaiseSeverity, Touch, Incidents
<1>6. \A stage : Sane(RecordAlert(row, now, stage))
  BY <1>1 DEF RecordAlert, Touch, Incidents
<1>7. Sane(RecordDeliveryFailure(row, now))
  BY <1>1 DEF RecordDeliveryFailure, Touch, Incidents
<1>8. row.closed # "gave-up" => Sane(Acknowledge(row, now))
  BY DEF Acknowledge, Touch, Incidents, Sane, Acknowledged
<1> QED BY <1>2, <1>3, <1>4, <1>5, <1>6, <1>7, <1>8

\* One goroutine moves, writing at most the copy it holds.
LEMMA SaneMove ==
  ASSUME TypeOK, SaneInv, NEW p \in Procs, NEW st, proc' = [proc EXCEPT ![p] = st],
         UNCHANGED rows \/ (proc[p].pc \in Loaded /\ Write(proc[p].copy)),
         st.pc \in Loaded => SaneCopy(st)
  PROVE  SaneInv'
<1>1. proc'[p] = st /\ \A q \in Procs \ {p} : proc'[q] = proc[q]
  BY DEF TypeOK, ProcsOK
<1>2. ASSUME NEW i \in DOMAIN rows'
      PROVE  Sane(rows'[i])
  <2>1. CASE UNCHANGED rows
    BY <2>1 DEF SaneInv
  <2>2. CASE proc[p].pc \in Loaded /\ Write(proc[p].copy)
    <3>1. Sane(proc[p].copy)
      BY <2>2 DEF SaneInv, SaneCopy
    <3> QED BY <2>2, <3>1 DEF Write, Put, SaneInv
  <2> QED BY <2>1, <2>2
<1>3. ASSUME NEW q \in Procs, proc'[q].pc \in Loaded
      PROVE  SaneCopy(proc'[q])
  BY <1>1, <1>3 DEF SaneInv
<1> QED BY <1>2, <1>3 DEF SaneInv

\* What a handler makes of the live incident it found.
LEMMA SaneFolded ==
  ASSUME TypeOK, NEW h \in Handlers, NEW row \in Incidents, Sane(row), NEW st,
         st = Folded(h, row), st.pc \in Loaded
  PROVE  SaneCopy(st)
<1> DEFINE raised == RaiseSeverity(row, Job(h).severity)
           folded == [raised EXCEPT !.updatedAt = Now(h)]
<1>1. \A where, copy, expect :
        Holding(h, where, copy, expect).pc = where /\ Holding(h, where, copy, expect).copy = copy
  BY Before DEF Holding, States, Procs
<1>2. \/ st = Idle
      \/ st = Holding(h, "put", Resolve(row, Now(h)), Unset)
      \/ st = Holding(h, "close", Close(row, Now(h), "returned"), Unset)
      \/ st = Holding(h, "close", Close(row, Now(h), "reviewed"), Unset)
      \/ st = Holding(h, "occur", Occur(raised, Now(h)), row.updatedAt)
      \/ st = Holding(h, "put", folded, Unset)
  BY DEF Folded
<1>3. /\ Sane(Resolve(row, Now(h))) /\ Sane(Close(row, Now(h), "returned"))
      /\ Sane(Close(row, Now(h), "reviewed")) /\ Sane(Occur(raised, Now(h))) /\ Sane(folded)
  BY SaneOperations
<1> HIDE DEF raised, folded
<1> QED BY <1>1, <1>2, <1>3, IdleType DEF SaneCopy, Loaded

\* What a step does to the rows, the confirmations and the deliveries: it delivers, or it
\* writes one row at most, with what Keeps asks of a write.
Writes(inc, e) ==
  /\ Write(inc) /\ UNCHANGED <<clock, nextId>> /\ Sane(inc)
  /\ \/ SwapOK(inc, e) /\ rows[inc.id].updatedAt = e
     \/ CloseOK(inc)
     \/ NewOK(inc) /\ inc.closed = "no"
  /\ acks' = acks \/ (acks' = acks \cup {inc.id} /\ Acknowledged(inc) /\ CopyOf(inc))

RowStep ==
  /\ told' = told
  /\ \/ UNCHANGED <<rows, acks>>
     \/ \E inc \in Incidents, e \in Nat : Writes(inc, e)

LEMMA HandlerRows ==
  ASSUME TypeOK, AckInv, SaneInv, NEW h \in Handlers, Handler(h)
  PROVE  SaneInv' /\ RowStep
<1>1. /\ proc[h] \in States /\ h \in Procs /\ "lookup" \in Places /\ Idle \in States
      /\ Idle.pc = "idle" /\ HoldsOK(proc[h])
      /\ {"idle", "lookup", "open", "record"} \cap Loaded = {}
      /\ {"put", "close", "occur", "insert"} \subseteq Loaded
  BY Before, IdleType DEF Procs, Places, Loaded, AckInv
<1>2. UNCHANGED <<acks, told>>
  BY DEF Handler, Receive, FindNothing, FindLive, PutFolded, PutClosed, PutOccurrence,
         BuildNew, Insert, AddOccurrence, history
<1>3. ASSUME UNCHANGED rows, NEW st, proc' = [proc EXCEPT ![h] = st],
             st.pc \in Loaded => SaneCopy(st)
      PROVE  SaneInv' /\ RowStep
  BY <1>1, <1>2, <1>3, SaneMove DEF RowStep
<1>4. CASE Receive(h)
  <2>1. PICK e \in Arrivals :
          proc' = [proc EXCEPT ![h] = [Idle EXCEPT !.pc = "lookup", !.stamp = clock', !.job = e]]
    BY <1>4 DEF Receive, Become
  <2>2. PICK st : st = [Idle EXCEPT !.pc = "lookup", !.stamp = clock', !.job = e]
    OBVIOUS
  <2>3. st.pc = "lookup"
    BY <1>1, <2>2 DEF States
  <2>4. UNCHANGED rows
    BY <1>4 DEF Receive, tables
  <2> QED BY <1>1, <1>3, <2>1, <2>2, <2>3, <2>4
<1>5. CASE FindNothing(h)
  <2>1. PICK st : /\ proc' = [proc EXCEPT ![h] = st]
                  /\ st \in {Idle, [proc[h] EXCEPT !.pc = "open"],
                             [proc[h] EXCEPT !.pc = "open", !.stamp = clock']}
    BY <1>5 DEF FindNothing, Become
  <2>2. st.pc \in {"idle", "open"}
    BY <1>1, <2>1 DEF States
  <2>3. UNCHANGED rows
    BY <1>5 DEF FindNothing, tables
  <2> QED BY <1>1, <1>3, <2>1, <2>2, <2>3
<1>6. CASE FindLive(h)
  <2>1. PICK i \in LiveFor(rows, Job(h).key) : proc' = [proc EXCEPT ![h] = Folded(h, rows[i])]
    BY <1>6 DEF FindLive, Become
  <2>2. rows[i] \in Incidents /\ Sane(rows[i]) /\ UNCHANGED rows
    BY <1>6 DEF TypeOK, TablesOK, LiveFor, Active, FindLive, SaneInv, tables
  <2>3. PICK st : st = Folded(h, rows[i])
    OBVIOUS
  <2>4. st.pc \in Loaded => SaneCopy(st)
    BY <2>2, <2>3, SaneFolded
  <2> QED BY <1>3, <2>1, <2>2, <2>3, <2>4
<1>7. CASE AddOccurrence(h)
  <2>1. UNCHANGED rows /\ proc' = [proc EXCEPT ![h] = Idle]
    BY <1>7 DEF AddOccurrence, Become
  <2> QED BY <1>1, <1>3, <2>1
<1>8. CASE PutFolded(h) \/ PutClosed(h) \/ PutOccurrence(h) \/ Insert(h)
  <2>1. /\ proc[h].pc \in {"put", "close", "occur", "insert"} /\ UNCHANGED <<clock, nextId>>
        /\ \/ UNCHANGED rows
           \/ /\ Write(Copy(h))
              /\ \/ At(h, "put") \/ At(h, "close")
                 \/ At(h, "occur") /\ Unchanged(rows, Copy(h), proc[h].expect)
                 \/ At(h, "insert")
        /\ \/ proc' = [proc EXCEPT ![h] = Idle]
           \/ Retry(h, "lookup", Idle)
           \/ proc' = [proc EXCEPT ![h] = [proc[h] EXCEPT !.pc = "record"]]
    BY <1>1, <1>8 DEF PutFolded, PutClosed, PutOccurrence, Insert, Become, At
  <2>2. PICK st : proc' = [proc EXCEPT ![h] = st] /\ st.pc \notin Loaded
    <3>1. CASE proc' = [proc EXCEPT ![h] = Idle]
      BY <1>1, <3>1
    <3>2. CASE Retry(h, "lookup", Idle)
      <4>1. PICK st \in States : /\ proc' = [proc EXCEPT ![h] = st]
                                 /\ st = Idle \/ st.pc = "lookup"
        BY <1>1, <3>2, RetryType
      <4> QED BY <1>1, <4>1
    <3>3. CASE proc' = [proc EXCEPT ![h] = [proc[h] EXCEPT !.pc = "record"]]
      <4>1. PICK st : st = [proc[h] EXCEPT !.pc = "record"]
        OBVIOUS
      <4>2. st.pc = "record"
        BY <1>1, <4>1 DEF States
      <4> QED BY <1>1, <3>3, <4>1, <4>2
    <3> QED BY <2>1, <3>1, <3>2, <3>3
  <2>3. CASE UNCHANGED rows
    BY <1>3, <2>2, <2>3
  <2>4. CASE /\ Write(Copy(h))
             /\ \/ At(h, "put") \/ At(h, "close")
                \/ At(h, "occur") /\ Unchanged(rows, Copy(h), proc[h].expect)
                \/ At(h, "insert")
    <3>1. proc[h].copy \in Incidents /\ proc[h].expect \in Nat /\ SaneCopy(proc[h])
      BY <1>1, <2>1, AckRows DEF Writing, SaneInv
    <3>2. PICK inc \in Incidents, e \in Nat : inc = proc[h].copy /\ e = proc[h].expect
      BY <3>1
    <3>3. \/ SwapOK(inc, e) /\ rows[inc.id].updatedAt = e
          \/ CloseOK(inc)
          \/ NewOK(inc) /\ inc.closed = "no"
      <4>1. CASE At(h, "put") \/ At(h, "close")
        BY <1>1, <3>2, <4>1 DEF HoldsOK, At
      <4>2. CASE At(h, "occur") /\ Unchanged(rows, Copy(h), proc[h].expect)
        BY <1>1, <3>2, <4>2 DEF AckInv, At, Swapping, Unchanged, Copy
      <4>3. CASE At(h, "insert")
        BY <1>1, <3>1, <3>2, <4>3 DEF HoldsOK, At, SaneCopy
      <4> QED BY <2>4, <4>1, <4>2, <4>3
    <3>4. Writes(inc, e)
      BY <1>2, <2>1, <2>4, <3>1, <3>2, <3>3 DEF Writes, SaneCopy, Copy
    <3>5. RowStep
      BY <1>2, <3>4 DEF RowStep
    <3>6. SaneInv'
      BY <1>1, <2>1, <2>2, <2>4, SaneMove DEF Copy
    <3> QED BY <3>5, <3>6
  <2> QED BY <2>1, <2>3, <2>4
<1>9. CASE BuildNew(h)
  <2>1. PICK inc \in NewIncidents(Job(h), Now(h)) :
          proc' = [proc EXCEPT ![h] = Holding(h, "insert", inc, Unset)]
    BY <1>9 DEF BuildNew, Become
  <2>2. inc.ackedAt = Unset /\ inc.closed = "no"
    <3>1. \/ inc = Open(nextId, Job(h).key, Job(h).severity, Now(h))
          \/ \E i \in DOMAIN rows : inc = Recur(rows[i], nextId, Job(h).severity, Now(h))
      BY <2>1 DEF NewIncidents, LatestFor
    <3>2. CASE inc = Open(nextId, Job(h).key, Job(h).severity, Now(h))
      BY <3>2 DEF Open
    <3>3. CASE \E i \in DOMAIN rows : inc = Recur(rows[i], nextId, Job(h).severity, Now(h))
      BY <3>3 DEF Open, Recur
    <3> QED BY <3>1, <3>2, <3>3
  <2>3. PICK st : st = Holding(h, "insert", inc, Unset)
    OBVIOUS
  <2>4. st.pc = "insert" /\ st.copy = inc
    BY <1>1, <2>3 DEF Holding, States
  <2>5. SaneCopy(st)
    BY <2>2, <2>4 DEF SaneCopy, Sane
  <2>6. UNCHANGED rows
    BY <1>9 DEF BuildNew, tables
  <2> QED BY <1>3, <2>1, <2>3, <2>5, <2>6
<1> QED BY <1>4, <1>5, <1>6, <1>7, <1>8, <1>9 DEF Handler

LEMMA PersonRows ==
  ASSUME TypeOK, AckInv, SaneInv, NEW p \in People, Person(p)
  PROVE  SaneInv' /\ RowStep
<1>1. /\ proc[p] \in States /\ p \in Procs /\ "read" \in Places
      /\ PersonOK(proc[p], DOMAIN rows) /\ Idle \in States
      /\ Idle.pc \notin Loaded /\ "read" \notin Loaded /\ "write" \in Loaded
  BY Before, IdleType DEF Procs, Places, Loaded
<1>2. told' = told
  BY DEF Person, Ask, Answer, history
<1>3. CASE Ask(p)
  <2>1. UNCHANGED <<rows, acks>>
    BY <1>3 DEF Ask, tables, history
  <2>2. PICK r \in Asked(p) :
          IF NothingToDo(r, rows[r.id])
            THEN proc' = [proc EXCEPT ![p] = Idle]
            ELSE proc' = [proc EXCEPT ![p] =
                   [proc[p] EXCEPT !.pc = "write", !.stamp = clock', !.job = r,
                      !.copy = Applied(r, rows[r.id], clock'),
                      !.expect = rows[r.id].updatedAt]]
    BY <1>3 DEF Ask, Become
  <2>3. CASE NothingToDo(r, rows[r.id])
    <3>1. SaneInv'
      BY <1>1, <2>1, <2>2, <2>3, SaneMove
    <3> QED BY <1>2, <2>1, <3>1 DEF RowStep
  <2>4. CASE ~NothingToDo(r, rows[r.id])
    <3>1. r.id \in DOMAIN rows /\ r.kind \in {"link", "web", "close"}
      <4>1. CASE At(p, "idle")
        BY <4>1 DEF Asked, PersonRequests, RequestKinds
      <4>2. CASE At(p, "read")
        BY <1>1, <4>2 DEF Asked, PersonOK, At, Job, PersonRequests, RequestKinds
      <4> QED BY <1>3, <4>1, <4>2 DEF Ask
    <3>2. PICK row \in Incidents : row = rows[r.id] /\ Sane(row)
      BY <3>1 DEF TypeOK, TablesOK, SaneInv
    <3>3. PICK now, copy : now = clock' /\ copy = Applied(r, row, now)
      OBVIOUS
    <3>4. Sane(copy)
      <4>1. CASE r.kind = "close"
        BY <3>2, <3>3, <4>1, SaneOperations DEF Applied
      <4>2. CASE r.kind # "close"
        <5>1. row.closed # "gave-up"
          BY <2>4, <3>1, <3>2, <4>2 DEF NothingToDo, Terminal
        <5> QED BY <3>2, <3>3, <4>2, <5>1, SaneOperations DEF Applied
      <4> QED BY <4>1, <4>2
    <3>5. PICK st : st = [proc[p] EXCEPT !.pc = "write", !.stamp = now, !.job = r,
                            !.copy = copy, !.expect = row.updatedAt]
      OBVIOUS
    <3>6. proc' = [proc EXCEPT ![p] = st]
      BY <2>2, <2>4, <3>2, <3>3, <3>5
    <3>7. SaneCopy(st)
      <4>1. st.pc = "write" /\ st.copy = copy
        BY <1>1, <3>5 DEF States
      <4> QED BY <3>4, <4>1 DEF SaneCopy
    <3>8. SaneInv'
      BY <1>1, <2>1, <3>6, <3>7, SaneMove
    <3> QED BY <1>2, <2>1, <3>8 DEF RowStep
  <2> QED BY <2>3, <2>4
<1>4. CASE Answer(p)
  <2>1. /\ proc[p].pc = "write" /\ UNCHANGED <<clock, nextId>>
        /\ \/ UNCHANGED <<rows, acks>>
           \/ /\ Unchanged(rows, Copy(p), proc[p].expect) /\ Write(Copy(p))
              /\ acks' = IF Job(p).kind = "close" THEN acks ELSE acks \cup {Copy(p).id}
        /\ Become(p, Idle) \/ Retry(p, "read", Idle)
    BY <1>4 DEF Answer, At
  <2>2. PICK st : proc' = [proc EXCEPT ![p] = st] /\ st.pc \notin Loaded
    <3>1. CASE Become(p, Idle)
      BY <1>1, <3>1 DEF Become
    <3>2. CASE Retry(p, "read", Idle)
      <4>1. PICK st \in States : proc' = [proc EXCEPT ![p] = st] /\ (st = Idle \/ st.pc = "read")
        BY <1>1, <3>2, RetryType
      <4> QED BY <1>1, <4>1
    <3> QED BY <2>1, <3>1, <3>2
  <2>3. CASE UNCHANGED <<rows, acks>>
    <3>1. SaneInv'
      BY <1>1, <2>2, <2>3, SaneMove
    <3> QED BY <1>2, <2>3, <3>1 DEF RowStep
  <2>4. CASE /\ Unchanged(rows, Copy(p), proc[p].expect) /\ Write(Copy(p))
             /\ acks' = IF Job(p).kind = "close" THEN acks ELSE acks \cup {Copy(p).id}
    <3>1. /\ proc[p].copy \in Incidents /\ proc[p].expect \in Nat /\ SaneCopy(proc[p])
          /\ SwapOK(proc[p].copy, proc[p].expect)
          /\ Job(p).kind # "close" => Acknowledged(proc[p].copy)
      BY <1>1, <2>1, AckRows DEF SaneInv, AckInv, Swapping, At, Copy
    <3>2. PICK inc \in Incidents, e \in Nat : inc = proc[p].copy /\ e = proc[p].expect
      BY <3>1
    <3>3. acks' = acks \/ (acks' = acks \cup {inc.id} /\ Acknowledged(inc))
      BY <2>4, <3>1, <3>2 DEF Copy
    <3>4. SwapOK(inc, e) /\ CopyOf(inc) /\ rows[inc.id].updatedAt = e /\ Write(inc) /\ Sane(inc)
      BY <2>4, <3>1, <3>2 DEF SwapOK, Unchanged, Copy, SaneCopy
    <3>5. RowStep
      BY <1>2, <2>1, <3>3, <3>4 DEF RowStep, Writes
    <3>6. SaneInv'
      BY <1>1, <2>1, <2>2, <2>4, SaneMove DEF Copy
    <3> QED BY <3>5, <3>6
  <2> QED BY <2>1, <2>3, <2>4
<1> QED BY <1>3, <1>4 DEF Person

\* A step of the scheduler but the delivery that succeeds.
LEMMA ScheduleRows ==
  ASSUME TypeOK, AckInv, SaneInv, Schedule, ~DeliverySucceeds
  PROVE  SaneInv' /\ RowStep
<1>1. /\ proc[Self] \in States /\ Self = Scheduler /\ Scheduler \in Procs
      /\ Idle.pc = "idle" /\ Settled \in States /\ Settled.pc = "next"
      /\ "reload" \in Places /\ Idle \in States
      /\ {"idle", "scan", "next", "reload", "deliver"} \cap Loaded = {} /\ "commit" \in Loaded
  BY SMTT(30), SchedulerBefore, SettledType, IdleType DEF Places, Loaded
<1>2. UNCHANGED <<acks, told>> /\ nextId' = nextId
  BY DEF Schedule, Tick, Scan, ProcessNext, NotDue, Hold, BeginGiveUp, BeginDelivery, Turn,
         DeliveryFails, Reload, Commit, EndTick, history
<1>3. ASSUME UNCHANGED rows, NEW st, proc' = [proc EXCEPT ![Scheduler] = st],
             st.pc \in Loaded => SaneCopy(st)
      PROVE  SaneInv' /\ RowStep
  BY <1>1, <1>2, <1>3, SaneMove DEF RowStep
<1>4. CASE Tick \/ Scan \/ EndTick \/ DeliveryFails
  <2>1. UNCHANGED rows
    BY <1>4 DEF Tick, Scan, EndTick, DeliveryFails, tables
  <2>2. PICK st : /\ proc' = [proc EXCEPT ![Scheduler] = st]
                  /\ st \in {Idle, [Idle EXCEPT !.pc = "scan", !.stamp = clock'],
                             [proc[Self] EXCEPT !.pc = "next"],
                             [proc[Self] EXCEPT !.pc = "reload", !.job.what = "failure"]}
    BY <1>1, <1>4 DEF Tick, Scan, EndTick, DeliveryFails, Become
  <2>3. st.pc \in {"idle", "scan", "next", "reload"}
    BY <1>1, <2>2 DEF States
  <2> QED BY <1>1, <1>3, <2>1, <2>2, <2>3
<1>5. CASE ProcessNext
  <2>1. PICK inc \in pending : \/ NotDue(inc) \/ Hold(inc)
                              \/ BeginGiveUp(inc) \/ BeginDelivery(inc)
    BY <1>5 DEF ProcessNext
  <2>2. UNCHANGED rows /\ At(Self, "next")
    BY <2>1 DEF NotDue, Hold, BeginGiveUp, BeginDelivery, Turn, tables
  <2>3. CASE NotDue(inc) \/ Hold(inc)
    <3>1. proc' = [proc EXCEPT ![Scheduler] = proc[Self]]
      BY <1>1, <2>3 DEF NotDue, Hold, TypeOK, ProcsOK
    <3> QED BY <1>1, <1>3, <2>2, <3>1 DEF At
  <2>4. CASE BeginGiveUp(inc) \/ BeginDelivery(inc)
    <3>1. ASSUME NEW task, NEW place \in {"reload", "deliver"},
                 Become(Self, [Settled EXCEPT !.pc = place, !.job = task])
          PROVE  SaneInv' /\ RowStep
      <4>1. PICK st : /\ st = [Settled EXCEPT !.pc = place, !.job = task]
                      /\ proc' = [proc EXCEPT ![Scheduler] = st]
        BY <1>1, <3>1 DEF Become
      <4>2. st.pc = place
        BY <1>1, <4>1 DEF States
      <4>3. st.pc \notin Loaded
        BY <1>1, <4>2
      <4> QED BY <1>3, <2>2, <4>1, <4>3
    <3>2. CASE BeginGiveUp(inc)
      BY ZenonT(60), <3>1, <3>2 DEF BeginGiveUp
    <3>3. CASE BeginDelivery(inc)
      <4>1. PICK d : Become(Self, [Settled EXCEPT !.pc = "deliver",
                                                  !.job = Task("deliver", inc, d)])
        BY <3>3 DEF BeginDelivery
      <4> QED BY <3>1, <4>1
    <3> QED BY <2>4, <3>2, <3>3
  <2> QED BY <2>1, <2>3, <2>4
<1>6. CASE Reload
  <2>1. UNCHANGED rows /\ At(Self, "reload")
    BY <1>6 DEF Reload, tables
  <2>2. PICK row : row = rows[Job(Self).inc.id]
    OBVIOUS
  <2>3. CASE Become(Self, Settled)
    BY <1>1, <1>3, <2>1, <2>3 DEF Become
  <2>4. CASE ~Become(Self, Settled)
    <3>1. PICK inc \in Mutated(Job(Self), row, Now(Self)) :
            proc' = [proc EXCEPT ![Scheduler] = Holding(Self, "commit", inc, row.updatedAt)]
      BY <1>1, <1>6, <2>2, <2>4 DEF Reload, Become
    <3>2. PICK st : st = Holding(Self, "commit", inc, row.updatedAt)
      OBVIOUS
    <3>3. st.pc = "commit" /\ st.copy = inc
      BY <1>1, <3>2 DEF Holding, States
    <3>4. row \in Incidents /\ Sane(row) /\ Job(Self).what \in {"alert", "failure", "give-up"}
      BY <2>1, <2>2, AtWork DEF At, Job, Tasks, SaneInv
    <3>5. Sane(inc)
      <4>1. CASE Job(Self).what = "give-up"
        <5>1. inc = Close(row, Now(Self), "gave-up") /\ ~Acknowledged(row)
          BY <3>1, <4>1 DEF Mutated, ShouldGiveUp, Terminal
        <5> QED BY <3>4, <5>1, SaneOperations
      <4>2. CASE Job(Self).what # "give-up"
        BY <3>1, <3>4, <4>2, SaneOperations DEF Mutated
      <4> QED BY <4>1, <4>2
    <3>6. SaneCopy(st)
      BY <3>3, <3>5 DEF SaneCopy
    <3> QED BY <1>3, <2>1, <3>1, <3>2, <3>6
  <2> QED BY <2>3, <2>4
<1>7. CASE Commit
  <2>1. /\ proc[Self].pc = "commit" /\ UNCHANGED clock
        /\ \/ UNCHANGED rows
           \/ Unchanged(rows, Copy(Self), proc[Self].expect) /\ Write(Copy(Self))
        /\ Become(Self, Settled) \/ Retry(Self, "reload", Settled)
    BY <1>7 DEF Commit, At
  <2>2. PICK st : proc' = [proc EXCEPT ![Scheduler] = st] /\ st.pc \notin Loaded
    <3>1. CASE Become(Self, Settled)
      BY <1>1, <3>1 DEF Become
    <3>2. CASE Retry(Self, "reload", Settled)
      <4>1. PICK st \in States :
              proc' = [proc EXCEPT ![Self] = st] /\ (st = Settled \/ st.pc = "reload")
        BY <1>1, <3>2, RetryType
      <4> QED BY <1>1, <4>1
    <3> QED BY <2>1, <3>1, <3>2
  <2>3. CASE UNCHANGED rows
    BY <1>3, <2>2, <2>3
  <2>4. CASE Unchanged(rows, Copy(Self), proc[Self].expect) /\ Write(Copy(Self))
    <3>1. /\ proc[Self].copy \in Incidents /\ proc[Self].expect \in Nat
          /\ SaneCopy(proc[Self]) /\ SwapOK(proc[Self].copy, proc[Self].expect)
      BY <1>1, <2>1, AckRows DEF SaneInv, AckInv, Swapping
    <3>2. PICK inc \in Incidents, e \in Nat : inc = proc[Self].copy /\ e = proc[Self].expect
      BY <3>1
    <3>3. SwapOK(inc, e) /\ rows[inc.id].updatedAt = e /\ Write(inc) /\ Sane(inc)
      BY <2>4, <3>1, <3>2 DEF Unchanged, Copy, SaneCopy
    <3>4. RowStep
      BY <1>2, <2>1, <3>3 DEF RowStep, Writes
    <3>5. SaneInv'
      BY <1>1, <2>1, <2>2, <2>4, SaneMove DEF Copy
    <3> QED BY <3>4, <3>5
  <2> QED BY <2>1, <2>3, <2>4
<1> QED BY <1>4, <1>5, <1>6, <1>7 DEF Schedule

\* A delivery: nothing is written, and the incident is one on record.
LEMMA DeliveryRows ==
  ASSUME TypeOK, SaneInv, DeliverySucceeds
  PROVE  /\ SaneInv' /\ UNCHANGED <<rows, acks>>
         /\ \E i \in DOMAIN rows : told' = [told EXCEPT ![i] = @ + 1]
<1>1. /\ proc[Self] \in States /\ Self = Scheduler /\ Scheduler \in Procs
      /\ proc[Self].job.inc.id \in DOMAIN rows
  BY SchedulerBefore DEF DeliverySucceeds, At, SchedulerOK
<1>2. /\ UNCHANGED <<rows, acks>> /\ told' = [told EXCEPT ![proc[Self].job.inc.id] = @ + 1]
      /\ proc' = [proc EXCEPT ![Scheduler] =
                    [proc[Self] EXCEPT !.pc = "reload", !.job.what = "alert"]]
  BY <1>1 DEF DeliverySucceeds, tables, Job, Become
<1>3. PICK st : st = [proc[Self] EXCEPT !.pc = "reload", !.job.what = "alert"]
  OBVIOUS
<1>4. st.pc \notin Loaded
  BY <1>1, <1>3 DEF States, Loaded
<1>5. SaneInv'
  BY <1>1, <1>2, <1>3, <1>4, SaneMove
<1> QED BY <1>1, <1>2, <1>5

\* A step that moves nobody on.
LEMMA StillRows ==
  ASSUME TypeOK, SaneInv, Crash \/ Elapse \/ UNCHANGED vars
  PROVE  SaneInv' /\ RowStep
<1>1. UNCHANGED <<rows, acks, told>>
  BY DEF Crash, Elapse, vars, tables, history
<1>2. CASE UNCHANGED proc
  BY <1>1, <1>2 DEF RowStep, SaneInv
<1>3. CASE Crash
  BY <1>1, <1>3, IdleType DEF Crash, RowStep, SaneInv, Loaded
<1> QED BY <1>2, <1>3 DEF Elapse, vars

LEMMA SaneInit == Init => SaneInv
BY IdleType DEF Init, SaneInv, Loaded

LEMMA SaneNext == TypeOK /\ AckInv /\ SaneInv /\ [Next]_vars => SaneInv'
BY HandlerRows, PersonRows, ScheduleRows, DeliveryRows, StillRows DEF Next, Schedule

\* What a write changes of what a person sees is the incident it writes.
LEMMA SeenOfWrite ==
  ASSUME TypeOK, NEW inc \in Incidents, NEW e \in Nat, Writes(inc, e)
  PROVE  /\ inc.id \in Ids /\ DOMAIN rows' = DOMAIN rows \cup {inc.id}
         /\ rows'[inc.id] = inc
         /\ Answered' = (Answered \ {inc.id}) \cup
              (IF inc.key \in SwappedKeys /\ Acknowledged(inc) THEN {inc.id} ELSE {})
         /\ GivenUp' = (GivenUp \ {inc.id}) \cup
              (IF inc.closed = "gave-up" THEN {inc.id} ELSE {})
         /\ Confirmed' = (Confirmed \ {inc.id}) \cup
              (IF inc.key \in SwappedKeys /\ inc.id \in acks' THEN {inc.id} ELSE {})
<1>1. /\ DOMAIN rows' = DOMAIN rows \cup {inc.id} /\ rows'[inc.id] = inc
      /\ \A i \in DOMAIN rows \ {inc.id} : rows'[i] = rows[i]
      /\ acks \subseteq DOMAIN rows
      /\ acks' = acks \/ acks' = acks \cup {inc.id}
  BY DEF Writes, Write, Put, TypeOK, HistoryOK
<1>2. inc.id \in Ids
  BY DEF Incidents
<1>3. Answered' = {i \in DOMAIN rows' : rows'[i].key \in SwappedKeys /\ Acknowledged(rows'[i])}
  BY SameKeys DEF Answered, Acknowledged
<1>4. Confirmed' = {i \in acks' : rows'[i].key \in SwappedKeys}
  BY SameKeys DEF Confirmed
<1>5. GivenUp' = {i \in DOMAIN rows' : rows'[i].closed = "gave-up"}
  BY DEF GivenUp
<1>6. Answered' = (Answered \ {inc.id}) \cup
        (IF inc.key \in SwappedKeys /\ Acknowledged(inc) THEN {inc.id} ELSE {})
  BY <1>1, <1>3 DEF Answered
<1>7. GivenUp' = (GivenUp \ {inc.id}) \cup
        (IF inc.closed = "gave-up" THEN {inc.id} ELSE {})
  BY <1>1, <1>5 DEF GivenUp
<1>8. Confirmed' = (Confirmed \ {inc.id}) \cup
        (IF inc.key \in SwappedKeys /\ inc.id \in acks' THEN {inc.id} ELSE {})
  BY <1>1, <1>4 DEF Confirmed
<1> QED BY <1>1, <1>2, <1>6, <1>7, <1>8

\* A write is a step of IncidentPromise, or none that a person sees.
LEMMA WriteShows ==
  ASSUME TypeOK, AckInv, SaneInv, SaneInv', GaveUpAfterTelling',
         NEW inc \in Incidents, NEW e \in Nat, Writes(inc, e), told' = told
  PROVE  [Promise!Next]_(Promise!vars)
<1>1. PICK i : i = inc.id
  OBVIOUS
<1>2. /\ i \in Ids /\ DOMAIN rows' = DOMAIN rows \cup {i} /\ rows'[i] = inc
      /\ Answered' = (Answered \ {i}) \cup
           (IF inc.key \in SwappedKeys /\ Acknowledged(inc) THEN {i} ELSE {})
      /\ GivenUp' = (GivenUp \ {i}) \cup (IF inc.closed = "gave-up" THEN {i} ELSE {})
      /\ Confirmed' = (Confirmed \ {i}) \cup
           (IF inc.key \in SwappedKeys /\ i \in acks' THEN {i} ELSE {})
  BY <1>1, SeenOfWrite
<1>3. ASSUME NEW j \in Ids,
             \/ Promise!Open(j) \/ Promise!Answer(j) \/ Promise!Confirm(j)
             \/ Promise!GiveUp(j) \/ Promise!Overtake(j)
      PROVE  [Promise!Next]_(Promise!vars)
  BY <1>3 DEF Promise!Next
<1>4. CASE NewOK(inc) /\ inc.closed = "no"
  <2>1. i \notin DOMAIN rows /\ ~Acknowledged(inc) /\ acks' = acks
    BY <1>1, <1>4 DEF NewOK, Writes, CopyOf
  <2>2. i \notin Answered /\ i \notin GivenUp /\ i \notin Confirmed /\ i \notin acks
    BY <2>1 DEF Answered, GivenUp, Confirmed, TypeOK, HistoryOK
  <2>3. Promise!Open(i)
    BY <1>2, <1>4, <2>1, <2>2 DEF Promise!Open
  <2> QED BY <1>2, <1>3, <2>3
<1>5. CASE CopyOf(inc)
  <2>1. /\ i \in DOMAIN rows /\ inc.key = rows[i].key /\ DOMAIN rows' = DOMAIN rows
    BY <1>1, <1>2, <1>5 DEF CopyOf
  <2>2. /\ Keeps /\ Sane(inc) /\ Sane(rows[i])
        /\ acks' = acks \/ (acks' = acks \cup {i} /\ Acknowledged(inc))
    BY <1>1, <2>1, AckRows, WriteKeeps DEF Writes, SaneInv
  <2>3. i \in Answered => inc.key \in SwappedKeys /\ Acknowledged(inc)
    BY <1>2, <2>1, <2>2 DEF Answered, Keeps
  <2>4. i \in Confirmed => inc.key \in SwappedKeys /\ i \in acks'
    BY <2>1, <2>2 DEF Confirmed
  <2>5. /\ Confirmed' \in {Confirmed, Confirmed \cup {i}}
        /\ ~(inc.key \in SwappedKeys /\ Acknowledged(inc)) => Confirmed' = Confirmed
    <3>1. ~(inc.key \in SwappedKeys /\ i \in acks') => i \notin Confirmed
      BY <2>4
    <3>2. inc.key \in SwappedKeys /\ i \in acks' /\ ~Acknowledged(inc) => i \in Confirmed
      BY <2>1, <2>2 DEF Confirmed
    <3> QED BY <1>2, <3>1, <3>2
  <2>6. CASE i \in Answered
    <3>1. i \notin GivenUp /\ inc.closed # "gave-up"
      BY <2>1, <2>2, <2>3, <2>6 DEF Answered, GivenUp, Sane
    <3>2. Answered' = Answered /\ GivenUp' = GivenUp
      BY <1>2, <2>3, <2>6, <3>1
    <3>3. CASE Confirmed' = Confirmed
      BY <2>1, <3>2, <3>3 DEF Promise!vars
    <3>4. CASE Confirmed' = Confirmed \cup {i}
      <4>1. Promise!Confirm(i)
        BY <2>1, <2>6, <3>2, <3>4 DEF Promise!Confirm
      <4> QED BY <1>2, <1>3, <4>1
    <3> QED BY <2>5, <3>3, <3>4
  <2>7. CASE i \notin Answered /\ inc.key \in SwappedKeys /\ Acknowledged(inc)
    <3>1. Answered' = Answered \cup {i} /\ GivenUp' = GivenUp \ {i}
      BY <1>2, <2>2, <2>7 DEF Sane
    <3>2. Promise!Answer(i)
      BY <2>1, <2>5, <2>7, <3>1 DEF Promise!Answer
    <3> QED BY <1>2, <1>3, <3>2
  <2>8. CASE i \notin Answered /\ ~(inc.key \in SwappedKeys /\ Acknowledged(inc))
    <3>1. Answered' = Answered /\ Confirmed' = Confirmed
      BY <1>2, <2>5, <2>8
    <3>2. CASE inc.closed = "gave-up"
      <4>1. GivenUp' = GivenUp \cup {i}
        BY <1>2, <3>2
      <4>2. told[i] > 0
        BY <1>2, <3>2 DEF GaveUpAfterTelling
      <4>3. Promise!GiveUp(i)
        BY <2>1, <2>8, <3>1, <4>1, <4>2 DEF Promise!GiveUp
      <4> QED BY <1>2, <1>3, <4>3
    <3>3. CASE inc.closed # "gave-up" /\ i \in GivenUp
      <4>1. GivenUp' = GivenUp \ {i}
        BY <1>2, <3>3
      <4>2. Promise!Overtake(i)
        BY <2>1, <3>1, <3>3, <4>1 DEF Promise!Overtake
      <4> QED BY <1>2, <1>3, <4>2
    <3>4. CASE inc.closed # "gave-up" /\ i \notin GivenUp
      <4>1. GivenUp' = GivenUp
        BY <1>2, <3>4
      <4> QED BY <2>1, <3>1, <4>1 DEF Promise!vars
    <3> QED BY <3>2, <3>3, <3>4
  <2> QED BY <2>6, <2>7, <2>8
<1>6. CopyOf(inc) \/ (NewOK(inc) /\ inc.closed = "no")
  BY DEF Writes, SwapOK, CloseOK
<1> QED BY <1>4, <1>5, <1>6

\* What no write has touched a person sees as it was.
LEMMA SeenAsBefore ==
  ASSUME UNCHANGED <<rows, acks>>
  PROVE  UNCHANGED <<DOMAIN rows, Answered, Confirmed, GivenUp>>
BY SameKeys DEF Answered, Confirmed, GivenUp, Acknowledged

LEMMA PromiseStep ==
  TypeOK /\ AckInv /\ SaneInv /\ SaneInv' /\ GaveUpAfterTelling' /\ [Next]_vars
    => [Promise!Next]_(Promise!vars)
<1> SUFFICES ASSUME TypeOK, AckInv, SaneInv, SaneInv', GaveUpAfterTelling', [Next]_vars
             PROVE  [Promise!Next]_(Promise!vars)
  OBVIOUS
<1>1. CASE DeliverySucceeds
  <2>1. PICK i \in DOMAIN rows : told' = [told EXCEPT ![i] = @ + 1]
    BY <1>1, DeliveryRows
  <2>2. UNCHANGED <<DOMAIN rows, Answered, Confirmed, GivenUp>> /\ i \in Ids
    BY <1>1, DeliveryRows, SeenAsBefore DEF TypeOK, TablesOK
  <2>3. Promise!Tell(i)
    BY <2>1, <2>2 DEF Promise!Tell
  <2> QED BY <2>2, <2>3 DEF Promise!Next
<1>2. CASE RowStep
  <2>1. CASE UNCHANGED <<rows, acks>>
    <3>1. UNCHANGED <<DOMAIN rows, Answered, Confirmed, GivenUp>> /\ told' = told
      BY <1>2, <2>1, SeenAsBefore DEF RowStep
    <3> QED BY <3>1 DEF Promise!vars
  <2>2. CASE \E inc \in Incidents, e \in Nat : Writes(inc, e)
    BY <1>2, <2>2, WriteShows DEF RowStep
  <2> QED BY <1>2, <2>1, <2>2 DEF RowStep
<1>3. CASE ~DeliverySucceeds
  <2>1. RowStep
    BY <1>3, HandlerRows, PersonRows, ScheduleRows, StillRows DEF Next
  <2> QED BY <1>2, <2>1
<1> QED BY <1>1, <1>3

\* The incident lifecycle implements what a person relies on: of the keys written by
\* swapping an answer stands, from the write that stores it, whatever handlers, the
\* scheduler and other people wrote of stale copies and over any crash; and no incident is
\* given up that was answered, or that nobody was told of.
THEOREM AnswersSafe == Spec => AnswersStand
<1>1. Init => Promise!Init
  <2> SUFFICES ASSUME Init PROVE Promise!Init
    OBVIOUS
  <2>1. DOMAIN rows = {} /\ acks = {} /\ told = [i \in Ids |-> 0]
    BY DEF Init
  <2> QED BY <2>1 DEF Promise!Init, Answered, Confirmed, GivenUp
<1> QED
  BY <1>1, TypeSafe, AckInit, AckNext, SaneInit, SaneNext, GiveUpSafe, PromiseStep, PTL
  DEF Spec, AnswersStand, Promise!Spec
=============================================================================
