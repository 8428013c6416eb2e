---------------------- MODULE IncidentLifecycle_proofs ----------------------
(***************************************************************************)
(* What holds of the life of an incident for every number of goroutines,   *)
(* every input, every policy and every bound.                              *)
(***************************************************************************)
EXTENDS IncidentLifecycle, EscalationPolicy_proofs

-----------------------------------------------------------------------------
(* Types *)

\* A write puts a well-formed row under its own id, and loses none.
LEMMA PutType ==
  ASSUME NEW table, NEW inc \in Incidents,
         DOMAIN table \subseteq Ids, table \in [DOMAIN table -> Incidents],
         \A i \in DOMAIN table : table[i].id = i
  PROVE  /\ DOMAIN Put(table, inc) = DOMAIN table \cup {inc.id}
         /\ DOMAIN Put(table, inc) \subseteq Ids
         /\ Put(table, inc) \in [DOMAIN Put(table, inc) -> Incidents]
         /\ \A i \in DOMAIN Put(table, inc) : Put(table, inc)[i].id = i
<1>1. inc.id \in Ids
  BY DEF Incidents
<1> QED BY <1>1 DEF Put

\* The state of a goroutine between two pieces of work.
LEMMA IdleType ==
  /\ Idle \in States /\ Idle.pc = "idle" /\ Idle.stamp = 0 /\ Idle.tries = 0
  /\ HandlerOK(Idle)
  /\ \A known : PersonOK(Idle, known) /\ SchedulerOK(Idle, known)
<1>1. Idle \in States /\ Idle.pc = "idle" /\ Idle.stamp = 0 /\ Idle.tries = 0
  <2>1. Idle.pc = "idle" /\ Idle.stamp = 0 /\ Idle.tries = 0
    BY DEF Idle, Unset
  <2>2. Idle \in [pc : {"idle"}, stamp : Nat, expect : Nat, tries : Nat,
                  copy : {None}, job : {None}]
    BY DEF Idle, Unset
  <2>3. "idle" \in Places
    BY DEF Places
  <2>4. Idle \in States
    BY <2>2, <2>3 DEF States
  <2> QED BY <2>1, <2>4
<1>2. HandlerOK(Idle)
  BY <1>1 DEF HandlerOK, Writing
<1>3. \A known : PersonOK(Idle, known)
  BY <1>1 DEF PersonOK
<1>4. \A known : SchedulerOK(Idle, known)
  BY <1>1 DEF SchedulerOK
<1> QED BY <1>1, <1>2, <1>3, <1>4

\* One goroutine moves to a state its place allows; the others stay.
LEMMA OneMoves ==
  ASSUME TypeOK, NEW p \in Procs, NEW st \in States,
         proc' = [proc EXCEPT ![p] = st],
         clock' \in Nat, clock <= clock', DOMAIN rows \subseteq DOMAIN rows',
         st.stamp <= clock', st.tries < Attempts,
         p \in Handlers => HandlerOK(st),
         p \in People => PersonOK(st, DOMAIN rows'),
         p = Scheduler => SchedulerOK(st, DOMAIN rows')
  PROVE  ProcsOK'
<1>1. proc \in [Procs -> States] /\ clock \in Nat
  BY BoundsAssumption DEF TypeOK, ProcsOK
<1>2. proc' \in [Procs -> States]
  BY <1>1
<1>3. /\ proc'[p] = st
      /\ \A q \in Procs : q # p => proc'[q] = proc[q]
  BY <1>1
<1>4. \A q \in Procs : proc[q].stamp \in Nat
  BY <1>1 DEF States
<1>5. \A q \in Procs : proc'[q].stamp <= clock' /\ proc'[q].tries < Attempts
  BY <1>1, <1>3, <1>4 DEF TypeOK, ProcsOK
<1>6. \A h \in Handlers : HandlerOK(proc'[h])
  BY <1>3 DEF TypeOK, ProcsOK, Procs
<1>7. \A q \in People : PersonOK(proc'[q], DOMAIN rows')
  <2>1. \A q \in People : PersonOK(proc[q], DOMAIN rows) => PersonOK(proc[q], DOMAIN rows')
    BY DEF PersonOK
  <2> QED BY <1>3, <2>1 DEF TypeOK, ProcsOK, Procs
<1>8. SchedulerOK(proc'[Scheduler], DOMAIN rows')
  <2>1. SchedulerOK(proc[Scheduler], DOMAIN rows) => SchedulerOK(proc[Scheduler], DOMAIN rows')
    BY DEF SchedulerOK
  <2> QED BY <1>3, <2>1 DEF TypeOK, ProcsOK, Procs
<1> QED BY <1>2, <1>5, <1>6, <1>7, <1>8 DEF ProcsOK

LEMMA InitType == Init => TypeOK
<1> SUFFICES ASSUME Init PROVE TypeOK
  OBVIOUS
<1> USE DEF Init
<1>1. TablesOK
  BY DEF TablesOK
<1>2. ProcsOK
  <2>1. proc \in [Procs -> States] /\ \A p \in Procs : proc[p] = Idle
    BY IdleType
  <2>2. Handlers \subseteq Procs /\ People \subseteq Procs /\ Scheduler \in Procs
    BY DEF Procs
  <2> QED BY <2>1, <2>2, IdleType, BoundsAssumption DEF ProcsOK
<1>3. HistoryOK
  BY DEF HistoryOK
<1> QED BY <1>1, <1>2, <1>3, BoundsAssumption DEF TypeOK

\* A step that touches no table and no history.
LEMMA Frame ==
  ASSUME TypeOK, ProcsOK', UNCHANGED <<tables, history, nextId, crashes>>,
         clock' \in 0 .. Horizon, pending' \subseteq Incidents,
         \A inc \in pending' : inc.id \in DOMAIN rows
  PROVE  TypeOK'
BY DEF TypeOK, TablesOK, HistoryOK, tables, history

\* Reading the clock, or not.
LEMMA ClockType ==
  ASSUME TypeOK, ReadClock \/ UNCHANGED clock
  PROVE  clock' \in 0 .. Horizon /\ clock' \in Nat /\ clock \in Nat /\ clock <= clock'
BY BoundsAssumption DEF TypeOK, ReadClock

\* What a goroutine holds before it moves.
LEMMA Before ==
  ASSUME TypeOK, NEW p \in Procs
  PROVE  /\ proc[p] \in States /\ proc[p].stamp \in Nat /\ proc[p].tries \in Nat
         /\ proc[p].stamp <= clock /\ proc[p].tries < Attempts
         /\ p \in Handlers => HandlerOK(proc[p])
         /\ p \in People => PersonOK(proc[p], DOMAIN rows)
         /\ p = Scheduler => SchedulerOK(proc[p], DOMAIN rows)
BY DEF TypeOK, ProcsOK, States

LEMMA HoldingType ==
  ASSUME TypeOK, NEW p \in Procs, NEW where \in Places, NEW inc \in Incidents,
         NEW expect \in Nat
  PROVE  /\ Holding(p, where, inc, expect) \in States
         /\ Holding(p, where, inc, expect).pc = where
         /\ Holding(p, where, inc, expect).copy = inc
         /\ Holding(p, where, inc, expect).stamp = proc[p].stamp
         /\ Holding(p, where, inc, expect).tries = proc[p].tries
         /\ Holding(p, where, inc, expect).job = proc[p].job
BY Before DEF Holding, States

\* A failed attempt leads to the next one, or to the state given instead.
LEMMA RetryType ==
  ASSUME TypeOK, NEW p \in Procs, NEW where \in Places, NEW otherwise \in States,
         Retry(p, where, otherwise)
  PROVE  \E st \in States :
           /\ proc' = [proc EXCEPT ![p] = st]
           /\ \/ st = otherwise
              \/ /\ st.pc = where /\ st.job = proc[p].job
                 /\ st.stamp = proc[p].stamp /\ st.tries < Attempts
<1> DEFINE n == proc[p].tries + 1
           again == [proc[p] EXCEPT !.pc = where, !.tries = n,
                                    !.copy = None, !.expect = Unset]
<1>1. proc[p] \in States /\ proc[p].tries \in Nat
  BY Before
<1>2. CASE proc[p].tries + 1 < Attempts
  <2>1. again \in States
    <3>1. n \in Nat
      BY <1>1
    <3> HIDE DEF n
    <3> QED BY <1>1, <3>1 DEF States, Unset
  <2>2. /\ again.pc = where /\ again.job = proc[p].job
        /\ again.stamp = proc[p].stamp /\ again.tries < Attempts
    BY <1>1, <1>2 DEF States
  <2>3. proc' = [proc EXCEPT ![p] = again]
    BY <1>2 DEF Retry, Become
  <2> QED BY <2>1, <2>2, <2>3
<1>3. CASE ~(proc[p].tries + 1 < Attempts)
  <2>1. proc' = [proc EXCEPT ![p] = otherwise]
    BY <1>3 DEF Retry, Become
  <2> QED BY <2>1
<1> QED BY <1>2, <1>3

-----------------------------------------------------------------------------
(* The steps of a handler keep the types *)

LEMMA ReceiveType ==
  ASSUME TypeOK, NEW h \in Handlers, Receive(h)
  PROVE  TypeOK'
<1>1. PICK e \in Arrivals :
        Become(h, [Idle EXCEPT !.pc = "lookup", !.stamp = clock', !.job = e])
  BY DEF Receive
<1> DEFINE st == [Idle EXCEPT !.pc = "lookup", !.stamp = clock', !.job = e]
<1>2. clock' \in 0 .. Horizon /\ clock' \in Nat /\ clock \in Nat /\ clock <= clock'
  BY ClockType DEF Receive
<1>3. e \in Events
  BY InputsAssumption
<1>4. /\ st \in States /\ st.pc = "lookup" /\ st.job = e
      /\ st.stamp = clock' /\ st.tries = 0
  BY <1>2, <1>3, IdleType DEF States, Places
<1>5. UNCHANGED <<tables, history, nextId, crashes, pending>>
  BY DEF Receive
<1>6. HandlerOK(st)
  BY <1>3, <1>4 DEF HandlerOK, Writing
<1>7. ProcsOK'
  <2>1. proc' = [proc EXCEPT ![h] = st]
    BY <1>1 DEF Become
  <2>2. st.stamp <= clock' /\ st.tries < Attempts
    BY <1>2, <1>4, BoundsAssumption
  <2>3. h \in Procs /\ h \notin People /\ h # Scheduler
    BY ProcsAssumption DEF Procs
  <2>4. DOMAIN rows \subseteq DOMAIN rows'
    BY <1>5 DEF tables
  <2> HIDE DEF st
  <2> QED BY <1>2, <1>4, <1>6, <2>1, <2>2, <2>3, <2>4, OneMoves
<1> QED BY <1>2, <1>5, <1>7, Frame DEF TypeOK

\* What most steps of a handler come down to.
LEMMA HandlerMoves ==
  ASSUME TypeOK, NEW h \in Handlers, NEW st \in States,
         proc' = [proc EXCEPT ![h] = st], HandlerOK(st),
         st.stamp <= clock', st.tries < Attempts,
         clock' \in Nat, clock <= clock', DOMAIN rows \subseteq DOMAIN rows'
  PROVE  ProcsOK'
BY OneMoves, ProcsAssumption DEF Procs

LEMMA FindNothingType ==
  ASSUME TypeOK, NEW h \in Handlers, FindNothing(h)
  PROVE  TypeOK'
<1>1. clock' \in 0 .. Horizon /\ clock' \in Nat /\ clock \in Nat /\ clock <= clock'
  BY ClockType DEF FindNothing
<1>2. UNCHANGED <<tables, history, nextId, crashes, pending>>
  BY DEF FindNothing
<1>3. /\ proc[h] \in States /\ HandlerOK(proc[h]) /\ proc[h].pc = "lookup"
      /\ proc[h].stamp \in Nat /\ proc[h].stamp <= clock /\ proc[h].tries < Attempts
  BY Before DEF FindNothing, At, Procs
<1>4. proc[h].job \in Events
  BY <1>3 DEF HandlerOK
<1>5. \E s \in States : /\ proc' = [proc EXCEPT ![h] = s] /\ HandlerOK(s)
                         /\ s.stamp <= clock' /\ s.tries < Attempts
  <2>1. CASE Job(h).kind = "clear"
    <3>1. proc' = [proc EXCEPT ![h] = Idle]
      BY <2>1 DEF FindNothing, Become
    <3>2. Idle.stamp <= clock' /\ Idle.tries < Attempts
      BY <1>1, IdleType, BoundsAssumption
    <3> QED BY <3>1, <3>2, IdleType
  <2>2. CASE Job(h).kind = "fault"
    <3> DEFINE st == [proc[h] EXCEPT !.pc = "open", !.stamp = clock']
    <3>1. proc' = [proc EXCEPT ![h] = st]
      BY <2>2 DEF FindNothing, Become
    <3>2. /\ st \in States /\ st.pc = "open" /\ st.job = proc[h].job
          /\ st.stamp = clock' /\ st.tries = proc[h].tries
      BY <1>1, <1>3 DEF States, Places
    <3>3. HandlerOK(st)
      BY <1>4, <3>2 DEF HandlerOK, Writing
    <3>4. st.stamp <= clock' /\ st.tries < Attempts
      <4> HIDE DEF st
      <4> QED BY <1>1, <1>3, <3>2
    <3> HIDE DEF st
    <3> QED BY <3>1, <3>2, <3>3, <3>4
  <2>3. CASE Job(h).kind # "clear" /\ Job(h).kind # "fault"
    <3> DEFINE st == [proc[h] EXCEPT !.pc = "open"]
    <3>1. proc' = [proc EXCEPT ![h] = st] /\ clock' = clock
      BY <2>3 DEF FindNothing, Become
    <3>2. /\ st \in States /\ st.pc = "open" /\ st.job = proc[h].job
          /\ st.stamp = proc[h].stamp /\ st.tries = proc[h].tries
      BY <1>3 DEF States, Places
    <3>3. HandlerOK(st)
      BY <1>4, <3>2 DEF HandlerOK, Writing
    <3>4. st.stamp <= clock' /\ st.tries < Attempts
      <4> HIDE DEF st
      <4> QED BY <1>1, <1>3, <3>1, <3>2
    <3> HIDE DEF st
    <3> QED BY <3>1, <3>2, <3>3, <3>4
  <2> QED BY <2>1, <2>2, <2>3
<1>6. ProcsOK'
  BY <1>1, <1>2, <1>5, HandlerMoves DEF tables
<1> QED BY <1>1, <1>2, <1>6, Frame DEF TypeOK

\* What a handler holds after it found a live incident.
LEMMA FoldedType ==
  ASSUME TypeOK, NEW h \in Handlers, At(h, "lookup"), NEW inc \in Incidents
  PROVE  /\ Folded(h, inc) \in States /\ HandlerOK(Folded(h, inc))
         /\ Folded(h, inc).stamp <= clock /\ Folded(h, inc).tries < Attempts
         /\ Folded(h, inc).pc \in Writing => Folded(h, inc).copy.id = inc.id
<1> DEFINE e == Job(h)
           now == Now(h)
           raised == RaiseSeverity(inc, e.severity)
           folded == [raised EXCEPT !.updatedAt = now]
<1>1. /\ proc[h] \in States /\ HandlerOK(proc[h]) /\ proc[h].pc = "lookup"
      /\ now \in Nat /\ proc[h].stamp <= clock /\ proc[h].tries < Attempts
      /\ h \in Procs
  BY Before DEF At, Procs, Now
<1>2. e \in Events /\ proc[h].job = e
  BY <1>1 DEF HandlerOK, Job
<1>3. raised \in Incidents /\ raised.id = inc.id
  <2>1. e.severity \in Severities /\ "returned" \in CloseReasons
    BY <1>2 DEF Events, CloseReasons
  <2> QED BY <1>1, <2>1, OperationTypes
<1>4. /\ Resolve(inc, now) \in Incidents /\ Resolve(inc, now).id = inc.id
      /\ Close(inc, now, "returned") \in Incidents /\ Close(inc, now, "returned").id = inc.id
      /\ Close(inc, now, "reviewed") \in Incidents /\ Close(inc, now, "reviewed").id = inc.id
      /\ Occur(raised, now) \in Incidents /\ Occur(raised, now).id = inc.id
  BY <1>1, <1>2, <1>3, OperationTypes DEF Events, CloseReasons
<1>5. folded \in Incidents /\ folded.id = inc.id
  BY <1>1, <1>3 DEF Incidents
<1>6. inc.updatedAt \in Nat /\ Unset \in Nat
  BY DEF Incidents, Unset
<1>7. ASSUME NEW where \in {"put", "close", "occur"}, NEW copy \in Incidents,
             copy.id = inc.id, NEW expect \in Nat,
             Folded(h, inc) = Holding(h, where, copy, expect)
      PROVE  /\ Folded(h, inc) \in States /\ HandlerOK(Folded(h, inc))
             /\ Folded(h, inc).stamp <= clock /\ Folded(h, inc).tries < Attempts
             /\ Folded(h, inc).copy.id = inc.id
  <2> DEFINE st == Folded(h, inc)
  <2>0. where \in Places
    BY DEF Places, Writing
  <2>1. /\ st \in States /\ st.pc = where /\ st.copy = copy
        /\ st.stamp = proc[h].stamp /\ st.tries = proc[h].tries /\ st.job = e
    BY <1>1, <1>2, <1>7, <2>0, HoldingType
  <2>2. HandlerOK(st)
    <3> HIDE DEF st
    <3> QED BY <1>2, <2>1 DEF HandlerOK, Writing
  <2> HIDE DEF st
  <2>3. st.stamp <= clock /\ st.tries < Attempts /\ st.copy.id = inc.id
    BY <1>1, <1>7, <2>1
  <2> QED BY <2>1, <2>2, <2>3 DEF st
<1>8. ASSUME Folded(h, inc) = Idle
      PROVE  /\ Folded(h, inc) \in States /\ HandlerOK(Folded(h, inc))
             /\ Folded(h, inc).stamp <= clock /\ Folded(h, inc).tries < Attempts
             /\ Folded(h, inc).pc \notin Writing
  BY <1>1, <1>8, IdleType, BoundsAssumption DEF TypeOK, Writing
<1>9. \/ Folded(h, inc) = Idle
      \/ Folded(h, inc) = Holding(h, "put", Resolve(inc, now), Unset)
      \/ Folded(h, inc) = Holding(h, "close", Close(inc, now, "returned"), Unset)
      \/ Folded(h, inc) = Holding(h, "close", Close(inc, now, "reviewed"), Unset)
      \/ Folded(h, inc) = Holding(h, "occur", Occur(raised, now), inc.updatedAt)
      \/ Folded(h, inc) = Holding(h, "put", folded, Unset)
  BY DEF Folded
<1> HIDE DEF e, now, raised, folded
<1> QED BY <1>3, <1>4, <1>5, <1>6, <1>7, <1>8, <1>9

LEMMA FindLiveType ==
  ASSUME TypeOK, NEW h \in Handlers, FindLive(h)
  PROVE  TypeOK'
<1>1. UNCHANGED <<tables, history, nextId, crashes, pending, clock>> /\ At(h, "lookup")
  BY DEF FindLive
<1>2. PICK i \in LiveFor(rows, Job(h).key) : Become(h, Folded(h, rows[i]))
  BY DEF FindLive
<1>3. rows[i] \in Incidents
  BY <1>2 DEF TypeOK, TablesOK, LiveFor, Active
<1> DEFINE st == Folded(h, rows[i])
<1>4. /\ st \in States /\ HandlerOK(st) /\ st.stamp <= clock /\ st.tries < Attempts
  BY <1>1, <1>3, FoldedType
<1>5. proc' = [proc EXCEPT ![h] = st]
  BY <1>2 DEF Become
<1>6. clock' \in Nat /\ clock' = clock /\ clock <= clock' /\ DOMAIN rows \subseteq DOMAIN rows'
  BY <1>1, ClockType DEF tables
<1>7. ProcsOK'
  <2> HIDE DEF st
  <2> QED BY <1>4, <1>5, <1>6, HandlerMoves
<1> QED BY <1>1, <1>7, Frame DEF TypeOK

\* A step that may write one row and leaves the clock alone.
LEMMA WriteFrame ==
  ASSUME TypeOK, NEW inc \in Incidents, Write(inc) \/ UNCHANGED rows,
         UNCHANGED <<clock, nextId, crashes>>, pending' \subseteq pending,
         details' \in [Ids -> SUBSET Nat], acks' \subseteq DOMAIN rows',
         told' \in [Ids -> Nat],
         DOMAIN rows \subseteq DOMAIN rows' => ProcsOK'
  PROVE  TypeOK' /\ DOMAIN rows \subseteq DOMAIN rows'
<1>1. TablesOK' /\ DOMAIN rows \subseteq DOMAIN rows'
  <2>1. CASE Write(inc)
    <3>1. /\ DOMAIN rows \subseteq Ids /\ rows \in [DOMAIN rows -> Incidents]
          /\ \A i \in DOMAIN rows : rows[i].id = i
      BY DEF TypeOK, TablesOK
    <3>2. /\ DOMAIN Put(rows, inc) = DOMAIN rows \cup {inc.id}
          /\ DOMAIN Put(rows, inc) \subseteq Ids
          /\ Put(rows, inc) \in [DOMAIN Put(rows, inc) -> Incidents]
          /\ \A i \in DOMAIN Put(rows, inc) : Put(rows, inc)[i].id = i
      BY <3>1, PutType
    <3>3. rows' = Put(rows, inc)
      BY <2>1 DEF Write
    <3> QED BY <3>2, <3>3 DEF TablesOK
  <2>2. CASE UNCHANGED rows
    BY <2>2 DEF TypeOK, TablesOK
  <2> QED BY <2>1, <2>2
<1> QED BY <1>1 DEF TypeOK, HistoryOK

\* A handler that has a copy to write.
LEMMA WritingHandler ==
  ASSUME TypeOK, NEW h \in Handlers, proc[h].pc \in Writing
  PROVE  /\ h \in Procs /\ proc[h] \in States /\ HandlerOK(proc[h])
         /\ Copy(h) \in Incidents /\ Copy(h).id \in Ids /\ proc[h].job \in Events
         /\ proc[h].stamp <= clock /\ proc[h].tries < Attempts
         /\ clock \in Nat
<1>1. /\ h \in Procs /\ proc[h] \in States /\ HandlerOK(proc[h])
      /\ proc[h].stamp <= clock /\ proc[h].tries < Attempts
  BY Before DEF Procs
<1>2. Copy(h) \in Incidents /\ proc[h].job \in Events
  BY <1>1 DEF HandlerOK, Copy, Writing
<1>3. Copy(h).id \in Ids
  BY <1>2 DEF Incidents
<1> QED BY <1>1, <1>2, <1>3, BoundsAssumption DEF TypeOK

\* A handler that moves from its work to another place of the same work, or is
\* done.
LEMMA HandlerSettles ==
  ASSUME TypeOK, NEW h \in Handlers, NEW st \in States,
         proc' = [proc EXCEPT ![h] = st], UNCHANGED clock,
         \/ st = Idle
         \/ /\ st.pc \in {"lookup", "record"} /\ st.job \in Events
            /\ st.pc = "record" => st.copy \in Incidents
            /\ st.stamp <= clock /\ st.tries < Attempts,
         DOMAIN rows \subseteq DOMAIN rows'
  PROVE  ProcsOK'
<1>1. clock' \in Nat /\ clock \in Nat /\ clock <= clock' /\ clock' = clock
  BY BoundsAssumption DEF TypeOK
<1>2. HandlerOK(st)
  BY IdleType DEF HandlerOK, Writing
<1>3. st.stamp <= clock' /\ st.tries < Attempts
  BY <1>1, IdleType, BoundsAssumption
<1> QED BY <1>1, <1>2, <1>3, HandlerMoves

LEMMA PutFoldedType ==
  ASSUME TypeOK, NEW h \in Handlers, PutFolded(h)
  PROVE  TypeOK'
<1>1. Copy(h) \in Incidents
  BY WritingHandler DEF PutFolded, At, Writing
<1>2. /\ Write(Copy(h)) \/ UNCHANGED rows
      /\ proc' = [proc EXCEPT ![h] = Idle]
      /\ UNCHANGED <<details, nextId, clock, pending, history, crashes>>
  BY DEF PutFolded, Become
<1>3. DOMAIN rows \subseteq DOMAIN rows' => ProcsOK'
  BY <1>2, IdleType, HandlerSettles
<1>4. DOMAIN rows \subseteq DOMAIN rows'
  BY <1>2 DEF Write, Put
<1> QED BY <1>1, <1>2, <1>3, <1>4, WriteFrame DEF TypeOK, TablesOK, HistoryOK, history

LEMMA PutClosedType ==
  ASSUME TypeOK, NEW h \in Handlers, PutClosed(h)
  PROVE  TypeOK'
<1>1. Copy(h) \in Incidents /\ proc[h].job \in Events /\ h \in Procs
      /\ proc[h].stamp <= clock
  BY WritingHandler DEF PutClosed, At, Writing
<1>2. /\ Write(Copy(h)) /\ Retry(h, "lookup", Idle)
      /\ UNCHANGED <<details, nextId, clock, pending, history, crashes>>
  BY DEF PutClosed
<1>3. PICK st \in States :
        /\ proc' = [proc EXCEPT ![h] = st]
        /\ \/ st = Idle
           \/ /\ st.pc = "lookup" /\ st.job = proc[h].job
              /\ st.stamp = proc[h].stamp /\ st.tries < Attempts
  BY <1>1, <1>2, IdleType, RetryType DEF Places
<1>4. DOMAIN rows \subseteq DOMAIN rows'
  BY <1>2 DEF Write, Put
<1>5. ProcsOK'
  BY <1>1, <1>2, <1>3, <1>4, HandlerSettles
<1> QED BY <1>1, <1>2, <1>4, <1>5, WriteFrame DEF TypeOK, TablesOK, HistoryOK, history

LEMMA PutOccurrenceType ==
  ASSUME TypeOK, NEW h \in Handlers, PutOccurrence(h)
  PROVE  TypeOK'
<1>1. /\ Copy(h) \in Incidents /\ Copy(h).id \in Ids /\ proc[h].job \in Events
      /\ h \in Procs /\ proc[h] \in States
      /\ proc[h].stamp <= clock /\ proc[h].tries < Attempts
  BY WritingHandler DEF PutOccurrence, At, Writing
<1>2. UNCHANGED <<details, nextId, clock, pending, acks, told, crashes>>
  BY DEF PutOccurrence, history
<1>3. /\ Write(Copy(h)) \/ UNCHANGED rows
      /\ \/ proc' = [proc EXCEPT ![h] = [proc[h] EXCEPT !.pc = "record"]]
         \/ proc' = [proc EXCEPT ![h] = Idle]
         \/ Retry(h, "lookup", Idle)
  BY DEF PutOccurrence, Become
<1>4. DOMAIN rows \subseteq DOMAIN rows'
  BY <1>3 DEF Write, Put
<1>5. PICK st \in States :
        /\ proc' = [proc EXCEPT ![h] = st]
        /\ \/ st = Idle
           \/ /\ st.pc \in {"lookup", "record"} /\ st.job \in Events
              /\ st.pc = "record" => st.copy \in Incidents
              /\ st.stamp <= clock /\ st.tries < Attempts
  <2>1. CASE proc' = [proc EXCEPT ![h] = Idle]
    BY <2>1, IdleType
  <2>2. CASE proc' = [proc EXCEPT ![h] = [proc[h] EXCEPT !.pc = "record"]]
    <3> DEFINE st == [proc[h] EXCEPT !.pc = "record"]
    <3>1. /\ st \in States /\ st.pc = "record" /\ st.job = proc[h].job
          /\ st.copy = proc[h].copy /\ st.stamp = proc[h].stamp
          /\ st.tries = proc[h].tries
      BY <1>1 DEF States, Places, Writing
    <3>2. proc' = [proc EXCEPT ![h] = st]
      BY <2>2
    <3> HIDE DEF st
    <3> QED BY <1>1, <3>1, <3>2 DEF Copy
  <2>3. CASE Retry(h, "lookup", Idle)
    <3>1. PICK st \in States :
            /\ proc' = [proc EXCEPT ![h] = st]
            /\ \/ st = Idle
               \/ /\ st.pc = "lookup" /\ st.job = proc[h].job
                  /\ st.stamp = proc[h].stamp /\ st.tries < Attempts
      BY <1>1, <2>3, IdleType, RetryType DEF Places
    <3> QED BY <1>1, <3>1
  <2> QED BY <1>3, <2>1, <2>2, <2>3
<1>6. ProcsOK'
  BY <1>2, <1>4, <1>5, HandlerSettles
<1> QED BY <1>1, <1>2, <1>3, <1>4, <1>6, WriteFrame DEF TypeOK, TablesOK, HistoryOK

LEMMA BuildNewType ==
  ASSUME TypeOK, NEW h \in Handlers, BuildNew(h)
  PROVE  TypeOK'
<1>1. /\ h \in Procs /\ proc[h] \in States /\ HandlerOK(proc[h]) /\ proc[h].pc = "open"
      /\ proc[h].stamp \in Nat /\ proc[h].stamp <= clock /\ proc[h].tries < Attempts
  BY Before DEF BuildNew, At, Procs
<1>2. proc[h].job \in Events
  BY <1>1 DEF HandlerOK
<1>3. PICK inc \in NewIncidents(Job(h), Now(h)) :
        Become(h, Holding(h, "insert", inc, Unset))
  BY DEF BuildNew
<1>4. inc \in Incidents
  <2>1. /\ nextId \in Ids /\ Job(h).key \in Keys /\ Job(h).severity \in Severities
        /\ Now(h) \in Nat
    BY <1>1, <1>2 DEF BuildNew, Job, Now, Events
  <2>2. \/ inc = Open(nextId, Job(h).key, Job(h).severity, Now(h))
        \/ \E i \in DOMAIN rows : inc = Recur(rows[i], nextId, Job(h).severity, Now(h))
    BY <1>3 DEF NewIncidents, LatestFor
  <2>3. \A i \in DOMAIN rows : rows[i] \in Incidents
    BY DEF TypeOK, TablesOK
  <2> QED BY <2>1, <2>2, <2>3, NewIncidentTypes
<1> DEFINE st == Holding(h, "insert", inc, Unset)
<1>5. /\ st \in States /\ st.pc = "insert" /\ st.copy = inc /\ st.job = proc[h].job
      /\ st.stamp = proc[h].stamp /\ st.tries = proc[h].tries
  <2>1. "insert" \in Places /\ Unset \in Nat
    BY DEF Places, Writing, Unset
  <2> QED BY <1>1, <1>4, <2>1, HoldingType
<1>6. proc' = [proc EXCEPT ![h] = st]
  BY <1>3 DEF Become
<1>7. UNCHANGED <<tables, clock, pending, history, crashes>> /\ nextId' = nextId + 1
  BY DEF BuildNew
<1>8. HandlerOK(st) /\ st.stamp <= clock' /\ st.tries < Attempts
  <2> HIDE DEF st
  <2> QED BY <1>1, <1>2, <1>4, <1>5, <1>7 DEF HandlerOK, Writing
<1>9. ProcsOK'
  <2>1. clock' \in Nat /\ clock <= clock' /\ DOMAIN rows \subseteq DOMAIN rows'
    BY <1>7, BoundsAssumption DEF TypeOK, tables
  <2> HIDE DEF st
  <2> QED BY <1>5, <1>6, <1>8, <2>1, HandlerMoves
<1> QED BY <1>7, <1>9 DEF TypeOK, TablesOK, HistoryOK, tables, history

LEMMA InsertType ==
  ASSUME TypeOK, NEW h \in Handlers, Insert(h)
  PROVE  TypeOK'
<1>1. /\ Copy(h) \in Incidents /\ Copy(h).id \in Ids /\ proc[h].job \in Events
      /\ h \in Procs /\ proc[h] \in States
      /\ proc[h].stamp <= clock /\ proc[h].tries < Attempts
  BY WritingHandler DEF Insert, At, Writing
<1>2. UNCHANGED <<details, nextId, clock, pending, acks, told, crashes>>
  BY DEF Insert, history
<1>3. /\ Write(Copy(h)) \/ UNCHANGED rows
      /\ \/ proc' = [proc EXCEPT ![h] = [proc[h] EXCEPT !.pc = "record"]]
         \/ proc' = [proc EXCEPT ![h] = Idle]
         \/ Retry(h, "lookup", Idle)
  BY DEF Insert, Become
<1>4. DOMAIN rows \subseteq DOMAIN rows'
  BY <1>3 DEF Write, Put
<1>5. PICK st \in States :
        /\ proc' = [proc EXCEPT ![h] = st]
        /\ \/ st = Idle
           \/ /\ st.pc \in {"lookup", "record"} /\ st.job \in Events
              /\ st.pc = "record" => st.copy \in Incidents
              /\ st.stamp <= clock /\ st.tries < Attempts
  <2>1. CASE proc' = [proc EXCEPT ![h] = Idle]
    BY <2>1, IdleType
  <2>2. CASE proc' = [proc EXCEPT ![h] = [proc[h] EXCEPT !.pc = "record"]]
    <3> DEFINE st == [proc[h] EXCEPT !.pc = "record"]
    <3>1. /\ st \in States /\ st.pc = "record" /\ st.job = proc[h].job
          /\ st.copy = proc[h].copy /\ st.stamp = proc[h].stamp
          /\ st.tries = proc[h].tries
      BY <1>1 DEF States, Places, Writing
    <3>2. proc' = [proc EXCEPT ![h] = st]
      BY <2>2
    <3> HIDE DEF st
    <3> QED BY <1>1, <3>1, <3>2 DEF Copy
  <2>3. CASE Retry(h, "lookup", Idle)
    <3>1. PICK st \in States :
            /\ proc' = [proc EXCEPT ![h] = st]
            /\ \/ st = Idle
               \/ /\ st.pc = "lookup" /\ st.job = proc[h].job
                  /\ st.stamp = proc[h].stamp /\ st.tries < Attempts
      BY <1>1, <2>3, IdleType, RetryType DEF Places
    <3> QED BY <1>1, <3>1
  <2> QED BY <1>3, <2>1, <2>2, <2>3
<1>6. ProcsOK'
  BY <1>2, <1>4, <1>5, HandlerSettles
<1> QED BY <1>1, <1>2, <1>3, <1>4, <1>6, WriteFrame DEF TypeOK, TablesOK, HistoryOK

LEMMA AddOccurrenceType ==
  ASSUME TypeOK, NEW h \in Handlers, AddOccurrence(h)
  PROVE  TypeOK'
<1>1. /\ Copy(h) \in Incidents /\ Copy(h).id \in Ids /\ h \in Procs
      /\ proc' = [proc EXCEPT ![h] = Idle]
      /\ UNCHANGED <<rows, nextId, clock, pending, history, crashes>>
  BY WritingHandler DEF AddOccurrence, At, Writing, Become
<1>2. Copy(h).occurrences \in Nat
  BY <1>1 DEF Incidents
<1>3. details' \in [Ids -> SUBSET Nat]
  BY <1>1, <1>2 DEF AddOccurrence, TypeOK, TablesOK
<1>4. ProcsOK'
  BY <1>1, IdleType, HandlerSettles
<1> QED BY <1>1, <1>3, <1>4 DEF TypeOK, TablesOK, HistoryOK, history

LEMMA HandlerType ==
  ASSUME TypeOK, NEW h \in Handlers, Handler(h)
  PROVE  TypeOK'
BY ReceiveType, FindNothingType, FindLiveType, PutFoldedType, PutClosedType,
   PutOccurrenceType, BuildNewType, InsertType, AddOccurrenceType DEF Handler

-----------------------------------------------------------------------------
(* The steps of the scheduler keep the types *)

\* The scheduler moves to a state its place allows.
LEMMA SchedulerMoves ==
  ASSUME TypeOK, NEW st \in States, proc' = [proc EXCEPT ![Scheduler] = st],
         clock' \in Nat, clock <= clock', DOMAIN rows \subseteq DOMAIN rows',
         st.stamp <= clock', st.tries < Attempts, SchedulerOK(st, DOMAIN rows')
  PROVE  ProcsOK'
BY OneMoves, ProcsAssumption DEF Procs

LEMMA SchedulerBefore ==
  ASSUME TypeOK
  PROVE  /\ proc[Self] \in States /\ proc[Self].stamp \in Nat
         /\ proc[Self].stamp <= clock /\ proc[Self].tries < Attempts
         /\ SchedulerOK(proc[Self], DOMAIN rows)
         /\ clock \in Nat /\ clock <= clock /\ Self = Scheduler /\ Scheduler \in Procs
BY Before, BoundsAssumption DEF Procs, Self, TypeOK

LEMMA SettledType ==
  ASSUME TypeOK
  PROVE  /\ Settled \in States /\ Settled.pc = "next" /\ Settled.tries = 0
         /\ Settled.stamp = proc[Self].stamp
         /\ \A known : SchedulerOK(Settled, known)
<1>1. /\ Settled \in States /\ Settled.pc = "next" /\ Settled.tries = 0
      /\ Settled.stamp = proc[Self].stamp
  BY SchedulerBefore, IdleType DEF Settled, Now, States, Places
<1> QED BY <1>1 DEF SchedulerOK

LEMMA TickType ==
  ASSUME TypeOK, Tick
  PROVE  TypeOK'
<1> DEFINE st == [Idle EXCEPT !.pc = "scan", !.stamp = clock']
<1>1. clock' \in 0 .. Horizon /\ clock' \in Nat /\ clock \in Nat /\ clock <= clock'
  BY BoundsAssumption DEF TypeOK, Tick
<1>2. st \in States /\ st.pc = "scan" /\ st.stamp = clock' /\ st.tries = 0
  BY <1>1, IdleType DEF States, Places
<1>3. proc' = [proc EXCEPT ![Scheduler] = st]
  BY DEF Tick, Become, Self
<1>4. UNCHANGED <<tables, history, nextId, crashes, pending>>
  BY DEF Tick
<1>5. ProcsOK'
  <2>1. SchedulerOK(st, DOMAIN rows')
    <3> HIDE DEF st
    <3> QED BY <1>2 DEF SchedulerOK
  <2>2. st.stamp <= clock' /\ st.tries < Attempts
    <3> HIDE DEF st
    <3> QED BY <1>1, <1>2, BoundsAssumption
  <2> HIDE DEF st
  <2> QED BY <1>1, <1>2, <1>3, <1>4, <2>1, <2>2, SchedulerMoves DEF tables
<1> QED BY <1>1, <1>4, <1>5, Frame DEF TypeOK

LEMMA ScanType ==
  ASSUME TypeOK, Scan
  PROVE  TypeOK'
<1> DEFINE st == [proc[Self] EXCEPT !.pc = "next"]
<1>1. /\ st \in States /\ st.pc = "next" /\ st.stamp = proc[Self].stamp
      /\ st.tries = proc[Self].tries
  BY SchedulerBefore DEF States, Places
<1>2. proc' = [proc EXCEPT ![Scheduler] = st]
  BY DEF Scan, Become, Self
<1>3. UNCHANGED <<tables, history, nextId, crashes, clock>>
  BY DEF Scan
<1>4. ProcsOK'
  <2>1. SchedulerOK(st, DOMAIN rows')
    <3> HIDE DEF st
    <3> QED BY <1>1 DEF SchedulerOK
  <2> HIDE DEF st
  <2> QED BY <1>1, <1>2, <1>3, <2>1, SchedulerBefore, SchedulerMoves DEF tables
<1>5. pending' \subseteq Incidents /\ \A inc \in pending' : inc.id \in DOMAIN rows
  BY DEF Scan, Active, TypeOK, TablesOK
<1> QED BY <1>3, <1>4, <1>5, Frame DEF TypeOK

\* Taking up the next incident of the pass.
LEMMA TurnType ==
  ASSUME TypeOK, NEW inc \in pending, Turn(inc), ProcsOK' \/ UNCHANGED proc
  PROVE  TypeOK'
<1>1. UNCHANGED <<tables, history, nextId, crashes, clock>> /\ pending' \subseteq pending
  BY DEF Turn
<1>2. ProcsOK'
  BY <1>1 DEF TypeOK, ProcsOK, tables
<1> QED BY <1>1, <1>2, Frame DEF TypeOK

\* A piece of work taken up for an incident of the pass.
LEMMA TaskType ==
  ASSUME TypeOK, NEW inc \in pending, HasPolicy(inc),
         NEW what \in {"deliver", "give-up"}, NEW d, d.stage \in Nat,
         d.channels \subseteq Channels,
         NEW pc \in {"deliver", "reload"}, pc = "deliver" <=> what = "deliver",
         Become(Self, [Settled EXCEPT !.pc = pc, !.job = Task(what, inc, d)]),
         UNCHANGED <<rows, clock>>
  PROVE  ProcsOK'
<1> DEFINE task == Task(what, inc, d)
           st == [Settled EXCEPT !.pc = pc, !.job = task]
<1>1. inc \in Incidents /\ inc.id \in DOMAIN rows
  BY DEF TypeOK
<1>2. task \in Tasks /\ task.inc = inc /\ task.what = what
  BY <1>1 DEF Task, Tasks
<1>3. pc \in Places
  BY DEF Places
<1>4. /\ st \in States /\ st.pc = pc /\ st.job = task
      /\ st.stamp = proc[Self].stamp /\ st.tries = 0
  <2> HIDE DEF task
  <2> QED BY <1>2, <1>3, SettledType DEF States
<1>5. proc' = [proc EXCEPT ![Scheduler] = st]
  BY DEF Become, Self
<1>6. SchedulerOK(st, DOMAIN rows')
  <2> HIDE DEF st, task
  <2> QED BY <1>1, <1>2, <1>4 DEF SchedulerOK
<1>7. st.stamp <= clock' /\ st.tries < Attempts
  <2> HIDE DEF st
  <2> QED BY <1>4, SchedulerBefore, BoundsAssumption
<1> HIDE DEF st
<1> QED BY <1>4, <1>5, <1>6, <1>7, SchedulerBefore, SchedulerMoves

LEMMA ProcessType ==
  ASSUME TypeOK, ProcessNext
  PROVE  TypeOK'
<1>1. PICK inc \in pending : \/ NotDue(inc) \/ Hold(inc)
                            \/ BeginGiveUp(inc) \/ BeginDelivery(inc)
  BY DEF ProcessNext
<1>2. CASE NotDue(inc) \/ Hold(inc)
  BY <1>2, TurnType DEF NotDue, Hold
<1>3. CASE BeginGiveUp(inc)
  <2>1. HasPolicy(inc) /\ Turn(inc) /\ UNCHANGED <<rows, clock>>
    BY <1>3 DEF BeginGiveUp, GivesUp, Turn, tables
  <2>2. ProcsOK'
    <3> DEFINE d == [stage |-> 0, channels |-> {}]
    <3>1. d.stage \in Nat /\ d.channels \subseteq Channels
      OBVIOUS
    <3>2. Become(Self, [Settled EXCEPT !.pc = "reload", !.job = Task("give-up", inc, d)])
      BY <1>3 DEF BeginGiveUp
    <3> HIDE DEF d
    <3> QED BY <2>1, <3>1, <3>2, TaskType
  <2> QED BY <2>1, <2>2, TurnType
<1>4. CASE BeginDelivery(inc)
  <2>1. Turn(inc) /\ UNCHANGED <<rows, clock>>
    BY <1>4 DEF BeginDelivery, Turn, tables
  <2>2. PICK d \in Wanted(inc, Now(Self)) :
          Become(Self, [Settled EXCEPT !.pc = "deliver", !.job = Task("deliver", inc, d)])
    BY <1>4 DEF BeginDelivery
  <2>3. HasPolicy(inc)
    BY <2>2 DEF Wanted
  <2>4. d.stage \in Nat /\ d.channels \subseteq Channels
    <3> DEFINE pol == PolicyFor[inc.severity]
    <3>1. pol \in Policies /\ pol.stages # << >>
      BY <2>3, PolicyAssumption DEF HasPolicy, Valid
    <3>2. inc \in Incidents /\ Now(Self) \in Nat
      BY SchedulerBefore DEF TypeOK, Now
    <3>3. d \in DueNow(pol, inc, Now(Self)) \cup OwedFinalDelivery(pol, inc)
      BY <2>2, <2>3 DEF Wanted
    <3> HIDE DEF pol
    <3> QED BY <3>1, <3>2, <3>3, DeliveryTypes
  <2>5. ProcsOK'
    BY <2>1, <2>2, <2>3, <2>4, TaskType
  <2> QED BY <2>1, <2>5, TurnType
<1> QED BY <1>1, <1>2, <1>3, <1>4

\* The outcome of a delivery, whatever it is, is work of the same incident.
LEMMA OutcomeType ==
  ASSUME TypeOK, At(Self, "deliver"), NEW what \in {"alert", "failure"},
         Become(Self, [proc[Self] EXCEPT !.pc = "reload", !.job.what = what]),
         UNCHANGED <<rows, clock>>
  PROVE  ProcsOK'
<1> DEFINE task == [proc[Self].job EXCEPT !.what = what]
           st == [proc[Self] EXCEPT !.pc = "reload", !.job = task]
<1>1. /\ proc[Self].job \in Tasks /\ proc[Self].job.inc.id \in DOMAIN rows
      /\ HasPolicy(proc[Self].job.inc)
  BY SchedulerBefore DEF SchedulerOK, At
<1>2. task \in Tasks /\ task.inc = proc[Self].job.inc /\ task.what = what
  BY <1>1 DEF Tasks
<1>3. /\ st \in States /\ st.pc = "reload" /\ st.job = task
      /\ st.stamp = proc[Self].stamp /\ st.tries = proc[Self].tries
  <2> HIDE DEF task
  <2> QED BY <1>2, SchedulerBefore DEF States, Places
<1>4. proc' = [proc EXCEPT ![Scheduler] = st]
  BY SchedulerBefore DEF Become, Self, States
<1>5. SchedulerOK(st, DOMAIN rows')
  <2> HIDE DEF st, task
  <2> QED BY <1>1, <1>2, <1>3 DEF SchedulerOK
<1> HIDE DEF st
<1> QED BY <1>3, <1>4, <1>5, SchedulerBefore, SchedulerMoves

LEMMA DeliveryOutcomeType ==
  ASSUME TypeOK, DeliverySucceeds \/ DeliveryFails
  PROVE  TypeOK'
<1>1. UNCHANGED <<tables, nextId, clock, pending, acks, crashes>>
  BY DEF DeliverySucceeds, DeliveryFails, history
<1>2. ProcsOK'
  BY <1>1, OutcomeType DEF DeliverySucceeds, DeliveryFails, tables
<1>3. told' \in [Ids -> Nat]
  <2>1. told \in [Ids -> Nat]
    BY DEF TypeOK, HistoryOK
  <2>2. CASE DeliverySucceeds
    <3>1. Job(Self).inc.id \in Ids
      BY <2>2, SchedulerBefore DEF DeliverySucceeds, SchedulerOK, At, Job, TypeOK, TablesOK
    <3> QED BY <2>1, <2>2, <3>1 DEF DeliverySucceeds
  <2>3. CASE DeliveryFails
    BY <2>1, <2>3 DEF DeliveryFails, history
  <2> QED BY <2>2, <2>3
<1> QED BY <1>1, <1>2, <1>3 DEF TypeOK, TablesOK, HistoryOK, tables

\* The scheduler at work on an incident it has a task for.
LEMMA AtWork ==
  ASSUME TypeOK, proc[Self].pc \in {"reload", "commit"}
  PROVE  /\ proc[Self].job \in Tasks /\ proc[Self].job.inc.id \in DOMAIN rows
         /\ HasPolicy(proc[Self].job.inc) /\ proc[Self].job.what # "deliver"
         /\ rows[proc[Self].job.inc.id] \in Incidents
         /\ rows[proc[Self].job.inc.id].id = proc[Self].job.inc.id
BY SchedulerBefore DEF SchedulerOK, TypeOK, TablesOK

LEMMA MutatedType ==
  ASSUME NEW task \in Tasks, task.what # "deliver", NEW fresh \in Incidents,
         NEW now \in Nat
  PROVE  \A inc \in Mutated(task, fresh, now) : inc \in Incidents /\ inc.id = fresh.id
<1>1. task.stage \in Nat /\ task.what \in {"alert", "failure", "give-up"}
  BY DEF Tasks
<1>2. "gave-up" \in CloseReasons
  BY DEF CloseReasons
<1>3. fresh.severity \in Severities
  BY DEF Incidents
<1>4. /\ Close(fresh, now, "gave-up") \in Incidents
      /\ Close(fresh, now, "gave-up").id = fresh.id
      /\ RecordAlert(fresh, now, task.stage) \in Incidents
      /\ RecordAlert(fresh, now, task.stage).id = fresh.id
      /\ RecordDeliveryFailure(fresh, now) \in Incidents
      /\ RecordDeliveryFailure(fresh, now).id = fresh.id
  BY ZenonT(60), <1>1, <1>2, <1>3, OperationTypes
<1> QED BY <1>1, <1>4 DEF Mutated

LEMMA ReloadType ==
  ASSUME TypeOK, Reload
  PROVE  TypeOK'
<1>1. UNCHANGED <<tables, nextId, clock, pending, history, crashes>>
  BY DEF Reload
<1> DEFINE fresh == rows[Job(Self).inc.id]
           next == Mutated(Job(Self), fresh, Now(Self))
<1>2. CASE Become(Self, Settled)
  <2>1. proc' = [proc EXCEPT ![Scheduler] = Settled]
    BY <1>2 DEF Become, Self
  <2>2. Settled.stamp <= clock' /\ Settled.tries < Attempts
    BY <1>1, SchedulerBefore, SettledType, BoundsAssumption
  <2>3. ProcsOK'
    BY <1>1, <2>1, <2>2, SchedulerBefore, SettledType, SchedulerMoves DEF tables
  <2> QED BY <1>1, <2>3, Frame DEF TypeOK
<1>3. ASSUME NEW inc \in next,
             Become(Self, Holding(Self, "commit", inc, fresh.updatedAt))
      PROVE  TypeOK'
  <2> DEFINE st == Holding(Self, "commit", inc, fresh.updatedAt)
  <2>1. /\ proc[Self].job \in Tasks /\ proc[Self].job.inc.id \in DOMAIN rows
        /\ HasPolicy(proc[Self].job.inc) /\ proc[Self].job.what # "deliver"
        /\ fresh \in Incidents /\ fresh.id = proc[Self].job.inc.id
    BY AtWork DEF Reload, At, Job
  <2>2. inc \in Incidents /\ inc.id = proc[Self].job.inc.id
    BY <2>1, MutatedType, SchedulerBefore DEF Job, Now
  <2>3. fresh.updatedAt \in Nat /\ "commit" \in Places /\ Self \in Procs
    BY <2>1, SchedulerBefore DEF Incidents, Places
  <2>4. /\ st \in States /\ st.pc = "commit" /\ st.copy = inc
        /\ st.stamp = proc[Self].stamp /\ st.tries = proc[Self].tries
        /\ st.job = proc[Self].job
    BY <2>2, <2>3, HoldingType
  <2>5. proc' = [proc EXCEPT ![Scheduler] = st]
    BY <1>3 DEF Become, Self
  <2>6. SchedulerOK(st, DOMAIN rows')
    <3> HIDE DEF st
    <3> QED BY <1>1, <2>1, <2>2, <2>4 DEF SchedulerOK, tables
  <2>7. ProcsOK'
    <3> HIDE DEF st
    <3> QED BY <1>1, <2>4, <2>5, <2>6, SchedulerBefore, SchedulerMoves DEF tables
  <2> QED BY <1>1, <2>7, Frame DEF TypeOK
<1> QED BY <1>2, <1>3 DEF Reload

LEMMA CommitType ==
  ASSUME TypeOK, Commit
  PROVE  TypeOK'
<1>1. Copy(Self) \in Incidents
  BY SchedulerBefore DEF Commit, At, SchedulerOK, Copy
<1>2. /\ Write(Copy(Self)) \/ UNCHANGED rows
      /\ UNCHANGED <<details, nextId, clock, pending, history, crashes>>
      /\ Become(Self, Settled) \/ Retry(Self, "reload", Settled)
  BY DEF Commit
<1>3. DOMAIN rows \subseteq DOMAIN rows'
  BY <1>2 DEF Write, Put
<1>4. /\ proc[Self].job \in Tasks /\ proc[Self].job.inc.id \in DOMAIN rows
      /\ HasPolicy(proc[Self].job.inc) /\ proc[Self].job.what # "deliver"
  BY AtWork DEF Commit, At
<1>5. PICK st \in States :
        /\ proc' = [proc EXCEPT ![Scheduler] = st]
        /\ \/ st = Settled
           \/ /\ st.pc = "reload" /\ st.job = proc[Self].job
              /\ st.stamp = proc[Self].stamp /\ st.tries < Attempts
  <2>1. CASE Become(Self, Settled)
    BY <2>1, SettledType DEF Become, Self
  <2>2. CASE Retry(Self, "reload", Settled)
    <3>1. Self \in Procs /\ "reload" \in Places /\ Settled \in States
      BY SchedulerBefore, SettledType DEF Places
    <3> QED BY <2>2, <3>1, RetryType DEF Self
  <2> QED BY <1>2, <2>1, <2>2
<1>6. SchedulerOK(st, DOMAIN rows') /\ st.stamp <= clock' /\ st.tries < Attempts
  <2>1. CASE st = Settled
    BY <1>2, <2>1, SettledType, SchedulerBefore, BoundsAssumption
  <2>2. CASE st # Settled
    BY <1>2, <1>3, <1>4, <1>5, <2>2, SchedulerBefore DEF SchedulerOK
  <2> QED BY <2>1, <2>2
<1>7. ProcsOK'
  BY <1>2, <1>3, <1>5, <1>6, SchedulerBefore, SchedulerMoves
<1> QED BY <1>1, <1>2, <1>3, <1>7, WriteFrame DEF TypeOK, TablesOK, HistoryOK, history

LEMMA EndTickType ==
  ASSUME TypeOK, EndTick
  PROVE  TypeOK'
<1>1. /\ proc' = [proc EXCEPT ![Scheduler] = Idle]
      /\ UNCHANGED <<tables, nextId, clock, pending, history, crashes>>
  BY DEF EndTick, Become, Self
<1>2. Idle.stamp <= clock' /\ Idle.tries < Attempts
  BY <1>1, IdleType, SchedulerBefore, BoundsAssumption
<1>3. ProcsOK'
  BY <1>1, <1>2, IdleType, SchedulerBefore, SchedulerMoves DEF tables
<1> QED BY <1>1, <1>3, Frame DEF TypeOK

LEMMA ScheduleType ==
  ASSUME TypeOK, Schedule
  PROVE  TypeOK'
BY TickType, ScanType, ProcessType, DeliveryOutcomeType, ReloadType, CommitType,
   EndTickType DEF Schedule

-----------------------------------------------------------------------------
(* The steps of a person, and of the world, keep the types *)

\* A person moves to a state its place allows.
LEMMA PersonMoves ==
  ASSUME TypeOK, NEW p \in People, NEW st \in States,
         proc' = [proc EXCEPT ![p] = st], PersonOK(st, DOMAIN rows'),
         st.stamp <= clock', st.tries < Attempts,
         clock' \in Nat, clock <= clock', DOMAIN rows \subseteq DOMAIN rows'
  PROVE  ProcsOK'
BY OneMoves, ProcsAssumption DEF Procs

LEMMA AskType ==
  ASSUME TypeOK, NEW p \in People, Ask(p)
  PROVE  TypeOK'
<1>1. clock' \in 0 .. Horizon /\ clock' \in Nat /\ clock \in Nat /\ clock <= clock'
  BY ClockType DEF Ask
<1>2. UNCHANGED <<tables, history, nextId, crashes, pending>>
  BY DEF Ask
<1>3. /\ proc[p] \in States /\ PersonOK(proc[p], DOMAIN rows)
      /\ proc[p].tries < Attempts /\ p \in Procs
  BY Before DEF Procs
<1>4. PICK r \in Asked(p) :
        \/ At(p, "read") /\ Become(p, Idle)
        \/ Become(p, [proc[p] EXCEPT !.pc = "write", !.stamp = clock', !.job = r,
                         !.copy = Applied(r, rows[r.id], clock'),
                         !.expect = rows[r.id].updatedAt])
  BY DEF Ask
<1>5. r \in PersonRequests /\ r.id \in DOMAIN rows
  <2>1. At(p, "idle") \/ At(p, "read")
    BY DEF Ask
  <2>2. CASE At(p, "idle")
    BY <2>2 DEF Asked
  <2>3. CASE At(p, "read")
    BY <1>3, <2>3 DEF Asked, PersonOK, At, Job
  <2> QED BY <2>1, <2>2, <2>3
<1> DEFINE inc == rows[r.id]
           copy == Applied(r, inc, clock')
           version == inc.updatedAt
           st == [proc[p] EXCEPT !.pc = "write", !.stamp = clock', !.job = r,
                     !.copy = copy, !.expect = version]
<1>6. inc \in Incidents /\ inc.id = r.id
  BY <1>5 DEF TypeOK, TablesOK
<1>7. copy \in Incidents /\ copy.id = r.id
  <2>1. "operator" \in CloseReasons /\ inc.severity \in Severities
    BY <1>6 DEF CloseReasons, Incidents
  <2>2. /\ Close(inc, clock', "operator") \in Incidents
        /\ Close(inc, clock', "operator").id = inc.id
        /\ Acknowledge(inc, clock') \in Incidents
        /\ Acknowledge(inc, clock').id = inc.id
    <3> HIDE DEF inc
    <3> QED BY ZenonT(60), <1>1, <1>6, <2>1, OperationTypes
  <2> QED BY <1>6, <2>2 DEF Applied
<1>8. version \in Nat
  BY <1>6 DEF Incidents
<1>9. /\ st \in States /\ st.pc = "write" /\ st.job = r /\ st.copy = copy
      /\ st.stamp = clock' /\ st.tries = proc[p].tries
  <2> HIDE DEF copy, version
  <2> QED BY <1>1, <1>3, <1>5, <1>7, <1>8 DEF States, Places
<1>10. CASE Become(p, Idle)
  <2>1. proc' = [proc EXCEPT ![p] = Idle]
    BY <1>10 DEF Become
  <2>2. Idle.stamp <= clock' /\ Idle.tries < Attempts
    BY <1>1, IdleType, BoundsAssumption
  <2>3. ProcsOK'
    BY <1>1, <1>2, <2>1, <2>2, IdleType, PersonMoves DEF tables
  <2> QED BY <1>1, <1>2, <2>3, Frame DEF TypeOK
<1>11. CASE Become(p, st)
  <2>1. proc' = [proc EXCEPT ![p] = st]
    BY <1>11 DEF Become
  <2>2. st.stamp <= clock' /\ st.tries < Attempts
    <3> HIDE DEF st
    <3> QED BY <1>1, <1>3, <1>9
  <2>3. PersonOK(st, DOMAIN rows')
    <3> HIDE DEF st, copy
    <3> QED BY <1>2, <1>5, <1>7, <1>9 DEF PersonOK, tables
  <2>4. ProcsOK'
    <3> HIDE DEF st
    <3> QED BY <1>1, <1>2, <1>9, <2>1, <2>2, <2>3, PersonMoves DEF tables
  <2> QED BY <1>1, <1>2, <2>4, Frame DEF TypeOK
<1> QED BY <1>4, <1>10, <1>11

LEMMA AnswerType ==
  ASSUME TypeOK, NEW p \in People, Answer(p)
  PROVE  TypeOK'
<1>1. /\ proc[p] \in States /\ PersonOK(proc[p], DOMAIN rows)
      /\ proc[p].stamp <= clock /\ p \in Procs /\ proc[p].pc = "write"
      /\ clock \in Nat
  BY Before, BoundsAssumption DEF Procs, Answer, At, TypeOK
<1>2. /\ Copy(p) \in Incidents /\ Copy(p).id = proc[p].job.id
      /\ proc[p].job \in PersonRequests /\ proc[p].job.id \in DOMAIN rows
  BY <1>1 DEF PersonOK, Copy
<1>3. /\ UNCHANGED <<details, nextId, clock, pending, told, crashes>>
      /\ Write(Copy(p)) \/ UNCHANGED rows
      /\ acks' \subseteq acks \cup {Copy(p).id}
      /\ Become(p, Idle) \/ Retry(p, "read", Idle)
  BY DEF Answer
<1>4. DOMAIN rows \subseteq DOMAIN rows'
  BY <1>3 DEF Write, Put
<1>5. acks' \subseteq DOMAIN rows'
  BY <1>2, <1>3, <1>4 DEF TypeOK, HistoryOK
<1>6. PICK st \in States :
        /\ proc' = [proc EXCEPT ![p] = st]
        /\ \/ st = Idle
           \/ /\ st.pc = "read" /\ st.job = proc[p].job
              /\ st.stamp = proc[p].stamp /\ st.tries < Attempts
  <2>1. CASE Become(p, Idle)
    BY <2>1, IdleType DEF Become
  <2>2. CASE Retry(p, "read", Idle)
    BY <1>1, <2>2, IdleType, RetryType DEF Places
  <2> QED BY <1>3, <2>1, <2>2
<1>7. PersonOK(st, DOMAIN rows') /\ st.stamp <= clock' /\ st.tries < Attempts
  <2>1. CASE st = Idle
    BY <1>1, <1>3, <2>1, IdleType, BoundsAssumption
  <2>2. CASE st # Idle
    BY <1>1, <1>2, <1>3, <1>4, <1>6, <2>2 DEF PersonOK
  <2> QED BY <2>1, <2>2
<1>8. ProcsOK'
  <2>1. clock' \in Nat /\ clock <= clock' /\ proc' = [proc EXCEPT ![p] = st]
    BY <1>1, <1>3, <1>6
  <2> QED BY <1>4, <1>7, <2>1, PersonMoves
<1> QED BY <1>2, <1>3, <1>4, <1>5, <1>8, WriteFrame DEF TypeOK, TablesOK, HistoryOK

LEMMA CrashType ==
  ASSUME TypeOK, Crash
  PROVE  TypeOK'
<1>1. UNCHANGED <<tables, nextId, clock, history>> /\ pending' = {}
  BY DEF Crash
<1>2. ProcsOK'
  <2>1. proc' \in [Procs -> States] /\ \A p \in Procs : proc'[p] = Idle
    BY IdleType DEF Crash
  <2>2. Handlers \subseteq Procs /\ People \subseteq Procs /\ Scheduler \in Procs
    BY DEF Procs
  <2> QED BY <1>1, <2>1, <2>2, IdleType, BoundsAssumption DEF ProcsOK, TypeOK
<1>3. crashes' \in 0 .. MaxCrashes
  BY BoundsAssumption DEF Crash, TypeOK
<1> QED BY <1>1, <1>2, <1>3 DEF TypeOK, TablesOK, HistoryOK, tables, history

LEMMA ElapseType ==
  ASSUME TypeOK, Elapse
  PROVE  TypeOK'
<1>1. /\ clock' \in 0 .. Horizon /\ clock' \in Nat /\ clock \in Nat /\ clock <= clock'
      /\ UNCHANGED <<tables, nextId, proc, pending, history, crashes>>
  BY BoundsAssumption DEF TypeOK, Elapse
<1>2. ProcsOK'
  <2>1. \A p \in Procs : proc[p].stamp \in Nat
    BY Before
  <2> QED BY <1>1, <2>1 DEF TypeOK, ProcsOK, tables
<1> QED BY <1>1, <1>2, Frame DEF TypeOK

LEMMA NextType == TypeOK /\ [Next]_vars => TypeOK'
<1> SUFFICES ASSUME TypeOK, [Next]_vars PROVE TypeOK'
  OBVIOUS
<1>1. CASE Next
  BY <1>1, HandlerType, ScheduleType, AskType, AnswerType, CrashType, ElapseType
     DEF Next, Person
<1>2. CASE UNCHANGED vars
  BY <1>2 DEF vars, TypeOK, TablesOK, ProcsOK, HistoryOK
<1> QED BY <1>1, <1>2

\* The tables and what every goroutine holds are well formed in every state.
THEOREM TypeSafe == Spec => []TypeOK
BY InitType, NextType, PTL DEF Spec
=============================================================================
