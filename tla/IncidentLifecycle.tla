-------------------------- MODULE IncidentLifecycle -------------------------
(***************************************************************************)
(* The life of an incident as its four kinds of writer see it, each a      *)
(* goroutine that reads the store, decides, and writes back later:         *)
(*                                                                         *)
(*   Handlers   source goroutines and the inbound receiver, in             *)
(*              rule.Engine.Handle and RaiseInternalFor;                   *)
(*   Scheduler  the escalate.Scheduler's one goroutine, in Tick;           *)
(*   People     requests of a person: the acknowledgement link of          *)
(*              ack.Handler, and acknowledge and close on the web          *)
(*              interface.                                                 *)
(*                                                                         *)
(* Every query and every write of the store is a step of its own, so all   *)
(* of them interleave as they do in the program.  The table survives a     *)
(* crash; everything a goroutine holds does not.                           *)
(*                                                                         *)
(* Reading the clock takes an instant of its own: two readings are never   *)
(* equal (the stored layout keeps nanoseconds).  The clock stops at        *)
(* Horizon, where the scheduler alone goes on, reading the same instant.   *)
(***************************************************************************)
EXTENDS IncidentStore, EscalationPolicy, FiniteSets

CONSTANTS Handlers, People, Scheduler,  \* the goroutines
          Arrivals,        \* what sources may report: [kind, key, severity]
          Requests,        \* what a person may ask: subset of RequestKinds
          PolicyFor,       \* severity -> policy; a severity may have none
          Momentary,       \* keys whose condition is momentary
          QuietTimes,      \* instants inside the quiet hours
          DeadChannels,    \* channels that never accept a message
          Attempts,        \* createAttempts, commitAttempts, ackRetries: 3
          MaxOccurrences,  \* occurrences kept in full: 100
          Horizon,         \* bound: the last instant
          MaxCrashes,      \* bound: how often the process may be killed
          None             \* no copy held, no work in hand

ArrivalKinds == {"alarm", "occurrence", "clear", "fault"}
RequestKinds == {"link", "web", "close"}
Procs == Handlers \cup People \cup {Scheduler}

Events == [kind : ArrivalKinds, key : Keys, severity : Severities]
PersonRequests == [kind : RequestKinds, id : Ids]
Tasks == [what : {"deliver", "alert", "failure", "give-up"}, inc : Incidents,
          stage : Nat, channels : SUBSET Channels]

ASSUME ProcsAssumption ==
  /\ Scheduler \notin Handlers \cup People
  /\ Handlers \cap People = {}
  /\ IsFiniteSet(Handlers)

ASSUME BoundsAssumption ==
  /\ Horizon \in Nat /\ MaxCrashes \in Nat
  /\ Attempts \in Nat \ {0} /\ MaxOccurrences \in Nat \ {0}
  /\ Ids \subseteq Nat \ {0}

ASSUME InputsAssumption ==
  /\ Arrivals \subseteq Events
  /\ Requests \subseteq RequestKinds
  /\ Severities \subseteq 1 .. Critical
  /\ Momentary \subseteq Keys

ASSUME PolicyAssumption ==
  /\ DOMAIN PolicyFor \subseteq Severities
  /\ \A s \in DOMAIN PolicyFor :
       PolicyFor[s] \in Policies /\ Valid(PolicyFor[s], s)

ASSUME NoneAssumption == None \notin Incidents \cup Events \cup PersonRequests \cup Tasks

VARIABLES
  rows,      \* the incidents table
  details,   \* the occurrences table: id -> sequence numbers stored in full
  nextId,    \* the next fresh id (ids are random, so never reused)
  clock,     \* the last instant read
  proc,      \* what each goroutine holds
  pending,   \* the incidents of the scan the scheduler has yet to process
  acks,      \* history: ids whose acknowledgement was reported as recorded
  told,      \* history: id -> deliveries at least one channel accepted
  crashes

tables == <<rows, details>>
history == <<acks, told>>
vars == <<rows, details, nextId, clock, proc, pending, acks, told,
          crashes>>

\* stamp is the `now' the goroutine captured, copy the incident it read and
\* changed in memory, expect the updated_at it read, tries the failed attempts.
Idle == [pc |-> "idle", stamp |-> Unset, copy |-> None, expect |-> Unset,
         tries |-> 0, job |-> None]

Init ==
  /\ rows = << >> /\ details = [i \in Ids |-> {}]
  /\ nextId = 1 /\ clock = 0 /\ crashes = 0
  /\ proc = [p \in Procs |-> Idle]
  /\ pending = {}
  /\ acks = {} /\ told = [i \in Ids |-> 0]

-----------------------------------------------------------------------------
\* Steps shared by all goroutines.

Become(p, state) == proc' = [proc EXCEPT ![p] = state]
At(p, where) == proc[p].pc = where
Job(p) == proc[p].job
Now(p) == proc[p].stamp
Copy(p) == proc[p].copy

Holding(p, where, inc, expect) ==
  [proc[p] EXCEPT !.pc = where, !.copy = inc, !.expect = expect]

\* A read of the clock by anyone but the scheduler.
ReadClock == clock < Horizon /\ clock' = clock + 1

\* Mutant: one attempt too many.
RetryOnceMore(p, where, otherwise) ==
  Become(p, IF proc[p].tries < Attempts
              THEN [proc[p] EXCEPT !.pc = where, !.tries = @ + 1,
                                   !.copy = None, !.expect = Unset]
              ELSE otherwise)

\* One more attempt failed: begin the next one, or give up with an error.
Retry(p, where, otherwise) ==
  Become(p, IF proc[p].tries + 1 < Attempts
              THEN [proc[p] EXCEPT !.pc = where, !.tries = @ + 1,
                                   !.copy = None, !.expect = Unset]
              ELSE otherwise)

Write(inc) == rows' = Put(rows, inc)

-----------------------------------------------------------------------------
\* The rule engine, handling an event that no rule ignores.

Receive(h) ==
  /\ At(h, "idle")
  /\ ReadClock
  /\ \E e \in Arrivals :
       Become(h, [Idle EXCEPT !.pc = "lookup", !.stamp = clock', !.job = e])
  /\ UNCHANGED <<tables, nextId, pending, history, crashes>>

\* OpenByDedupKey found nothing: a clear is dropped, anything else opens.
\* RaiseInternalFor reads the clock again only here.
FindNothing(h) ==
  /\ At(h, "lookup")
  /\ LiveFor(rows, Job(h).key) = {}
  /\ CASE Job(h).kind = "clear" -> Become(h, Idle) /\ UNCHANGED clock
       [] Job(h).kind = "fault" ->
            /\ ReadClock
            /\ Become(h, [proc[h] EXCEPT !.pc = "open", !.stamp = clock'])
       [] OTHER -> /\ Become(h, [proc[h] EXCEPT !.pc = "open"])
                   /\ UNCHANGED clock
  /\ UNCHANGED <<tables, nextId, pending, history, crashes>>

\* What handle does with the live incident it found: the state the handler is
\* in next, holding the copy it is about to write.
Folded(h, inc) ==
  LET e      == Job(h)
      now    == Now(h)
      raised == RaiseSeverity(inc, e.severity)
  IN  CASE e.kind = "clear" -> Holding(h, "put", Resolve(inc, now), Unset)
        [] e.kind = "fault" -> Idle
        [] e.kind \in {"alarm", "occurrence"} /\ Unanswered(inc) ->
             Holding(h, "close", Close(inc, now, "returned"), Unset)
        [] e.kind = "occurrence" /\ Acknowledged(inc) ->
             Holding(h, "close", Close(inc, now, "reviewed"), Unset)
        [] e.kind = "occurrence" /\ ~Unanswered(inc) /\ ~Acknowledged(inc) ->
             Holding(h, "occur", Occur(raised, now), inc.updatedAt)
        [] e.kind = "alarm" /\ ~Unanswered(inc) /\ raised # inc ->
             Holding(h, "put", [raised EXCEPT !.updatedAt = now], Unset)
        [] OTHER -> Idle

FindLive(h) ==
  /\ At(h, "lookup")
  /\ \E i \in LiveFor(rows, Job(h).key) : Become(h, Folded(h, rows[i]))
  /\ UNCHANGED <<tables, nextId, clock, pending, history, crashes>>

\* The plain Put of resolve and of update.
PutFolded(h) ==
  /\ At(h, "put")
  /\ IF ActiveExists(rows, Copy(h)) THEN UNCHANGED rows ELSE Write(Copy(h))
  /\ Become(h, Idle)
  /\ UNCHANGED <<details, nextId, clock, pending, history, crashes>>

\* The plain Put that closes what the arrival cannot join, then looks again.
PutClosed(h) ==
  /\ At(h, "close")
  /\ Write(Copy(h))
  /\ Retry(h, "lookup", Idle)
  /\ UNCHANGED <<details, nextId, clock, pending, history, crashes>>

\* The compare-and-swap of occur.
PutOccurrence(h) ==
  /\ At(h, "occur")
  /\ \/ /\ Unchanged(rows, Copy(h), proc[h].expect)
        /\ ~ActiveExists(rows, Copy(h))
        /\ Write(Copy(h))
        /\ Become(h, [proc[h] EXCEPT !.pc = "record"])
     \/ /\ Unchanged(rows, Copy(h), proc[h].expect)
        /\ ActiveExists(rows, Copy(h))
        /\ Become(h, Idle)
        /\ UNCHANGED rows
     \/ /\ ~Unchanged(rows, Copy(h), proc[h].expect)
        /\ Retry(h, "lookup", Idle)
        /\ UNCHANGED rows
  /\ UNCHANGED <<details, nextId, clock, pending, history, crashes>>

\* LatestByDedupKey and what is built from its answer: a recurrence linked to
\* a terminal predecessor, or an unlinked incident.
NewIncidents(e, now) ==
  LET latest == LatestFor(rows, e.key)
      ended  == {i \in latest : Terminal(rows[i])}
  IN  {Recur(rows[i], nextId, e.severity, now) : i \in ended}
        \cup (IF latest # {} /\ latest = ended THEN {}
              ELSE {Open(nextId, e.key, e.severity, now)})

\* Ids bounds how many incidents are ever built.
BuildNew(h) ==
  /\ At(h, "open")
  /\ nextId \in Ids
  /\ nextId' = nextId + 1
  /\ \E inc \in NewIncidents(Job(h), Now(h)) :
       Become(h, Holding(h, "insert", inc, Unset))
  /\ UNCHANGED <<tables, clock, pending, history, crashes>>

\* The Put of the new incident.  A lost race is retried by Handle and is an
\* error of RaiseInternalFor.
Insert(h) ==
  /\ At(h, "insert")
  /\ IF ActiveExists(rows, Copy(h))
       THEN /\ IF Job(h).kind = "fault" THEN Become(h, Idle)
                                       ELSE Retry(h, "lookup", Idle)
            /\ UNCHANGED rows
       ELSE /\ Write(Copy(h))
            /\ Become(h, IF Job(h).kind = "occurrence"
                           THEN [proc[h] EXCEPT !.pc = "record"] ELSE Idle)
  /\ UNCHANGED <<details, nextId, clock, pending, history, crashes>>

\* Mutant: nothing is pruned.
AddUnpruned(h) ==
  /\ At(h, "record")
  /\ details' = [details EXCEPT ![Copy(h).id] = @ \cup {Copy(h).occurrences}]
  /\ Become(h, Idle)
  /\ UNCHANGED <<rows, nextId, clock, pending, history, crashes>>

\* AddOccurrence: replace the row of that number, prune the oldest.
AddOccurrence(h) ==
  /\ At(h, "record")
  /\ LET seq == Copy(h).occurrences
     IN  details' = [details EXCEPT ![Copy(h).id] =
                       {n \in @ \cup {seq} : n > seq - MaxOccurrences}]
  /\ Become(h, Idle)
  /\ UNCHANGED <<rows, nextId, clock, pending, history, crashes>>

Handler(h) == \/ Receive(h) \/ FindNothing(h) \/ FindLive(h)
              \/ PutFolded(h) \/ PutClosed(h) \/ PutOccurrence(h)
              \/ BuildNew(h) \/ Insert(h) \/ AddOccurrence(h)

-----------------------------------------------------------------------------
\* The scheduler.  One `now' serves the whole pass, and each incident is judged
\* as the scan found it.

Self == Scheduler

Tick ==
  /\ At(Self, "idle")
  /\ clock' = IF clock < Horizon THEN clock + 1 ELSE clock
  /\ Become(Self, [Idle EXCEPT !.pc = "scan", !.stamp = clock'])
  /\ UNCHANGED <<tables, nextId, pending, history, crashes>>

Scan ==
  /\ At(Self, "scan")
  /\ pending' = {rows[i] : i \in Active(rows)}
  /\ Become(Self, [proc[Self] EXCEPT !.pc = "next"])
  /\ UNCHANGED <<tables, nextId, clock, history, crashes>>

\* Active's order: oldest first.
Turn(inc) ==
  /\ At(Self, "next")
  /\ inc \in pending
  /\ \A other \in pending : inc.openedAt <= other.openedAt
  /\ pending' = pending \ {inc}
  /\ UNCHANGED <<tables, nextId, clock, history, crashes>>

HasPolicy(inc) == inc.severity \in DOMAIN PolicyFor
GivesUp(inc, now) == HasPolicy(inc) /\ ShouldGiveUp(PolicyFor[inc.severity], inc, now)

\* The delivery the incident wants now: by its ladder, or the one owed to a
\* momentary condition that cleared before anybody was told.
Wanted(inc, now) ==
  LET pol == PolicyFor[inc.severity]
      due == DueNow(pol, inc, now)
  IN  IF ~HasPolicy(inc) THEN {}
      ELSE IF due = {} /\ inc.key \in Momentary THEN OwedFinalDelivery(pol, inc)
      ELSE due

Quiet(inc, now) ==
  HasPolicy(inc) /\ PolicyFor[inc.severity].respectsQuiet /\ now \in QuietTimes

\* The scheduler between two incidents of a pass.
Settled == [Idle EXCEPT !.pc = "next", !.stamp = Now(Self)]

Task(what, inc, d) ==
  [what |-> what, inc |-> inc, stage |-> d.stage, channels |-> d.channels]

NotDue(inc) ==
  /\ Turn(inc)
  /\ ~GivesUp(inc, Now(Self))
  /\ Wanted(inc, Now(Self)) = {}
  /\ UNCHANGED proc

Hold(inc) ==
  /\ Turn(inc)
  /\ ~GivesUp(inc, Now(Self))
  /\ Wanted(inc, Now(Self)) # {}
  /\ Quiet(inc, Now(Self))
  /\ UNCHANGED proc

BeginGiveUp(inc) ==
  /\ Turn(inc)
  /\ GivesUp(inc, Now(Self))
  /\ Become(Self, [Settled EXCEPT !.pc = "reload",
                      !.job = Task("give-up", inc, [stage |-> 0, channels |-> {}])])

BeginDelivery(inc) ==
  /\ Turn(inc)
  /\ ~GivesUp(inc, Now(Self))
  /\ ~Quiet(inc, Now(Self))
  /\ \E d \in Wanted(inc, Now(Self)) :
       Become(Self, [Settled EXCEPT !.pc = "deliver", !.job = Task("deliver", inc, d)])

\* Deliver succeeds when at least one channel of the stage accepts.
DeliverySucceeds ==
  /\ At(Self, "deliver")
  /\ Job(Self).channels \ DeadChannels # {}
  /\ told' = [told EXCEPT ![Job(Self).inc.id] = @ + 1]
  /\ Become(Self, [proc[Self] EXCEPT !.pc = "reload", !.job.what = "alert"])
  /\ UNCHANGED <<tables, nextId, clock, pending, acks, crashes>>

DeliveryFails ==
  /\ At(Self, "deliver")
  /\ Become(Self, [proc[Self] EXCEPT !.pc = "reload", !.job.what = "failure"])
  /\ UNCHANGED <<tables, nextId, clock, pending, history, crashes>>

\* Mutant: a failed delivery counts as an alert.
MutatedAsAlert(task, fresh, now) ==
  CASE task.what = "give-up" ->
         IF ShouldGiveUp(PolicyFor[task.inc.severity], fresh, now)
           THEN {Close(fresh, now, "gave-up")} ELSE {}
    [] OTHER -> IF Terminal(fresh) THEN {} ELSE {RecordAlert(fresh, now, task.stage)}

\* The mutate argument of commit: what to write over a fresh copy, if anything.
\* Giving up is re-judged by the policy chosen from the scan.
Mutated(task, fresh, now) ==
  CASE task.what = "give-up" ->
         IF ShouldGiveUp(PolicyFor[task.inc.severity], fresh, now)
           THEN {Close(fresh, now, "gave-up")} ELSE {}
    [] task.what = "alert" ->
         IF Terminal(fresh) THEN {} ELSE {RecordAlert(fresh, now, task.stage)}
    [] task.what = "failure" -> {RecordDeliveryFailure(fresh, now)}

\* commit: read a fresh copy, then compare-and-swap, at most Attempts times.
Reload ==
  /\ At(Self, "reload")
  /\ LET fresh == rows[Job(Self).inc.id]
         next  == Mutated(Job(Self), fresh, Now(Self))
     IN  \/ next = {} /\ Become(Self, Settled)
         \/ \E inc \in next :
              Become(Self, Holding(Self, "commit", inc, fresh.updatedAt))
  /\ UNCHANGED <<tables, nextId, clock, pending, history, crashes>>

Commit ==
  /\ At(Self, "commit")
  /\ \/ /\ Unchanged(rows, Copy(Self), proc[Self].expect)
        /\ IF ActiveExists(rows, Copy(Self)) THEN UNCHANGED rows
                                             ELSE Write(Copy(Self))
        /\ Become(Self, Settled)
     \/ /\ ~Unchanged(rows, Copy(Self), proc[Self].expect)
        /\ Retry(Self, "reload", Settled)
        /\ UNCHANGED rows
  /\ UNCHANGED <<details, nextId, clock, pending, history, crashes>>

EndTick ==
  /\ At(Self, "next")
  /\ pending = {}
  /\ Become(Self, Idle)
  /\ UNCHANGED <<tables, nextId, clock, pending, history, crashes>>

ProcessNext == \E inc \in pending : \/ NotDue(inc) \/ Hold(inc)
                                    \/ BeginGiveUp(inc) \/ BeginDelivery(inc)

Schedule == \/ Tick \/ Scan \/ ProcessNext
            \/ DeliverySucceeds \/ DeliveryFails
            \/ Reload \/ Commit \/ EndTick

-----------------------------------------------------------------------------
\* A person's request: a new one, or the one whose write conflicted.  The link
\* of ack.Handler reaches a person only in a message that was delivered.
Asked(p) ==
  IF At(p, "idle")
    THEN {r \in PersonRequests : /\ r.kind \in Requests
                                 /\ r.id \in DOMAIN rows
                                 /\ r.kind = "link" => told[r.id] > 0}
    ELSE {Job(p)}

\* The handler answers without writing.
NothingToDo(r, inc) ==
  CASE r.kind = "link"  -> Acknowledged(inc) \/ Terminal(inc)
    [] r.kind = "web"   -> Terminal(inc)
    [] r.kind = "close" -> FALSE

Applied(r, inc, now) ==
  IF r.kind = "close" THEN Close(inc, now, "operator") ELSE Acknowledge(inc, now)

Ask(p) ==
  /\ At(p, "idle") \/ At(p, "read")
  /\ \E r \in Asked(p) :
       LET inc == rows[r.id]
       IN  IF NothingToDo(r, inc)
             THEN At(p, "read") /\ Become(p, Idle) /\ UNCHANGED clock
             ELSE /\ ReadClock
                  /\ Become(p, [proc[p] EXCEPT !.pc = "write", !.stamp = clock',
                                   !.job = r, !.copy = Applied(r, inc, clock'),
                                   !.expect = inc.updatedAt])
  /\ UNCHANGED <<tables, nextId, pending, history, crashes>>

Answer(p) ==
  /\ At(p, "write")
  /\ \/ /\ Unchanged(rows, Copy(p), proc[p].expect)
        /\ ~ActiveExists(rows, Copy(p))
        /\ Write(Copy(p))
        /\ acks' = IF Job(p).kind = "close" THEN acks ELSE acks \cup {Copy(p).id}
        /\ Become(p, Idle)
     \/ /\ Unchanged(rows, Copy(p), proc[p].expect)
        /\ ActiveExists(rows, Copy(p))
        /\ Become(p, Idle)
        /\ UNCHANGED <<rows, acks>>
     \/ /\ ~Unchanged(rows, Copy(p), proc[p].expect)
        /\ Retry(p, "read", Idle)
        /\ UNCHANGED <<rows, acks>>
  /\ UNCHANGED <<details, nextId, clock, pending, told, crashes>>

Person(p) == Ask(p) \/ Answer(p)

-----------------------------------------------------------------------------
\* The process is killed and started again: every goroutine loses what it held.
Crash ==
  /\ crashes < MaxCrashes
  /\ crashes' = crashes + 1
  /\ proc' = [p \in Procs |-> Idle]
  /\ pending' = {}
  /\ UNCHANGED <<tables, nextId, clock, history>>

\* Time passes without anybody reading the clock: the process is busy or down.
Elapse ==
  /\ clock < Horizon
  /\ clock' = clock + 1
  /\ UNCHANGED <<tables, nextId, proc, pending, history, crashes>>

Next == \/ \E h \in Handlers : Handler(h)
        \/ Schedule
        \/ \E p \in People : Person(p)
        \/ Crash
        \/ Elapse

Spec == Init /\ [][Next]_vars

\* What the code's scheduling gives: every goroutine that can go on does (the
\* scheduler's ticker always fires again, a handler that began is run to its
\* end), and a delivery retried for ever through a channel that is not dead
\* succeeds at last.  Nothing obliges a source to report or a person to act.
FairSpec ==
  /\ Spec
  /\ WF_vars(Schedule)
  /\ SF_vars(DeliverySucceeds)
  /\ \A h \in Handlers : WF_vars(Handler(h) /\ ~At(h, "idle"))

-----------------------------------------------------------------------------
(* Types *)

Writing == {"put", "close", "occur", "record", "insert"}
Places == {"idle", "lookup", "open", "read", "write", "scan", "next", "deliver",
           "reload", "commit"} \cup Writing

\* What a goroutine holds, wherever it is.
States == [pc : Places, stamp : Nat, expect : Nat, tries : Nat,
           copy : Incidents \cup {None},
           job : Events \cup PersonRequests \cup Tasks \cup {None}]

TablesOK == /\ DOMAIN rows \subseteq Ids
            /\ rows \in [DOMAIN rows -> Incidents]
            /\ \A i \in DOMAIN rows : rows[i].id = i
            /\ details \in [Ids -> SUBSET Nat]

HandlerOK(s) ==
  /\ s.pc \in {"idle", "lookup", "open"} \cup Writing
  /\ s.pc = "idle" \/ s.job \in Events
  /\ s.pc \in Writing => s.copy \in Incidents

PersonOK(s, known) ==
  /\ s.pc \in {"idle", "read", "write"}
  /\ s.pc = "idle" \/ (s.job \in PersonRequests /\ s.job.id \in known)
  /\ s.pc = "write" => s.copy \in Incidents /\ s.copy.id = s.job.id

SchedulerOK(s, known) ==
  /\ s.pc \in {"idle", "scan", "next", "deliver", "reload", "commit"}
  /\ s.pc \in {"deliver", "reload", "commit"} =>
       /\ s.job \in Tasks /\ s.job.inc.id \in known /\ HasPolicy(s.job.inc)
       /\ s.pc = "deliver" <=> s.job.what = "deliver"
  /\ s.pc = "commit" => s.copy \in Incidents /\ s.copy.id = s.job.inc.id

ProcsOK ==
  /\ proc \in [Procs -> States]
  /\ \A p \in Procs : proc[p].stamp <= clock /\ proc[p].tries < Attempts
  /\ \A h \in Handlers : HandlerOK(proc[h])
  /\ \A p \in People : PersonOK(proc[p], DOMAIN rows)
  /\ SchedulerOK(proc[Scheduler], DOMAIN rows)

HistoryOK == /\ acks \subseteq DOMAIN rows
             /\ told \in [Ids -> Nat]

\* The type invariant: the tables hold well-formed rows under their own ids,
\* and every goroutine holds what its place in the code says it holds.
TypeOK ==
  /\ TablesOK /\ ProcsOK /\ HistoryOK
  /\ clock \in 0 .. Horizon
  /\ nextId \in Nat \ {0} /\ crashes \in 0 .. MaxCrashes
  /\ pending \subseteq Incidents /\ \A inc \in pending : inc.id \in DOMAIN rows

-----------------------------------------------------------------------------
(* Safety *)

\* However many handlers race to open, fold into or close the incident of one
\* key, and whatever stale copies are written back, the board never shows two
\* live incidents for one condition (store.OpenByDedupKey).
OneLivePerKey ==
  \A i, j \in Active(rows) : rows[i].key = rows[j].key => i = j

\* The row never claims an alert that no channel accepted: whatever is lost to
\* a crash or to another writer between the delivery and the commit, the count
\* errs towards telling somebody again (Scheduler.process, RecordAlert).
AlertsWereDelivered ==
  \A i \in DOMAIN rows :
    /\ rows[i].alertCount <= told[i]
    /\ Alerted(rows[i]) => rows[i].alertCount > 0

\* No incident is closed with "gave up without acknowledgement" when nobody
\* was ever told of it (Policy.ShouldGiveUp, re-judged in Scheduler.commit).
GaveUpAfterTelling ==
  \A i \in DOMAIN rows : rows[i].closed = "gave-up" => told[i] > 0

\* Once a person has been answered that the acknowledgement is recorded, no
\* later write of anybody takes it off the incident.
AckKept == \A i \in acks : Acknowledged(rows[i])

\* The keys of which no arrival raises or clears a condition that lasts: the plain
\* writes of the rule engine (resolve, update) never run for them, whatever they do
\* to the incidents of other keys.
SwappedKeys ==
  {k \in Keys : \A e \in Arrivals : e.key = k => e.kind \in {"occurrence", "fault"}}

\* An acknowledgement a person was told is recorded is kept on the incidents of these
\* keys, though the scheduler and handlers write them with a version they read before.
SwappedAckKept ==
  \A i \in acks : rows[i].key \in SwappedKeys => Acknowledged(rows[i])

\* Whatever handlers, the scheduler and people interleave to, over crashes and lost swaps,
\* every step that a person can see is one of IncidentPromise: of the keys written by
\* swapping an answer stands from the write that stores it (store.PutIfUnchanged) and is
\* not given up after; of no key is an incident given up that nobody was told of.
Answered == {i \in DOMAIN rows : rows[i].key \in SwappedKeys /\ Acknowledged(rows[i])}
Confirmed == {i \in acks : rows[i].key \in SwappedKeys}
GivenUp == {i \in DOMAIN rows : rows[i].closed = "gave-up"}
Promise == INSTANCE IncidentPromise WITH
  known <- DOMAIN rows, answered <- Answered, confirmed <- Confirmed, givenUp <- GivenUp
AnswersStand == Promise!Spec

\* What store.PutIfUnchanged is there for: while no two clock readings are equal
\* (the clock has not stopped), a compare-and-swap never takes an acknowledgement
\* off an incident. The code breaks it: a handler's attempts share one reading of
\* the clock, with which update stamps what it writes, so that a plain write can
\* bring back a version that a person still expects. The README gives the behaviour
\* of nineteen steps that ends so; no run is deep enough to meet it.
Swapping == {"write", "commit", "occur"}
SwapsKeepAcks ==
  [][\A p \in Procs :
       /\ proc[p].pc \in Swapping /\ proc'[p] # proc[p]
       /\ proc[Scheduler].stamp < Horizon
       => \A i \in DOMAIN rows : Acknowledged(rows[i]) => Acknowledged(rows'[i])]_vars

\* A terminal incident is never brought back to life.
NoRevival ==
  [][\A i \in DOMAIN rows : Terminal(rows[i]) => Terminal(rows'[i])]_vars

\* The occurrences kept in full stay bounded, though each handler prunes by the
\* number of its own arrival and a slow one may add an old number after the
\* newer ones pruned up to it (store.AddOccurrence). A stale plain write would take the
\* number itself back.
DetailsBounded ==
  \A i \in Ids :
    (i \in DOMAIN rows => rows[i].key \in SwappedKeys)
      => Cardinality(details[i]) < MaxOccurrences + Cardinality(Handlers)

\* An incident closed by giving up is not critical.
CriticalNeverGivesUp ==
  \A i \in DOMAIN rows :
    rows[i].closed = "gave-up" => rows[i].severity # Critical

\* A fault that is raised is either a new incident or folded into one that
\* still escalates.
RaisedFaultEscalates ==
  [][\A h \in Handlers :
       /\ At(h, "lookup") /\ Job(h).kind = "fault"
       /\ proc'[h].pc = "idle" /\ crashes' = crashes
       => \A i \in LiveFor(rows, Job(h).key) : ~rows[i].resolved]_vars

-----------------------------------------------------------------------------
(* Liveness *)

Awaiting(i) == i \in DOMAIN rows /\ HasPolicy(rows[i]) /\ Escalates(rows[i])

OwedOne(i) ==
  /\ i \in DOMAIN rows /\ HasPolicy(rows[i]) /\ rows[i].key \in Momentary
  /\ Unanswered(rows[i]) /\ ~Terminal(rows[i])

\* Some rung that falls before the clock stops names a channel that works.
InReach(i) ==
  LET pol == PolicyFor[rows[i].severity]
  IN  \E s \in DOMAIN pol.stages : /\ Rung(pol, rows[i], s) <= Horizon
                                   /\ pol.stages[s].channels \ DeadChannels # {}

FirstRungWorks(i) == PolicyFor[rows[i].severity].stages[1].channels \ DeadChannels # {}

\* An open incident nobody has answered is delivered to somebody at last:
\* through failing deliveries, lost writes, quiet hours that end and restarts,
\* even when the channel of its first rung is dead (Policy.DueNow).
EventuallyTold ==
  \A i \in Ids : Awaiting(i) /\ InReach(i) ~> told[i] > 0 \/ ~(Awaiting(i) /\ InReach(i))

\* policy.go:198 "Deliberately stage 0 and once": a momentary condition that cleared
\* before anybody heard of it is delivered all the same where its first rung names a
\* channel that works, unless a person or a recurrence ends it first.
MomentaryTold == \A i \in Ids : OwedOne(i) /\ FirstRungWorks(i) ~> told[i] > 0 \/ ~OwedOne(i)
=============================================================================
