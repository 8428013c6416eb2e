------------------------------ MODULE PeerLink ------------------------------
(***************************************************************************)
(* The peer link of internal/link: one paired product sends events over    *)
(* HTTP, each under an event id that its retries repeat; the Receiver      *)
(* remembers the ids in the store, moves the peer's claim on a capability, *)
(* and hands the event to the rule engine.                                 *)
(*                                                                         *)
(* A slot is one running handler.  The peer waits for one answer at a time *)
(* but a handler it gave up on runs on, with a cancelled context, beside   *)
(* the one that serves the retry.  The ids and what was ingested survive a *)
(* crash; the claim and the permissions are in memory.                     *)
(*                                                                         *)
(* Requests are those of the paired peer that authenticated, resolved to   *)
(* it and carry a valid envelope; any other is refused before it changes   *)
(* state here.  Ingest is one step: IncidentLifecycle has its insides.     *)
(***************************************************************************)
EXTENDS Integers, FiniteSets, FiniteSetsExt

CONSTANTS Slots,        \* handlers that may run at once
          Conditions,   \* the conditions of the peer's manifest
          Demoting,     \* those that demote its claim
          Words,        \* what the peer may say of commercial use: BOOLEANs
          SeenFor,      \* DefaultSeenFor: how long an id is remembered
          MaxSeen,      \* MaxSeenPerLink: how many ids are
          SilentAfter, ResumeAfter, Grace,
          MaxEvents,    \* bound: events the peer has to send
          Horizon,      \* bound: the last instant
          MaxCrashes,   \* bound: how often the process may be killed
          None

EventIds == 1 .. MaxEvents
Events == [id : EventIds, condition : Conditions, cleared : BOOLEAN, permits : Words]

VARIABLES
  clock,
  started,   \* when the process started
  seen,      \* link_seen_events: event id -> seen_at
  claim,     \* the peer's Claim: [beat, healthySince, demoting]
  word,      \* Permissions: what the peer last said of commercial use
  req,       \* the handlers
  current,   \* the peer: the event it is trying to deliver
  born,      \* the peer: when it first tried
  nextId,
  accepted,  \* history: ids the peer was told are accepted
  ingested,  \* history: how often each id was taken by the rule engine
  disturbed, \* history: ids with a request abandoned or killed, or a release that failed
  blind,     \* history: demoting conditions this process acknowledged as raised
  crashes

peer == <<current, born, nextId>>
history == <<accepted, ingested, disturbed, blind>>
vars == <<clock, started, seen, claim, word, req, peer, history, crashes>>

Unset == 0
NewClaim == [beat |-> Unset, healthySince |-> Unset, demoting |-> {}]
Idle == [pc |-> "idle", ev |-> None, now |-> Unset, gone |-> FALSE]

Init ==
  /\ clock = 1 /\ started = 1 /\ crashes = 0
  /\ seen = << >> /\ claim = NewClaim /\ word = "not heard yet"
  /\ req = [s \in Slots |-> Idle]
  /\ current = None /\ born = 1 /\ nextId = 1
  /\ accepted = {} /\ ingested = [i \in EventIds |-> 0] /\ disturbed = {} /\ blind = {}

-----------------------------------------------------------------------------
\* The claim.

MarkHealthy(c, now) ==
  IF c.demoting = {} /\ c.healthySince = Unset THEN [c EXCEPT !.healthySince = now] ELSE c

Heartbeat(c, now) == MarkHealthy([c EXCEPT !.beat = now], now)

Observe(c, ev, now) ==
  IF ev.condition \notin Demoting THEN c
  ELSE IF ev.cleared
    THEN MarkHealthy([c EXCEPT !.demoting = @ \ {ev.condition}], now)
    ELSE [c EXCEPT !.demoting = @ \cup {ev.condition}, !.healthySince = Unset]

\* One peer is paired, so its word alone decides.
Rejecting(now) ==
  \/ word = "not granted"
  \/ word = "not heard yet" /\ now - started >= Grace

\* Mutant: keyed on liveness alone.
HeldWhileAlive(now) ==
  /\ ~Rejecting(now)
  /\ claim.beat # Unset
  /\ SilentAfter > 0 => now - claim.beat <= SilentAfter

\* Whether this product's own source stands down.
Held(now) ==
  /\ ~Rejecting(now)
  /\ claim.beat # Unset
  /\ SilentAfter > 0 => now - claim.beat <= SilentAfter
  /\ claim.demoting = {}
  /\ claim.healthySince # Unset
  /\ now - claim.healthySince >= ResumeAfter

-----------------------------------------------------------------------------
\* The peer.  It delivers one event at a time, repeating it under its id until
\* it is accepted, never for longer than an id is remembered.

Awaited(s) == req[s].pc # "idle" /\ ~req[s].gone
Waiting == \E s \in Slots : Awaited(s)

NextEvent ==
  /\ current = None /\ nextId \in EventIds
  /\ \E c \in Conditions, cleared \in BOOLEAN, w \in Words :
       /\ current' = [id |-> nextId, condition |-> c, cleared |-> cleared, permits |-> w]
       /\ blind' = IF cleared THEN blind \ {c} ELSE blind
  /\ nextId' = nextId + 1 /\ born' = clock
  /\ UNCHANGED <<clock, started, seen, claim, word, req, accepted, ingested, disturbed, crashes>>

Send(s) ==
  /\ current # None /\ req[s] = Idle /\ ~Waiting
  /\ clock - born < SeenFor
  /\ req' = [req EXCEPT ![s] = [pc |-> "permit", ev |-> current, now |-> clock, gone |-> FALSE]]
  /\ UNCHANGED <<clock, started, seen, claim, word, peer, history, crashes>>

Drop ==
  /\ current # None /\ ~Waiting
  /\ current' = None
  /\ UNCHANGED <<clock, started, seen, claim, word, req, born, nextId, history, crashes>>

\* The peer's timeout, which is seconds: it passes only where the handler waits
\* for the store.
Abandon(s) ==
  /\ Awaited(s) /\ req[s].pc \in {"seen", "ingest", "forget"}
  /\ req' = [req EXCEPT ![s].gone = TRUE]
  /\ disturbed' = disturbed \cup {req[s].ev.id}
  /\ UNCHANGED <<clock, started, seen, claim, word, peer, accepted, ingested, blind, crashes>>

\* A heartbeat or a ping carries the word too; only a heartbeat moves the claim.
Beat(moves) ==
  /\ \E w \in Words : word' = IF w THEN "granted" ELSE "not granted"
  /\ claim' = IF moves THEN Heartbeat(claim, clock) ELSE claim
  /\ UNCHANGED <<clock, started, seen, req, peer, history, crashes>>

-----------------------------------------------------------------------------
\* The handler of /link/v1/events.

Go(s, pc) == req' = [req EXCEPT ![s].pc = pc]
Leave(s) == req' = [req EXCEPT ![s] = Idle]

\* The peer learns of an acceptance unless it is no longer listening.
Accept(s) ==
  LET ev == req[s].ev
  IN  IF req[s].gone THEN UNCHANGED <<accepted, current>>
      ELSE accepted' = accepted \cup {ev.id} /\ current' = None

Permit(s) ==
  /\ req[s].pc = "permit"
  /\ word' = IF req[s].ev.permits THEN "granted" ELSE "not granted"
  /\ Go(s, "judge")
  /\ UNCHANGED <<clock, started, seen, claim, peer, history, crashes>>

\* A refused event is not remembered as seen.
Judge(s) ==
  /\ req[s].pc = "judge"
  /\ IF Rejecting(req[s].now) THEN Leave(s) ELSE Go(s, "seen")
  /\ UNCHANGED <<clock, started, seen, claim, word, peer, history, crashes>>

\* Mutant: the whole table is expired.
NoneRemembered(now) == {i \in DOMAIN seen : seen[i] > now}

\* The ids whose window has not passed.
Remembered(now) == {i \in DOMAIN seen : seen[i] >= now - SeenFor}

\* Mutant: nothing is trimmed.
AllKept(ids, new, at) == {ids}

\* The ids kept once one is added: the newest MaxSeen, ties by rowid, which is
\* greatest for the new one and any order here for the others.
Kept(ids, new, at) ==
  {K \in SUBSET ids :
     /\ Cardinality(K) = Min({MaxSeen, Cardinality(ids)})
     /\ \A i \in K, j \in ids \ K : at[j] < at[i] \/ (at[j] = at[i] /\ j # new)}

SeenEvent(s) ==
  LET id  == req[s].ev.id
      now == req[s].now
      ids == Remembered(now)
      at  == [i \in ids \cup {id} |-> IF i = id THEN now ELSE seen[i]]
  IN  /\ req[s].pc = "seen"
      /\ \/ /\ ~req[s].gone /\ id \in ids
            /\ seen' = [i \in ids |-> seen[i]]
            /\ Accept(s) /\ Leave(s)
         \/ /\ ~req[s].gone /\ id \notin ids
            /\ \E K \in Kept(ids \cup {id}, id, at) : seen' = [i \in K |-> at[i]]
            /\ Go(s, "observe")
            /\ UNCHANGED <<accepted, current>>
         \* a store error, certain once the context is cancelled
         \/ Leave(s) /\ UNCHANGED <<seen, accepted, current>>
  /\ UNCHANGED <<clock, started, claim, word, born, nextId, ingested, disturbed, blind, crashes>>

MoveClaim(s) ==
  /\ req[s].pc = "observe"
  /\ claim' = Observe(Heartbeat(claim, req[s].now), req[s].ev, req[s].now)
  /\ Go(s, "ingest")
  /\ UNCHANGED <<clock, started, seen, word, peer, history, crashes>>

Ingest(s) ==
  /\ req[s].pc = "ingest"
  /\ \/ /\ ~req[s].gone
        /\ ingested' = [ingested EXCEPT ![req[s].ev.id] = @ + 1]
        /\ Go(s, "reply")
     \/ Go(s, "forget") /\ UNCHANGED ingested
  /\ UNCHANGED <<clock, started, seen, claim, word, peer, accepted, disturbed, blind, crashes>>

\* Mutant: the id is kept.
KeepId(s) ==
  /\ req[s].pc = "forget"
  /\ Leave(s)
  /\ UNCHANGED <<clock, started, seen, claim, word, peer, history, crashes>>

\* Release the id, on the request's own context and ignoring its failure.
Forget(s) ==
  /\ req[s].pc = "forget"
  /\ Leave(s)
  /\ \/ /\ ~req[s].gone
        /\ seen' = [i \in DOMAIN seen \ {req[s].ev.id} |-> seen[i]]
        /\ UNCHANGED disturbed
     \/ disturbed' = disturbed \cup {req[s].ev.id} /\ UNCHANGED seen
  /\ UNCHANGED <<clock, started, claim, word, peer, accepted, ingested, blind, crashes>>

Reply(s) ==
  /\ req[s].pc = "reply"
  /\ Accept(s) /\ Leave(s)
  /\ blind' = IF ~req[s].gone /\ ~req[s].ev.cleared
                THEN blind \cup ({req[s].ev.condition} \cap Demoting) ELSE blind
  /\ UNCHANGED <<clock, started, seen, claim, word, born, nextId, ingested, disturbed, crashes>>

Handle(s) == \/ Permit(s) \/ Judge(s) \/ SeenEvent(s) \/ MoveClaim(s)
             \/ Ingest(s) \/ Forget(s) \/ Reply(s)

-----------------------------------------------------------------------------

Tick ==
  /\ clock < Horizon /\ clock' = clock + 1
  /\ UNCHANGED <<started, seen, claim, word, req, peer, history, crashes>>

Crash ==
  /\ crashes < MaxCrashes /\ crashes' = crashes + 1
  /\ started' = clock /\ claim' = NewClaim /\ word' = "not heard yet"
  /\ req' = [s \in Slots |-> Idle]
  /\ disturbed' = disturbed \cup {req[s].ev.id : s \in {t \in Slots : req[t] # Idle}}
  /\ blind' = {}
  /\ UNCHANGED <<clock, seen, peer, accepted, ingested>>

Next == \/ NextEvent \/ Drop \/ Tick \/ Crash
        \/ \E moves \in BOOLEAN : Beat(moves)
        \/ \E s \in Slots : Send(s) \/ Abandon(s) \/ Handle(s)

Spec == Init /\ [][Next]_vars

-----------------------------------------------------------------------------
\* Properties.

Places == {"permit", "judge", "seen", "observe", "ingest", "forget", "reply"}

\* Every variable has its type: a handler in progress holds an event, and no
\* more ids are remembered than MaxSeenPerLink.
TypeOK ==
  /\ clock \in 1 .. Horizon /\ started \in 1 .. clock /\ crashes \in 0 .. MaxCrashes
  /\ DOMAIN seen \subseteq EventIds /\ Cardinality(DOMAIN seen) <= MaxSeen
  /\ \A i \in DOMAIN seen : seen[i] \in 1 .. clock
  /\ claim \in [beat : 0 .. clock, healthySince : 0 .. clock, demoting : SUBSET Demoting]
  /\ word \in {"granted", "not granted", "not heard yet"}
  /\ \A s \in Slots : \/ req[s] = Idle
                      \/ req[s] \in [pc : Places, ev : Events, now : 1 .. clock, gone : BOOLEAN]
  /\ current \in Events \cup {None} /\ born \in 1 .. clock /\ nextId \in 1 .. MaxEvents + 1
  /\ accepted \subseteq EventIds /\ ingested \in [EventIds -> Nat]
  /\ disturbed \subseteq EventIds /\ blind \subseteq Demoting

\* However often the peer repeats an event, and however its handlers overlap,
\* the rule engine takes it at most once (SeenEvent before Ingest).
AtMostOnce == \A i \in EventIds : ingested[i] <= 1

\* An event the peer was told is accepted became an alarm, unless one of its
\* requests was abandoned by the peer, killed with the process, or could not
\* release its id.
AcceptedWasIngested == \A i \in accepted \ disturbed : ingested[i] = 1

\* What the release of the id is for (linkseen.go): no event is lost by both
\* ends agreeing that it had been handled, once no handler of it is running.
NoneLost ==
  \A i \in accepted : (\A s \in Slots : req[s] # Idle => req[s].ev.id # i) => ingested[i] = 1

\* A peer whose report that it cannot see was handled by this process never
\* keeps the native source standing down, whatever heartbeats, retries and other
\* edges do (Claim.Held).  Claims are in memory: the next process has to be told.
BlindNeverHolds == blind # {} => ~Held(clock)
=============================================================================
