---------------------------- MODULE Link_proofs -----------------------------
(***************************************************************************)
(* Theorems about the peer link of internal/link, as Requests holds it     *)
(* (PeerLink): its types, that an event is ingested at most once, that one *)
(* the peer was told is accepted was ingested, and that a peer known to be *)
(* blind never keeps the native source standing down.                      *)
(***************************************************************************)
EXTENDS Requests_proofs

HandlerStates ==
  {Link!Idle} \cup [pc : Link!Places, ev : Link!Events, now : Nat, gone : BOOLEAN]

Delivering == {"observe", "ingest", "forget"}

LinkTypes == Link!TypeOK /\ req_link \in [Hands -> HandlerStates]

\* A handler its peer gave up on waits for the store, and has a cancelled
\* context there.
GoneOK == \A s \in Hands : req_link[s].gone => req_link[s].pc \in {"seen", "ingest", "forget"}

\* At most one handler is awaited; it serves the event the peer has in hand, and
\* was sent within the window that ids are remembered for.
AwaitedOK ==
  /\ \A s, t \in Hands : Link!Awaited(s) /\ Link!Awaited(t) => s = t
  /\ \A s \in Hands : Link!Awaited(s) =>
       /\ current_link # Absent /\ req_link[s].ev = current_link
       /\ born <= req_link[s].now /\ req_link[s].now - born < SeenFor

\* The peer numbers its events; an id remembered is of the event in hand, since it
\* was first tried, or of an earlier event, until then.
SeenOK ==
  /\ current_link # Absent => current_link.id = nextId - 1
  /\ \A i \in DOMAIN seen :
       /\ i < nextId
       /\ current_link # Absent => IF i = current_link.id THEN born <= seen[i] ELSE seen[i] <= born

\* What is ingested is remembered for as long as the peer may repeat it.
IngestedOK ==
  /\ \A i \in Link!EventIds : ingested[i] \in {0, 1} /\ (i >= nextId => ingested[i] = 0)
  /\ current_link # Absent /\ ingested[current_link.id] = 1 => current_link.id \in DOMAIN seen
  /\ \A s \in Hands : Link!Awaited(s) =>
       /\ req_link[s].pc \in Delivering =>
            ingested[current_link.id] = 0 /\ current_link.id \in DOMAIN seen
       /\ req_link[s].pc = "reply" => ingested[current_link.id] = 1

\* An undisturbed id is remembered because its event was ingested, or is about to be.
AcceptedOK ==
  /\ Link!AcceptedWasIngested
  /\ \A i \in DOMAIN seen \ disturbed :
       \/ ingested[i] = 1
       \/ \E s \in Hands : /\ Link!Awaited(s) /\ req_link[s].pc \in Delivering
                           /\ req_link[s].ev.id = i

\* What this process acknowledged as raised demotes the claim until the peer has
\* an event to say that it cleared.
BlindOK ==
  /\ blind \subseteq claim.demoting
  /\ current_link # Absent /\ current_link.cleared => current_link.condition \notin blind
  /\ \A s \in Hands : Link!Awaited(s) /\ req_link[s].pc \in {"ingest", "reply"} =>
       current_link.cleared \/ {current_link.condition} \cap Demoting \subseteq claim.demoting

LinkSafe == GoneOK /\ AwaitedOK /\ SeenOK /\ IngestedOK /\ AcceptedOK /\ BlindOK
LinkInv == LinkTypes /\ LinkSafe

-----------------------------------------------------------------------------
\* Operators.

LEMMA CardinalityOfLink == ASSUME NEW S PROVE Link!Cardinality(S) = Cardinality(S)
  BY DEF Cardinality, Link!Cardinality, ExistsBijection, Link!ExistsBijection,
         Bijection, Link!Bijection, Injection, Link!Injection, Surjection, Link!Surjection

LEMMA MinOfTwo ==
  ASSUME NEW a \in Int, NEW b \in Int
  PROVE  /\ Link!Min({a, b}) \in {a, b}
         /\ Link!Min({a, b}) <= a /\ Link!Min({a, b}) <= b
<1>1. \E x \in {a, b} : \A y \in {a, b} : x <= y
  <2>1. CASE a <= b
    BY <2>1
  <2>2. CASE b <= a
    BY <2>2
  <2> QED
    BY <2>1, <2>2
<1> QED
  BY <1>1 DEF Link!Min

LEMMA EventsFinite ==
  ASSUME NEW I, I \subseteq Link!EventIds
  PROVE  IsFiniteSet(I) /\ Cardinality(I) \in Nat
<1>1. IsFiniteSet(1 .. MaxEvents)
  BY LinkAssumption, FS_Interval DEF LinkAssumption
<1>2. I \in SUBSET (1 .. MaxEvents)
  BY DEF Link!EventIds
<1>3. IsFiniteSet(I)
  BY <1>1, <1>2, FS_Subset
<1> QED
  BY <1>3, FS_CardinalityType

\* Trimming keeps at most MaxSeen ids, and the new one if none is newer.
LEMMA KeptOK ==
  ASSUME NEW I, I \subseteq Link!EventIds, NEW new \in I,
         NEW at \in [I -> Int], NEW K \in Link!Kept(I, new, at)
  PROVE  /\ K \subseteq I /\ Cardinality(K) <= MaxSeen
         /\ (\A j \in I : at[j] <= at[new]) => new \in K
<1>1. IsFiniteSet(I) /\ Cardinality(I) \in Nat /\ Cardinality(I) # 0
  <2>1. IsFiniteSet(I) /\ Cardinality(I) \in Nat
    BY EventsFinite
  <2> QED
    BY <2>1, FS_EmptySet
<1>2. K \subseteq I /\ Cardinality(K) = Link!Min({MaxSeen, Cardinality(I)})
  <2>1. K \in SUBSET I /\ Link!Cardinality(K) = Link!Min({MaxSeen, Link!Cardinality(I)})
    BY Zenon DEF Link!Kept
  <2> QED
    BY <2>1, CardinalityOfLink
<1>3. Cardinality(K) <= MaxSeen /\ Cardinality(K) # 0
  <2>1. MaxSeen \in Int /\ MaxSeen # 0
    BY LinkAssumption DEF LinkAssumption
  <2>2. /\ Cardinality(K) \in {MaxSeen, Cardinality(I)}
        /\ Cardinality(K) <= MaxSeen
    BY <1>1, <1>2, <2>1, MinOfTwo
  <2> QED
    BY <1>1, <2>1, <2>2
<1>4. K # {}
  BY <1>3, FS_EmptySet
<1>5. ASSUME \A j \in I : at[j] <= at[new], new \notin K PROVE FALSE
  <2>1. PICK i \in K : TRUE
    BY <1>4
  <2>2. at[new] < at[i]
    BY <1>5, <2>1 DEF Link!Kept
  <2> QED
    BY <1>2, <1>5, <2>2
<1> QED
  BY <1>2, <1>3, <1>5

LEMMA MarkHealthyType ==
  ASSUME NEW c \in [beat : 0 .. clock_link, healthySince : 0 .. clock_link, demoting : SUBSET Demoting],
         NEW t \in 0 .. clock_link
  PROVE  /\ Link!MarkHealthy(c, t) \in
              [beat : 0 .. clock_link, healthySince : 0 .. clock_link, demoting : SUBSET Demoting]
         /\ Link!MarkHealthy(c, t).demoting = c.demoting
  BY DEF Link!MarkHealthy

LEMMA HeartbeatType ==
  ASSUME NEW c \in [beat : 0 .. clock_link, healthySince : 0 .. clock_link, demoting : SUBSET Demoting],
         NEW t \in 0 .. clock_link
  PROVE  /\ Link!Heartbeat(c, t) \in
              [beat : 0 .. clock_link, healthySince : 0 .. clock_link, demoting : SUBSET Demoting]
         /\ Link!Heartbeat(c, t).demoting = c.demoting
<1> DEFINE b == [c EXCEPT !.beat = t]
<1>1. /\ b \in [beat : 0 .. clock_link, healthySince : 0 .. clock_link, demoting : SUBSET Demoting]
      /\ b.demoting = c.demoting
  OBVIOUS
<1> QED
  BY <1>1, MarkHealthyType DEF Link!Heartbeat

\* A report moves its own condition in the claim, and no other.
LEMMA ObserveType ==
  ASSUME NEW c \in [beat : 0 .. clock_link, healthySince : 0 .. clock_link, demoting : SUBSET Demoting],
         NEW ev \in Link!Events, clock_link \in Nat, NEW t \in 0 .. clock_link
  PROVE  /\ Link!Observe(c, ev, t) \in
              [beat : 0 .. clock_link, healthySince : 0 .. clock_link, demoting : SUBSET Demoting]
         /\ c.demoting \ {ev.condition} \subseteq Link!Observe(c, ev, t).demoting
         /\ ~ev.cleared => /\ c.demoting \subseteq Link!Observe(c, ev, t).demoting
                           /\ {ev.condition} \cap Demoting \subseteq Link!Observe(c, ev, t).demoting
<1> DEFINE Claims == [beat : 0 .. clock_link, healthySince : 0 .. clock_link, demoting : SUBSET Demoting]
<1>1. CASE ev.condition \notin Demoting
  BY <1>1 DEF Link!Observe
<1>2. CASE ev.condition \in Demoting /\ ev.cleared
  <2> DEFINE d == [c EXCEPT !.demoting = @ \ {ev.condition}]
  <2>1. d \in Claims /\ d.demoting = c.demoting \ {ev.condition}
    OBVIOUS
  <2>2. Link!Observe(c, ev, t) = Link!MarkHealthy(d, t)
    BY <1>2 DEF Link!Observe
  <2> QED
    BY <1>2, <2>1, <2>2, MarkHealthyType
<1>3. CASE ev.condition \in Demoting /\ ~ev.cleared
  <2>1. PICK d : d = [c EXCEPT !.demoting = @ \cup {ev.condition}, !.healthySince = 0]
    OBVIOUS
  <2>2. Link!Observe(c, ev, t) = d
    BY <1>3, <2>1 DEF Link!Observe, Link!Unset
  <2>3. d = [beat |-> c.beat, healthySince |-> 0, demoting |-> c.demoting \cup {ev.condition}]
    BY <2>1
  <2>4. 0 \in 0 .. clock_link /\ c.demoting \cup {ev.condition} \in SUBSET Demoting
    BY <1>3
  <2>5. d \in Claims
    BY <2>3, <2>4
  <2> QED
    BY <1>3, <2>2, <2>3, <2>5
<1> QED
  BY <1>1, <1>2, <1>3

-----------------------------------------------------------------------------
\* Types.

LEMMA LinkInitTypes == Link!Init => LinkTypes
<1> SUFFICES ASSUME Link!Init PROVE LinkTypes
  OBVIOUS
<1>1. req_link = [s \in Hands |-> Link!Idle] /\ req_link \in [Hands -> HandlerStates]
  BY DEF Link!Init, HandlerStates
<1>2. DOMAIN seen = {} /\ Cardinality(DOMAIN seen) = 0
  <2>1. seen = << >>
    BY Zenon DEF Link!Init
  <2>2. DOMAIN seen = {}
    BY <2>1
  <2> QED
    BY <2>2, FS_EmptySet
<1>3. clock_link = 1 /\ claim = [beat |-> 0, healthySince |-> 0, demoting |-> {}]
  BY DEF Link!Init, Link!NewClaim, Link!Unset
<1>4. claim \in [beat : 0 .. clock_link, healthySince : 0 .. clock_link, demoting : SUBSET Demoting]
  <2>1. 0 \in 0 .. 1
    OBVIOUS
  <2> QED
    BY <1>3, <2>1
<1>5. ingested \in [Link!EventIds -> Nat]
  BY DEF Link!Init
<1>6. /\ clock_link \in 1 .. Horizon_link /\ started \in 1 .. clock_link
      /\ crashes_link \in 0 .. MaxCrashes_link /\ born \in 1 .. clock_link
      /\ nextId \in 1 .. MaxEvents + 1
  <2>1. started = 1 /\ crashes_link = 0 /\ born = 1 /\ nextId = 1
    BY DEF Link!Init
  <2> QED
    BY <1>3, <2>1, LinkAssumption DEF LinkAssumption
<1>7. Cardinality(DOMAIN seen) <= MaxSeen
  BY <1>2, LinkAssumption DEF LinkAssumption
<1>8. /\ word = "not heard yet" /\ current_link = Absent
      /\ accepted = {} /\ disturbed = {} /\ blind = {}
  BY DEF Link!Init
<1> QED
  BY <1>1, <1>2, <1>4, <1>5, <1>6, <1>7, <1>8, CardinalityOfLink DEF LinkTypes, Link!TypeOK

\* What a handler holds, if it is not idle.
LEMMA HandlerType ==
  ASSUME LinkTypes, NEW s \in Hands, req_link[s].pc # "idle"
  PROVE  /\ req_link[s] \in [pc : Link!Places, ev : Link!Events, now : 1 .. clock_link, gone : BOOLEAN]
         /\ req_link[s].ev.id \in Link!EventIds /\ req_link[s].ev.condition \in Conditions
         /\ req_link[s].ev.cleared \in BOOLEAN
<1>1. req_link[s] # Link!Idle
  BY DEF Link!Idle
<1>2. req_link[s] \in [pc : Link!Places, ev : Link!Events, now : 1 .. clock_link, gone : BOOLEAN]
  BY <1>1 DEF LinkTypes, Link!TypeOK
<1> QED
  BY <1>2 DEF Link!Events

\* A handler that goes on, or leaves, has the type of one.
LEMMA HandlersStay ==
  ASSUME LinkTypes, NEW s \in Hands, UNCHANGED clock_link,
         \/ Link!Leave(s)
         \/ req_link[s].pc # "idle" /\ \E pc \in Link!Places : Link!Go(s, pc)
  PROVE  /\ req_link' \in [Hands -> HandlerStates]
         /\ \A t \in Hands : \/ req_link'[t] = Link!Idle
                             \/ req_link'[t] \in [pc : Link!Places, ev : Link!Events,
                                                  now : 1 .. clock_link', gone : BOOLEAN]
<1>1. PICK h : req_link' = [req_link EXCEPT ![s] = h]
               /\ \/ h = Link!Idle
                  \/ h \in [pc : Link!Places, ev : Link!Events, now : 1 .. clock_link, gone : BOOLEAN]
  <2>1. CASE Link!Leave(s)
    BY <2>1 DEF Link!Leave
  <2>2. CASE req_link[s].pc # "idle" /\ \E pc \in Link!Places : Link!Go(s, pc)
    <3>1. PICK pc \in Link!Places : Link!Go(s, pc)
      BY <2>2
    <3>2. req_link' = [req_link EXCEPT ![s] = [req_link[s] EXCEPT !.pc = pc]]
      BY <3>1 DEF Link!Go, LinkTypes
    <3>3. [req_link[s] EXCEPT !.pc = pc]
            \in [pc : Link!Places, ev : Link!Events, now : 1 .. clock_link, gone : BOOLEAN]
      BY <2>2, HandlerType
    <3> QED
      BY <3>2, <3>3
  <2> QED
    BY <2>1, <2>2
<1>2. h \in HandlerStates
  <2>1. 1 .. clock_link \subseteq Nat
    OBVIOUS
  <2> QED
    BY <1>1, <2>1 DEF HandlerStates
<1> QED
  BY <1>1, <1>2 DEF LinkTypes, Link!TypeOK

\* The handler that goes on, and the others.
LEMMA GoOK ==
  ASSUME LinkTypes, NEW s \in Hands, NEW pc \in Link!Places, req_link[s].pc # "idle", Link!Go(s, pc)
  PROVE  /\ req_link'[s].pc = pc /\ req_link'[s].ev = req_link[s].ev
         /\ req_link'[s].now = req_link[s].now /\ req_link'[s].gone = req_link[s].gone
         /\ \A t \in Hands \ {s} : req_link'[t] = req_link[t]
<1>1. req_link' = [req_link EXCEPT ![s] = [req_link[s] EXCEPT !.pc = pc]]
  BY DEF Link!Go, LinkTypes
<1>2. req_link[s] \in [pc : Link!Places, ev : Link!Events, now : 1 .. clock_link, gone : BOOLEAN]
  BY HandlerType
<1> QED
  BY <1>1, <1>2 DEF LinkTypes

LEMMA LeaveOK ==
  ASSUME LinkTypes, NEW s \in Hands, Link!Leave(s)
  PROVE  /\ req_link'[s] = Link!Idle /\ req_link'[s].pc = "idle" /\ req_link'[s].gone = FALSE
         /\ \A t \in Hands \ {s} : req_link'[t] = req_link[t]
  BY DEF Link!Leave, Link!Idle, LinkTypes

-----------------------------------------------------------------------------
\* Types, action by action.

Claims == [beat : 0 .. clock_link, healthySince : 0 .. clock_link, demoting : SUBSET Demoting]

LEMMA LinkNumbers ==
  ASSUME LinkTypes
  PROVE  /\ clock_link \in Nat /\ clock_link \in 1 .. Horizon_link /\ started \in 1 .. clock_link
         /\ born \in 1 .. clock_link /\ nextId \in 1 .. MaxEvents + 1
         /\ MaxEvents \in Nat /\ Horizon_link \in Nat /\ claim \in Claims
         /\ Cardinality(DOMAIN seen) <= MaxSeen
<1>1. MaxEvents \in Nat /\ Horizon_link \in Nat
  BY LinkAssumption DEF LinkAssumption
<1>2. clock_link \in 1 .. Horizon_link /\ claim \in Claims
      /\ started \in 1 .. clock_link /\ born \in 1 .. clock_link /\ nextId \in 1 .. MaxEvents + 1
  BY DEF LinkTypes, Link!TypeOK, Claims
<1>3. Cardinality(DOMAIN seen) <= MaxSeen
  BY CardinalityOfLink, Zenon DEF LinkTypes, Link!TypeOK
<1> QED
  BY <1>1, <1>2, <1>3

LEMMA NextEventTypes == ASSUME LinkTypes, Link!NextEvent PROVE LinkTypes'
<1>1. current_link' \in Link!Events
  BY DEF Link!NextEvent, Link!Events
<1>2. blind' \subseteq blind
  BY DEF Link!NextEvent
<1>3. nextId' \in 1 .. MaxEvents + 1 /\ born' \in 1 .. clock_link
  BY LinkNumbers DEF Link!NextEvent, Link!EventIds
<1> QED
  BY <1>1, <1>2, <1>3 DEF LinkTypes, Link!TypeOK, Link!NextEvent, HandlerStates

LEMMA SendTypes == ASSUME LinkTypes, NEW s \in Hands, Link!Send(s) PROVE LinkTypes'
<1> DEFINE h == [pc |-> "permit", ev |-> current_link, now |-> clock_link, gone |-> FALSE]
<1>1. h \in [pc : Link!Places, ev : Link!Events, now : 1 .. clock_link, gone : BOOLEAN]
  <2>1. current_link \in Link!Events
    BY DEF Link!Send, LinkTypes, Link!TypeOK
  <2>2. clock_link \in 1 .. clock_link
    BY LinkNumbers
  <2> QED
    BY <2>1, <2>2 DEF Link!Places
<1>2. h \in HandlerStates
  BY <1>1, LinkNumbers DEF HandlerStates
<1>3. req_link' = [req_link EXCEPT ![s] = h]
  BY DEF Link!Send
<1> HIDE DEF h
<1> QED
  BY ZenonT(60), <1>1, <1>2, <1>3 DEF LinkTypes, Link!TypeOK, Link!Send, Link!peer, Link!history

LEMMA AbandonTypes == ASSUME LinkTypes, NEW s \in Hands, Link!Abandon(s) PROVE LinkTypes'
<1> DEFINE h == [req_link[s] EXCEPT !.gone = TRUE]
<1>1. req_link[s] \in [pc : Link!Places, ev : Link!Events, now : 1 .. clock_link, gone : BOOLEAN]
      /\ req_link[s].ev.id \in Link!EventIds
  BY HandlerType DEF Link!Abandon, Link!Awaited
<1>2. h \in [pc : Link!Places, ev : Link!Events, now : 1 .. clock_link, gone : BOOLEAN]
  BY <1>1
<1>3. h \in HandlerStates
  BY <1>2, LinkNumbers DEF HandlerStates
<1>4. req_link' = [req_link EXCEPT ![s] = h]
  BY DEF Link!Abandon, LinkTypes
<1> HIDE DEF h
<1>5. disturbed' \subseteq Link!EventIds
  BY <1>1 DEF Link!Abandon, LinkTypes, Link!TypeOK
<1>6. /\ req_link' \in [Hands -> HandlerStates]
      /\ \A t \in Hands : req_link'[t] = req_link[t] \/ req_link'[t] = h
  BY <1>3, <1>4 DEF LinkTypes
<1> QED
  BY <1>2, <1>5, <1>6 DEF LinkTypes, Link!TypeOK, Link!Abandon, Link!peer

LEMMA BeatTypes == ASSUME LinkTypes, NEW moves \in BOOLEAN, Link!Beat(moves) PROVE LinkTypes'
<1>1. claim' \in Claims
  <2>1. claim \in Claims /\ clock_link \in 0 .. clock_link
    BY LinkNumbers
  <2>2. Link!Heartbeat(claim, clock_link) \in Claims
    BY <2>1, HeartbeatType DEF Claims
  <2> QED
    BY <2>1, <2>2 DEF Link!Beat
<1> QED
  BY <1>1 DEF LinkTypes, Link!TypeOK, Link!Beat, Link!peer, Link!history, Claims

LEMMA StillTypes ==
  ASSUME LinkTypes,
         \/ Link!Drop
         \/ \E s \in Hands : Link!Permit(s) \/ Link!Judge(s)
  PROVE  LinkTypes'
<1>1. CASE Link!Drop
  BY <1>1 DEF LinkTypes, Link!TypeOK, Link!Drop, Link!history
<1>2. ASSUME NEW s \in Hands, Link!Permit(s) PROVE LinkTypes'
  <2>1. Link!Go(s, "judge") /\ req_link[s].pc # "idle" /\ "judge" \in Link!Places
    BY <1>2 DEF Link!Permit, Link!Places
  <2> QED
    BY <1>2, <2>1, HandlersStay DEF LinkTypes, Link!TypeOK, Link!Permit, Link!peer, Link!history
<1>3. ASSUME NEW s \in Hands, Link!Judge(s) PROVE LinkTypes'
  <2>1. \/ Link!Leave(s)
        \/ Link!Go(s, "seen") /\ req_link[s].pc # "idle" /\ "seen" \in Link!Places
    BY <1>3 DEF Link!Judge, Link!Places
  <2> QED
    BY <1>3, <2>1, HandlersStay DEF LinkTypes, Link!TypeOK, Link!Judge, Link!peer, Link!history
<1> QED
  BY <1>1, <1>2, <1>3

\* The ids looked up, and what the table holds of them once one is added.
LEMMA SeenEventType ==
  ASSUME LinkTypes, NEW s \in Hands, Link!SeenEvent(s)
  PROVE  /\ DOMAIN seen' \subseteq Link!EventIds /\ Cardinality(DOMAIN seen') <= MaxSeen
         /\ \A i \in DOMAIN seen' : seen'[i] \in 1 .. clock_link
<1> DEFINE id == req_link[s].ev.id
           now == req_link[s].now
           kept == Link!Remembered(now)
           at == [i \in kept \cup {id} |-> IF i = id THEN now ELSE seen[i]]
<1>1. now \in 1 .. clock_link /\ id \in Link!EventIds
  BY HandlerType DEF Link!SeenEvent
<1>2. /\ kept \subseteq DOMAIN seen /\ DOMAIN seen \subseteq Link!EventIds
      /\ \A i \in DOMAIN seen : seen[i] \in 1 .. clock_link
  BY DEF Link!Remembered, LinkTypes, Link!TypeOK
<1>3. CASE seen' = [i \in kept |-> seen[i]]
  <2>1. Cardinality(DOMAIN seen') <= MaxSeen
    <3>1. DOMAIN seen' = kept
      BY <1>3
    <3>2. Cardinality(kept) <= Cardinality(DOMAIN seen) /\ Cardinality(kept) \in Nat
      BY <1>2, EventsFinite, FS_Subset
    <3>3. Cardinality(DOMAIN seen) <= MaxSeen /\ Cardinality(DOMAIN seen) \in Nat /\ MaxSeen \in Nat
      BY <1>2, LinkNumbers, EventsFinite, LinkAssumption DEF LinkAssumption
    <3> QED
      BY <3>1, <3>2, <3>3
  <2> QED
    BY <1>2, <1>3, <2>1
<1>4. ASSUME NEW K \in Link!Kept(kept \cup {id}, id, at), seen' = [i \in K |-> at[i]]
      PROVE  /\ DOMAIN seen' \subseteq Link!EventIds /\ Cardinality(DOMAIN seen') <= MaxSeen
             /\ \A i \in DOMAIN seen' : seen'[i] \in 1 .. clock_link
  <2>1. at \in [kept \cup {id} -> 1 .. clock_link]
    BY <1>1, <1>2
  <2>2. at \in [kept \cup {id} -> Int] /\ kept \cup {id} \subseteq Link!EventIds /\ id \in kept \cup {id}
    BY <1>1, <1>2, <2>1
  <2> HIDE DEF at, kept, id, now
  <2>3. K \subseteq kept \cup {id} /\ Cardinality(K) <= MaxSeen
    BY <2>2, KeptOK
  <2> QED
    BY <1>4, <2>1, <2>2, <2>3
<1>5. CASE seen' = seen
  BY <1>2, <1>5, LinkNumbers
<1> QED
  BY <1>3, <1>4, <1>5 DEF Link!SeenEvent

\* Answering, if the peer still listens.
LEMMA AcceptType ==
  ASSUME LinkTypes, NEW s \in Hands, req_link[s].pc # "idle", Link!Accept(s)
  PROVE  accepted' \subseteq Link!EventIds /\ current_link' \in {current_link, Absent}
<1>1. req_link[s].ev.id \in Link!EventIds
  BY HandlerType
<1>2. accepted \subseteq Link!EventIds
  BY DEF LinkTypes, Link!TypeOK
<1> QED
  BY <1>1, <1>2 DEF Link!Accept

LEMMA SeenEventTypes == ASSUME LinkTypes, NEW s \in Hands, Link!SeenEvent(s) PROVE LinkTypes'
<1>1. req_link[s].pc = "seen" /\ "observe" \in Link!Places
  BY DEF Link!SeenEvent, Link!Places
<1>2. Link!Leave(s) \/ Link!Go(s, "observe")
  BY DEF Link!SeenEvent
<1>3. accepted' \subseteq Link!EventIds /\ current_link' \in {current_link, Absent}
  <2>1. CASE Link!Accept(s)
    BY <1>1, <2>1, AcceptType
  <2>2. CASE UNCHANGED <<accepted, current_link>>
    BY <2>2 DEF LinkTypes, Link!TypeOK
  <2> QED
    BY <2>1, <2>2 DEF Link!SeenEvent
<1>4. UNCHANGED <<clock_link, started, claim, word, born, nextId, ingested, disturbed, blind, crashes_link>>
  BY DEF Link!SeenEvent
<1>5. /\ req_link' \in [Hands -> HandlerStates]
      /\ \A t \in Hands : \/ req_link'[t] = Link!Idle
                          \/ req_link'[t] \in [pc : Link!Places, ev : Link!Events,
                                               now : 1 .. clock_link', gone : BOOLEAN]
  BY <1>1, <1>2, <1>4, HandlersStay
<1> QED
  BY <1>3, <1>4, <1>5, SeenEventType, CardinalityOfLink DEF LinkTypes, Link!TypeOK

LEMMA MoveClaimTypes == ASSUME LinkTypes, NEW s \in Hands, Link!MoveClaim(s) PROVE LinkTypes'
<1>1. req_link[s].pc # "idle" /\ Link!Go(s, "ingest") /\ "ingest" \in Link!Places
  BY DEF Link!MoveClaim, Link!Places
<1>2. req_link[s].now \in 0 .. clock_link /\ req_link[s].ev \in Link!Events /\ clock_link \in Nat
  BY <1>1, HandlerType, LinkNumbers
<1>3. claim' \in Claims
  <2>1. Link!Heartbeat(claim, req_link[s].now) \in Claims
    BY <1>2, LinkNumbers, HeartbeatType DEF Claims
  <2> QED
    BY <1>2, <2>1, ObserveType DEF Claims, Link!MoveClaim
<1> QED
  BY <1>1, <1>3, HandlersStay DEF LinkTypes, Link!TypeOK, Link!MoveClaim, Link!peer, Link!history, Claims

LEMMA IngestTypes == ASSUME LinkTypes, NEW s \in Hands, Link!Ingest(s) PROVE LinkTypes'
<1>1. /\ req_link[s].pc # "idle" /\ {"reply", "forget"} \subseteq Link!Places
      /\ Link!Go(s, "reply") \/ Link!Go(s, "forget")
  BY DEF Link!Ingest, Link!Places
<1>2. ingested' \in [Link!EventIds -> Nat]
  <2>1. req_link[s].ev.id \in Link!EventIds
    BY <1>1, HandlerType
  <2>2. ingested \in [Link!EventIds -> Nat]
    BY DEF LinkTypes, Link!TypeOK
  <2> QED
    BY <2>1, <2>2 DEF Link!Ingest
<1> QED
  BY <1>1, <1>2, HandlersStay DEF LinkTypes, Link!TypeOK, Link!Ingest, Link!peer

LEMMA ForgetTypes == ASSUME LinkTypes, NEW s \in Hands, Link!Forget(s) PROVE LinkTypes'
<1>1. req_link[s].pc # "idle" /\ Link!Leave(s)
  BY DEF Link!Forget
<1>2. DOMAIN seen' \subseteq DOMAIN seen /\ \A i \in DOMAIN seen' : seen'[i] = seen[i]
  BY DEF Link!Forget
<1>3. Cardinality(DOMAIN seen') <= MaxSeen
  <2>1. DOMAIN seen \subseteq Link!EventIds
    BY DEF LinkTypes, Link!TypeOK
  <2>2. Cardinality(DOMAIN seen') <= Cardinality(DOMAIN seen) /\ Cardinality(DOMAIN seen') \in Nat
    BY <1>2, <2>1, EventsFinite, FS_Subset
  <2>3. Cardinality(DOMAIN seen) <= MaxSeen /\ Cardinality(DOMAIN seen) \in Nat /\ MaxSeen \in Nat
    BY <2>1, LinkNumbers, EventsFinite, LinkAssumption DEF LinkAssumption
  <2> QED
    BY <2>2, <2>3
<1>4. disturbed' \subseteq Link!EventIds
  <2>1. req_link[s].ev.id \in Link!EventIds
    BY <1>1, HandlerType
  <2>2. disturbed \subseteq Link!EventIds
    BY DEF LinkTypes, Link!TypeOK
  <2> QED
    BY <2>1, <2>2 DEF Link!Forget
<1>5. UNCHANGED <<clock_link, started, claim, word, current_link, born, nextId, accepted, ingested, blind, crashes_link>>
  BY DEF Link!Forget, Link!peer
<1> QED
  BY <1>1, <1>2, <1>3, <1>4, <1>5, HandlersStay, CardinalityOfLink DEF LinkTypes, Link!TypeOK

LEMMA ReplyTypes == ASSUME LinkTypes, NEW s \in Hands, Link!Reply(s) PROVE LinkTypes'
<1>1. req_link[s].pc # "idle" /\ Link!Leave(s) /\ Link!Accept(s)
  BY DEF Link!Reply
<1>2. accepted' \subseteq Link!EventIds /\ current_link' \in {current_link, Absent}
  BY <1>1, AcceptType
<1>3. blind' \subseteq Demoting
  BY DEF Link!Reply, LinkTypes, Link!TypeOK
<1> QED
  BY <1>1, <1>2, <1>3, HandlersStay DEF LinkTypes, Link!TypeOK, Link!Reply

LEMMA TickTypes == ASSUME LinkTypes, Link!Tick PROVE LinkTypes'
<1>1. clock_link' = clock_link + 1 /\ clock_link' \in 1 .. Horizon_link
  BY LinkNumbers DEF Link!Tick
<1>2. 1 .. clock_link \subseteq 1 .. clock_link' /\ 0 .. clock_link \subseteq 0 .. clock_link'
  BY <1>1, LinkNumbers
<1>3. UNCHANGED <<started, seen, claim, word, req_link, current_link, born, nextId,
                  accepted, ingested, disturbed, blind, crashes_link>>
  BY DEF Link!Tick, Link!peer, Link!history
<1> QED
  BY <1>1, <1>2, <1>3 DEF LinkTypes, Link!TypeOK

LEMMA CrashTypes == ASSUME LinkTypes, Link!Crash PROVE LinkTypes'
<1>1. /\ req_link' = [s \in Hands |-> Link!Idle] /\ req_link' \in [Hands -> HandlerStates]
  BY DEF Link!Crash, HandlerStates
<1>2. claim' \in Claims
  <2>1. 0 \in 0 .. clock_link
    BY LinkNumbers
  <2> QED
    BY <2>1 DEF Link!Crash, Link!NewClaim, Link!Unset, Claims
<1>3. disturbed' \subseteq Link!EventIds
  <2>1. \A s \in Hands : req_link[s] # Link!Idle => req_link[s].ev.id \in Link!EventIds
    BY DEF LinkTypes, Link!TypeOK, Link!Events
  <2> QED
    BY ZenonT(60), <2>1 DEF Link!Crash, LinkTypes, Link!TypeOK
<1>4. started' \in 1 .. clock_link
  <2>1. started' = clock_link
    BY DEF Link!Crash
  <2> QED
    BY <2>1, LinkNumbers
<1>5. crashes_link' \in 0 .. MaxCrashes_link
  <2>1. crashes_link \in 0 .. MaxCrashes_link /\ MaxCrashes_link \in Nat
    BY LinkAssumption DEF LinkAssumption, LinkTypes, Link!TypeOK
  <2>2. crashes_link < MaxCrashes_link /\ crashes_link' = crashes_link + 1
    BY DEF Link!Crash
  <2> QED
    BY <2>1, <2>2
<1>6. UNCHANGED <<clock_link, seen, current_link, born, nextId, accepted, ingested>> /\ blind' = {}
      /\ word' = "not heard yet"
  BY DEF Link!Crash, Link!peer
<1> QED
  BY <1>1, <1>2, <1>3, <1>4, <1>5, <1>6 DEF LinkTypes, Link!TypeOK, Claims

LEMMA LinkTypesStep == LinkTypes /\ [Link!Next]_(Link!vars) => LinkTypes'
<1> SUFFICES ASSUME LinkTypes, [Link!Next]_(Link!vars) PROVE LinkTypes'
  OBVIOUS
<1>1. CASE UNCHANGED Link!vars
  BY <1>1 DEF LinkTypes, Link!TypeOK, Link!vars, Link!peer, Link!history
<1> QED
  BY <1>1, NextEventTypes, SendTypes, AbandonTypes, BeatTypes, StillTypes, SeenEventTypes,
     MoveClaimTypes, IngestTypes, ForgetTypes, ReplyTypes, TickTypes, CrashTypes
     DEF Link!Next, Link!Handle

-----------------------------------------------------------------------------
\* Safety, action by action.

\* The handler that is awaited, the event it serves, and what it holds.
LEMMA AwaitedHandler ==
  ASSUME LinkInv, NEW s \in Hands, Link!Awaited(s)
  PROVE  /\ current_link # Absent /\ current_link \in Link!Events /\ req_link[s].ev = current_link
         /\ current_link.id = nextId - 1 /\ current_link.id \in Link!EventIds
         /\ req_link[s].now \in Nat /\ born \in Nat /\ nextId \in Nat /\ SeenFor \in Nat
         /\ born <= req_link[s].now /\ req_link[s].now - born < SeenFor
         /\ \A t \in Hands : Link!Awaited(t) => t = s
<1>1. req_link[s].pc # "idle"
  BY DEF Link!Awaited
<1>2. req_link[s].now \in 1 .. clock_link /\ req_link[s].ev.id \in Link!EventIds /\ req_link[s].ev \in Link!Events
  BY <1>1, HandlerType DEF LinkInv
<1>3. born \in 1 .. clock_link /\ nextId \in 1 .. MaxEvents + 1 /\ MaxEvents \in Nat /\ clock_link \in Nat
  BY LinkNumbers DEF LinkInv
<1>4. SeenFor \in Nat
  BY LinkAssumption DEF LinkAssumption
<1>5. /\ current_link # Absent /\ req_link[s].ev = current_link /\ current_link.id = nextId - 1
      /\ born <= req_link[s].now /\ req_link[s].now - born < SeenFor
      /\ \A t \in Hands : Link!Awaited(t) => t = s
  BY DEF LinkInv, LinkSafe, AwaitedOK, SeenOK
<1> QED
  BY <1>2, <1>3, <1>4, <1>5

\* A handler that its peer gave up on, or none, leaves; one that leaves before it
\* ingested, with its id remembered, is disturbed.
LEMMA LeaveSafe ==
  ASSUME LinkInv, NEW s \in Hands, Link!Leave(s),
         UNCHANGED <<seen, current_link, born, nextId, accepted, ingested, blind, claim>>,
         disturbed \subseteq disturbed',
         Link!Awaited(s) /\ req_link[s].pc \in Delivering => req_link[s].ev.id \in disturbed'
  PROVE  LinkSafe'
<1>1. /\ ~Link!Awaited(s)' /\ req_link'[s].gone = FALSE
      /\ \A t \in Hands \ {s} : req_link'[t] = req_link[t]
  BY LeaveOK DEF Link!Awaited, LinkInv
<1>2. \A t \in Hands : Link!Awaited(t)' => Link!Awaited(t) /\ req_link'[t] = req_link[t] /\ t # s
  BY <1>1 DEF Link!Awaited
<1>3. GoneOK'
  BY <1>1 DEF LinkInv, LinkSafe, GoneOK
<1>4. AwaitedOK'
  BY <1>2 DEF LinkInv, LinkSafe, AwaitedOK
<1>5. SeenOK'
  BY DEF LinkInv, LinkSafe, SeenOK
<1>6. IngestedOK'
  BY <1>2 DEF LinkInv, LinkSafe, IngestedOK, Link!EventIds
<1>7. AcceptedOK'
  <2>1. ASSUME NEW t \in Hands, Link!Awaited(t), t # s
        PROVE  Link!Awaited(t)' /\ req_link'[t] = req_link[t]
    BY <1>1, <2>1 DEF Link!Awaited
  <2>2. Link!AcceptedWasIngested'
    BY DEF LinkInv, LinkSafe, AcceptedOK, Link!AcceptedWasIngested
  <2>3. ASSUME NEW i \in DOMAIN seen' \ disturbed'
        PROVE  \/ ingested'[i] = 1
               \/ \E t \in Hands : /\ Link!Awaited(t)' /\ req_link'[t].pc \in Delivering
                                   /\ req_link'[t].ev.id = i
    <3>1. i \in DOMAIN seen \ disturbed
      BY <2>3
    <3>2. \/ ingested[i] = 1
          \/ \E t \in Hands : /\ Link!Awaited(t) /\ req_link[t].pc \in Delivering
                              /\ req_link[t].ev.id = i
      BY <3>1 DEF LinkInv, LinkSafe, AcceptedOK
    <3> QED
      BY <2>1, <2>3, <3>2
  <2> QED
    BY <2>2, <2>3 DEF AcceptedOK
<1>8. BlindOK'
  BY <1>2 DEF LinkInv, LinkSafe, BlindOK
<1> QED
  BY <1>3, <1>4, <1>5, <1>6, <1>7, <1>8 DEF LinkSafe

\* A handler goes on to a step that needs nothing it did not have.
LEMMA GoSafe ==
  ASSUME LinkInv, NEW s \in Hands, NEW pc \in Link!Places, req_link[s].pc # "idle", Link!Go(s, pc),
         UNCHANGED <<seen, current_link, born, nextId, accepted, ingested, disturbed, blind, claim>>,
         req_link[s].gone => pc \in {"seen", "ingest", "forget"},
         pc \in Delivering <=> req_link[s].pc \in Delivering,
         pc \notin {"ingest", "reply"}
  PROVE  LinkSafe'
<1>1. /\ req_link'[s].pc = pc /\ req_link'[s].ev = req_link[s].ev
      /\ req_link'[s].now = req_link[s].now /\ req_link'[s].gone = req_link[s].gone
      /\ \A t \in Hands \ {s} : req_link'[t] = req_link[t]
  BY GoOK DEF LinkInv
<1>2. \A t \in Hands :
        /\ Link!Awaited(t)' <=> Link!Awaited(t)
        /\ req_link'[t].ev = req_link[t].ev /\ req_link'[t].now = req_link[t].now
        /\ req_link'[t].pc \in Delivering <=> req_link[t].pc \in Delivering
        /\ req_link'[t].pc \in {"ingest", "reply"} => req_link'[t].pc = req_link[t].pc
  BY <1>1 DEF Link!Awaited, Link!Places
<1>3. GoneOK'
  BY <1>1 DEF LinkInv, LinkSafe, GoneOK
<1>4. AwaitedOK'
  BY <1>2 DEF LinkInv, LinkSafe, AwaitedOK
<1>5. SeenOK'
  BY DEF LinkInv, LinkSafe, SeenOK
<1>6. IngestedOK'
  BY <1>2 DEF LinkInv, LinkSafe, IngestedOK, Link!EventIds
<1>7. AcceptedOK'
  BY <1>2 DEF LinkInv, LinkSafe, AcceptedOK, Link!AcceptedWasIngested
<1>8. BlindOK'
  BY <1>2 DEF LinkInv, LinkSafe, BlindOK
<1> QED
  BY <1>3, <1>4, <1>5, <1>6, <1>7, <1>8 DEF LinkSafe

LEMMA NextEventSafe == ASSUME LinkInv, Link!NextEvent PROVE LinkSafe'
<1>1. /\ current_link = Absent /\ nextId \in Link!EventIds /\ nextId' = nextId + 1 /\ born' = clock_link
      /\ UNCHANGED <<clock_link, seen, claim, req_link, accepted, ingested, disturbed>>
  BY DEF Link!NextEvent
<1>2. PICK c \in Conditions, over \in BOOLEAN, w \in Words :
        /\ current_link' = [id |-> nextId, condition |-> c, cleared |-> over, permits |-> w]
        /\ blind' = IF over THEN blind \ {c} ELSE blind
  BY DEF Link!NextEvent
<1>3. /\ current_link' \in Link!Events /\ current_link' # Absent /\ current_link'.id = nextId
      /\ current_link'.condition = c /\ current_link'.cleared = over
  BY <1>1, <1>2, LinkAssumption DEF Link!Events, LinkAssumption
<1>4. \A s \in Hands : ~Link!Awaited(s) /\ ~Link!Awaited(s)'
  BY <1>1 DEF LinkInv, LinkSafe, AwaitedOK, Link!Awaited
<1>5. nextId \in Nat /\ nextId' - 1 = nextId
  BY <1>1, LinkNumbers DEF LinkInv
<1>6. SeenOK'
  <2>1. ASSUME NEW i \in DOMAIN seen
        PROVE  i \in Nat /\ i < nextId /\ seen[i] <= clock_link
    <3>1. i \in Link!EventIds /\ seen[i] \in 1 .. clock_link
      BY <2>1 DEF LinkInv, LinkTypes, Link!TypeOK
    <3>2. i < nextId
      BY <2>1 DEF LinkInv, LinkSafe, SeenOK
    <3> QED
      BY <3>1, <3>2, LinkNumbers DEF Link!EventIds, LinkInv
  <2>2. ASSUME NEW i \in DOMAIN seen'
        PROVE  i < nextId' /\ i # current_link'.id /\ seen'[i] <= born'
    BY <1>1, <1>3, <1>5, <2>1
  <2> QED
    BY <1>3, <1>5, <2>2 DEF SeenOK
<1>7. IngestedOK'
  <2>1. ASSUME NEW i \in Link!EventIds
        PROVE  ingested[i] \in {0, 1} /\ (i >= nextId => ingested[i] = 0) /\ (i >= nextId' => i >= nextId)
    BY <1>1, <1>5 DEF LinkInv, LinkSafe, IngestedOK, Link!EventIds
  <2>2. ingested[nextId] = 0
    BY <1>1, <1>5, <2>1
  <2> QED
    BY <1>1, <1>3, <1>4, <2>1, <2>2 DEF IngestedOK, Link!EventIds
<1>8. GoneOK' /\ AwaitedOK'
  BY <1>1, <1>4 DEF LinkInv, LinkSafe, GoneOK, AwaitedOK
<1>9. AcceptedOK'
  BY <1>1 DEF LinkInv, LinkSafe, AcceptedOK, Link!AcceptedWasIngested, Link!Awaited
<1>10. BlindOK'
  <2>1. blind' \subseteq blind /\ (over => c \notin blind')
    BY <1>2
  <2> QED
    BY <1>1, <1>3, <1>4, <2>1 DEF LinkInv, LinkSafe, BlindOK
<1> QED
  BY <1>6, <1>7, <1>8, <1>9, <1>10 DEF LinkSafe

LEMMA SendSafe == ASSUME LinkInv, NEW s \in Hands, Link!Send(s) PROVE LinkSafe'
<1>1. /\ current_link # Absent /\ req_link[s] = Link!Idle
      /\ \A t \in Hands : ~Link!Awaited(t)
      /\ clock_link - born < SeenFor
      /\ req_link' = [req_link EXCEPT ![s] = [pc |-> "permit", ev |-> current_link,
                                             now |-> clock_link, gone |-> FALSE]]
      /\ UNCHANGED <<clock_link, seen, claim, current_link, born, nextId,
                     accepted, ingested, disturbed, blind>>
  BY DEF Link!Send, Link!peer, Link!history, Link!Waiting
<1>2. /\ req_link'[s].pc = "permit" /\ req_link'[s].ev = current_link
      /\ req_link'[s].now = clock_link /\ req_link'[s].gone = FALSE
      /\ \A t \in Hands \ {s} : req_link'[t] = req_link[t]
  BY <1>1 DEF LinkInv, LinkTypes
<1>3. \A t \in Hands : Link!Awaited(t)' => t = s
  BY <1>1, <1>2 DEF Link!Awaited
<1>4. GoneOK'
  BY <1>2 DEF LinkInv, LinkSafe, GoneOK
<1>5. AwaitedOK'
  <2>1. born <= clock_link
    BY LinkNumbers DEF LinkInv
  <2> QED
    BY <1>1, <1>2, <1>3, <2>1 DEF AwaitedOK
<1>6. SeenOK'
  BY <1>1 DEF LinkInv, LinkSafe, SeenOK
<1>7. IngestedOK'
  BY <1>1, <1>2, <1>3 DEF LinkInv, LinkSafe, IngestedOK, Link!EventIds, Delivering
<1>8. AcceptedOK'
  BY <1>1 DEF LinkInv, LinkSafe, AcceptedOK, Link!AcceptedWasIngested
<1>9. BlindOK'
  BY <1>1, <1>2, <1>3 DEF LinkInv, LinkSafe, BlindOK
<1> QED
  BY <1>4, <1>5, <1>6, <1>7, <1>8, <1>9 DEF LinkSafe

LEMMA DropSafe == ASSUME LinkInv, Link!Drop PROVE LinkSafe'
<1>1. /\ \A s \in Hands : ~Link!Awaited(s) /\ ~Link!Awaited(s)'
      /\ current_link' = Absent
      /\ UNCHANGED <<req_link, clock_link, seen, claim, born, nextId, accepted, ingested, disturbed, blind>>
  BY DEF Link!Drop, Link!history, Link!Waiting, Link!Awaited
<1>2. GoneOK' /\ AwaitedOK' /\ BlindOK'
  BY <1>1 DEF LinkInv, LinkSafe, GoneOK, AwaitedOK, BlindOK
<1>3. SeenOK' /\ IngestedOK'
  BY <1>1 DEF LinkInv, LinkSafe, SeenOK, IngestedOK, Link!EventIds
<1>4. AcceptedOK'
  BY <1>1 DEF LinkInv, LinkSafe, AcceptedOK, Link!AcceptedWasIngested
<1> QED
  BY <1>2, <1>3, <1>4 DEF LinkSafe

LEMMA AbandonSafe == ASSUME LinkInv, NEW s \in Hands, Link!Abandon(s) PROVE LinkSafe'
<1>1. /\ Link!Awaited(s) /\ req_link[s].pc \in {"seen", "ingest", "forget"}
      /\ req_link' = [req_link EXCEPT ![s] = [req_link[s] EXCEPT !.gone = TRUE]]
      /\ disturbed' = disturbed \cup {req_link[s].ev.id}
      /\ UNCHANGED <<clock_link, seen, claim, current_link, born, nextId, accepted, ingested, blind>>
  BY DEF Link!Abandon, Link!peer, LinkInv, LinkTypes
<1>2. req_link[s] \in [pc : Link!Places, ev : Link!Events, now : 1 .. clock_link, gone : BOOLEAN]
  BY <1>1, HandlerType DEF LinkInv
<1>3. /\ req_link'[s].gone = TRUE /\ req_link'[s].pc = req_link[s].pc
      /\ \A t \in Hands \ {s} : req_link'[t] = req_link[t]
  BY <1>1, <1>2 DEF LinkInv, LinkTypes
<1>4. \A t \in Hands : Link!Awaited(t)' <=> Link!Awaited(t) /\ t # s
  BY <1>3 DEF Link!Awaited
<1>5. GoneOK'
  BY <1>1, <1>3 DEF LinkInv, LinkSafe, GoneOK
<1>6. AwaitedOK'
  BY <1>1, <1>3, <1>4 DEF LinkInv, LinkSafe, AwaitedOK
<1>7. SeenOK'
  BY <1>1 DEF LinkInv, LinkSafe, SeenOK
<1>8. IngestedOK'
  BY <1>1, <1>3, <1>4 DEF LinkInv, LinkSafe, IngestedOK, Link!EventIds
<1>9. AcceptedOK'
  BY <1>1, <1>3, <1>4 DEF LinkInv, LinkSafe, AcceptedOK, Link!AcceptedWasIngested
<1>10. BlindOK'
  BY <1>1, <1>3, <1>4 DEF LinkInv, LinkSafe, BlindOK
<1> QED
  BY <1>5, <1>6, <1>7, <1>8, <1>9, <1>10 DEF LinkSafe

\* What moves only the clock or the claim, which heartbeats cannot clear.
LEMMA StillSafe ==
  ASSUME LinkInv, Link!Tick \/ \E moves \in BOOLEAN : Link!Beat(moves)
  PROVE  LinkSafe'
<1>1. claim'.demoting = claim.demoting
  <2>1. claim \in Claims /\ clock_link \in 0 .. clock_link
    BY LinkNumbers DEF LinkInv
  <2>2. Link!Heartbeat(claim, clock_link).demoting = claim.demoting
    BY <2>1, HeartbeatType DEF Claims
  <2> QED
    BY <2>2 DEF Link!Tick, Link!Beat
<1>2. UNCHANGED <<req_link, seen, current_link, born, nextId, accepted, ingested, disturbed, blind>>
  BY DEF Link!Tick, Link!Beat, Link!peer, Link!history
<1>3. \A s \in Hands : Link!Awaited(s)' <=> Link!Awaited(s)
  BY <1>2 DEF Link!Awaited
<1>4. GoneOK' /\ AwaitedOK'
  BY <1>2, <1>3 DEF LinkInv, LinkSafe, GoneOK, AwaitedOK
<1>5. BlindOK'
  BY <1>1, <1>2, <1>3 DEF LinkInv, LinkSafe, BlindOK
<1>6. SeenOK' /\ IngestedOK'
  BY <1>2, <1>3 DEF LinkInv, LinkSafe, SeenOK, IngestedOK, Link!EventIds
<1>7. AcceptedOK'
  BY <1>2, <1>3 DEF LinkInv, LinkSafe, AcceptedOK, Link!AcceptedWasIngested
<1> QED
  BY <1>4, <1>5, <1>6, <1>7 DEF LinkSafe

LEMMA PermitSafe == ASSUME LinkInv, NEW s \in Hands, Link!Permit(s) PROVE LinkSafe'
<1>1. /\ req_link[s].pc = "permit" /\ Link!Go(s, "judge") /\ "judge" \in Link!Places
      /\ UNCHANGED <<seen, current_link, born, nextId, accepted, ingested, disturbed, blind, claim>>
  BY DEF Link!Permit, Link!Places, Link!peer, Link!history
<1>2. ~req_link[s].gone
  BY <1>1 DEF LinkInv, LinkSafe, GoneOK
<1> QED
  BY <1>1, <1>2, GoSafe DEF Delivering

LEMMA JudgeSafe == ASSUME LinkInv, NEW s \in Hands, Link!Judge(s) PROVE LinkSafe'
<1>1. /\ req_link[s].pc = "judge" /\ "seen" \in Link!Places
      /\ Link!Leave(s) \/ Link!Go(s, "seen")
      /\ UNCHANGED <<seen, current_link, born, nextId, accepted, ingested, disturbed, blind, claim>>
  BY DEF Link!Judge, Link!Places, Link!peer, Link!history
<1>2. CASE Link!Leave(s)
  BY <1>1, <1>2, LeaveSafe DEF Delivering
<1>3. CASE Link!Go(s, "seen")
  BY <1>1, <1>3, GoSafe DEF Delivering
<1> QED
  BY <1>1, <1>2, <1>3

\* An id repeated within the window is answered without another look at the event.
LEMMA RepeatSafe ==
  ASSUME LinkInv, NEW s \in Hands, Link!Awaited(s), req_link[s].pc = "seen",
         Link!Leave(s), Link!Accept(s),
         req_link[s].ev.id \in DOMAIN seen,
         DOMAIN seen' \subseteq DOMAIN seen, \A i \in DOMAIN seen' : seen'[i] = seen[i],
         UNCHANGED <<claim, born, nextId, ingested, disturbed, blind>>
  PROVE  LinkSafe'
<1>1. /\ req_link[s].ev = current_link /\ \A t \in Hands : Link!Awaited(t) => t = s
  BY AwaitedHandler
<1>2. current_link' = Absent /\ accepted' = accepted \cup {current_link.id}
  BY <1>1 DEF Link!Accept, Link!Awaited
<1>3. /\ req_link'[s].pc = "idle" /\ req_link'[s].gone = FALSE
      /\ \A t \in Hands \ {s} : req_link'[t] = req_link[t]
  BY LeaveOK DEF LinkInv
<1>4. \A t \in Hands : ~Link!Awaited(t)'
  BY <1>1, <1>3 DEF Link!Awaited
<1>5. ASSUME NEW i \in DOMAIN seen \ disturbed PROVE ingested[i] = 1
  BY <1>1 DEF LinkInv, LinkSafe, AcceptedOK, Delivering
<1>6. GoneOK' /\ AwaitedOK'
  BY <1>3, <1>4 DEF LinkInv, LinkSafe, GoneOK, AwaitedOK
<1>7. SeenOK' /\ BlindOK'
  BY <1>2, <1>4 DEF LinkInv, LinkSafe, SeenOK, BlindOK
<1>8. IngestedOK'
  BY <1>2, <1>4 DEF LinkInv, LinkSafe, IngestedOK, Link!EventIds
<1>9. AcceptedOK'
  <2>1. Link!AcceptedWasIngested'
    BY <1>1, <1>2, <1>5 DEF LinkInv, LinkSafe, AcceptedOK, Link!AcceptedWasIngested
  <2> QED
    BY <1>5, <2>1 DEF AcceptedOK
<1> QED
  BY <1>6, <1>7, <1>8, <1>9 DEF LinkSafe

\* An id first met is remembered: it was not, even where its window is not asked for.
LEMMA RememberSafe ==
  ASSUME LinkInv, NEW s \in Hands, Link!Awaited(s), req_link[s].pc = "seen",
         Link!Go(s, "observe"),
         req_link[s].ev.id \notin DOMAIN seen, req_link[s].ev.id \in DOMAIN seen',
         seen'[req_link[s].ev.id] = req_link[s].now,
         \A i \in DOMAIN seen' \ {req_link[s].ev.id} : i \in DOMAIN seen /\ seen'[i] = seen[i],
         UNCHANGED <<claim, current_link, born, nextId, accepted, ingested, disturbed, blind>>
  PROVE  LinkSafe'
<1>1. /\ current_link # Absent /\ req_link[s].ev = current_link /\ current_link.id = nextId - 1
      /\ current_link.id \in Link!EventIds /\ born \in Nat /\ nextId \in Nat
      /\ born <= req_link[s].now /\ \A t \in Hands : Link!Awaited(t) => t = s
  BY AwaitedHandler
<1>2. /\ req_link'[s].pc = "observe" /\ req_link'[s].ev = current_link
      /\ req_link'[s].now = req_link[s].now /\ req_link'[s].gone = req_link[s].gone
      /\ \A t \in Hands \ {s} : req_link'[t] = req_link[t]
  BY <1>1, GoOK DEF LinkInv, Link!Places
<1>3. Link!Awaited(s)' /\ req_link'[s].gone = FALSE /\ \A t \in Hands : Link!Awaited(t)' => t = s
  <2>1. req_link[s].gone = FALSE
    <3>1. req_link[s].gone \in BOOLEAN
      BY HandlerType DEF LinkInv
    <3> QED
      BY <3>1, Zenon DEF Link!Awaited
  <2> QED
    BY <1>1, <1>2, <2>1 DEF Link!Awaited
<1>4. ingested[current_link.id] = 0
  BY <1>1 DEF LinkInv, LinkSafe, IngestedOK
<1>5. GoneOK' /\ AwaitedOK'
  <2>1. GoneOK'
    BY <1>2, <1>3 DEF LinkInv, LinkSafe, GoneOK
  <2>2. AwaitedOK'
    BY <1>1, <1>2, <1>3, AwaitedHandler DEF AwaitedOK
  <2> QED
    BY <2>1, <2>2
<1>6. SeenOK'
  <2>1. ASSUME NEW i \in DOMAIN seen', i # current_link.id
        PROVE  i < nextId /\ seen'[i] <= born
    BY <1>1, <2>1 DEF LinkInv, LinkSafe, SeenOK
  <2> QED
    BY <1>1, <2>1 DEF SeenOK
<1>7. IngestedOK'
  BY <1>1, <1>2, <1>3, <1>4 DEF LinkInv, LinkSafe, IngestedOK, Link!EventIds
<1>8. AcceptedOK'
  <2>1. ASSUME NEW i \in DOMAIN seen \ disturbed PROVE ingested[i] = 1
    BY <1>1 DEF LinkInv, LinkSafe, AcceptedOK, Delivering
  <2>2. Link!AcceptedWasIngested'
    BY DEF LinkInv, LinkSafe, AcceptedOK, Link!AcceptedWasIngested
  <2>3. req_link'[s].pc \in Delivering
    BY <1>2 DEF Delivering
  <2> QED
    BY <1>1, <1>2, <1>3, <2>1, <2>2, <2>3 DEF AcceptedOK
<1>9. BlindOK'
  BY <1>1, <1>2, <1>3 DEF LinkInv, LinkSafe, BlindOK
<1> QED
  BY <1>5, <1>6, <1>7, <1>8, <1>9 DEF LinkSafe

LEMMA SeenEventSafe == ASSUME LinkInv, NEW s \in Hands, Link!SeenEvent(s) PROVE LinkSafe'
<1> DEFINE id == req_link[s].ev.id
           now == req_link[s].now
           kept == Link!Remembered(now)
           at == [i \in kept \cup {id} |-> IF i = id THEN now ELSE seen[i]]
<1>1. /\ req_link[s].pc = "seen" /\ (~req_link[s].gone => Link!Awaited(s))
      /\ UNCHANGED <<claim, born, nextId, ingested, disturbed, blind>>
  BY DEF Link!SeenEvent, Link!Awaited
<1>2. kept \subseteq DOMAIN seen
  BY DEF Link!Remembered
<1>3. CASE /\ ~req_link[s].gone /\ id \in kept /\ seen' = [i \in kept |-> seen[i]]
           /\ Link!Accept(s) /\ Link!Leave(s)
  BY <1>1, <1>2, <1>3, RepeatSafe
<1>4. ASSUME NEW K \in Link!Kept(kept \cup {id}, id, at), seen' = [i \in K |-> at[i]],
             ~req_link[s].gone, id \notin kept, Link!Go(s, "observe"),
             UNCHANGED <<accepted, current_link>>
      PROVE  LinkSafe'
  <2>1. /\ Link!Awaited(s) /\ id = current_link.id /\ current_link # Absent
        /\ now \in Nat /\ born \in Nat /\ SeenFor \in Nat
        /\ born <= now /\ now - born < SeenFor /\ id \in Link!EventIds
    BY <1>1, <1>4, AwaitedHandler
  <2>2. \A i \in DOMAIN seen : i \in Link!EventIds /\ seen[i] \in Nat
    <3>1. DOMAIN seen \subseteq Link!EventIds /\ \A i \in DOMAIN seen : seen[i] \in 1 .. clock_link
      BY DEF LinkInv, LinkTypes, Link!TypeOK
    <3> QED
      BY <3>1, LinkNumbers DEF LinkInv
  <2>3. id \notin DOMAIN seen
    <3>1. SUFFICES ASSUME id \in DOMAIN seen PROVE FALSE
      OBVIOUS
    <3>2. born <= seen[id]
      BY <2>1, <3>1 DEF LinkInv, LinkSafe, SeenOK
    <3>3. seen[id] < now - SeenFor
      BY <1>4, <2>1, <2>2, <3>1 DEF Link!Remembered
    <3> QED
      BY <2>1, <2>2, <3>1, <3>2, <3>3
  <2>4. \A i \in kept : at[i] <= now
    <3>1. \A i \in kept : seen[i] <= born /\ at[i] = seen[i]
      BY <1>2, <2>1, <2>3 DEF LinkInv, LinkSafe, SeenOK
    <3> QED
      BY <1>2, <2>1, <2>2, <3>1
  <2>5. at \in [kept \cup {id} -> Int] /\ kept \cup {id} \subseteq Link!EventIds /\ at[id] = now
    BY <1>2, <2>1, <2>2
  <2>6. \A i \in K \ {id} : i \in DOMAIN seen /\ at[i] = seen[i]
    BY <1>2 DEF Link!Kept
  <2> HIDE DEF at, kept
  <2>7. id \in K
    BY <2>1, <2>4, <2>5, KeptOK
  <2>8. /\ id \in DOMAIN seen' /\ seen'[id] = now
        /\ \A i \in DOMAIN seen' \ {id} : i \in DOMAIN seen /\ seen'[i] = seen[i]
    BY <1>4, <2>5, <2>6, <2>7
  <2> QED
    BY <1>1, <1>4, <2>1, <2>3, <2>8, RememberSafe
<1>5. CASE Link!Leave(s) /\ UNCHANGED <<seen, accepted, current_link>>
  BY <1>1, <1>5, LeaveSafe DEF Delivering
<1> QED
  BY <1>3, <1>4, <1>5 DEF Link!SeenEvent

LEMMA MoveClaimSafe == ASSUME LinkInv, NEW s \in Hands, Link!MoveClaim(s) PROVE LinkSafe'
<1>1. /\ req_link[s].pc = "observe" /\ Link!Go(s, "ingest") /\ "ingest" \in Link!Places
      /\ claim' = Link!Observe(Link!Heartbeat(claim, req_link[s].now), req_link[s].ev, req_link[s].now)
      /\ UNCHANGED <<seen, current_link, born, nextId, accepted, ingested, disturbed, blind>>
  BY DEF Link!MoveClaim, Link!Places, Link!peer, Link!history
<1>2. Link!Awaited(s)
  BY <1>1 DEF Link!Awaited, LinkInv, LinkSafe, GoneOK
<1>3. /\ current_link \in Link!Events /\ current_link # Absent /\ req_link[s].ev = current_link
      /\ \A t \in Hands : Link!Awaited(t) => t = s
  BY <1>2, AwaitedHandler
<1>4. /\ req_link'[s].pc = "ingest" /\ req_link'[s].ev = req_link[s].ev
      /\ req_link'[s].now = req_link[s].now /\ req_link'[s].gone = req_link[s].gone
      /\ \A t \in Hands \ {s} : req_link'[t] = req_link[t]
  BY <1>1, GoOK DEF LinkInv
<1>5. \A t \in Hands : Link!Awaited(t)' <=> t = s
  BY <1>1, <1>2, <1>3, <1>4 DEF Link!Awaited
<1>6. /\ claim.demoting \ {current_link.condition} \subseteq claim'.demoting
      /\ ~current_link.cleared => /\ claim.demoting \subseteq claim'.demoting
                                  /\ {current_link.condition} \cap Demoting \subseteq claim'.demoting
  <2>1. req_link[s].now \in 0 .. clock_link /\ clock_link \in Nat /\ claim \in Claims
    BY <1>1, HandlerType, LinkNumbers DEF LinkInv
  <2>2. PICK c : c = Link!Heartbeat(claim, req_link[s].now)
    OBVIOUS
  <2>3. c \in Claims /\ c.demoting = claim.demoting
    BY <2>1, <2>2, HeartbeatType DEF Claims
  <2>4. claim' = Link!Observe(c, current_link, req_link[s].now)
    BY <1>1, <1>3, <2>2
  <2> QED
    BY <1>3, <2>1, <2>3, <2>4, ObserveType DEF Claims
<1>7. GoneOK'
  BY <1>2, <1>4 DEF LinkInv, LinkSafe, GoneOK, Link!Awaited
<1>8. AwaitedOK'
  BY <1>1, <1>2, <1>4, <1>5 DEF LinkInv, LinkSafe, AwaitedOK
<1>9. SeenOK'
  BY <1>1 DEF LinkInv, LinkSafe, SeenOK
<1>10. IngestedOK'
  BY <1>1, <1>2, <1>4, <1>5 DEF LinkInv, LinkSafe, IngestedOK, Link!EventIds, Delivering
<1>11. AcceptedOK'
  <2>1. Link!AcceptedWasIngested'
    BY <1>1 DEF LinkInv, LinkSafe, AcceptedOK, Link!AcceptedWasIngested
  <2> QED
    BY <1>1, <1>3, <1>4, <1>5, <2>1 DEF LinkInv, LinkSafe, AcceptedOK, Delivering
<1>12. BlindOK'
  <2>1. blind \subseteq claim.demoting /\ (current_link.cleared => current_link.condition \notin blind)
    BY <1>3 DEF LinkInv, LinkSafe, BlindOK
  <2>2. blind \subseteq claim'.demoting
    <3>1. CASE current_link.cleared
      BY <1>6, <2>1, <3>1
    <3>2. CASE ~current_link.cleared
      BY <1>6, <2>1, <3>2
    <3> QED
      BY <3>1, <3>2
  <2> QED
    BY <1>1, <1>6, <2>1, <2>2 DEF BlindOK
<1> QED
  BY <1>7, <1>8, <1>9, <1>10, <1>11, <1>12 DEF LinkSafe

LEMMA IngestSafe == ASSUME LinkInv, NEW s \in Hands, Link!Ingest(s) PROVE LinkSafe'
<1>1. /\ req_link[s].pc = "ingest" /\ {"reply", "forget"} \subseteq Link!Places
      /\ UNCHANGED <<seen, current_link, born, nextId, claim, accepted, disturbed, blind>>
  BY DEF Link!Ingest, Link!Places, Link!peer
<1>2. CASE Link!Go(s, "forget") /\ UNCHANGED ingested
  BY <1>1, <1>2, GoSafe DEF Delivering
<1>3. CASE /\ ~req_link[s].gone /\ Link!Go(s, "reply")
           /\ ingested' = [ingested EXCEPT ![req_link[s].ev.id] = @ + 1]
  <2>1. Link!Awaited(s)
    BY <1>1, <1>3 DEF Link!Awaited
  <2>2. /\ current_link # Absent /\ req_link[s].ev = current_link /\ current_link.id \in Link!EventIds
        /\ current_link.id = nextId - 1 /\ nextId \in Nat
        /\ \A t \in Hands : Link!Awaited(t) => t = s
    BY <2>1, AwaitedHandler
  <2>3. /\ req_link'[s].pc = "reply" /\ req_link'[s].ev = req_link[s].ev
        /\ req_link'[s].now = req_link[s].now /\ req_link'[s].gone = req_link[s].gone
        /\ \A t \in Hands \ {s} : req_link'[t] = req_link[t]
    BY <1>1, <1>3, GoOK DEF LinkInv
  <2>4. \A t \in Hands : Link!Awaited(t)' <=> t = s
    BY <1>1, <2>1, <2>2, <2>3 DEF Link!Awaited
  <2>5. ingested[current_link.id] = 0 /\ current_link.id \in DOMAIN seen
    BY <1>1, <2>1 DEF LinkInv, LinkSafe, IngestedOK, Delivering
  <2>6. /\ ingested'[current_link.id] = 1
        /\ \A i \in Link!EventIds \ {current_link.id} : ingested'[i] = ingested[i]
    <3>1. ingested \in [Link!EventIds -> Nat]
      BY DEF LinkInv, LinkTypes, Link!TypeOK
    <3> QED
      BY <1>3, <2>2, <2>5, <3>1
  <2>7. GoneOK'
    BY <1>3, <2>3 DEF LinkInv, LinkSafe, GoneOK
  <2>8. AwaitedOK'
    BY <1>1, <2>1, <2>3, <2>4 DEF LinkInv, LinkSafe, AwaitedOK
  <2>9. SeenOK'
    BY <1>1 DEF LinkInv, LinkSafe, SeenOK
  <2>10. IngestedOK'
    <3>1. ASSUME NEW i \in Link!EventIds
          PROVE  ingested'[i] \in {0, 1} /\ (i >= nextId' => ingested'[i] = 0)
      BY <1>1, <2>2, <2>6 DEF LinkInv, LinkSafe, IngestedOK, Link!EventIds
    <3> QED
      BY <1>1, <2>3, <2>4, <2>5, <2>6, <3>1 DEF IngestedOK, Link!EventIds, Delivering
  <2>11. AcceptedOK'
    <3>1. ASSUME NEW i \in Link!EventIds, ingested[i] = 1 PROVE ingested'[i] = 1
      BY <2>5, <2>6, <3>1
    <3>2. DOMAIN seen \subseteq Link!EventIds /\ accepted \subseteq Link!EventIds
      BY DEF LinkInv, LinkTypes, Link!TypeOK
    <3>3. Link!AcceptedWasIngested'
      BY <1>1, <3>1, <3>2 DEF LinkInv, LinkSafe, AcceptedOK, Link!AcceptedWasIngested
    <3>4. ASSUME NEW i \in DOMAIN seen \ disturbed PROVE ingested'[i] = 1
      BY <2>2, <2>6, <3>1, <3>2 DEF LinkInv, LinkSafe, AcceptedOK
    <3> QED
      BY <1>1, <3>3, <3>4 DEF AcceptedOK
  <2>12. BlindOK'
    BY <1>1, <2>1, <2>3, <2>4 DEF LinkInv, LinkSafe, BlindOK
  <2> QED
    BY <2>7, <2>8, <2>9, <2>10, <2>11, <2>12 DEF LinkSafe
<1> QED
  BY <1>2, <1>3 DEF Link!Ingest

LEMMA ForgetSafe == ASSUME LinkInv, NEW s \in Hands, Link!Forget(s) PROVE LinkSafe'
<1>1. /\ req_link[s].pc = "forget" /\ Link!Leave(s)
      /\ UNCHANGED <<current_link, born, nextId, claim, accepted, ingested, blind>>
  BY DEF Link!Forget, Link!peer
<1>2. CASE disturbed' = disturbed \cup {req_link[s].ev.id} /\ UNCHANGED seen
  BY <1>1, <1>2, LeaveSafe
<1>3. CASE /\ ~req_link[s].gone /\ UNCHANGED disturbed
           /\ seen' = [i \in DOMAIN seen \ {req_link[s].ev.id} |-> seen[i]]
  <2>1. Link!Awaited(s)
    BY <1>1, <1>3 DEF Link!Awaited
  <2>2. /\ current_link # Absent /\ req_link[s].ev = current_link /\ current_link.id \in Link!EventIds
        /\ \A t \in Hands : Link!Awaited(t) => t = s
    BY <2>1, AwaitedHandler
  <2>3. /\ req_link'[s].pc = "idle" /\ req_link'[s].gone = FALSE
        /\ \A t \in Hands \ {s} : req_link'[t] = req_link[t]
    BY <1>1, LeaveOK DEF LinkInv
  <2>4. \A t \in Hands : ~Link!Awaited(t)'
    BY <2>2, <2>3 DEF Link!Awaited
  <2>5. ingested[current_link.id] = 0
    BY <1>1, <2>1 DEF LinkInv, LinkSafe, IngestedOK, Delivering
  <2>6. \A i \in DOMAIN seen' : i \in DOMAIN seen /\ i # current_link.id /\ seen'[i] = seen[i]
    BY <1>3, <2>2
  <2>7. GoneOK' /\ AwaitedOK' /\ BlindOK'
    BY <1>1, <2>3, <2>4 DEF LinkInv, LinkSafe, GoneOK, AwaitedOK, BlindOK
  <2>8. SeenOK'
    BY <1>1, <2>6 DEF LinkInv, LinkSafe, SeenOK
  <2>9. IngestedOK'
    BY <1>1, <2>4, <2>5 DEF LinkInv, LinkSafe, IngestedOK, Link!EventIds
  <2>10. AcceptedOK'
    <3>1. Link!AcceptedWasIngested'
      BY <1>1, <1>3 DEF LinkInv, LinkSafe, AcceptedOK, Link!AcceptedWasIngested
    <3>2. ASSUME NEW i \in DOMAIN seen' \ disturbed' PROVE ingested'[i] = 1
      BY <1>1, <1>3, <2>2, <2>6 DEF LinkInv, LinkSafe, AcceptedOK
    <3> QED
      BY <3>1, <3>2 DEF AcceptedOK
  <2> QED
    BY <2>7, <2>8, <2>9, <2>10 DEF LinkSafe
<1> QED
  BY <1>2, <1>3 DEF Link!Forget

\* The peer learns of what was ingested; what it learns was seen as raised
\* demotes the claim already.
LEMMA ReplySafe == ASSUME LinkInv, NEW s \in Hands, Link!Reply(s) PROVE LinkSafe'
<1>1. /\ req_link[s].pc = "reply" /\ Link!Leave(s) /\ Link!Accept(s)
      /\ UNCHANGED <<seen, claim, born, nextId, ingested, disturbed>>
  BY DEF Link!Reply
<1>2. Link!Awaited(s)
  BY <1>1 DEF Link!Awaited, LinkInv, LinkSafe, GoneOK
<1>3. /\ current_link # Absent /\ req_link[s].ev = current_link /\ current_link.id \in Link!EventIds
      /\ \A t \in Hands : Link!Awaited(t) => t = s
  BY <1>2, AwaitedHandler
<1>4. current_link' = Absent /\ accepted' = accepted \cup {current_link.id}
  BY <1>1, <1>2, <1>3 DEF Link!Accept, Link!Awaited
<1>5. /\ req_link'[s].pc = "idle" /\ req_link'[s].gone = FALSE
      /\ \A t \in Hands \ {s} : req_link'[t] = req_link[t]
  BY <1>1, LeaveOK DEF LinkInv
<1>6. \A t \in Hands : ~Link!Awaited(t)'
  BY <1>3, <1>5 DEF Link!Awaited
<1>7. ingested[current_link.id] = 1
  BY <1>1, <1>2 DEF LinkInv, LinkSafe, IngestedOK
<1>8. blind' \subseteq claim.demoting
  <2>1. blind \subseteq claim.demoting
    BY DEF LinkInv, LinkSafe, BlindOK
  <2>2. current_link.cleared \/ {current_link.condition} \cap Demoting \subseteq claim.demoting
    BY <1>1, <1>2 DEF LinkInv, LinkSafe, BlindOK
  <2>3. \/ blind' = blind
        \/ ~current_link.cleared /\ blind' = blind \cup ({current_link.condition} \cap Demoting)
    BY <1>3 DEF Link!Reply
  <2> QED
    BY <2>1, <2>2, <2>3
<1>9. GoneOK' /\ AwaitedOK' /\ BlindOK'
  BY <1>1, <1>4, <1>5, <1>6, <1>8 DEF LinkInv, LinkSafe, GoneOK, AwaitedOK, BlindOK
<1>10. SeenOK' /\ IngestedOK'
  BY <1>1, <1>4, <1>6 DEF LinkInv, LinkSafe, SeenOK, IngestedOK, Link!EventIds
<1>11. AcceptedOK'
  <2>1. Link!AcceptedWasIngested'
    BY <1>1, <1>4, <1>7 DEF LinkInv, LinkSafe, AcceptedOK, Link!AcceptedWasIngested
  <2>2. ASSUME NEW i \in DOMAIN seen \ disturbed PROVE ingested[i] = 1
    BY <1>1, <1>3 DEF LinkInv, LinkSafe, AcceptedOK, Delivering
  <2> QED
    BY <1>1, <2>1, <2>2 DEF AcceptedOK
<1> QED
  BY <1>9, <1>10, <1>11 DEF LinkSafe

\* Nobody is awaited after a crash, and whoever was is disturbed.
LEMMA CrashSafe == ASSUME LinkInv, Link!Crash PROVE LinkSafe'
<1>1. /\ req_link' = [s \in Hands |-> Link!Idle] /\ blind' = {}
      /\ UNCHANGED <<seen, current_link, born, nextId, accepted, ingested>>
  BY DEF Link!Crash, Link!peer
<1>2. \A s \in Hands : ~Link!Awaited(s)' /\ req_link'[s].gone = FALSE
  BY <1>1 DEF Link!Awaited, Link!Idle
<1>3. GoneOK' /\ AwaitedOK' /\ BlindOK'
  BY <1>1, <1>2 DEF GoneOK, AwaitedOK, BlindOK
<1>4. SeenOK' /\ IngestedOK'
  BY <1>1, <1>2 DEF LinkInv, LinkSafe, SeenOK, IngestedOK, Link!EventIds
<1>5. AcceptedOK'
  <2>1. disturbed \subseteq disturbed' /\ \A s \in Hands : Link!Awaited(s) => req_link[s].ev.id \in disturbed'
    <3>1. disturbed' = disturbed \cup {req_link[s].ev.id : s \in {t \in Hands : req_link[t] # Link!Idle}}
      BY DEF Link!Crash
    <3>2. \A s \in Hands : Link!Awaited(s) => req_link[s] # Link!Idle
      BY DEF Link!Awaited, Link!Idle
    <3> QED
      BY <3>1, <3>2
  <2>2. Link!AcceptedWasIngested'
    BY <1>1, <2>1 DEF LinkInv, LinkSafe, AcceptedOK, Link!AcceptedWasIngested
  <2>3. ASSUME NEW i \in DOMAIN seen \ disturbed' PROVE ingested[i] = 1
    BY <2>1 DEF LinkInv, LinkSafe, AcceptedOK
  <2> QED
    BY <1>1, <2>2, <2>3 DEF AcceptedOK
<1> QED
  BY <1>3, <1>4, <1>5 DEF LinkSafe

LEMMA LinkInitSafe == Link!Init => LinkInv
<1> SUFFICES ASSUME Link!Init PROVE LinkInv
  OBVIOUS
<1>1. LinkTypes
  BY LinkInitTypes
<1>2. /\ req_link = [s \in Hands |-> Link!Idle] /\ blind = {} /\ accepted = {} /\ current_link = Absent
      /\ ingested = [i \in Link!EventIds |-> 0]
  BY DEF Link!Init
<1>3. \A s \in Hands : ~Link!Awaited(s) /\ req_link[s].gone = FALSE
  BY <1>2 DEF Link!Awaited, Link!Idle
<1>4. DOMAIN seen = {}
  <2>1. seen = << >>
    BY Zenon DEF Link!Init
  <2> QED
    BY <2>1
<1>5. GoneOK /\ AwaitedOK /\ BlindOK
  BY <1>2, <1>3 DEF GoneOK, AwaitedOK, BlindOK
<1>6. SeenOK /\ IngestedOK /\ AcceptedOK
  BY <1>2, <1>3, <1>4 DEF SeenOK, IngestedOK, AcceptedOK, Link!AcceptedWasIngested
<1> QED
  BY <1>1, <1>5, <1>6 DEF LinkInv, LinkSafe

LEMMA LinkStep == LinkInv /\ [Link!Next]_(Link!vars) => LinkInv'
<1> SUFFICES ASSUME LinkInv, [Link!Next]_(Link!vars) PROVE LinkInv'
  OBVIOUS
<1>1. LinkTypes'
  BY LinkTypesStep DEF LinkInv
<1>2. ASSUME UNCHANGED Link!vars PROVE LinkSafe'
  <2>1. UNCHANGED <<req_link, seen, claim, current_link, born, nextId, accepted, ingested, disturbed, blind>>
    BY <1>2 DEF Link!vars, Link!peer, Link!history
  <2>2. GoneOK' /\ AwaitedOK' /\ BlindOK'
    BY <2>1 DEF LinkInv, LinkSafe, GoneOK, AwaitedOK, BlindOK, Link!Awaited
  <2>3. SeenOK' /\ IngestedOK'
    BY <2>1 DEF LinkInv, LinkSafe, SeenOK, IngestedOK, Link!Awaited, Link!EventIds
  <2>4. AcceptedOK'
    BY <2>1 DEF LinkInv, LinkSafe, AcceptedOK, Link!Awaited, Link!AcceptedWasIngested
  <2> QED
    BY <2>2, <2>3, <2>4 DEF LinkSafe
<1>3. ASSUME Link!Next PROVE LinkSafe'
  <2>1. ASSUME NEW s \in Hands, Link!Send(s) \/ Link!Abandon(s) \/ Link!Handle(s) PROVE LinkSafe'
    BY <2>1, SendSafe, AbandonSafe, PermitSafe, JudgeSafe, SeenEventSafe, MoveClaimSafe,
       IngestSafe, ForgetSafe, ReplySafe DEF Link!Handle
  <2> QED
    BY <1>3, <2>1, NextEventSafe, DropSafe, StillSafe, CrashSafe DEF Link!Next
<1> QED
  BY <1>1, <1>2, <1>3 DEF LinkInv

-----------------------------------------------------------------------------
\* Theorems.

\* Every state of the peer link satisfies its invariant.
THEOREM LinkInvariant == Spec => [](subject = "link" => LinkInv)
<1> DEFINE Inv == subject = "link" => LinkInv
<1>1. Init => Inv
  BY LinkInitSafe DEF Init
<1>2. Inv /\ [Next]_vars => Inv'
  BY StepsOfSubject, LinkStep
<1> QED
  BY <1>1, <1>2, PTL DEF Spec

\* The peer link's variables keep their types for any number of handlers, events
\* and ids remembered (link.Receiver, linkseen.go).
THEOREM LinkTypeSafe == Spec => [](subject = "link" => Link!TypeOK)
<1>1. (subject = "link" => LinkInv) => (subject = "link" => Link!TypeOK)
  BY DEF LinkInv, LinkTypes
<1> QED
  BY <1>1, LinkInvariant, PTL

\* However often a peer repeats an event, and however a handler it gave up on
\* overlaps the next, the rule engine takes it at most once: an id is remembered
\* before the event is ingested, and for longer than the peer repeats it
\* (Receiver.events, SeenEvent).
THEOREM AtMostOnceSafe == Spec => []AtMostOnce
<1>1. (subject = "link" => LinkInv) => AtMostOnce
  BY DEF LinkInv, LinkSafe, IngestedOK, AtMostOnce, Link!AtMostOnce
<1> QED
  BY <1>1, LinkInvariant, PTL

\* An event the peer was told is accepted became an alarm, unless one of its
\* requests was abandoned, killed with the process, or could not release its id
\* (Receiver.events, ForgetEvent).
THEOREM AcceptedWasIngestedSafe == Spec => [](subject = "link" => Link!AcceptedWasIngested)
<1>1. (subject = "link" => LinkInv) => (subject = "link" => Link!AcceptedWasIngested)
  BY DEF LinkInv, LinkSafe, AcceptedOK
<1> QED
  BY <1>1, LinkInvariant, PTL

\* A peer whose report that it cannot see was handled by this process never keeps
\* the native source standing down, whatever heartbeats and retries do
\* (Claim.Observe, Claim.Held).
THEOREM BlindNeverHoldsSafe == Spec => []BlindNeverHolds
<1>1. (subject = "link" => LinkInv) => BlindNeverHolds
  BY DEF LinkInv, LinkSafe, BlindOK, BlindNeverHolds, Link!BlindNeverHolds, Link!Held
<1> QED
  BY <1>1, LinkInvariant, PTL

-----------------------------------------------------------------------------
(* The types of every part.                                                *)

\* Every variable of every part keeps its types: the tables of failures, nonces,
\* sessions and retired credentials never outgrow their limits, no sequence of
\* requests, failures and restarts leads out of the states the code provides for,
\* and a configuration saved from the page has no problem.
THEOREM TypeSafe == Spec => []TypeOK
<1> DEFINE AckInv == subject = "ack" => AckSafe /\ AckTables
           InboundInv == subject = "inbound" => InboundSafe /\ InboundBounds
           FormInv == subject = "form" => FormTypes
           SignedInv == subject = "signed" => TakenSafe /\ PeerTypes /\ SignedCounts /\ SignedProposals
           PairInv == subject = "pairing" => PairShape
           WebInv == subject = "web" => WebSafe /\ WebFails /\ WebSessions /\ WebNumbers
           PeerInv == subject = "link" => LinkInv
           Inv == AckInv /\ InboundInv /\ FormInv /\ SignedInv /\ PairInv /\ WebInv /\ PeerInv
<1>1. Init => Inv
  BY AckInit, AckTablesInit, InboundInit, InboundBoundsInit, FormTypesInit, TakenInit,
     PeerInit, SignedCountsInit, SignedProposalsInit, PairShapeInit, WebInit, WebFailsInit,
     WebSessionsInit, WebNumbersInit, LinkInitSafe
  DEF Init
<1>2. Inv /\ [Next]_vars => Inv'
  <2> SUFFICES ASSUME Inv, [Next]_vars PROVE Inv'
    OBVIOUS
  <2>1. AckInv'
    BY StepsOfSubject, AckStep, AckTablesStep
  <2>2. InboundInv'
    BY StepsOfSubject, InboundStep, InboundBoundsStep
  <2>3. FormInv'
    BY StepsOfSubject, FormTypesStep
  <2>4. SignedInv'
    BY StepsOfSubject, TakenStep, PeerStep, SignedCountsStep, SignedProposalsStep
  <2>5. PairInv'
    BY StepsOfSubject, PairShapeStep
  <2>6. WebInv'
    BY StepsOfSubject, WebStep, WebFailsStep, WebSessionsStep, WebNumbersStep
  <2>7. PeerInv'
    BY StepsOfSubject, LinkStep
  <2> QED
    BY <2>1, <2>2, <2>3, <2>4, <2>5, <2>6, <2>7
<1>3. Inv => TypeOK
  <2>1. LinkInv => Link!TypeOK
    BY DEF LinkInv, LinkTypes
  <2> QED
    BY <2>1, AckTypes, InboundTypesOK, FormTypesOK, SignedTypes, PairShapeOK, WebTypesOK
    DEF TypeOK
<1> QED
  BY <1>1, <1>2, <1>3, PTL DEF Spec
=============================================================================
