---------------------------- MODULE LinkRequests ----------------------------
(***************************************************************************)
(* A paired product's requests to the link port, up to the rule engine:    *)
(* Verifier.Verify with its memory of nonces, the limiter, the peer the    *)
(* credential belongs to, Envelope.Validate against the manifest the       *)
(* operator approved, and the Proposals: conditions refused because they   *)
(* are not in it, which the operator may approve or dismiss on the page.   *)
(*                                                                         *)
(* A signed request may reach the port more than once and late.  Handlers  *)
(* run side by side and read the configuration at each of their steps,     *)
(* while the operator forgets the product, pairs it again or approves,     *)
(* from pages of different age.  What a pairing or an unpairing writes of  *)
(* this product does not depend on what it read, so each is one step, at   *)
(* its save; an approval writes back what it read, and is three.           *)
(* What happens to an accepted event is PeerLink's subject.                *)
(***************************************************************************)
EXTENDS Integers, FiniteSets, FiniteSetsExt, Functions

CONSTANTS Handlers,     \* requests that may be served at once
          Pages,        \* requests of the operator that may be served at once
          Declarable,   \* the conditions a manifest may declare: slug-prefixed
          Foreign,      \* names the product sends that carry no such prefix
          Window,       \* how far a stamp may be off, either way
          MaxNonces, PerPeerRate, RateWindow,
          MaxListed,    \* MaxProposalsPerPeer, and MaxManifestConditions
          Skews,        \* how far the product's clock may be off
          MaxSent,      \* bound: requests the product signs
          MaxPairings,  \* bound: how often it is paired
          MaxCrashes,   \* bound: how often this process is killed
          Horizon,      \* bound: the last instant
          None

VARIABLES
  clock,
  peer,      \* the paired product's entry: [cred, conditions], or None
  wire,      \* nonce -> the request signed under it
  nonces,    \* Verifier.nonces: nonce -> the stamp it came with
  bucket,    \* limiter: credential -> [start, n]
  handler,   \* handler -> None or [at, nonce, cred, allowed]
  pending,   \* Proposals.byPeer: condition -> how often it was refused
  full, unusable,   \* Proposals: names turned away
  office,    \* page -> what its request still has to do, or None: an approval to
             \* "read" the entry, to "save" the next one, to "forget" its
             \* condition; an unpairing to forget the "peer"
  verified,  \* history: how often each nonce verified in this run
  refused,   \* history: the conditions refused since the product was last paired
  declared,  \* history: the conditions it declared when it was last paired
  asked,     \* history: the conditions it ever declared or was refused for
  late,      \* history: an approval begun before the last pairing was saved after it
  sent, pairings, crashes

bounds == <<sent, pairings, crashes>>
history == <<verified, refused, declared, asked, late>>
asking == <<pending, full, unusable>>
vars == <<clock, peer, wire, nonces, bucket, handler, asking, office, history, bounds>>

Nonces == 1 .. MaxSent
Manifests == {m \in SUBSET Declarable : m # {} /\ Cardinality(m) <= MaxListed}
Empty == <<>>
Credentials == 0 .. MaxPairings       \* a credential is the pairing that minted it
NoBuckets == [k \in Credentials |-> [start |-> 0, n |-> 0]]
Names == Declarable \cup Foreign
Nothing == [p \in Pages |-> None]     \* no request of the operator is served
-----------------------------------------------------------------------------
Init ==
  /\ clock = 0
  /\ \E m \in Manifests : peer = [cred |-> 0, conditions |-> m] /\ declared = m /\ asked = m
  /\ wire = Empty /\ nonces = Empty
  /\ bucket = NoBuckets
  /\ handler = [h \in Handlers |-> None]
  /\ pending = Empty /\ full = 0 /\ unusable = 0
  /\ office = Nothing
  /\ verified = [n \in Nonces |-> 0] /\ refused = {} /\ late = FALSE
  /\ sent = 0 /\ pairings = 0 /\ crashes = 0

\* The product signs an event of its own vocabulary under a fresh nonce, with
\* the key of this pairing and the time its own clock shows.
Send ==
  /\ peer # None /\ sent < MaxSent /\ sent' = sent + 1
  /\ \E c \in Names, s \in Skews :
       wire' = [n \in DOMAIN wire \cup {sent + 1} |->
                  IF n = sent + 1 THEN [stamp |-> clock + s, condition |-> c, key |-> pairings]
                  ELSE wire[n]]
  /\ UNCHANGED <<clock, peer, nonces, bucket, handler, asking, office, history, pairings, crashes>>

Tick ==
  /\ clock < Horizon /\ clock' = clock + 1
  /\ UNCHANGED <<peer, wire, nonces, bucket, handler, asking, office, history, bounds>>

\* A copy of a request reaches the port: the handler reads the credentials.
Arrive(h) ==
  /\ handler[h] = None
  /\ \E n \in DOMAIN wire :
       handler' = [handler EXCEPT ![h] =
         [at |-> "read", nonce |-> n, cred |-> IF peer = None THEN None ELSE peer.cred,
          allowed |-> {}]]
  /\ UNCHANGED <<clock, peer, wire, nonces, bucket, asking, office, history, bounds>>

Request(h) == wire[handler[h].nonce]
InWindow(stamp) == clock - stamp \in -Window .. Window
Genuine(h) == handler[h].cred # None /\ Request(h).key = handler[h].cred

\* useNonce forgets a credential's nonces once a request bearing them would
\* fail the window.
ExpiredAtTheEdge(h) ==
  {n \in DOMAIN nonces : wire[n].key = handler[h].cred /\ clock - nonces[n] >= Window}
Expired(h) == {n \in DOMAIN nonces : wire[n].key = handler[h].cred /\ clock - nonces[n] > Window}
Remembered(h) == Restrict(nonces, DOMAIN nonces \ Expired(h))
IsFull(h) ==
  Cardinality({n \in DOMAIN Remembered(h) : wire[n].key = handler[h].cred}) >= MaxNonces

Done(h) == handler' = [handler EXCEPT ![h] = None]

\* limiter.allow counts the request in its window.
Counted(b) ==
  IF b.n = 0 \/ clock - b.start >= RateWindow THEN [start |-> clock, n |-> 1]
  ELSE [b EXCEPT !.n = Min({@ + 1, PerPeerRate + 1})]

\* Verify, then the limiter: a request out of the window, not signed with the
\* key read, of a nonce already used or with the memory full changes no more
\* than which nonces are forgotten.
Verify(h) ==
  /\ handler[h] # None /\ handler[h].at = "read"
  /\ LET n == handler[h].nonce
         genuine == InWindow(Request(h).stamp) /\ Genuine(h)
         refusable == n \in DOMAIN Remembered(h) \/ IsFull(h)
     IN \/ /\ ~genuine
           /\ Done(h)
           /\ UNCHANGED <<nonces, bucket, verified>>
        \/ /\ genuine /\ refusable
           /\ nonces' = Remembered(h)
           /\ Done(h)
           /\ UNCHANGED <<bucket, verified>>
        \/ /\ genuine /\ ~refusable
           /\ nonces' = [m \in DOMAIN Remembered(h) \cup {n} |->
                           IF m = n THEN Request(h).stamp ELSE Remembered(h)[m]]
           /\ verified' = [verified EXCEPT ![n] = @ + 1]
           /\ bucket' = [bucket EXCEPT ![handler[h].cred] = Counted(@)]
           /\ IF bucket'[handler[h].cred].n <= PerPeerRate
              THEN handler' = [handler EXCEPT ![h].at = "verified"]
              ELSE Done(h)
  /\ UNCHANGED <<clock, peer, wire, asking, office, refused, declared, asked, late, bounds>>

\* The peer behind the credential, as it is now; it may have gone since.
Resolve(h) ==
  /\ handler[h] # None /\ handler[h].at = "verified"
  /\ IF peer # None /\ handler[h].cred = peer.cred
     THEN handler' = [handler EXCEPT ![h].at = "resolved", ![h].allowed = peer.conditions]
     ELSE Done(h)
  /\ UNCHANGED <<clock, peer, wire, nonces, bucket, asking, office, history, bounds>>

\* Validate against that peer: a declared condition goes on to be ingested.
Accept(h) ==
  /\ handler[h] # None /\ handler[h].at = "resolved"
  /\ Request(h).condition \in handler[h].allowed
  /\ Done(h)
  /\ UNCHANGED <<clock, peer, wire, nonces, bucket, asking, office, history, bounds>>

\* Proposals.Note.
Noted(c) ==
  IF c \in Foreign
  THEN /\ unusable' = Min({unusable + 1, MaxSent})
       /\ UNCHANGED <<pending, full>>
  ELSE IF c \in DOMAIN pending
  THEN /\ pending' = [pending EXCEPT ![c] = Min({@ + 1, MaxSent})]
       /\ UNCHANGED <<full, unusable>>
  ELSE IF Cardinality(DOMAIN pending) >= MaxListed
  THEN /\ full' = Min({full + 1, MaxSent})
       /\ UNCHANGED <<pending, unusable>>
  ELSE /\ pending' = [d \in DOMAIN pending \cup {c} |-> IF d = c THEN 1 ELSE pending[d]]
       /\ UNCHANGED <<full, unusable>>

\* Any other is refused and remembered.
Propose(h) ==
  /\ handler[h] # None /\ handler[h].at = "resolved"
  /\ Request(h).condition \notin handler[h].allowed
  /\ Noted(Request(h).condition)
  /\ refused' = refused \cup {Request(h).condition}
  /\ asked' = asked \cup {Request(h).condition}
  /\ Done(h)
  /\ UNCHANGED <<clock, peer, wire, nonces, bucket, office, verified, declared, late, bounds>>
-----------------------------------------------------------------------------
Without(c) == Restrict(pending, DOMAIN pending \ {c})

\* Forget also clears the count of names the full list turned away.
Forget(c) == pending' = Without(c) /\ full' = 0 /\ UNCHANGED unusable

ApprovesAnything(c) == TRUE

\* Has: a condition may be approved that the product is being refused for.
Approvable(c) == c \in DOMAIN pending

Served(p) == office' = [office EXCEPT ![p] = None]
Goes(p, do) == office[p] # None /\ office[p].do = do

\* approveCondition asks whether the product is being refused for the condition.
Approve(p, c) ==
  /\ office[p] = None /\ Approvable(c)
  /\ office' = [office EXCEPT ![p] = [do |-> "read", condition |-> c, since |-> pairings]]
  /\ UNCHANGED <<clock, peer, wire, nonces, bucket, handler, asking, history, bounds>>

\* It then reads the configuration, and is refused where the product is gone or
\* its manifest full; a condition already in the manifest is only forgotten.
Amend(p) ==
  /\ Goes(p, "read")
  /\ LET c == office[p].condition
     IN \/ /\ peer # None /\ c \in peer.conditions
           /\ Forget(c) /\ Served(p)
        \/ /\ peer # None => c \notin peer.conditions /\ Cardinality(peer.conditions) >= MaxListed
           /\ Served(p)
           /\ UNCHANGED asking
        \/ /\ peer # None /\ c \notin peer.conditions /\ Cardinality(peer.conditions) < MaxListed
           /\ office' = [office EXCEPT ![p] =
                [do |-> "save", condition |-> c, since |-> office[p].since,
                 next |-> [peer EXCEPT !.conditions = @ \cup {c}]]]
           /\ UNCHANGED asking
  /\ UNCHANGED <<clock, peer, wire, nonces, bucket, handler, history, bounds>>

\* And saves the entry it read with the condition added, over whatever the
\* configuration holds by then; a save that fails ends the request.
Save(p) ==
  /\ Goes(p, "save")
  /\ \/ /\ peer' = office[p].next
        /\ late' = (late \/ office[p].since # pairings)
        /\ office' = [office EXCEPT ![p] = [do |-> "forget", condition |-> office[p].condition]]
     \/ Served(p) /\ UNCHANGED <<peer, late>>
  /\ UNCHANGED <<clock, wire, nonces, bucket, handler, asking, verified, refused, declared,
                 asked, bounds>>

\* The proposal is forgotten once it is saved.
Approved(p) ==
  /\ Goes(p, "forget")
  /\ Forget(office[p].condition) /\ Served(p)
  /\ UNCHANGED <<clock, peer, wire, nonces, bucket, handler, history, bounds>>

Dismiss(c) ==
  /\ Forget(c)
  /\ UNCHANGED <<clock, peer, wire, nonces, bucket, handler, office, history, bounds>>

\* LinkUnpair: the peer is saved away, then its proposals are dropped.
Unpair(p) ==
  /\ office[p] = None /\ peer # None
  /\ peer' = None
  /\ office' = [office EXCEPT ![p] = [do |-> "peer"]]
  /\ UNCHANGED <<clock, wire, nonces, bucket, handler, asking, history, bounds>>

Unpaired(p) ==
  /\ Goes(p, "peer")
  /\ pending' = Empty /\ full' = 0 /\ unusable' = 0
  /\ Served(p)
  /\ UNCHANGED <<clock, peer, wire, nonces, bucket, handler, history, bounds>>

\* The product pairs: a new credential, and its manifest replaces the approved one.
Pair ==
  /\ pairings < MaxPairings /\ pairings' = pairings + 1
  /\ \E m \in Manifests :
       peer' = [cred |-> pairings + 1, conditions |-> m] /\ declared' = m /\ asked' = asked \cup m
  /\ refused' = DOMAIN pending /\ late' = FALSE
  /\ UNCHANGED <<clock, wire, nonces, bucket, handler, asking, office, verified, sent, crashes>>

\* A restart: the handlers, nonces, counts and proposals are in memory.
Crash ==
  /\ crashes < MaxCrashes /\ crashes' = crashes + 1
  /\ nonces' = Empty /\ bucket' = NoBuckets
  /\ handler' = [h \in Handlers |-> None]
  /\ pending' = Empty /\ full' = 0 /\ unusable' = 0
  /\ office' = Nothing
  /\ verified' = [n \in Nonces |-> 0]
  /\ UNCHANGED <<clock, peer, wire, refused, declared, asked, late, sent, pairings>>

Next ==
  \/ Send \/ Tick \/ Pair \/ Crash
  \/ \E h \in Handlers : Arrive(h) \/ Verify(h) \/ Resolve(h) \/ Accept(h) \/ Propose(h)
  \/ \E p \in Pages : Amend(p) \/ Save(p) \/ Approved(p) \/ Unpair(p) \/ Unpaired(p)
  \/ \E c \in Declarable : Dismiss(c) \/ \E p \in Pages : Approve(p, c)

Spec == Init /\ [][Next]_vars
-----------------------------------------------------------------------------
\* Every variable keeps its shape, and every table its limit.
TypeOK ==
  /\ peer \in [cred : Credentials, conditions : Manifests] \cup {None}
  /\ \A k \in Credentials : Cardinality({n \in DOMAIN nonces : wire[n].key = k}) <= MaxNonces
  /\ bucket \in [Credentials -> [start : 0 .. Horizon, n : 0 .. PerPeerRate + 1]]
  /\ DOMAIN pending \subseteq Declarable /\ Cardinality(DOMAIN pending) <= MaxListed
  /\ {full, unusable} \subseteq 0 .. MaxSent

\* A signed request is taken at most once by a run of the daemon, however late
\* and often copies of it arrive and however far the product's clock is off
\* (useNonce keeps a nonce by its stamp, not by when it came).
TakenOnce == \A n \in Nonces : verified[n] <= 1

\* The approved vocabulary is what the product declared or was refused for, and
\* of its last pairing or since, unless an approval begun before that pairing was
\* saved after it (approveCondition's three steps, Proposals.Has, against pages,
\* handlers, unpairings and pairings in between).
VocabularyWasAsked ==
  peer # None =>
    /\ peer.conditions \subseteq asked
    /\ late \/ peer.conditions \subseteq declared \cup refused

\* The same of every approval, which the code does not keep: what is saved may be
\* a manifest, or a credential, of before the pairing.
VocabularyIsThisPairings == peer # None => peer.conditions \subseteq declared \cup refused

\* A product that was forgotten has no question left before the operator
\* (ForgetPeer's comment).
ForgottenAsksNothing == peer = None /\ office = Nothing => pending = Empty
=============================================================================
