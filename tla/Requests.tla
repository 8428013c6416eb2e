------------------------------ MODULE Requests ------------------------------
(***************************************************************************)
(* What others ask of the daemon, part by part: the events of a    *)
(* paired product, its pairing and the requests it signs, signing in, the  *)
(* acknowledgement link, the inbound hooks and the settings form. The      *)
(* parts share no state here, so a behaviour is of one of them, the        *)
(* subject; the others are Absent.                                         *)
(***************************************************************************)
EXTENDS Integers, FiniteSets

CONSTANTS
  Subjects,               \* the parts considered
  Absent                  \* what a part that is not the subject holds

CONSTANTS                 \* PeerLink
  Hands,                  \* the handlers of link events that may run at once
  Conditions, Demoting, Words, SeenFor, MaxSeen, SilentAfter, ResumeAfter,
  Grace, MaxEvents, Horizon_link, MaxCrashes_link

CONSTANTS                 \* Pairing
  Installs, SlugOf, FirstParty, WordsOf, Earlier, CodeTTL, MaxCodeAttempts,
  MaxRetired, Serial, MaxCodes, MaxAsked_pairing, MaxFailures,
  MaxCrashes_pairing

CONSTANTS                 \* LinkRequests
  Handlers, Pages, Declarable, Foreign, Window, MaxNonces, PerPeerRate, RateWindow,
  MaxListed, Skews, MaxSent, MaxPairings, MaxCrashes_signed, Horizon_signed

CONSTANTS                 \* WebAccess
  SignIns,                \* the requests of browsers in flight at once
  Peers, TTL, MaxAge, Free, BaseLockout, MaxLockout, ForgetAfter, MaxTracked,
  MaxPasswords, MaxTokens, MaxSessions, MaxCrashes_web, MaxAsked_web,
  Horizon_web

CONSTANTS                 \* AckLink
  Taps,                   \* the requests to the acknowledgement page
  Sources, Kinds, Burst, Refill, MaxSources, Attempts, Writers, MaxWrites,
  MaxErrors,
  Horizon_ack

CONSTANTS                 \* InboundReceiver
  Arrivals,               \* the requests to inbound hooks
  Hooks, Tokens, MaxWindow, MaxSets, Horizon_inbound

CONSTANTS                 \* SettingsForm
  Tabs, RowNames, HookNames, Apps, Channels, MaxTyped, MaxRows, MaxSaves

VARIABLE subject        \* the part whose steps are taken

VARIABLES
  clock_link, started, seen, claim, word, req_link, current_link, born,
  nextId, accepted, ingested, disturbed, blind, crashes_link

linkVars == <<clock_link, started, seen, claim, word, req_link, current_link,
              born, nextId, accepted, ingested, disturbed, blind, crashes_link>>

Link == INSTANCE PeerLink WITH
  Slots <- Hands, Horizon <- Horizon_link, MaxCrashes <- MaxCrashes_link,
  None <- Absent, clock <- clock_link, req <- req_link,
  current <- current_link, crashes <- crashes_link

\* What the limits of internal/link and a manifest's words are (PeerLink).
ASSUME LinkAssumption ==
  /\ MaxEvents \in Nat /\ Horizon_link \in Nat \ {0} /\ MaxCrashes_link \in Nat
  /\ SeenFor \in Nat /\ MaxSeen \in Nat \ {0}
  /\ Demoting \subseteq Conditions /\ Words \subseteq BOOLEAN
  /\ Absent \notin Link!Events

VARIABLES
  code, links, saved, retired, flight, held, codes, ids, receipt, gone,
  minted, asked_pairing, failures, crashes_pairing

pairVars == <<code, links, saved, retired, flight, held, codes, ids, receipt,
              gone, minted, asked_pairing, failures, crashes_pairing>>

Pair == INSTANCE Pairing WITH
  Manifests <- WordsOf, MaxAsked <- MaxAsked_pairing, MaxCrashes <- MaxCrashes_pairing,
  None <- Absent, asked <- asked_pairing, crashes <- crashes_pairing

\* Installations are finitely many, a code may be tried, and what the file held
\* of a product is an entry with the first credential (Pairing).
ASSUME PairAssumption ==
  /\ IsFiniteSet(Installs) /\ MaxCodes \in Nat /\ MaxAsked_pairing \in Nat
  /\ CodeTTL \in Nat /\ MaxCodeAttempts \in Nat \ {0} /\ MaxRetired \in Nat
  /\ WordsOf \subseteq [reviewable : BOOLEAN, cap : STRING, undecided : BOOLEAN, stops : BOOLEAN]
  /\ Earlier \subseteq {e \in Pair!Entries : e.id = 1}

VARIABLES
  clock_signed, peer, wire, nonces, bucket, handler, pending, full, unusable,
  office, verified, refused, declared, asked, late, sent, pairings,
  crashes_signed

signedVars == <<clock_signed, peer, wire, nonces, bucket, handler, pending,
                full, unusable, office, verified, refused, declared, asked,
                late, sent, pairings, crashes_signed>>

Signed == INSTANCE LinkRequests WITH
  MaxCrashes <- MaxCrashes_signed, Horizon <- Horizon_signed, None <- Absent,
  clock <- clock_signed, crashes <- crashes_signed

\* Instants are numbers, what the product signs is bounded, and the limits of
\* internal/link are some number (LinkRequests).
ASSUME SignedAssumption ==
  /\ Window \in Nat /\ Skews \subseteq Int /\ IsFiniteSet(Declarable)
  /\ MaxSent \in Nat /\ MaxPairings \in Nat /\ Horizon_signed \in Nat
  /\ MaxNonces \in Nat /\ PerPeerRate \in Nat /\ MaxListed \in Nat

VARIABLES
  stored, current_web, cleared, up, token, tokenFile, sessions, fails,
  req_web, installer, clock_web, passwords, tokens, issued, crashes_web,
  asked_web

webVars == <<stored, current_web, cleared, up, token, tokenFile, sessions,
             fails, req_web, installer, clock_web, passwords, tokens, issued,
             crashes_web, asked_web>>

Web == INSTANCE WebAccess WITH
  Requests <- SignIns, Forget <- ForgetAfter, MaxCrashes <- MaxCrashes_web,
  MaxAsked <- MaxAsked_web, Horizon <- Horizon_web, current <- current_web,
  req <- req_web, clock <- clock_web, crashes <- crashes_web,
  asked <- asked_web

\* Addresses are finitely many, and the table of failures has some room (WebAccess).
ASSUME WebAssumption ==
  IsFiniteSet(Peers) /\ MaxTracked \in Nat /\ TTL \in Nat

VARIABLES
  now_ack, row, copies, buckets, req_ack, served, audits, erased, reopened,
  writes, errors

ackVars == <<now_ack, row, copies, buckets, req_ack, served, audits, erased,
             reopened, writes, errors>>

Ack == INSTANCE AckLink WITH
  Requests <- Taps, Horizon <- Horizon_ack, now <- now_ack, req <- req_ack

\* A bucket has room, refills in some time, and the table has room for one (AckLink).
ASSUME AckAssumption ==
  /\ Horizon_ack \in Nat /\ MaxWrites \in Nat /\ MaxErrors \in Nat
  /\ Burst \in Nat /\ Refill \in Nat \ {0} /\ MaxSources \in Nat \ {0}

VARIABLES
  now_inbound, sets, hooks, receipts, book, testUntil, request, raised,
  dropped, deafUntil

inboundVars == <<now_inbound, sets, hooks, receipts, book, testUntil, request,
                 raised, dropped, deafUntil>>

Inbound == INSTANCE InboundReceiver WITH
  Requests <- Arrivals, Horizon <- Horizon_inbound, now <- now_inbound

\* Requests are finitely many, and so are changes of the hooks (InboundReceiver).
ASSUME InboundAssumption ==
  IsFiniteSet(Arrivals) /\ MaxSets \in Nat /\ Horizon_inbound \in Nat

VARIABLES
  config, running, forms, typed, home, moved, rows, saves

formVars == <<config, running, forms, typed, home, moved, rows, saves>>

Form == INSTANCE SettingsForm WITH Names <- RowNames

\* A console has a name, and there is room for the first row and its key (SettingsForm).
ASSUME FormAssumption ==
  /\ RowNames # {} /\ MaxTyped \in Nat \ {0} /\ MaxRows \in Nat \ {0} /\ MaxSaves \in Nat

\* A part that is not the subject is not there.
NoLink ==
  clock_link = Absent /\ started = Absent /\ seen = Absent /\ claim = Absent
  /\ word = Absent /\ req_link = Absent /\ current_link = Absent /\ born =
  Absent /\ nextId = Absent /\ accepted = Absent /\ ingested = Absent /\
  disturbed = Absent /\ blind = Absent /\ crashes_link = Absent

NoPair ==
  code = Absent /\ links = Absent /\ saved = Absent /\ retired = Absent /\
  flight = Absent /\ held = Absent /\ codes = Absent /\ ids = Absent /\
  receipt = Absent /\ gone = Absent /\ minted = Absent /\ asked_pairing =
  Absent /\ failures = Absent /\ crashes_pairing = Absent

NoSigned ==
  clock_signed = Absent /\ peer = Absent /\ wire = Absent /\ nonces = Absent
  /\ bucket = Absent /\ handler = Absent /\ pending = Absent /\ full = Absent
  /\ unusable = Absent /\ office = Absent /\ verified = Absent /\ refused =
  Absent /\ declared = Absent /\ asked = Absent /\ late = Absent /\
  sent = Absent /\ pairings = Absent /\ crashes_signed = Absent

NoWeb ==
  stored = Absent /\ current_web = Absent /\ cleared = Absent /\ up = Absent
  /\ token = Absent /\ tokenFile = Absent /\ sessions = Absent /\ fails =
  Absent /\ req_web = Absent /\ installer = Absent /\ clock_web = Absent /\
  passwords = Absent /\ tokens = Absent /\ issued = Absent /\ crashes_web =
  Absent /\ asked_web = Absent

NoAck ==
  now_ack = Absent /\ row = Absent /\ copies = Absent /\ buckets = Absent /\
  req_ack = Absent /\ served = Absent /\ audits = Absent /\ erased = Absent
  /\ reopened = Absent /\ writes = Absent /\ errors = Absent

NoInbound ==
  now_inbound = Absent /\ sets = Absent /\ hooks = Absent /\ receipts = Absent
  /\ book = Absent /\ testUntil = Absent /\ request = Absent /\ raised =
  Absent /\ dropped = Absent /\ deafUntil = Absent

NoForm ==
  config = Absent /\ running = Absent /\ forms = Absent /\ typed = Absent /\
  home = Absent /\ moved = Absent /\ rows = Absent /\ saves = Absent

Init ==
  /\ subject \in Subjects
  /\ IF subject = "link" THEN Link!Init ELSE NoLink
  /\ IF subject = "pairing" THEN Pair!Init ELSE NoPair
  /\ IF subject = "signed" THEN Signed!Init ELSE NoSigned
  /\ IF subject = "web" THEN Web!Init ELSE NoWeb
  /\ IF subject = "ack" THEN Ack!Init ELSE NoAck
  /\ IF subject = "inbound" THEN Inbound!Init ELSE NoInbound
  /\ IF subject = "form" THEN Form!Init ELSE NoForm

LinkSteps ==
  /\ subject = "link" /\ Link!Next
  /\ UNCHANGED <<subject,
                pairVars, signedVars, webVars, ackVars, inboundVars, formVars>>

PairSteps ==
  /\ subject = "pairing" /\ Pair!Next
  /\ UNCHANGED <<subject,
                linkVars, signedVars, webVars, ackVars, inboundVars, formVars>>

SignedSteps ==
  /\ subject = "signed" /\ Signed!Next
  /\ UNCHANGED <<subject,
                linkVars, pairVars, webVars, ackVars, inboundVars, formVars>>

WebSteps ==
  /\ subject = "web" /\ Web!Next
  /\ UNCHANGED <<subject,
                linkVars, pairVars, signedVars, ackVars, inboundVars, formVars>>

AckSteps ==
  /\ subject = "ack" /\ Ack!Next
  /\ UNCHANGED <<subject,
                linkVars, pairVars, signedVars, webVars, inboundVars, formVars>>

InboundSteps ==
  /\ subject = "inbound" /\ Inbound!Next
  /\ UNCHANGED <<subject,
                linkVars, pairVars, signedVars, webVars, ackVars, formVars>>

FormSteps ==
  /\ subject = "form" /\ Form!Next
  /\ UNCHANGED <<subject,
                linkVars, pairVars, signedVars, webVars, ackVars, inboundVars>>

Next ==
  LinkSteps \/ PairSteps \/ SignedSteps \/ WebSteps \/ AckSteps \/
  InboundSteps \/ FormSteps

vars == <<subject, linkVars, pairVars, signedVars, webVars, ackVars,
          inboundVars, formVars>>

Spec == Init /\ [][Next]_vars
-----------------------------------------------------------------------------
\* Every part keeps its types.
TypeOK ==
  /\ subject = "link" => Link!TypeOK
  /\ subject = "pairing" => Pair!TypeOK
  /\ subject = "signed" => Signed!TypeOK
  /\ subject = "web" => Web!TypeOK
  /\ subject = "ack" => Ack!TypeOK
  /\ subject = "inbound" => Inbound!TypeOK
  /\ subject = "form" => Form!TypeOK

\* However often the peer repeats an event, and however its handlers overlap,
\* the rule engine takes it at most once (PeerLink).
AtMostOnce == subject = "link" => Link!AtMostOnce

\* No event is lost by both ends agreeing that it had been handled (PeerLink).
NoneLost == subject = "link" => Link!NoneLost

\* A peer whose report that it cannot see was handled never keeps the native
\* source standing down (PeerLink).
BlindNeverHolds == subject = "link" => Link!BlindNeverHolds

\* A code pairs one product, however requests, saves that fail and crashes
\* fall (Pairing).
OnePairingPerCode == subject = "pairing" => Pair!OnePairingPerCode

\* A save that fails leaves the configuration in use as it was (Pairing).
FailedSaveLeavesNothing == subject = "pairing" => Pair!FailedSaveLeavesNothing

\* What the operator approved for a product is what that product asked for, and
\* since it was last paired unless an approval straddled that pairing (LinkRequests).
VocabularyWasAsked == subject = "signed" => Signed!VocabularyWasAsked

\* There is always a way to sign in (WebAccess).
NotLockedOut == subject = "web" => Web!NotLockedOut

\* An acknowledgement is recorded once, however the page is asked, and stays on
\* the incident unless a plain write of an older copy takes it off (AckLink).
AckedOnce == subject = "ack" => Ack!AckedOnce

\* An alarm counted as received was passed on (InboundReceiver).
CountedIsRaised == subject = "inbound" => Inbound!CountedIsRaised

\* A console is read with the keys of the configuration saved last, and these were
\* typed into its row unless a save could not recognise the row (SettingsForm).
SourcesUseTheirKeys == subject = "form" => Form!SourcesUseTheirKeys
=============================================================================
