------------------------------- MODULE Pairing -------------------------------
(***************************************************************************)
(* Pairing a peer: link.Pairer offers a code on the page, a product typed  *)
(* it into sends a proof of it to /link/pair (Receiver.pair), Complete     *)
(* mints a credential, linkDeps.storePeer keeps it in the configuration,   *)
(* and the reply carries it back.  The operator may withdraw the code and  *)
(* forget a peer; a credential replaced or removed is retired by name.     *)
(*                                                                         *)
(* An installation is one machine running a product; two may run the same  *)
(* one.  storePeer reads the configuration and saves its copy in two steps,*)
(* with other writers in between unless Serial.  links is the              *)
(* configuration the daemon runs with, saved the file.                     *)
(***************************************************************************)
EXTENDS Integers, Sequences, FiniteSets, SequencesExt

CONSTANTS Installs,     \* the installations that may pair
          SlugOf,       \* installation -> the product it runs
          FirstParty,   \* the products firstPartyDefaults knows by name
          Manifests,    \* what a pairing request may declare
          Earlier,      \* what the file may hold of a product at the start
          CodeTTL, MaxCodeAttempts,
          MaxRetired,   \* MaxRetiredLinks
          Serial,       \* whether nobody else writes while a peer is stored
          MaxCodes,     \* bound: codes offered
          MaxAsked,     \* bound: pairing requests sent
          MaxFailures,  \* bound: saves that fail
          MaxCrashes,   \* bound: how often the process is killed
          None

VARIABLES
  code,     \* the Pairer: [n, age, attempts, used, voided]; n = 0: no code
  links,    \* Links of the running configuration: slug -> entry or None
  saved,    \* Links of config.yaml
  retired,  \* RetiredLinks: the ids, oldest first
  flight,   \* installation -> its pairing request, or None
  held,     \* installation -> the credential it sends with, 0 for none
  codes,    \* how many codes were offered
  ids,      \* how many credentials were minted
  receipt,  \* the last pairing receipt: [cause, typed, saw]
  gone,     \* history: the ids no longer honoured, in the order they went
  minted,   \* history: <<code, id>> of every credential minted
  asked, failures, crashes

bounds == <<asked, failures, crashes>>
vars == <<code, links, saved, retired, flight, held, codes, ids, receipt, gone, minted, bounds>>

Slugs == {SlugOf[i] : i \in Installs}
NoCode == [n |-> 0, age |-> 0, attempts |-> 0, used |-> FALSE, voided |-> FALSE]
IdsOf(c) == {c[s].id : s \in {t \in Slugs : c[t] # None}}
Sees == {"ours", "another"}          \* the certificate the peer saw
Spellings == {"as shown", "grouped", "look-alikes", "with a U"}

\* NormaliseCode: the code a typed one reads as, 0 for none.
Normalised(n, spelling) == IF spelling = "with a U" THEN 0 ELSE n
-----------------------------------------------------------------------------
(* An entry of Links: its id, the capability claimed, whether it declares  *)
(* the condition first-party defaults speak of and leaves it undecided,    *)
(* whether monitoring-stopped is there and demotes, and the overrides.     *)
Entry(id, m, over) ==
  [id |-> id, cap |-> m.cap, undecided |-> m.undecided, stops |-> m.stops, over |-> over]

\* ApplyPeerDefaults on one entry.
Defaulted(s, e) ==
  IF s \notin FirstParty THEN e
  ELSE [e EXCEPT !.stops = TRUE,
                 !.over = IF e.undecided THEN e.over \cup {"default"} ELSE e.over]

\* The overrides are a map: an entry that has one shares it with its copies,
\* so the default is written into the running configuration as well.
WritesThrough(s, e, old) ==
  /\ old # None /\ old.over # {} /\ Defaulted(s, e).over # e.over

RetireKeepsOldest(seq, id) ==
  IF Len(seq) >= MaxRetired THEN seq ELSE Append(seq, id)

\* A list without an id, which it holds once at most.
Others(seq, id) ==
  IF \E k \in DOMAIN seq : seq[k] = id
  THEN RemoveAt(seq, CHOOSE k \in DOMAIN seq : seq[k] = id) ELSE seq

\* RetireLink: the newest last, the oldest dropped past the limit.
Retire(seq, id) ==
  LET rest == Append(Others(seq, id), id)
  IN IF Len(rest) > MaxRetired THEN Tail(rest) ELSE rest

\* What a request is refused for, of those credential matters to.
CauseOf(id) ==
  IF id \in IdsOf(links) THEN "accepted"
  ELSE IF id \in ToSet(retired) THEN "retired-link-id" ELSE "unknown-link-id"

\* validateLinks: a capability has one claimant.
Valid(c) ==
  \A s, t \in {u \in Slugs : c[u] # None} :
    s # t /\ c[s].cap # "none" => c[s].cap # c[t].cap

Left(before, after) == SetToSeq(IdsOf(before) \ IdsOf(after))
-----------------------------------------------------------------------------
\* The file may hold a pairing of one installation; starting applied the defaults.
Init ==
  /\ \E i \in Installs, e \in Earlier \cup {None} :
       LET s == SlugOf[i]
       IN /\ links = [t \in Slugs |-> IF t = s /\ e # None THEN Defaulted(s, e) ELSE None]
          /\ held = [j \in Installs |-> IF j = i /\ e # None THEN e.id ELSE 0]
          /\ ids = IF e # None THEN 1 ELSE 0
  /\ saved = links /\ code = NoCode /\ codes = 0
  /\ retired = <<>> /\ gone = <<>> /\ minted = {}
  /\ flight = [i \in Installs |-> None]
  /\ receipt = None
  /\ asked = 0 /\ failures = 0 /\ crashes = 0

\* Offered: the page's code, and what /link/hello answers by.
Offered == code.n # 0 /\ ~code.used /\ ~code.voided /\ code.age < CodeTTL

\* The operator asks for a code: any earlier one is abandoned.
Offer ==
  /\ codes < MaxCodes
  /\ codes' = codes + 1
  /\ code' = [NoCode EXCEPT !.n = codes + 1]
  /\ UNCHANGED <<links, saved, retired, flight, held, ids, receipt, gone, minted, bounds>>

Cancel ==
  /\ Offered
  /\ code' = [code EXCEPT !.n = 0, !.used = FALSE, !.voided = TRUE]
  /\ UNCHANGED <<links, saved, retired, flight, held, codes, ids, receipt, gone, minted, bounds>>

Age ==
  /\ code.n # 0 /\ code.age <= CodeTTL
  /\ code' = [code EXCEPT !.age = @ + 1]
  /\ UNCHANGED <<links, saved, retired, flight, held, codes, ids, receipt, gone, minted, bounds>>

\* A product sends a request: over a code it was given (0: a mistyped one),
\* the certificate it saw and its manifest.
Ask(i) ==
  /\ flight[i] = None /\ asked < MaxAsked
  /\ \E n \in 0 .. codes, spelling \in Spellings, saw \in Sees, m \in Manifests :
       flight' = [flight EXCEPT ![i] =
         [stage |-> "sent", typed |-> Normalised(n, spelling), saw |-> saw, manifest |-> m, id |-> 0, next |-> None]]
  /\ asked' = asked + 1
  /\ UNCHANGED <<code, links, saved, retired, held, codes, ids, receipt, gone, minted, failures, crashes>>

\* The proof is over the code and the certificate the peer saw.
Proves(f) == f.typed = code.n /\ f.saw = "ours"

\* What Complete refuses whatever the request says.
Closed ==
  IF code.n = 0 THEN "ErrNoPairing"
  ELSE IF code.voided THEN "ErrCodeVoided"
  ELSE IF code.used THEN "ErrCodeUsed"
  ELSE IF code.age > CodeTTL THEN "ErrCodeExpired" ELSE "open"

VerdictProofFirst(f) ==
  IF Closed # "open" THEN Closed
  ELSE IF ~Proves(f) THEN "ErrBadProof"
  ELSE IF ~f.manifest.reviewable THEN "ErrManifestNeeded" ELSE "paired"

\* Complete's verdict, in its order.
Verdict(f) ==
  IF Closed # "open" THEN Closed
  ELSE IF f.saw # "ours" THEN "ErrFingerprint"
  ELSE IF ~f.manifest.reviewable THEN "ErrManifestNeeded"
  ELSE IF ~Proves(f) THEN "ErrBadProof" ELSE "paired"

\* pairCause: the label of the receipt.
PairCause ==
  [ErrNoPairing |-> "pairing-none-offered", ErrCodeVoided |-> "pairing-code-voided",
   ErrCodeUsed |-> "pairing-code-used", ErrCodeExpired |-> "pairing-code-expired",
   ErrFingerprint |-> "pairing-fingerprint-mismatch", ErrManifestNeeded |-> "pairing-manifest",
   ErrBadProof |-> "pairing-bad-proof"]

SpentOnlyByStoring == code
Spent == [code EXCEPT !.used = TRUE]

\* A wrong proof, and nothing else, is charged.
Charged(err) ==
  IF err # "ErrBadProof" THEN code
  ELSE [code EXCEPT !.attempts = @ + 1, !.voided = code.attempts + 1 >= MaxCodeAttempts]

Complete(i) ==
  /\ flight[i] # None /\ flight[i].stage = "sent"
  /\ LET f == flight[i]
         verdict == Verdict(f)
     IN IF verdict = "paired"
        THEN /\ code' = Spent
             /\ ids' = ids + 1
             /\ minted' = minted \cup {<<code.n, ids + 1>>}
             /\ flight' = [flight EXCEPT ![i].stage = "minted", ![i].id = ids + 1]
             /\ UNCHANGED receipt
        ELSE /\ code' = Charged(verdict)
             /\ receipt' = [cause |-> PairCause[verdict], typed |-> f.typed = code.n, saw |-> f.saw]
             /\ flight' = [flight EXCEPT ![i] = None]
             /\ UNCHANGED <<ids, minted>>
  /\ UNCHANGED <<links, saved, retired, held, codes, gone, bounds>>

\* Anything may ask the port what it is; it answers while a code is offered.
Identify ==
  /\ receipt' = [cause |-> IF Offered THEN "identified" ELSE "identify-window-closed",
                 typed |-> FALSE, saw |-> "ours"]
  /\ UNCHANGED <<code, links, saved, retired, flight, held, codes, ids, gone, minted, bounds>>

\* A copy of the configuration is about to be saved.
Storing == \E i \in Installs : flight[i] # None /\ flight[i].stage = "read"

\* storePeer up to the save: the copy it will save, its overrides those of the
\* entry it replaces.
Read(i) ==
  /\ flight[i] # None /\ flight[i].stage = "minted"
  /\ ~(Serial /\ Storing)
  /\ LET s == SlugOf[i]
         old == links[s]
         e == Entry(flight[i].id, flight[i].manifest, IF old = None THEN {} ELSE old.over)
         retiredNext == IF old = None THEN retired ELSE Retire(retired, old.id)
     IN /\ flight' = [flight EXCEPT ![i].stage = "read",
                        ![i].next = [links |-> [links EXCEPT ![s] = Defaulted(s, e)],
                                     retired |-> retiredNext]]
        /\ links' = IF WritesThrough(s, e, old)
                    THEN [links EXCEPT ![s].over = Defaulted(s, e).over] ELSE links
  /\ UNCHANGED <<code, saved, retired, held, codes, ids, receipt, gone, minted, bounds>>

Refuse(i, cause) ==
  /\ receipt' = [cause |-> cause, typed |-> TRUE, saw |-> flight[i].saw]
  /\ flight' = [flight EXCEPT ![i] = None]

Install(next) ==
  /\ links' = next.links /\ saved' = next.links /\ retired' = next.retired
  /\ gone' = gone \o Left(saved, next.links)

\* config.Save refuses a configuration with a problem, and may fail.
Save(i) ==
  /\ flight[i] # None /\ flight[i].stage = "read"
  /\ LET next == flight[i].next
     IN \/ /\ Valid(next.links)
           /\ Install(next)
           /\ flight' = [flight EXCEPT ![i].stage = "stored", ![i].next = None]
           /\ UNCHANGED <<receipt, failures>>
        \/ /\ ~Valid(next.links)
           /\ Refuse(i, "pairing-store-failed")
           /\ UNCHANGED <<links, saved, retired, gone, failures>>
        \/ /\ failures < MaxFailures /\ failures' = failures + 1
           /\ Refuse(i, "pairing-store-failed")
           /\ UNCHANGED <<links, saved, retired, gone>>
  /\ UNCHANGED <<code, held, codes, ids, minted, asked, crashes>>

\* The reply: it may be lost on the way, and the product then keeps what it had.
Answer(i) ==
  /\ flight[i] # None /\ flight[i].stage = "stored"
  /\ receipt' = [cause |-> "paired", typed |-> TRUE, saw |-> flight[i].saw]
  /\ flight' = [flight EXCEPT ![i] = None]
  /\ held' \in {held, [held EXCEPT ![i] = flight[i].id]}
  /\ UNCHANGED <<code, links, saved, retired, codes, ids, gone, minted, bounds>>

\* LinkUnpair: the entry goes and its credential is retired.
Unpair(s) ==
  /\ links[s] # None /\ ~(Serial /\ Storing)
  /\ Install([links |-> [links EXCEPT ![s] = None], retired |-> Retire(retired, links[s].id)])
  /\ UNCHANGED <<code, flight, held, codes, ids, receipt, minted, bounds>>

\* A restart: the code and the running requests are gone, the file is read.
Crash ==
  /\ crashes < MaxCrashes /\ crashes' = crashes + 1
  /\ code' = NoCode /\ receipt' = None
  /\ flight' = [i \in Installs |-> None]
  /\ saved' = [s \in Slugs |-> IF saved[s] = None THEN None ELSE Defaulted(s, saved[s])]
  /\ links' = saved'
  /\ UNCHANGED <<retired, held, codes, ids, gone, minted, asked, failures>>

Next ==
  \/ Offer \/ Cancel \/ Age \/ Identify \/ Crash
  \/ \E i \in Installs : Ask(i) \/ Complete(i) \/ Read(i) \/ Save(i) \/ Answer(i)
  \/ \E s \in Slugs : Unpair(s)

Spec == Init /\ [][Next]_vars
-----------------------------------------------------------------------------
Entries == [id : 0 .. MaxAsked + 1, cap : STRING, undecided : BOOLEAN, stops : BOOLEAN,
            over : SUBSET {"operator", "default"}]

\* Every variable keeps its shape.
TypeOK ==
  /\ code \in [n : 0 .. MaxCodes, age : 0 .. CodeTTL + 1, attempts : 0 .. MaxCodeAttempts,
               used : BOOLEAN, voided : BOOLEAN]
  /\ \A s \in Slugs : {links[s], saved[s]} \subseteq Entries \cup {None}
  /\ Len(retired) <= MaxRetired
  /\ \A i \in Installs : held[i] \in 0 .. ids

\* A code pairs one product once, however many requests carry its proof and
\* whatever fails after the first (Complete spends it when it mints).
OnePairingPerCode ==
  \A p, q \in minted : p[1] = q[1] => p = q

\* The receipts blame the code only when the code was wrong: a peer that saw
\* another certificate is never sent to retype the code (Complete's order).
BadProofMeansWrongCode ==
  receipt # None /\ receipt.cause = "pairing-bad-proof" => ~receipt.typed /\ receipt.saw = "ours"

\* A product still sending with a credential that was replaced or removed is
\* named on the receipts, unless as many again were retired after it
\* (RetireLink in storePeer and forgetPeer, across re-pairings and restarts).
CutOffIsNamed ==
  \A k \in DOMAIN gone :
    k + MaxRetired > Len(gone) => CauseOf(gone[k]) = "retired-link-id"

\* Once no pairing is under way the daemon runs what config.yaml says: a save
\* that failed left nothing behind (storePeer clones Links for this).
FailedSaveLeavesNothing ==
  (\A i \in Installs : flight[i] = None) => links = saved
=============================================================================
