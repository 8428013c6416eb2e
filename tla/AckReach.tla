------------------------------- MODULE AckReach ------------------------------
(***************************************************************************)
(* Whether the acknowledgement link in an alert opens on a telephone: the  *)
(* three settings that must agree (web.listen, web.ack_listen and          *)
(* web.ack_base_url), what is refused and said about them, and how a start *)
(* binds them and keeps the port it picked.  An address is [host, port];   *)
(* port 0 is none, Auto asks for one.                                      *)
(***************************************************************************)
EXTENDS Integers, FiniteSets

CONSTANTS
  Listens,    \* bound: the values of web.listen tried
  AckListens, \* bound: the values of web.ack_listen tried; Unset for none
  Urls,       \* bound: the values of web.ack_base_url tried; NoUrl for none
  MaxEdits,   \* bound: settings saved
  MaxTaken    \* bound: ports other programs take

VARIABLES
  file,    \* the configuration on disk
  current, \* and in the daemon
  bound,   \* addresses bound: [main, ack]
  phase,   \* "down", "binding", "picking", "saving", "up"
  picked,  \* the address bound for "auto", not yet written down
  draft,   \* the copy of current it is being saved in
  taken,   \* ports other programs hold
  edits, thefts,
  held     \* ghost: ports the operator typed or this program has bound

vars == <<file, current, bound, phase, picked, draft, taken, edits, thefts, held>>

Auto == -1
Ephemeral == {50001, 50002} \* stands for 49152 .. 65535
Unset == [host |-> "", port |-> 0]
NoUrl == [scheme |-> "", host |-> "", port |-> 0]
Nothing == [main |-> Unset, ack |-> Unset]

Loopback(a) == a.host = "loopback"
EveryInterface(a) == a.host = "all"
Scoped(w) == w.ack # Unset
Public(w) == w.url.host = "public"

WantsRandom(a) == a.port = Auto

(* A machine cannot listen on an address it does not have. *)
ListenHostProblem(a) == a.host = "public"

WebProblems(w) ==
  {<<"listen">> : x \in IF ListenHostProblem(w.main) THEN {0} ELSE {}}
  \cup {<<"ack_listen">> : x \in IF Scoped(w) /\ ListenHostProblem(w.ack) THEN {0} ELSE {}}
  \cup {<<"this machine">> : x \in {w.url.host} \cap {"loopback"}}
  \cup {<<"not a bare http(s) origin">> : x \in {w.url.scheme} \cap {"other"}}

HttpsAtOurPort(w) ==
  w.url.scheme = "https" /\ w.url.port # 0 /\ w.url.port \in {w.main.port, w.ack.port}

AckPortUnscoped(w) == \* mutant: looks at the main listener only
  w.url.scheme = "http" /\ w.url.port = 0 /\ w.main.port # 80 /\ ~Loopback(w.main)

AckPortProblem(w) ==
  LET serving == IF Scoped(w) THEN w.ack ELSE w.main
  IN  /\ w.url.scheme = "http" /\ w.url.port = 0
      /\ serving.port \notin {Auto, 80} /\ ~Loopback(serving)
      /\ ~(w.main.port = 80 /\ ~Loopback(w.main))

ExposureWarnings(w) ==
  LET said == [unset |-> w.url = NoUrl,
               unscoped |-> Public(w) /\ ~Scoped(w) /\ EveryInterface(w.main),
               readable |-> Public(w) /\ w.url.scheme = "http",
               plain |-> HttpsAtOurPort(w),
               same |-> Scoped(w) /\ w.ack = w.main,
               unheard |-> /\ w.url # NoUrl /\ w.url.host # "loopback"
                           /\ Loopback(w.main) /\ (Scoped(w) => Loopback(w.ack)),
               noPort |-> AckPortProblem(w),
               unforwardable |-> Scoped(w) /\ Loopback(w.ack)]
  IN  {k \in DOMAIN said : said[k]}

(* What ackStep makes of the same settings. *)
AckStep(w) ==
  CASE w.url = NoUrl \/ w.url.host = "loopback" -> "todo"
    [] Loopback(w.main) /\ ~Scoped(w) -> "todo"
    [] HttpsAtOurPort(w) -> "todo"
    [] Public(w) /\ ~Scoped(w) -> "todo"
    [] AckPortProblem(w) -> "todo"
    [] Public(w) /\ w.url.scheme = "http" -> "optional"
    [] OTHER -> "done"

---------------------------------------------------------------------------
Settings == [main : Listens, ack : AckListens, url : Urls]

Init ==
  /\ file \in {w \in Settings : WebProblems(w) = {}}
  /\ current = file /\ bound = Nothing /\ phase = "down" /\ picked = Unset /\ draft = file
  /\ taken = {} /\ edits = 0 /\ thefts = 0 /\ held = {file.ack.port}

(* A save is refused for the problems it adds; what listens changes at the *)
(* next start.  The settings page is served before the ack listener is.    *)
Edit(w) ==
  /\ phase # "down" /\ edits < MaxEdits
  /\ WebProblems(w) \subseteq WebProblems(current)
  /\ file' = w /\ current' = w /\ edits' = edits + 1
  /\ held' = held \cup {w.ack.port}
  /\ UNCHANGED <<bound, phase, picked, draft, taken, thefts>>

Listen(a) == a.port \notin taken

Start ==
  /\ phase = "down"
  /\ IF WebProblems(file) = {} /\ Listen(file.main)
     THEN phase' = "binding" /\ bound' = [Nothing EXCEPT !.main = file.main]
     ELSE UNCHANGED <<phase, bound>>
  /\ current' = file /\ draft' = file
  /\ UNCHANGED <<file, picked, taken, edits, thefts, held>>

(* The ack listener: as written, or the first free port of ten tries.  The *)
(* configuration is the one the start read.                                *)
AsWritten(want) ==
  IF Listen(want) /\ want.port # bound.main.port
  THEN phase' = "up" /\ bound' = [bound EXCEPT !.ack = want] /\ held' = held \cup {want.port}
  ELSE phase' = "down" /\ bound' = Nothing /\ UNCHANGED held

PickUnbound(want) == \* mutant: the port is written down before it is bound
  \E p \in Ephemeral :
    phase' = "picking" /\ picked' = [want EXCEPT !.port = p] /\ UNCHANGED <<bound, held>>

PickOne(want) ==
  \/ \E p \in Ephemeral \ (taken \cup {bound.main.port}) :
       /\ phase' = "picking" /\ picked' = [want EXCEPT !.port = p]
       /\ bound' = [bound EXCEPT !.ack = picked'] /\ held' = held \cup {p}
  \/ /\ Ephemeral \cap taken # {} \* ten tries found none
     /\ phase' = "down" /\ bound' = Nothing /\ UNCHANGED <<picked, held>>

ResolveAckListen ==
  /\ phase = "binding"
  /\ \/ ~Scoped(draft) /\ phase' = "up" /\ UNCHANGED <<bound, picked, held>>
     \/ Scoped(draft) /\ ~WantsRandom(draft.ack) /\ AsWritten(draft.ack) /\ UNCHANGED picked
     \/ Scoped(draft) /\ WantsRandom(draft.ack) /\ PickOne(draft.ack)
  /\ UNCHANGED <<file, current, draft, taken, edits, thefts>>

(* The picked port goes into a copy of the configuration under the lock,   *)
(* which is saved and put back without it.                                 *)
CopyCurrent ==
  /\ phase = "picking"
  /\ phase' = "saving" /\ draft' = [current EXCEPT !.ack = picked]
  /\ UNCHANGED <<file, current, bound, picked, taken, edits, thefts, held>>

Pin ==
  /\ phase = "saving"
  /\ \/ file' = draft /\ current' = draft /\ phase' = "up" /\ UNCHANGED bound
     \/ phase' = "down" /\ bound' = Nothing /\ UNCHANGED <<file, current>>
  /\ picked' = Unset
  /\ UNCHANGED <<draft, taken, edits, thefts, held>>

Crash ==
  /\ phase # "down"
  /\ phase' = "down" /\ bound' = Nothing /\ picked' = Unset
  /\ UNCHANGED <<file, current, draft, taken, edits, thefts, held>>

(* Another program takes a port that is free, or gives it back. *)
Others(p) ==
  /\ p \notin {bound.main.port, bound.ack.port}
  /\ \/ p \notin taken /\ thefts < MaxTaken /\ taken' = taken \cup {p} /\ thefts' = thefts + 1
     \/ p \in taken /\ taken' = taken \ {p} /\ UNCHANGED thefts
  /\ UNCHANGED <<file, current, bound, phase, picked, draft, edits, held>>

Next ==
  \/ Start \/ ResolveAckListen \/ CopyCurrent \/ Pin \/ Crash
  \/ \E w \in Settings : Edit(w)
  \/ \E p \in Ephemeral : Others(p)

Spec == Init /\ [][Next]_vars

---------------------------------------------------------------------------
TypeOK ==
  /\ phase \in {"down", "binding", "picking", "saving", "up"}
  /\ WebProblems(file) = {} /\ taken \subseteq Ephemeral /\ held \subseteq Int
  /\ phase = "down" <=> bound = Nothing

(* A telephone on the network opens an http link if a listener it can      *)
(* reach is bound to the link's port; the operator forwards a public       *)
(* address's port to the same port here.                                   *)
Opens(url) ==
  /\ url.scheme = "http" /\ url.host \in {"lan", "public"}
  /\ \E k \in {"main", "ack"} :
       /\ bound[k] # Unset /\ ~Loopback(bound[k])
       /\ bound[k].port = (IF url.port = 0 THEN 80 ELSE url.port)

Running == phase = "up" /\ bound.main = current.main /\ bound.ack = current.ack

(* "An https address with no port is 443, which is a TLS proxy in front",  *)
(* and a port that is not ours was typed on purpose (AckPortProblem).      *)
ProxyOrForward(w) ==
  \/ w.url.scheme = "https"
  \/ w.url.port # 0 /\ w.url.port \notin {w.main.port, w.ack.port}

(***************************************************************************)
(* A dead link is said: once a start has bound what is configured, either  *)
(* the link in its alerts opens on a telephone, or a warning or the        *)
(* checklist says something about it.  (The port typed is that of the      *)
(* listener that serves acknowledgements, and the name not another         *)
(* spelling of this machine.)                                              *)
(***************************************************************************)
Said(w) == ExposureWarnings(w) # {} \/ AckStep(w) = "todo"

DeadLinkIsSaid ==
  Running /\ ~ProxyOrForward(current) /\ current.url.host # "alias"
          /\ (current.url.port = 0 \/ ~Scoped(current) \/ current.url.port = current.ack.port)
    => Opens(current.url) \/ Said(current)

(***************************************************************************)
(* A port that was picked and written down is one this program had bound:  *)
(* the firewall rule and the links already sent never point at a port that *)
(* was never its own.                                                      *)
(***************************************************************************)
PinnedWasBound ==
  \A p \in Ephemeral : file.ack.port = p => p \in held

(***************************************************************************)
(* "Nothing is listening where the link points.  Each half looks right on  *)
(* its own, which is why this needs saying rather than leaving to          *)
(* inspection" (setup.go): without the two exceptions above.               *)
(***************************************************************************)
NothingAnswersIsSaid ==
  Running /\ ~ProxyOrForward(current) => Opens(current.url) \/ Said(current)
=============================================================================
