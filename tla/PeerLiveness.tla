---------------------------- MODULE PeerLiveness ----------------------------
(***************************************************************************)
(* The deadman of paired peers (cmd/notifymatrix/peerlive.go): every       *)
(* authenticated request of a peer is a contact, and a check every thirty  *)
(* seconds raises an incident for a peer that has been quiet for longer    *)
(* than its window.                                                        *)
(*                                                                         *)
(* Requests and the check are goroutines.  Each does its bookkeeping in one *)
(* critical section and raises or resolves the incident after it.  What    *)
(* the bookkeeping knows is lost in a restart; the incident is not.        *)
(*                                                                         *)
(* Times are ages, counted in units of the fastest heartbeat up to MaxAge. *)
(* The longest observed gap, which only the page shows, is left out.       *)
(***************************************************************************)
EXTENDS Integers, FiniteSetsExt

CONSTANTS Peers,
          Windows,      \* silence windows the operator may set
          SlowestBeat,  \* the slowest heartbeat any peer may be on
          MaxAge,       \* bound: ages are counted up to this
          MaxRestarts,  \* bound: how often the process starts again
          MaxChanges    \* bound: changes of a window, pairings, unpairings and
                        \* deaths of a peer

VARIABLES
  paired,   \* configuration: the paired peers
  window,   \* configuration: each peer's silence window
  heard,    \* peerLiveness.last: the peers with a contact in this process
  quiet,    \* age of that contact
  uptime,   \* age of this process: peerLiveness.started
  told,     \* peerLiveness.told: the window in force at the last contact
  raised,   \* peerLiveness.raised
  edges,    \* what the check has yet to raise (up) or resolve, outside the lock
  visit,    \* each peer's request in progress
  open,     \* the incidents "gone silent" that want attention
  alive,    \* the peers that run
  rate,     \* each peer: how often it makes contact
  since,    \* each peer: age of its last contact
  raced,    \* history: peers whose window changed under a request, or paired late
  left      \* budget of restarts and changes

process == <<heard, quiet, uptime, told, raised, edges>>
config == <<paired, window>>
peer == <<alive, rate, since>>
vars == <<process, config, peer, visit, open, raced, left>>

\* Mutant: no fastest rate.
ThirdOfWindow(w) == Min({w \div 3, SlowestBeat})

\* A third of the window, between the fastest and the slowest rate.
HeartbeatEvery(w) == Max({1, Min({w \div 3, SlowestBeat})})
NoVisit == [pc |-> "none", reply |-> 0, window |-> 0]

Init ==
  /\ paired = Peers /\ window \in [Peers -> Windows]
  /\ heard = {} /\ quiet = [p \in Peers |-> 0] /\ uptime = 0 /\ told = [p \in Peers |-> 0]
  /\ raised = {} /\ edges = {} /\ open = {} /\ raced = {}
  /\ visit = [p \in Peers |-> NoVisit]
  /\ alive = Peers /\ rate = [p \in Peers |-> SlowestBeat] /\ since = [p \in Peers |-> 0]
  /\ left = [restarts |-> MaxRestarts, changes |-> MaxChanges]

Spend(what) == left[what] > 0 /\ left' = [left EXCEPT ![what] = @ - 1]
Step(p, pc) == visit' = [visit EXCEPT ![p].pc = pc]

-----------------------------------------------------------------------------
\* An authenticated request of a peer.

\* The Receiver resolves the peer, with the window its reply will speak of.
Resolve(p) ==
  /\ p \in alive \cap paired /\ visit[p] = NoVisit
  /\ visit' = [visit EXCEPT ![p] = [pc |-> "window", reply |-> window[p], window |-> 0]]
  /\ UNCHANGED <<process, config, peer, open, raced, left>>

\* contact reads the window before it takes the lock.
ReadWindow(p) ==
  /\ visit[p].pc = "window"
  /\ visit' = [visit EXCEPT ![p].pc = "lock", ![p].window = window[p]]
  /\ UNCHANGED <<process, config, peer, open, raced, left>>

Contact(p) ==
  /\ visit[p].pc = "lock"
  /\ heard' = heard \cup {p} /\ quiet' = [quiet EXCEPT ![p] = 0]
  /\ told' = [told EXCEPT ![p] = visit[p].window]
  /\ raised' = raised \ {p}
  /\ since' = [since EXCEPT ![p] = 0]
  /\ Step(p, IF p \in raised THEN "close" ELSE "reply")
  /\ UNCHANGED <<uptime, edges, config, alive, rate, open, raced, left>>

Close(p) ==
  /\ visit[p].pc = "close"
  /\ open' = open \ {p}
  /\ Step(p, "reply")
  /\ UNCHANGED <<process, config, peer, raced, left>>

\* The peer takes its rate from the reply.
Reply(p) ==
  /\ visit[p].pc = "reply"
  /\ rate' = [rate EXCEPT ![p] = HeartbeatEvery(visit[p].reply)]
  /\ visit' = [visit EXCEPT ![p] = NoVisit]
  /\ UNCHANGED <<process, config, alive, since, open, raced, left>>

-----------------------------------------------------------------------------
\* The check.

\* Mutants: the configured window, and no news taken for good news.
ConfiguredWindow(p) == window[p]
HeardWindow(p) ==
  IF p \in heard THEN Max({told[p], window[p]}) ELSE MaxAge

\* The window a peer is held to: the one it was last told of, if that is longer,
\* or, not heard from since the start, at least the slowest rate and a minute.
EffectiveWindow(p) ==
  Max({window[p], IF p \in heard THEN told[p] ELSE SlowestBeat + 1})

\* A peer not heard from is quiet since the start.
Quiet(p) == IF p \in heard THEN quiet[p] ELSE uptime

Check ==
  /\ edges = {}
  /\ LET silent == {p \in paired \ raised : Quiet(p) > EffectiveWindow(p)}
         former == raised \ paired
     IN  /\ edges' = {[peer |-> p, up |-> FALSE] : p \in silent}
                       \cup {[peer |-> p, up |-> TRUE] : p \in former}
         /\ raised' = (raised \cup silent) \ former
         /\ heard' = heard \ former
  /\ UNCHANGED <<quiet, uptime, told, config, peer, visit, open, raced, left>>

\* RaiseInternalFor and ResolveInternalFor, when the store does not fail.
Raise ==
  \E e \in edges :
    /\ ~e.up
    /\ edges' = edges \ {e} /\ open' = open \cup {e.peer}
    /\ UNCHANGED <<heard, quiet, uptime, told, raised, config, peer, visit, raced, left>>

Unraise ==
  \E e \in edges :
    /\ e.up
    /\ edges' = edges \ {e} /\ open' = open \ {e.peer}
    /\ UNCHANGED <<heard, quiet, uptime, told, raised, config, peer, visit, raced, left>>

-----------------------------------------------------------------------------
\* The world: time, the peers, the operator and restarts of this process.

Older(age) == IF age < MaxAge THEN age + 1 ELSE age

\* A peer that runs keeps to the rate it was told, and a request takes far less
\* than a unit.
Tick ==
  /\ \A p \in Peers : visit[p] = NoVisit
  /\ \A p \in alive \cap paired : since[p] < rate[p]
  /\ quiet' = [p \in Peers |-> Older(quiet[p])]
  /\ uptime' = Older(uptime)
  /\ since' = [p \in Peers |-> Older(since[p])]
  /\ UNCHANGED <<heard, told, raised, edges, config, alive, rate, visit, open, raced, left>>

Die(p) ==
  /\ p \in alive /\ Spend("changes")
  /\ alive' = alive \ {p}
  /\ UNCHANGED <<process, config, rate, since, visit, open, raced>>

\* It remembers its rate, and when it last made contact.
Wake(p) ==
  /\ p \notin alive /\ alive' = alive \cup {p}
  /\ UNCHANGED <<process, config, rate, since, visit, open, raced, left>>

ChangeWindow(p) ==
  /\ Spend("changes")
  /\ \E w \in Windows \ {window[p]} : window' = [window EXCEPT ![p] = w]
  /\ raced' = IF visit[p] = NoVisit THEN raced ELSE raced \cup {p}
  /\ UNCHANGED <<process, paired, peer, visit, open>>

Unpair(p) ==
  /\ p \in paired /\ visit[p] = NoVisit /\ Spend("changes")
  /\ paired' = paired \ {p}
  /\ UNCHANGED <<process, window, peer, visit, open, raced>>

\* Pairing is not a contact.
Pair(p) ==
  /\ p \notin paired /\ Spend("changes")
  /\ paired' = paired \cup {p}
  /\ rate' = [rate EXCEPT ![p] = SlowestBeat] /\ since' = [since EXCEPT ![p] = 0]
  /\ raced' = raced \cup {p}
  /\ UNCHANGED <<process, window, alive, visit, open>>

Restart ==
  /\ Spend("restarts")
  /\ heard' = {} /\ quiet' = [p \in Peers |-> 0] /\ uptime' = 0 /\ told' = [p \in Peers |-> 0]
  /\ raised' = {} /\ edges' = {} /\ raced' = {}
  /\ visit' = [p \in Peers |-> NoVisit]
  /\ UNCHANGED <<config, peer, open>>

Request(p) == Resolve(p) \/ ReadWindow(p) \/ Contact(p) \/ Close(p) \/ Reply(p)

Next == \/ Check \/ Raise \/ Unraise \/ Tick \/ Restart
        \/ \E p \in Peers : \/ Request(p) \/ Die(p) \/ Wake(p)
                            \/ ChangeWindow(p) \/ Unpair(p) \/ Pair(p)

Spec == Init /\ [][Next]_vars

\* The ticker of the check, its goroutine, and time.
FairSpec == /\ Spec /\ WF_vars(Check) /\ WF_vars(Raise) /\ WF_vars(Unraise)
            /\ WF_vars(Tick) /\ \A p \in Peers : WF_vars(Request(p))

-----------------------------------------------------------------------------
\* Properties.

\* Every variable has its type, and nothing pending is both raised and resolved.
TypeOK ==
  /\ paired \subseteq Peers /\ window \in [Peers -> Windows]
  /\ heard \subseteq Peers /\ {quiet[p] : p \in Peers} \cup {uptime} \subseteq 0 .. MaxAge
  /\ told \in [Peers -> Windows \cup {0}] /\ \A p \in heard : told[p] \in Windows
  /\ raised \subseteq Peers /\ open \subseteq Peers /\ alive \subseteq Peers
  /\ edges \subseteq [peer : Peers, up : BOOLEAN]
  /\ \A p \in Peers : ~([peer |-> p, up |-> TRUE] \in edges /\ [peer |-> p, up |-> FALSE] \in edges)
  /\ rate \in [Peers -> 1 .. SlowestBeat] /\ since \in [Peers -> 0 .. MaxAge]

\* A peer that runs and keeps to the rate it was told is not reported silent,
\* through restarts and shortened windows (check: it cannot be held to a window
\* it has not been told about), except where a request straddled the change or
\* it was paired after the start.
NotAccused ==
  \A p \in raised \cap alive \cap paired : since[p] <= rate[p] => p \in raced

\* A contact closes the peer's incident if one is open.
ContactCloses == [][\A p \in Peers : Reply(p) => p \notin open]_vars

\* A peer that stops while paired is reported, unless it comes back first:
\* whenever it stopped, and whether or not this process ever heard it.
DeadIsNoticed ==
  \A p \in Peers : (p \in paired \ alive) ~> (p \in open \cup alive \/ p \notin paired)
=============================================================================
