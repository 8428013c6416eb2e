---------------------------- MODULE ProtectSource ---------------------------
(***************************************************************************)
(* protect.Source: two sockets with no resume cursor and the sweep that    *)
(* re-reads over REST what they could not tell.  The registry is one       *)
(* critical section; what a frame or a sweep found there is emitted after  *)
(* the lock was given up, by two goroutines.  Delays are left out: a retry *)
(* may come whenever it is due.                                            *)
(***************************************************************************)
EXTENDS Integers, Sequences, FiniteSets

CONSTANTS Devices,
          MaxChanges,    \* bound: what happens to the devices
          MaxDrops,      \* bound: connections lost
          MaxNoise,      \* bound: frames about nothing modelled
          SweepRequests, \* capacity of sweepReq
          MuteThreshold,
          Nothing        \* no state, no event

Sockets == {"events", "devices"}
States == {"CONNECTED", "CONNECTING", "DISCONNECTED"}

VARIABLES
  truth,     \* device -> what it is
  changes, drops, noise,
  socket,    \* socket -> "dialling", "up", "waiting" or "gone"
  ended,     \* a pin mismatch ended the source
  wire,      \* what the devices socket has yet to read
  reg,       \* registry: device -> its last known state
  streamed,  \* the devices whose updatedAt is after the start of the sweep
  saying,    \* what the devices socket is about to emit
  sweep,     \* the sweeper: [at, left, got, failed, todo]
  requests, retry,
  understood, unheard, \* socketState: recognised > 0, unrecognised
  muted,     \* health.StreamMuteReported
  offline,   \* the devices reported offline, as the sink was told
  upSince    \* ghost: devices that were connected since reg calls them disconnected

world == <<truth, changes, noise, drops>>
sockets == <<socket, ended, understood, unheard, muted>>
registry == <<reg, streamed, upSince>>
sweeper == <<sweep, requests, retry>>
vars == <<world, sockets, wire, registry, saying, sweeper, offline>>

Asleep == [at |-> "idle", left |-> {}, got |-> << >>, failed |-> FALSE, todo |-> {}]
Told(d, clears) == [device |-> d, clears |-> clears]

Init ==
  /\ truth \in [Devices -> {"CONNECTED", "DISCONNECTED"}]
  /\ changes = 0 /\ drops = 0 /\ noise = 0
  /\ socket = [s \in Sockets |-> "dialling"] /\ ended = FALSE
  /\ wire = << >>
  /\ reg = [d \in Devices |-> Nothing] /\ streamed = {}
  /\ saying = Nothing /\ sweep = Asleep
  \* A cold start is a reconnect from infinity.
  /\ requests = 1 /\ retry = FALSE
  /\ understood = {} /\ unheard = [s \in Sockets |-> 0] /\ muted = {}
  /\ offline = {} /\ upSince = {}

RequestSweep == requests' = IF requests < SweepRequests THEN requests + 1 ELSE requests

-----------------------------------------------------------------------------
\* The console.

\* A device changes state; whoever reads the devices socket will be told.
Change(d, to) ==
  /\ changes < MaxChanges /\ changes' = changes + 1
  /\ truth[d] # to /\ truth' = [truth EXCEPT ![d] = to]
  /\ wire' = IF socket["devices"] = "up" THEN Append(wire, <<d, to>>) ELSE wire
  /\ upSince' = IF to = "CONNECTED" THEN upSince \cup {d} ELSE upSince
  /\ UNCHANGED <<noise, drops, sockets, reg, streamed, saying, sweeper, offline>>

-----------------------------------------------------------------------------
\* runSocket and serve.

\* serve: every connection asks for a sweep.
Connect(s) ==
  /\ ~ended /\ socket[s] = "dialling"
  /\ socket' = [socket EXCEPT ![s] = "up"]
  /\ understood' = understood \ {s} /\ unheard' = [unheard EXCEPT ![s] = 0]
  /\ wire' = IF s = "devices" THEN << >> ELSE wire
  /\ RequestSweep
  /\ UNCHANGED <<world, ended, muted, registry, saying, sweep, retry, offline>>

\* The dial or the connection fails; what was not read is lost.
Drop(s) ==
  /\ ~ended /\ socket[s] \in {"dialling", "up"} /\ (s = "devices" => saying = Nothing)
  /\ drops < MaxDrops /\ drops' = drops + 1
  /\ socket' = [socket EXCEPT ![s] = "waiting"]
  /\ wire' = IF s = "devices" THEN << >> ELSE wire
  /\ UNCHANGED <<truth, changes, noise, ended, understood, unheard, muted, registry, saying,
                 sweeper, offline>>

\* After the delay of the ladder, or of the console.
Redial(s) ==
  /\ ~ended /\ socket[s] = "waiting"
  /\ socket' = [socket EXCEPT ![s] = "dialling"]
  /\ UNCHANGED <<world, ended, understood, unheard, muted, wire, registry, saying, sweeper,
                 offline>>

\* ErrPinMismatch: the one failure that is not retried ends all three goroutines.
Mismatch(s) ==
  /\ ~ended /\ socket[s] = "dialling" /\ drops < MaxDrops
  /\ ended' = TRUE /\ socket' = [t \in Sockets |-> "gone"]
  /\ wire' = << >>
  /\ UNCHANGED <<world, understood, unheard, muted, registry, saying, sweeper, offline>>

\* Mutant: only the connection that raised the fault takes it back.
RecognisedHere(s) ==
  /\ understood' = understood \cup {s}
  /\ muted' = IF unheard[s] >= MuteThreshold THEN muted \ {s} ELSE muted
  /\ UNCHANGED unheard

\* recognisedMessage: the first frame understood ends the fault, whichever
\* connection raised it.
Recognised(s) ==
  /\ understood' = understood \cup {s} /\ muted' = muted \ {s}
  /\ UNCHANGED unheard

\* unrecognisedMessage: a socket never understood is a reported fault.
Unrecognised(s) ==
  LET n == IF unheard[s] < MuteThreshold THEN unheard[s] + 1 ELSE unheard[s]
  IN  /\ unheard' = [unheard EXCEPT ![s] = n]
      /\ muted' = IF s \in understood \/ n < MuteThreshold THEN muted ELSE muted \cup {s}
      /\ UNCHANGED understood

\* handle, for a frame that says nothing about a device's state.
HandleOther(s) ==
  /\ socket[s] = "up" /\ (s = "devices" => saying = Nothing /\ wire = << >>)
  /\ noise < MaxNoise /\ noise' = noise + 1
  /\ Recognised(s) \/ Unrecognised(s)
  /\ UNCHANGED <<truth, changes, drops, socket, ended, wire, registry, saying, sweeper, offline>>

-----------------------------------------------------------------------------
\* The registry.

\* Mutant: the state is taken as it comes.
MergeAsIs(d, state) == IF state = Nothing THEN reg[d] ELSE state

\* mergeLocked: what says nothing erases nothing.
Merge(d, state) == IF state \in {Nothing, "CONNECTING"} THEN reg[d] ELSE state

\* classifyState: the return of a device counts only if it was known to be away.
Emitted(d, prev, now) ==
  CASE now = "DISCONNECTED" /\ prev # "DISCONNECTED" -> {Told(d, FALSE)}
    [] now = "CONNECTED" /\ prev = "DISCONNECTED" -> {Told(d, TRUE)}
    [] OTHER -> {}

Ghost(r) == {d \in upSince : reg[d] = r[d]} \cup {d \in Devices : truth[d] = "CONNECTED"}

\* handleDeviceFrame, up to what it emits.
HandleDevice ==
  /\ socket["devices"] = "up" /\ wire # << >> /\ saying = Nothing
  /\ LET d == Head(wire)[1]  state == Head(wire)[2]
         events == Emitted(d, reg[d], state)
     IN  /\ reg' = [reg EXCEPT ![d] = Merge(d, state)]
         /\ streamed' = IF state = "CONNECTING" THEN streamed ELSE streamed \cup {d}
         /\ saying' = IF events = {} THEN Nothing ELSE CHOOSE e \in events : TRUE
  /\ upSince' = Ghost(reg')
  /\ wire' = Tail(wire)
  /\ Recognised("devices")
  /\ UNCHANGED <<world, socket, ended, sweeper, offline>>

Tell(e) == offline' = IF e.clears THEN offline \ {e.device} ELSE offline \cup {e.device}

\* emitStateEvent.
EmitState ==
  /\ saying # Nothing
  /\ Tell(saying) /\ saying' = Nothing
  /\ UNCHANGED <<world, sockets, wire, registry, sweeper>>

-----------------------------------------------------------------------------
\* runSweeper and Reconcile.

\* A request waits for those that come with it; the retry and the ticker do not.
SweepAsked ==
  /\ sweep.at = "idle" /\ requests > 0 /\ ~ended
  /\ sweep' = [sweep EXCEPT !.at = "debounce"] /\ requests' = requests - 1
  /\ UNCHANGED <<world, sockets, wire, registry, saying, retry, offline>>

Begun == [Asleep EXCEPT !.at = "read", !.left = Devices]

Debounced ==
  /\ sweep.at = "debounce" /\ ~ended
  /\ sweep' = Begun /\ requests' = 0 /\ streamed' = {}
  /\ UNCHANGED <<world, sockets, wire, reg, upSince, saying, retry, offline>>

SweepDue ==
  /\ sweep.at = "idle" /\ ~ended
  /\ sweep' = Begun /\ retry' = FALSE /\ streamed' = {}
  /\ UNCHANGED <<world, sockets, wire, reg, upSince, saying, requests, offline>>

\* Devices, one collection after another: a failed one leaves the others.
Read(d) ==
  /\ sweep.at = "read" /\ d \in sweep.left /\ ~ended
  /\ sweep' = [sweep EXCEPT !.left = @ \ {d},
                            !.got = [x \in DOMAIN @ \cup {d} |-> IF x = d THEN truth[d] ELSE @[x]]]
  /\ UNCHANGED <<world, sockets, wire, registry, saying, requests, retry, offline>>

ReadFails(d) ==
  /\ sweep.at = "read" /\ d \in sweep.left /\ drops < MaxDrops /\ drops' = drops + 1
  /\ sweep' = [sweep EXCEPT !.left = @ \ {d}, !.failed = TRUE]
  /\ UNCHANGED <<truth, changes, noise, sockets, wire, registry, saying, requests, retry, offline>>

\* The console took the request and never answers.
ReadHangs ==
  /\ sweep.at = "read" /\ sweep.left # {} /\ drops < MaxDrops /\ drops' = drops + 1
  /\ sweep' = [sweep EXCEPT !.at = "hung"]
  /\ UNCHANGED <<truth, changes, noise, sockets, wire, registry, saying, requests, retry, offline>>

\* Mutant: nothing bounds a read.
SweepWaits == sweep.at = "hung" /\ UNCHANGED vars

\* SweepTimeout, or the end of the source.
SweepTimesOut ==
  /\ sweep.at = "hung" \/ (ended /\ sweep.at = "read" /\ sweep.left # {})
  /\ sweep' = [sweep EXCEPT !.at = "read", !.left = {}, !.failed = TRUE]
  /\ UNCHANGED <<world, sockets, wire, registry, saying, requests, retry, offline>>

\* Mutant: the older read wins over the stream.
ApplyAll ==
  LET heard == DOMAIN sweep.got
  IN  /\ reg' = [d \in Devices |-> IF d \in heard THEN Merge(d, sweep.got[d]) ELSE reg[d]]
      /\ sweep' = [sweep EXCEPT !.at = "emit",
                     !.todo = UNION {Emitted(d, reg[d], sweep.got[d]) : d \in heard}]

\* applySweep: fresher stream data wins.
ApplySweep ==
  LET heard == DOMAIN sweep.got \ streamed
  IN  /\ reg' = [d \in Devices |-> IF d \in heard THEN Merge(d, sweep.got[d]) ELSE reg[d]]
      /\ sweep' = [sweep EXCEPT !.at = "emit",
                     !.todo = UNION {Emitted(d, reg[d], sweep.got[d]) : d \in heard}]

Apply ==
  /\ sweep.at = "read" /\ sweep.left = {}
  /\ ApplySweep /\ upSince' = Ghost(reg')
  /\ UNCHANGED <<world, sockets, wire, streamed, saying, requests, retry, offline>>

EmitTransition(e) ==
  /\ sweep.at = "emit" /\ e \in sweep.todo
  /\ Tell(e) /\ sweep' = [sweep EXCEPT !.todo = @ \ {e}]
  /\ UNCHANGED <<world, sockets, wire, registry, saying, requests, retry>>

\* The next sweep comes by itself after an error.
SweepEnds ==
  /\ sweep.at = "emit" /\ sweep.todo = {}
  /\ sweep' = Asleep /\ retry' = sweep.failed
  /\ UNCHANGED <<world, sockets, wire, registry, saying, requests, offline>>

-----------------------------------------------------------------------------
SocketStep(s) == Connect(s) \/ Redial(s)
Reader == HandleDevice \/ EmitState
Sweeper == \/ SweepAsked \/ Debounced \/ SweepTimesOut \/ Apply \/ SweepEnds
           \/ \E d \in Devices : Read(d)
           \/ \E d \in Devices, clears \in BOOLEAN : EmitTransition(Told(d, clears))

Next == \/ \E d \in Devices, to \in States : Change(d, to)
        \/ \E s \in Sockets : SocketStep(s) \/ Drop(s) \/ Mismatch(s) \/ HandleOther(s)
        \/ Reader \/ Sweeper \/ SweepDue \/ ReadHangs
        \/ \E d \in Devices : ReadFails(d)

Spec == Init /\ [][Next]_vars

\* Goroutines that can run do, the ticker ticks, and the console lets one in.
Fairness == /\ \A s \in Sockets : WF_vars(SocketStep(s))
            /\ WF_vars(Reader) /\ WF_vars(Sweeper) /\ WF_vars(SweepDue)

FairSpec == Spec /\ Fairness

-----------------------------------------------------------------------------
\* Properties.

TypeOK ==
  /\ truth \in [Devices -> States] /\ reg \in [Devices -> States \cup {Nothing}]
  /\ socket \in [Sockets -> {"dialling", "up", "waiting", "gone"}]
  /\ requests \in 0 .. SweepRequests /\ offline \cup streamed \cup upSince \subseteq Devices
  /\ sweep.at \in {"idle", "debounce", "read", "hung", "emit"}
  /\ unheard \in [Sockets -> 0 .. MuteThreshold] /\ muted \subseteq Sockets

\* A sweep ends an outage only if the device was back at some time since the
\* registry learned of it: a read older than the outage does not erase it.
OutageNotErased ==
  [][\A d \in Devices :
       sweep # sweep' /\ reg[d] = "DISCONNECTED" /\ reg'[d] # "DISCONNECTED" => d \in upSince]_vars

\* Whatever was lost with a connection, and though a read may hang or fail, the
\* registry comes to hold what the devices are.
RegistryConverges ==
  <>[](ended \/ \A d \in Devices : truth[d] = "CONNECTING" \/ reg[d] = truth[d])

\* A stream that is understood is not reported as one that is not.
UnderstoodIsNotMute == understood \cap muted = {}

\* With nothing left to emit, a device known to be away is reported so: the
\* registry takes each change once, so an outage whose event was overtaken by an
\* older clear is not reported again.
KnownOutageReported ==
  saying = Nothing /\ sweep.todo = {} =>
    \A d \in Devices : reg[d] = "DISCONNECTED" => d \in offline
=============================================================================
