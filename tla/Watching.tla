------------------------------ MODULE Watching -------------------------------
(***************************************************************************)
(* What must not stop unnoticed, part by part: the supervisor of the       *)
(* sources, the sources themselves, the watch over paired products, and    *)
(* the daemon through an update of its own. The parts share no state here, *)
(* so a behaviour is of one of them, the subject; the others are Absent,   *)
(* or rest where they begin.                                               *)
(***************************************************************************)
EXTENDS Integers, FiniteSets

CONSTANTS
  Subjects,               \* the parts considered
  Absent                  \* what a part that is not the subject holds

CONSTANTS                 \* IngestSupervisor
  Sources, ApplicationOf, LivenessOf, MaxRunners, Horizon_ingest

CONSTANTS                 \* ProtectSource
  Cameras, MaxChanges_protect, MaxDrops, MaxNoise, SweepRequests,
  MuteThreshold_protect

CONSTANTS                 \* ProtectEvents
  Ids, MaxOpen, MaxRepeats

CONSTANTS                 \* AccessDoors
  HeldAfter, UnlockGrace, PositionEvery, MuteThreshold_doors, MaxFaults,
  MaxMoves, Horizon_doors

CONSTANTS                 \* AccessLog
  Rows, Lag, PollEvery_log, Overlap, PageRows, MaxFailures_log,
  MaxRestarts_log, Horizon_log

CONSTANTS                 \* NetworkDevices
  Sites, Home, PageLimit, MaxPages, PollEvery_network, DownFor, MaxFails,
  MaxChanges_network, Horizon_network

CONSTANTS                 \* PeerLiveness
  Peers, Windows, SlowestBeat, MaxAge, MaxRestarts_watch, MaxChanges_watch

CONSTANTS                 \* SelfUpdate
  Updates,                \* the requests for updates and restarts under way
  MaxVersion, MaxFailures_update, MaxCrashes, MaxAsked

VARIABLE subject        \* the part whose steps are taken

VARIABLES
  clock, phase_ingest, src, running_ingest, routines, place, cancelled,
  lastAt, silent, fatal, replace, deadman, open_ingest, lost

ingestVars == <<clock, phase_ingest, src, running_ingest, routines, place,
                cancelled, lastAt, silent, fatal, replace, deadman,
                open_ingest, lost>>

Ingest == INSTANCE IngestSupervisor WITH
  NameOf <- ApplicationOf, Window <- LivenessOf, Horizon <- Horizon_ingest,
  EarlyReplace <- FALSE, phase <- phase_ingest,
  running <- running_ingest, open <- open_ingest

\* Each source can be made a runner (IngestSupervisor).
ASSUME IngestAssumption ==
  /\ IsFiniteSet(Sources) /\ MaxRunners \in Nat /\ Cardinality(Sources) <= MaxRunners
  /\ Horizon_ingest \in Nat
  /\ LivenessOf \in [Sources -> Nat]

VARIABLES
  truth, changes_protect, drops, noise, socket, ended_protect, wire, reg,
  streamed, saying, sweep, requests, retry, understood, unheard, muted,
  offline_protect, upSince

protectVars == <<truth, changes_protect, drops, noise, socket, ended_protect,
                 wire, reg, streamed, saying, sweep, requests, retry,
                 understood, unheard, muted, offline_protect, upSince>>

Protect == INSTANCE ProtectSource WITH
  Devices <- Cameras, MaxChanges <- MaxChanges_protect,
  MuteThreshold <- MuteThreshold_protect, Nothing <- Absent,
  changes <- changes_protect, ended <- ended_protect,
  offline <- offline_protect

\* A sweep can be asked for (ProtectSource).
ASSUME ProtectAssumption == SweepRequests \in Nat \ {0} /\ MuteThreshold_protect \in Nat

VARIABLES
  event, phase_events, repeats, open_events, told_events, alarmed, strangers

eventsVars == <<event, phase_events, repeats, open_events, told_events,
                alarmed, strangers>>

Events == INSTANCE ProtectEvents WITH
  phase <- phase_events,
  open <- open_events, told <- told_events

\* The table of events in progress has a limit (ProtectEvents).
ASSUME EventsAssumption == MaxOpen \in Nat

VARIABLES
  now_doors, lock_doors, position, remain, listed_doors, moves, faults,
  socketUp, frame, polled_doors, state, told_doors, recognised, unrecognised,
  mute, unlockedAt, openSince, blind

doorsVars == <<now_doors, lock_doors, position, remain, listed_doors, moves,
               faults, socketUp, frame, polled_doors, state, told_doors,
               recognised, unrecognised, mute, unlockedAt, openSince, blind>>

Doors == INSTANCE AccessDoors WITH
  MuteThreshold <- MuteThreshold_doors, UnknownModes <- FALSE,
  Horizon <- Horizon_doors,
  now <- now_doors, lock <- lock_doors, listed <- listed_doors,
  polled <- polled_doors, told <- told_doors

\* Instants are numbers, and the limit and the rhythm are lengths (AccessDoors).
ASSUME DoorsAssumption ==
  HeldAfter \in Nat /\ PositionEvery \in Nat /\ Horizon_doors \in Nat /\ MaxFaults \in Nat

VARIABLES
  now_log, written, kind, at, shown, failures_log, restarts, polled_log,
  watermark, seen_log, emitted, from, stuck

logVars == <<now_log, written, kind, at, shown, failures_log, restarts,
             polled_log, watermark, seen_log, emitted, from, stuck>>

Log == INSTANCE AccessLog WITH
  PollEvery <- PollEvery_log, MaxFailures <- MaxFailures_log,
  MaxRestarts <- MaxRestarts_log, Horizon <- Horizon_log, now <- now_log,
  failures <- failures_log, polled <- polled_log, seen <- seen_log

\* Windows overlap by more than a row may be late, and the rows of a window fit
\* the pages that are read of it (AccessLog).
ASSUME LogAssumption ==
  /\ Lag \in Nat /\ Overlap \in Nat /\ Lag < Overlap /\ PageRows \in Nat
  /\ IsFiniteSet(Rows) /\ Cardinality(Rows) <= PageRows
  /\ PollEvery_log \in Nat \ {0} /\ Horizon_log \in Nat /\ MaxRestarts_log \in Nat

VARIABLES
  now_network, status, listed_network, changes_network, fails, poll, due, by,
  contact, offline_network, downSince, upAt

networkVars == <<now_network, status, listed_network, changes_network, fails,
                 poll, due, by, contact, offline_network, downSince, upAt>>

Network == INSTANCE NetworkDevices WITH
  PollEvery <- PollEvery_network, MaxChanges <- MaxChanges_network,
  Horizon <- Horizon_network,
  now <- now_network, listed <- listed_network, changes <- changes_network,
  offline <- offline_network

\* Instants are numbers (NetworkDevices).
ASSUME NetworkAssumption ==
  PollEvery_network \in Nat /\ DownFor \in Nat /\ Horizon_network \in Nat

VARIABLES
  paired, window, heard, quiet, uptime, told_watch, raised, edges, visit,
  open_watch, alive, rate, since, raced, left

watchVars == <<paired, window, heard, quiet, uptime, told_watch, raised,
               edges, visit, open_watch, alive, rate, since, raced, left>>

Watch == INSTANCE PeerLiveness WITH
  MaxRestarts <- MaxRestarts_watch, MaxChanges <- MaxChanges_watch,
  told <- told_watch, open <- open_watch

\* Ages are counted in units of the fastest heartbeat, and no window that may be
\* set is shorter than one (PeerLiveness).
ASSUME WatchAssumption ==
  Windows \subseteq Nat \ {0} /\ SlowestBeat \in Nat \ {0} /\ MaxAge \in Nat

VARIABLES
  life, running_update, wanted, lock_update, marker, failed, beat, target,
  backup, latest, seen_update, request, helper, published, failures_update,
  crashes, asked, agreed, ended_update, reported

updateVars == <<life, running_update, wanted, lock_update, marker, failed,
                beat, target, backup, latest, seen_update, request, helper,
                published, failures_update, crashes, asked, agreed,
                ended_update, reported>>

Update == INSTANCE SelfUpdate WITH
  Requests <- Updates, MaxFailures <- MaxFailures_update,
  KillsHelper <- FALSE, running <- running_update,
  lock <- lock_update, seen <- seen_update, failures <- failures_update,
  ended <- ended_update

\* There is a version to run (SelfUpdate).
ASSUME UpdateAssumption == MaxVersion \in Nat \ {0}

\* A part that is not the subject is not there.
NoIngest ==
  clock = Absent /\ phase_ingest = Absent /\ src = Absent /\ running_ingest =
  Absent /\ routines = Absent /\ place = Absent /\ cancelled = Absent /\
  lastAt = Absent /\ silent = Absent /\ fatal = Absent /\ replace = Absent /\
  deadman = Absent /\ open_ingest = Absent /\ lost = Absent

NoEvents ==
  event = Absent /\ phase_events = Absent /\ repeats = Absent /\ open_events =
  Absent /\ told_events = Absent /\ alarmed = Absent /\ strangers = Absent

NoDoors ==
  now_doors = Absent /\ lock_doors = Absent /\ position = Absent /\ remain =
  Absent /\ listed_doors = Absent /\ moves = Absent /\ faults = Absent /\
  socketUp = Absent /\ frame = Absent /\ polled_doors = Absent /\ state =
  Absent /\ told_doors = Absent /\ recognised = Absent /\ unrecognised =
  Absent /\ mute = Absent /\ unlockedAt = Absent /\ openSince = Absent /\
  blind = Absent

NoLog ==
  now_log = Absent /\ written = Absent /\ kind = Absent /\ at = Absent /\
  shown = Absent /\ failures_log = Absent /\ restarts = Absent /\ polled_log =
  Absent /\ watermark = Absent /\ seen_log = Absent /\ emitted = Absent /\
  from = Absent /\ stuck = Absent

NoNetwork ==
  now_network = Absent /\ status = Absent /\ listed_network = Absent /\
  changes_network = Absent /\ fails = Absent /\ poll = Absent /\ due = Absent
  /\ by = Absent /\ contact = Absent /\ offline_network = Absent /\ downSince
  = Absent /\ upAt = Absent

Init ==
  /\ subject \in Subjects
  /\ IF subject = "ingest" THEN Ingest!Init ELSE NoIngest
  /\ Protect!Init /\ (subject = "protect" \/ truth = [d \in Cameras |-> "CONNECTED"])
  /\ IF subject = "events" THEN Events!Init ELSE NoEvents
  /\ IF subject = "doors" THEN Doors!Init ELSE NoDoors
  /\ IF subject = "log" THEN Log!Init ELSE NoLog
  /\ IF subject = "network" THEN Network!Init ELSE NoNetwork
  /\ Watch!Init /\ (subject = "watch" \/ window = [p \in Peers |-> CHOOSE w \in Windows : TRUE])
  /\ Update!Init

IngestSteps ==
  /\ subject = "ingest" /\ Ingest!Next
  /\ UNCHANGED <<subject,
                protectVars, eventsVars, doorsVars, logVars, networkVars,
                watchVars, updateVars>>

ProtectSteps ==
  /\ subject = "protect" /\ Protect!Next
  /\ UNCHANGED <<subject,
                ingestVars, eventsVars, doorsVars, logVars, networkVars,
                watchVars, updateVars>>

EventsSteps ==
  /\ subject = "events" /\ Events!Next
  /\ UNCHANGED <<subject,
                ingestVars, protectVars, doorsVars, logVars, networkVars,
                watchVars, updateVars>>

DoorsSteps ==
  /\ subject = "doors" /\ Doors!Next
  /\ UNCHANGED <<subject,
                ingestVars, protectVars, eventsVars, logVars, networkVars,
                watchVars, updateVars>>

LogSteps ==
  /\ subject = "log" /\ Log!Next
  /\ UNCHANGED <<subject,
                ingestVars, protectVars, eventsVars, doorsVars, networkVars,
                watchVars, updateVars>>

NetworkSteps ==
  /\ subject = "network" /\ Network!Next
  /\ UNCHANGED <<subject,
                ingestVars, protectVars, eventsVars, doorsVars, logVars,
                watchVars, updateVars>>

WatchSteps ==
  /\ subject = "watch" /\ Watch!Next
  /\ UNCHANGED <<subject,
                ingestVars, protectVars, eventsVars, doorsVars, logVars,
                networkVars, updateVars>>

UpdateSteps ==
  /\ subject = "update" /\ Update!Next
  /\ UNCHANGED <<subject,
                ingestVars, protectVars, eventsVars, doorsVars, logVars,
                networkVars, watchVars>>

Next ==
  IngestSteps \/ ProtectSteps \/ EventsSteps \/ DoorsSteps \/ LogSteps \/
  NetworkSteps \/ WatchSteps \/ UpdateSteps

vars == <<subject, ingestVars, protectVars, eventsVars, doorsVars, logVars,
          networkVars, watchVars, updateVars>>

Spec == Init /\ [][Next]_vars

\* The fairness of the parts that promise something will happen, each condition
\* as the part's own module has it.
FairSpec ==
  /\ Spec
  /\ \A s \in Protect!Sockets : WF_protectVars(subject = "protect" /\ Protect!SocketStep(s))
  /\ WF_protectVars(subject = "protect" /\ Protect!Reader)
  /\ WF_protectVars(subject = "protect" /\ Protect!Sweeper)
  /\ WF_protectVars(subject = "protect" /\ Protect!SweepDue)
  /\ WF_watchVars(subject = "watch" /\ Watch!Check)
  /\ WF_watchVars(subject = "watch" /\ Watch!Raise)
  /\ WF_watchVars(subject = "watch" /\ Watch!Unraise)
  /\ WF_watchVars(subject = "watch" /\ Watch!Tick)
  /\ \A p \in Peers : WF_watchVars(subject = "watch" /\ Watch!Request(p))
  /\ SF_updateVars(subject = "update" /\ Update!Start)
  /\ WF_updateVars(subject = "update" /\ Update!Ready)
  /\ WF_updateVars(subject = "update" /\ Update!Cancel)
  /\ WF_updateVars(subject = "update" /\ Update!Finish)
  /\ WF_updateVars(subject = "update" /\ Update!Exit)
  /\ WF_updateVars(subject = "update" /\ Update!Release)
  /\ \A r \in Updates : WF_updateVars(subject = "update" /\ Update!Help(r))
-----------------------------------------------------------------------------
\* Every part keeps its types.
TypeOK ==
  /\ subject = "ingest" => Ingest!TypeOK
  /\ subject = "protect" => Protect!TypeOK
  /\ subject = "events" => Events!TypeOK
  /\ subject = "doors" => Doors!TypeOK
  /\ subject = "log" => Log!TypeOK
  /\ subject = "network" => Network!TypeOK
  /\ subject = "watch" => Watch!TypeOK
  /\ subject = "update" => Update!TypeOK

\* A source that is silent has its incident open, but for a report that the code
\* loses (IngestSupervisor).
SilenceIsOpen == subject = "ingest" => Ingest!SilenceIsOpen

\* The registry comes to hold what the devices are (ProtectSource).
RegistryConverges == subject = "protect" => Protect!RegistryConverges

\* An alarm is not cleared while the event that raised it lasts (ProtectEvents).
AlarmOutlastsItsEvent == subject = "events" => Events!AlarmOutlastsItsEvent

\* A door held open past the limit is reported (AccessDoors).
HeldIsReported == subject = "doors" => Doors!HeldIsReported

\* No row of the access log is skipped (AccessLog).
NothingDropped == subject = "log" => Log!NothingDropped

\* A device down for long enough is reported (NetworkDevices).
DownIsReported == subject = "network" => Network!DownIsReported

\* A peer that makes contact in time is not called silent (PeerLiveness).
NotAccused == subject = "watch" => Watch!NotAccused

\* A paired peer that stops is called silent at last (PeerLiveness).
DeadIsNoticed == subject = "watch" => Watch!DeadIsNoticed

\* A restart that took the service down brings it back (SelfUpdate).
RestartReturns == subject = "update" => Update!RestartReturns
=============================================================================
