------------------------------- MODULE Daemon -------------------------------
(***************************************************************************)
(* What the daemon does with its configuration, its messages and its       *)
(* records, part by part: applying a change, routing, wording and          *)
(* sending an alert, the address of the acknowledgement link, the audit    *)
(* log, and the activity and baseline of the site. The parts share no      *)
(* state here, so a behaviour is of one of them, the subject; the others   *)
(* are Absent.                                                             *)
(***************************************************************************)
EXTENDS Integers, FiniteSets, Sequences

CONSTANTS
  Subjects,               \* the parts considered
  Absent                  \* what a part that is not the subject holds

CONSTANTS                 \* ConfigApply
  Parts, Requests, MaxChanges, MaxFailures_config, MaxCrashes_config

CONSTANTS                 \* AlertRouting
  Conditions, HookLists, Policies, Windows

CONSTANTS                 \* AlertText
  Lengths, Links, Repeats

CONSTANTS                 \* ChannelSend
  Kinds, Numbers, Times, Advised

CONSTANTS                 \* AckReach
  Listens, AckListens, Urls, MaxEdits, MaxTaken

CONSTANTS                 \* AuditLog
  MaxLines, Keep, Limit, MaxEntries, MaxClock, MaxFaults, MaxCrashes_audit,
  MaxReads

CONSTANTS                 \* SiteActivity
  Keys, Width, Retention_activity, MaxSkew,
  Offsets,                \* how far an event's own time may be from the clock
  Jumps,                  \* what the clock may be set by
  MaxEvents, MaxJumps, MaxBlind, MaxFailures_activity, MaxCrashes_activity,
  Horizon

CONSTANTS                 \* SiteBaseline
  Levels, Retention_baseline, PerDay, MinPerDay, MinDays, MinSamples,
  MaxMissed

VARIABLE subject        \* the part whose steps are taken

VARIABLES
  up, file_config, current_config, live, applied, pending, waited, watcher,
  request, changes, failures_config, crashes_config, saved, broken_config,
  revoked, maps, touched

configVars == <<up, file_config, current_config, live, applied, pending,
                waited, watcher, request, changes, failures_config,
                crashes_config, saved, broken_config, revoked, maps, touched>>

Config == INSTANCE ConfigApply WITH
  Serial <- FALSE, MaxFailures <- MaxFailures_config,
  MaxCrashes <- MaxCrashes_config, file <- file_config,
  current <- current_config, failures <- failures_config,
  crashes <- crashes_config, broken <- broken_config

\* The changes are numbered up to some number (ConfigApply).
ASSUME ConfigAssumption == MaxChanges \in Nat

VARIABLES
  config, phase_routing, queues, broken_routing, ladders, warned, unknown

routingVars == <<config, phase_routing, queues, broken_routing, ladders,
                 warned, unknown>>

Routing == INSTANCE AlertRouting WITH
  phase <- phase_routing, broken <- broken_routing

\* A ladder of the operator's is for a severity, with rungs one after another
\* (AlertRouting).
ASSUME LadderAssumption ==
  Policies \subseteq {Routing!NoPolicy}
    \cup [severity : STRING, quiet : BOOLEAN, giveUp : Int,
          stages : Seq([after : Int, channels : SUBSET STRING])]

VARIABLES
  alert, sent

textVars == <<alert, sent>>

Text == INSTANCE AlertText

\* Lengths are numbers (AlertText).
ASSUME TextAssumption == Lengths \subseteq Nat /\ Links \subseteq Nat /\ Repeats \subseteq Nat

VARIABLES
  kind, at, to, attempt, broken_send, wait, elapsed, accepted_send,
  failures_send, skipped, rung

sendingVars == <<kind, at, to, attempt, broken_send, wait, elapsed,
                 accepted_send, failures_send, skipped, rung>>

Sending == INSTANCE ChannelSend WITH
  broken <- broken_send,
  accepted <- accepted_send, failures <- failures_send

\* Somebody is called, and time goes on (ChannelSend).
ASSUME SendAssumption ==
  /\ Kinds \subseteq {"ntfy", "pushover", "webhook", "voice", "email"}
  /\ Numbers \in Nat \ {0} /\ Times \subseteq Nat /\ Advised \subseteq Nat

VARIABLES
  file_reach, current_reach, bound, phase_reach, picked, draft, taken, edits,
  thefts, held

reachVars == <<file_reach, current_reach, bound, phase_reach, picked, draft,
               taken, edits, thefts, held>>

Reach == INSTANCE AckReach WITH
  file <- file_reach, current <- current_reach,
  phase <- phase_reach

\* Only web.ack_listen may ask for a port to be picked, and an origin has a scheme
\* (AckReach).
ASSUME AddressAssumption ==
  /\ Listens \subseteq [host : {"all", "loopback", "lan", "public"}, port : Nat]
  /\ AckListens \subseteq [host : {"", "all", "loopback", "lan", "public"}, port : Int]
  /\ Urls \subseteq {Reach!NoUrl}
       \cup [scheme : {"http", "https", "other"},
             host : {"alias", "loopback", "lan", "public"}, port : Nat]

VARIABLES
  disk, clock, entries, accepted_audit, dropped, torn, reader, reads, faults,
  crashes_audit

auditVars == <<disk, clock, entries, accepted_audit, dropped, torn, reader,
               reads, faults, crashes_audit>>

Audit == INSTANCE AuditLog WITH
  Coarse <- FALSE, MaxCrashes <- MaxCrashes_audit,
  accepted <- accepted_audit, crashes <- crashes_audit

\* The counters are bounded (AuditLog).
ASSUME AuditAssumption ==
  /\ MaxClock \in Nat \ {0}
  /\ MaxEntries \in Nat /\ MaxFaults \in Nat /\ MaxCrashes_audit \in Nat /\ MaxReads \in Nat

VARIABLES
  wall, mono, blind, sighted, rec, stored, started, window, seen, watched,
  saw, written, events, jumps, turns, failures_activity, crashes_activity

activityVars == <<wall, mono, blind, sighted, rec, stored, started, window,
                  seen, watched, saw, written, events, jumps, turns,
                  failures_activity, crashes_activity>>

Activity == INSTANCE SiteActivity WITH
  Retention <- Retention_activity, BlindSince <- FALSE,
  MaxFailures <- MaxFailures_activity, MaxCrashes <- MaxCrashes_activity,
  failures <- failures_activity, crashes <- crashes_activity

\* An interval is some time long, rows are kept for a time, and the clock is some
\* whole number, which the counters bound (SiteActivity).
ASSUME ActivityAssumption ==
  /\ Width \in Nat \ {0} /\ Retention_activity \in Nat
  /\ Offsets \subseteq Int /\ Jumps \subseteq Int
  /\ Horizon \in Nat /\ 2 * Width - 1 <= Horizon
  /\ MaxEvents \in Nat /\ MaxJumps \in Nat /\ MaxBlind \in Nat
  /\ MaxFailures_activity \in Nat /\ MaxCrashes_activity \in Nat

VARIABLES
  rows, phase_baseline, same, missed, flags

baselineVars == <<rows, phase_baseline, same, missed, flags>>

Baseline == INSTANCE SiteBaseline WITH
  Retention <- Retention_baseline, phase <- phase_baseline

\* An interval has a number of events and of devices, rows are kept, and a day has
\* some (SiteBaseline).
ASSUME BaselineAssumption ==
  /\ Levels \subseteq Nat \X Nat /\ Retention_baseline \in Nat \ {0}
  /\ PerDay \in Nat \ {0} /\ MaxMissed \in Nat

\* A part that is not the subject is not there.
NoConfig ==
  up = Absent /\ file_config = Absent /\ current_config = Absent /\ live =
  Absent /\ applied = Absent /\ pending = Absent /\ waited = Absent /\ watcher
  = Absent /\ request = Absent /\ changes = Absent /\ failures_config = Absent
  /\ crashes_config = Absent /\ saved = Absent /\ broken_config = Absent /\
  revoked = Absent /\ maps = Absent /\ touched = Absent

NoRouting ==
  config = Absent /\ phase_routing = Absent /\ queues = Absent /\
  broken_routing = Absent /\ ladders = Absent /\ warned = Absent /\ unknown =
  Absent

NoText ==
  alert = Absent /\ sent = Absent

NoSending ==
  kind = Absent /\ at = Absent /\ to = Absent /\ attempt = Absent /\
  broken_send = Absent /\ wait = Absent /\ elapsed = Absent /\ accepted_send =
  Absent /\ failures_send = Absent /\ skipped = Absent /\ rung = Absent

NoReach ==
  file_reach = Absent /\ current_reach = Absent /\ bound = Absent /\
  phase_reach = Absent /\ picked = Absent /\ draft = Absent /\ taken = Absent
  /\ edits = Absent /\ thefts = Absent /\ held = Absent

NoAudit ==
  disk = Absent /\ clock = Absent /\ entries = Absent /\ accepted_audit =
  Absent /\ dropped = Absent /\ torn = Absent /\ reader = Absent /\ reads =
  Absent /\ faults = Absent /\ crashes_audit = Absent

NoActivity ==
  wall = Absent /\ mono = Absent /\ blind = Absent /\ sighted = Absent /\ rec
  = Absent /\ stored = Absent /\ started = Absent /\ window = Absent /\ seen =
  Absent /\ watched = Absent /\ saw = Absent /\ written = Absent /\ events =
  Absent /\ jumps = Absent /\ turns = Absent /\ failures_activity = Absent /\
  crashes_activity = Absent

NoBaseline ==
  rows = Absent /\ phase_baseline = Absent /\ same = Absent /\ missed = Absent
  /\ flags = Absent

Init ==
  /\ subject \in Subjects
  /\ IF subject = "config" THEN Config!Init ELSE NoConfig
  /\ IF subject = "routing" THEN Routing!Init ELSE NoRouting
  /\ IF subject = "text" THEN Text!Init ELSE NoText
  /\ IF subject = "send" THEN Sending!Init ELSE NoSending
  /\ IF subject = "reach" THEN Reach!Init ELSE NoReach
  /\ IF subject = "audit" THEN Audit!Init ELSE NoAudit
  /\ IF subject = "activity" THEN Activity!Init ELSE NoActivity
  /\ IF subject = "baseline" THEN Baseline!Init ELSE NoBaseline

ConfigSteps ==
  /\ subject = "config" /\ Config!Next
  /\ UNCHANGED <<subject,
                routingVars, textVars, sendingVars, reachVars, auditVars,
                activityVars, baselineVars>>

RoutingSteps ==
  /\ subject = "routing" /\ Routing!Next
  /\ UNCHANGED <<subject,
                configVars, textVars, sendingVars, reachVars, auditVars,
                activityVars, baselineVars>>

TextSteps ==
  /\ subject = "text" /\ Text!Next
  /\ UNCHANGED <<subject,
                configVars, routingVars, sendingVars, reachVars, auditVars,
                activityVars, baselineVars>>

SendingSteps ==
  /\ subject = "send" /\ Sending!Next
  /\ UNCHANGED <<subject,
                configVars, routingVars, textVars, reachVars, auditVars,
                activityVars, baselineVars>>

ReachSteps ==
  /\ subject = "reach" /\ Reach!Next
  /\ UNCHANGED <<subject,
                configVars, routingVars, textVars, sendingVars, auditVars,
                activityVars, baselineVars>>

AuditSteps ==
  /\ subject = "audit" /\ Audit!Next
  /\ UNCHANGED <<subject,
                configVars, routingVars, textVars, sendingVars, reachVars,
                activityVars, baselineVars>>

ActivitySteps ==
  /\ subject = "activity" /\ Activity!Next
  /\ UNCHANGED <<subject,
                configVars, routingVars, textVars, sendingVars, reachVars,
                auditVars, baselineVars>>

BaselineSteps ==
  /\ subject = "baseline" /\ Baseline!Next
  /\ UNCHANGED <<subject,
                configVars, routingVars, textVars, sendingVars, reachVars,
                auditVars, activityVars>>

Next ==
  ConfigSteps \/ RoutingSteps \/ TextSteps \/ SendingSteps \/ ReachSteps \/
  AuditSteps \/ ActivitySteps \/ BaselineSteps

vars == <<subject, configVars, routingVars, textVars, sendingVars, reachVars,
          auditVars, activityVars, baselineVars>>

Spec == Init /\ [][Next]_vars
-----------------------------------------------------------------------------
\* Every part keeps its types.
TypeOK ==
  /\ subject = "config" => Config!TypeOK
  /\ subject = "routing" => Routing!TypeOK
  /\ subject = "text" => Text!TypeOK
  /\ subject = "send" => Sending!TypeOK
  /\ subject = "reach" => Reach!TypeOK
  /\ subject = "audit" => Audit!TypeOK
  /\ subject = "activity" => Activity!TypeOK
  /\ subject = "baseline" => Baseline!TypeOK

\* What the daemon runs the file has held whole, but for a default that a pairing
\* wrote into the overrides in use (ConfigApply).
RunsWhatWasSaved == subject = "config" => Config!RunsWhatWasSaved

\* A configuration that is accepted reaches somebody (AlertRouting).
AcceptedReaches == subject = "routing" => Routing!AcceptedReaches

\* No telephone rings that the operator put on no ladder (AlertRouting).
VoiceIsOptIn == subject = "routing" => Routing!VoiceIsOptIn

\* The link in a message is whole, within the limits of its service (AlertText).
LinkWithinLimits == subject = "text" => Text!LinkWithinLimits

\* One alert rings a telephone at most twice (ChannelSend).
RungAtMostTwice == subject = "send" => Sending!RungAtMostTwice

\* A link nobody can follow is warned of (AckReach).
DeadLinkIsSaid == subject = "reach" => Reach!DeadLinkIsSaid

\* A write that fails part of the way costs its own entry only (AuditLog).
DamageIsContained == subject = "audit" => Audit!DamageIsContained

\* An interval is written only if all of it was watched (SiteActivity).
WrittenWasWatched == subject = "activity" => Activity!WrittenWasWatched

\* A change that lasts is learned (SiteBaseline).
ChangeIsLearned == subject = "baseline" => Baseline!ChangeIsLearned
=============================================================================
