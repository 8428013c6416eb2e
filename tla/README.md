# Verification of NotifyMatrix

NotifyMatrix watches UniFi consoles and paired products, turns what they report
into *incidents*, and alerts people by an escalation ladder until somebody
acknowledges. This directory holds TLA+ modules of its core, the TLC runs that
check them and proofs that TLAPS checks. Paths below are relative to
`src/internal/` unless they start with `cmd/`.

What a user relies on, and what the modules are about:

1. a condition that is reported is on the board, once;
2. while nobody has answered, somebody is told, whatever fails in between;
3. nothing is recorded that did not happen: no alert that no channel accepted,
   no acknowledgement lost after a person was told it was recorded;
4. a peer that takes the watching over really watches;
5. what stops (a source, a peer, the daemon itself) is noticed;
6. what an operator saved is what runs, and what was told to the page is true.

## The system

### Components

| component | state it keeps | operations | hard behaviour |
|---|---|---|---|
| incident (`incident/`) | one incident's times, severity, counts | Open, Recur, RecordAlert, Acknowledge, Resolve, Occur, Close | UpdatedAt doubles as the version of compare-and-swap |
| store (`store/`) | SQLite: incidents, occurrences, seen link events, entities, activity | Put, PutIfUnchanged, OpenByDedupKey, LatestByDedupKey, Active, AddOccurrence, SeenEvent, ForgetEvent, backup | each statement is atomic, no caller's read-decide-write is; migration and backup over crashes |
| rule engine (`rule/`) | the rules in force | Handle, RaiseInternalFor, ResolveInternalFor, SetRules | many handlers at once on one key |
| escalation (`escalate/`) | policies, quiet hours | Tick (scan, process, commit), SetPolicies, SetQuietHours | decides on a scan, delivers for up to 90 s, commits on a fresh copy |
| delivery (`channel/`, `config/build.go`) | per channel a queue, a worker and a failure backoff | Deliver, SendAndWait, Test, Close | fan-out with timeouts, closing while calls are in flight |
| acknowledgement (`ack/`) | rate limiter buckets | acknowledge link | swap conflicts with the scheduler |
| web interface (`web/`) | sessions, setup token, failed logins | acknowledge, close, silence, settings, listings | writes that race with everything above |
| ingest supervisor (`ingest/`) | runner and health of each source, raised silences | Run, Replace, runSource, checkLiveness | replacing sources while a check and failing sources write one table |
| inbound receiver (`inbound/`) | hooks, receipts, test windows | ServeHTTP, SetHooks, ArmTest | hooks replaced while an arrival is served |
| sources (`source/`) | device and door tables, timers | stream, sweep, tick, forget | two streams of truth of different age |
| unifi client (`unifi/`) | pacer, backoff | Wait, Delay | shared between sources of one console |
| peer link (`link/`, `cmd/notifymatrix/linkwire.go`, `peerlive.go`) | peers, ids seen, claims, permissions, contacts | pair, events, heartbeat, ping, check | retries, a claim that makes the native source stand down |
| surge, reconcile, event | counts per slot; catalogue | Judge, Report, dedup keys | clock jumps |
| configuration (`config/`, `cmd/notifymatrix/main.go`) | the file, and what runs | applyLive: channels, policies, quiet hours, rules, hooks, sources | a step that fails half way leaves a mixture |
| update, service (`update/`, `service/`) | executable, backup, marker, lock | Apply, Rollback, Acquire | crash between two renames |
| audit, secret, setup, probe, integrity, firewall, fileperm, demo | logs, keys, files | | mostly input, output and operating-system calls |

### How they interact

Sources, the inbound receiver and the peer link each call `Engine.Handle` from
goroutines of their own. The engine folds the event into the live incident of its
dedup key or opens one. The scheduler, one goroutine with a ticker, scans
`Store.Active`, asks the policy what is due and calls `Delivery.Deliver`, which
fans out to the channel queues and waits. People come in through the
acknowledgement link and the web interface. Supervisor and deadman raise internal
faults through the same engine. All of them meet in the incidents table, and only
there; the table is what survives a crash. A saved configuration replaces the
delivery set, the policies, the rules, the hooks and the sources of the running
process one after another.

### What makes each component correct

* incident, store, engine, scheduler: one live incident per key; acknowledgements
  kept; nothing terminal revived; alerts recorded only when delivered; give-up
  only after telling, never a critical one; everything open is told at last.
* delivery: success is answered only for an accepted alert; every call and every
  close ends; a closed queue is quiet.
* peer link: an event becomes at most one alarm and, if accepted, at least one; a
  blind peer holds no claim; a healthy peer is not reported silent, a dead one is.
* ingest: each source has one runner; a fault is open exactly while its source is
  failed or silent.
* inbound: an alarm that is counted was raised.
* sources: the registry comes to hold what the devices are; a door held open and a
  device down are reported though polls fail; no row of the log is skipped; an
  alarm lasts as long as its event.
* web interface: there is always a way to sign in; a console that a save recognises keeps its own key.
* channels: a link is whole or absent; a telephone rings twice at most for one
  alert; a configuration that is accepted reaches somebody.
* configuration: nothing runs that no file held.
* update: a restart brings the service back; the machine keeps a copy of the program.
* audit, surge: damage costs one entry; an interval is stored only if all of it was
  watched; a change that lasts is learned.

The hazards in `PROJECT.json` list, at their lines, what of this a test would
hardly reach.

## Modules

| module | models | |
|---|---|---|
| `Incident` | `incident/incident.go` | the record and its pure operations |
| `IncidentStore` | `store/sqlite.go`, the index of `migrate.go` | queries and writes, one operator per statement |
| `EscalationPolicy` | `escalate/policy.go` | the ladder as operators |
| `IncidentLifecycle` | `rule/engine.go`, `escalate/scheduler.go`, `ack/handler.go`, `web/api.go`, `store/occurrences.go` | the four writers over one table; extends the three above; implements `IncidentPromise` |
| `IncidentPromise` | what a person told of an incident relies on | the abstract specification of an incident |
| `DeliveryPromise` | the contract of `Deliver` | the abstract specification of delivery |
| `Delivery` | `channel/queue.go`, `config/build.go`, `swapDelivery` | queues, workers, fan-out, replacement; implements `DeliveryPromise` |
| `PeerLink` | `link/handler.go`, `claim.go`, `commercial.go`, `store/linkseen.go` | the events route against a retrying peer |
| `PeerLiveness` | `cmd/notifymatrix/peerlive.go`, `link/manifest.go` | the deadman of peers |
| `Pairing` | `link/pair.go`, `Receiver.pair`, `storePeer`, `config/peerdefaults.go` | the code, the proof, the credential and what is stored |
| `LinkRequests` | `link/auth.go`, `envelope.go`, `propose.go`, `ratelimit.go` | a signed request up to the rule engine, and the proposals |
| `AckLink` | `ack/handler.go`, `ratelimit.go` | the route that faces the internet |
| `WebAccess` | `web/auth.go`, `config/setuptoken.go` | passwords, tokens, sessions, lockouts |
| `InboundReceiver` | `inbound/inbound.go`, `config/hooks.go` | arrivals, sets of hooks, the test mode |
| `SettingsForm` | `web/settings.go`, `config/sources.go` | what a save carries over, and the key of each source |
| `IngestSupervisor` | `ingest/ingest.go` | sources run, replaced and judged |
| `ProtectSource`, `ProtectEvents` | `source/protect/` | sockets, registry, sweep; the meaning of events |
| `AccessDoors`, `AccessLog` | `source/access/` | one door and its clocks; the log's windows |
| `NetworkDevices` | `source/network/` | polls over sites and pages |
| `SelfUpdate` | `update/`, `service/lock.go`, `marker.go`, `restart.go`, `updater.go` | the process through restarts and updates |
| `ConfigApply` | `main.go` (`applyLive`, `SaveConfig`), `configwatch.go`, `config/io.go` | the file, the copy in memory and the running parts |
| `AlertRouting` | `config/build.go`, `config.go`, `validate.go` | from settings to the queues a rung reaches |
| `AlertText` | the channels' `build` functions | what a message carries within its limits |
| `ChannelSend` | the channels' `Send` functions | retries inside one delivery |
| `AckReach` | `setup/reachable.go`, `config/acklisten.go`, `main.go` | whether the link opens on a telephone |
| `AuditLog` | `audit/file.go` | lines, rotation, reading back |
| `SiteActivity`, `SiteBaseline` | `surge/`, `store/activity.go` | intervals watched; what is typical |
| `MCIncidentLifecycle`, `MCDelivery` | | instances for TLC |
| `Requests` | | the parts that others ask something of, side by side, for every value of their constants |
| `MCRequests` | | the instance of `Requests` for TLC |
| `Watching` | | the sources, their supervisor, the watch over peers and the daemon through an update, side by side, for every value of their constants |
| `MCWatching` | | the instance of `Watching` for TLC |
| `Daemon` | | the configuration, the messages and the records, side by side, for every value of their constants |
| `MCDaemon` | | the instance of `Daemon` for TLC |
| `EscalationPolicy_proofs`, `IncidentLifecycle_proofs`, `IncidentSafety_proofs`, `Delivery_proofs` | | theorems |
| `Requests_proofs`, `Link_proofs` | | theorems about `Requests`; the second is about `PeerLink` |
| `Watching_proofs` | | theorems about `Watching` |
| `Daemon_proofs` | | theorems about `Daemon` |

### IncidentLifecycle

`rows` and `details` are the two tables, `proc` what each goroutine holds: its
place in the code, the `now` it captured, the copy it read, the version it
expects, its failed attempts. Every query and every write is one step, so any
interleaving of the program's statements is one of the model's.

* A handler: `Receive` (Handle reads the clock), `FindLive`, `PutFolded`,
  `PutClosed` (handle closes a resolved, unanswered incident), `PutOccurrence` (the
  swap of occur) and `AddOccurrence`, or `FindNothing`, `BuildNew`, `Insert`.
  `Retry` is the loop of three attempts.
* The scheduler: `Tick`, `Scan`, then per incident of the scan `NotDue`, `Hold`
  (quiet hours), `BeginGiveUp` or `BeginDelivery`; `DeliverySucceeds` or
  `DeliveryFails`; `Reload` and `Commit` (three attempts); `EndTick`.
* A person: `Ask` (reads) and `Answer` (decides and swaps), for the link, the web
  acknowledgement and the web close.
* `Crash` clears `proc`, keeps the tables. `Elapse` is time passing.

Abstractions: wording, titles and the actor are left out. `lastAlertAt` stands
also for FirstAlertAt. Two readings of the clock differ, as nanosecond stamps
nearly always do; at the last instant, where the clock stops, the scheduler's
readings are equal, as a coarse clock's would be. Store I/O errors
are left out. A delivery is one step here; `Delivery` opens it up. Rules decide
nothing here: an arrival is one that no rule ignores.

### Delivery

`live` is `deliveryRef`, `call` the one call of the scheduler, `waiter` each
SendAndWait of it, `buffer`, `worker`, `job`, `fails` and `notBefore` are each
queue's. `CheckClosed`, `Put` and `Wait` are the three selects of SendAndWait;
`Take`, `Hold`, `Send` and `Exit` the worker's loop; `Swap`, `BeginClose` and
`EndClose` are swapDelivery and Close. `Wait` may fail at any time: that is the
deadline, or the closing of the queue. A send's outcome, its bookkeeping and its
answer are one step, since nothing that happens in between depends on their order.
`accepted` is what the channels took, which the program cannot see.

`KeepsPromise` is the refinement: `Return` with success is `Tell`, with failure
`Fail`, and a send a channel accepts is `Accept`. `Tell` requires `Accept` before;
`Accept` may follow `Fail`, which is the duplicate the code prefers to silence.

### PeerLink

A slot is a running handler with the event, the instant it captured and whether
its peer has gone (`gone`, the cancelled context). The steps follow the events
route: `Permit`, `Judge`, `SeenEvent`, `MoveClaim`, `Ingest`, `Reply` or `Forget`.
The peer delivers one event at a time, repeats it under its id no longer than the
id is remembered, and may time out where the handler waits for the store. `Ingest`
is one step that takes the event or fails. Requests are authenticated, resolved
and valid: every other is refused before anything changes.

### PeerLiveness

Times are ages. A peer's request is `Resolve`, `ReadWindow`, `Contact`, `Close`,
`Reply`; the check is `Check` under the lock, then `Raise` and `Unraise` outside
it. `Tick` does not pass a running peer's next heartbeat: it keeps to the rate it
was told. The incident (`open`) survives a `Restart`, what the deadman knows does
not. The longest observed gap, which only a page shows, is left out, and so are
errors of the store.

### The parts that stand alone

Each remaining module opens with a comment that says what a step is, and names
its bounds where it declares them. What they leave out beyond wording:

* `Pairing`: a proof either fits the code on the page or does not. `links` is the
  running configuration and `saved` the file, so that what is shared between the
  two shows. `WritesThrough` is the map of overrides that a copied configuration
  shares with the one in use.
* `LinkRequests`: a signature is right when it is the peer's own. Handlers read the
  configuration at each of their steps, as the code does. An approval is the three
  steps of `approveCondition`, with no lock across them: `Approve` asks whether the
  product is being refused, `Amend` reads the entry, `Save` writes it back over
  whatever is there by then. Other changes of the configuration, which an approval may
  write over or be written over by, are `ConfigApply`'s.
* `AckLink`: the limiter's tokens, the least recent source evicted. The scheduler's
  commit swaps the copy it read, `resolve` and `update` of the rule engine write
  theirs back whatever the row has become, and so may take an acknowledgement off.
* `WebAccess`: hashing is a step, long enough to be overtaken.
* `InboundReceiver`: the receipt an arrival holds is a pointer, so a set of hooks
  replaced meanwhile leaves it with a receipt that no page shows.
* `SettingsForm`: a credential is the number of the typing that entered it. `moved`
  remembers the rows that some save could not match to what they were.
* `IngestSupervisor`: a runner is one start of a source; two consoles that run the same
  application share a name, and the incident under it. Reports are steps of their
  own, outside the lock, and may fail unnoticed. `lost` remembers the names whose
  report went: refused by the engine, or taken back by a resolve for another source.
* `ProtectSource`: what a frame changes under the lock and what is then emitted are
  two steps. The debounce and the periodic sweep may come whenever they are due.
* `AccessDoors`: a due poll is made before the clock moves on. Modes are those the
  source knows; with others it guesses (see below).
* `AccessLog`: rows become visible up to `Lag` after they were written.
* `NetworkDevices`: the console changes between two pages of one poll.
* `SelfUpdate`: the service manager restarts what ended unasked. The helper lives
  on when the service stops, as on Windows.
* `ConfigApply`: an editor writes a file in two steps. No editor takes as long as
  two checks of the watcher between them, and none begins between the watcher's
  look at the file and its reading of it. The overrides of a paired product are a map
  that copies of a configuration share: `maps` is the heap, `over` the reference,
  and `PeerDefaults` the write of a pairing, before its save, into the map in use.
  Of the map only the one default is kept that `ApplyPeerDefaults` decides.
* `AlertRouting`: a channel has one defect at a time.
* `AlertText`: a text is its length in characters.
* `ChannelSend`: seconds are the code's. An answer of the 2xx class may come from a
  proxy, and an error may hide an acceptance.
* `AckReach`: an address is a kind of host and a port.
* `AuditLog`: a write may reach the disk in part, a rename may fail.
* `SiteActivity`: an event carries a time of its own; the clock may be set.
* `SiteBaseline`: the rows of one slot, oldest first.

`Requests`, `Watching` and `Daemon` instantiate several of these modules
each. The parts of one of them share no variable, so a behaviour is about one
part, its `subject`, and the variables of the others hold `Absent`: what is
checked is every part on its own, not their product. Two parts that do interact
are in one module (`IncidentLifecycle`, `Delivery`).

## Runs

| run | shows |
|---|---|
| `Lifecycle_full` | with alarms of two severities, faults, clears, one person and a crash: `TypeOK`, `OneLivePerKey`, `AlertsWereDelivered`, `GaveUpAfterTelling` |
| `Lifecycle_occurrences` | occurrences and faults of one key, folded by compare-and-swap, beside alarms and clears of another, written plainly, with repeats and give-ups: `AnswersStand`, `DetailsBounded` |
| `Lifecycle_live` | fairness, quiet hours, a crash, a dead channel on the first rung of a ladder: `EventuallyTold`, `MomentaryTold` |
| `Delivery_swap` | fan-out, backlog, holds, tests and a swap: `KeepsPromise`, `ClosedIsQuiet`, `CallsReturn`, `SwapsEnd` |
| `Requests` | `PeerLink` (`AtMostOnce`, `BlindNeverHolds`), `Pairing` (`OnePairingPerCode`), `LinkRequests` (`VocabularyWasAsked`), `WebAccess` (`NotLockedOut`), `AckLink` (`AckedOnce`), `InboundReceiver` (`CountedIsRaised`), `SettingsForm` (`SourcesUseTheirKeys`) |
| `Watching` | `IngestSupervisor` (`SilenceIsOpen`), `ProtectSource` (`RegistryConverges`), `ProtectEvents` (`AlarmOutlastsItsEvent`), `AccessDoors` (`HeldIsReported`), `AccessLog` (`NothingDropped`), `NetworkDevices` (`DownIsReported`), `PeerLiveness` (`NotAccused`, `DeadIsNoticed`), `SelfUpdate` (`RestartReturns`) |
| `Daemon` | `ConfigApply` (`RunsWhatWasSaved`), `AlertRouting` (`AcceptedReaches`), `AlertText` (`LinkWithinLimits`), `ChannelSend` (`RungAtMostTwice`), `AckReach` (`DeadLinkIsSaid`), `AuditLog` (`DamageIsContained`), `SiteActivity` (`WrittenWasWatched`), `SiteBaseline` (`ChangeIsLearned`) |
| `Ack_erased_by_clear` | violation of `AckKept` |
| `Critical_gave_up` | violation of `CriticalNeverGivesUp` |
| `Link_event_lost` | violation of `NoneLost`, with no crash |
| `Pairing_save_failed` | violation of `FailedSaveLeavesNothing` |
| `Late_event_written` | violation of `WrittenWasWatched` |

`TypeOK` of the last three passing runs is the conjunction of the parts' own.
`AckKept` is checked, as a part of `AnswersStand` (every step is one of `IncidentPromise`),
of the incidents over which no handler writes with a plain Put: with clears it fails,
which is `Ack_erased_by_clear`. `WrittenWasWatched` is
checked with events at their own time and a clock that is set back: with late
events it fails, which is `Late_event_written`.

### Bounds, and why they are enough

* One key: incidents of different keys share nothing but the table and the
  scheduler's list. `Lifecycle_occurrences` has two, one swapped and one written plainly,
  and no crash: a crash drops what goroutines hold, and takes no acknowledgement and adds
  no occurrence. Its ladder is the one that gives up soonest, within four instants. Two
  ids let an incident have a successor.
* Two handlers suffice for every race of two arrivals; a third only repeats the
  second, except for `Attempts`, which is 2 for the code's 3 so that giving up
  falls within two rivals.
* `Horizon` 4 to 6 instants reach open, alert, repeat and give-up, since the
  ladders of `MCIncidentLifecycle` are scaled down from
  `escalate.DefaultPolicies`: rungs at 0 and 2, a repeat of 2, horizons of 2 to 5.
* `Lifecycle_live` has two severities, and a push channel that never takes a message: a
  warning pushes at once and mails two instants later, so only its second rung
  can tell, and what is milder is mailed at once.
* One crash: a second meets the state the first left, idle goroutines over any
  table.
* Delivery: backlog 1 and two alerts fill and overflow it; the second set lacks a
  channel of the first. One rung of backoff holds a channel after its first
  failure and lets it go at the next instant. That the first rung of the real
  ladder is free is outside this instance.
* PeerLink: one id remembered and two events make the trim evict; ids live for two
  instants of three; two handlers are the one given up on and its retry.
* PeerLiveness: windows of 1 and 6 units, on both sides of the slowest heartbeat
  of 2; ages are capped above every window.
* Pairing: two products, one known by name and one not; one code, two requests, one
  failing save, one crash: each race is between a request and one other thing.
* LinkRequests: one handler, two requests with a skewed clock and a window of nothing,
  one memory slot for nonces so that it is full, one re-pairing, and two requests of the
  operator at once, so that an unpairing and a second approval fall between the steps
  of one. A restart drops what is in memory and adds no step of an approval.
* WebAccess: two requests hash at once, from two addresses with room for one in the
  table of failures; two instants after the first reach a lockout, its end and the
  forgetting of it.
* AckLink: two requests from one source against a burst of one, so that the second is
  refused or, after a refill, races the first for the swap; two writers with two
  writes, so that a stale copy may be put back after another's; one error of the store.
* InboundReceiver: two arrivals, two sets of hooks, three instants.
* SettingsForm: three typings, two rows and three saves let a row be renamed, moved
  and typed into.
* IngestSupervisor: two consoles that share one name, each with a window; two runners,
  so that both run at once, or one is stopped and comes back; reports that fail.
* ProtectSource: one device with two changes, one drop of a socket, one frame that
  cannot be read, two requests of a sweep. Devices share nothing but the lock.
* ProtectEvents: a table of one, two events, one repeated.
* AccessDoors: units in which the held-open limit is 3 and a poll falls every 2;
  one failed poll, eight instants.
* AccessLog: one row, a lag of one, polls every instant, an overlap of two, three
  failures and a restart. NetworkDevices: two sites, three devices, pages of one.
* SelfUpdate: three versions, one failure, one crash.
* ConfigApply: two requests at once, two changes, one failure, one crash, three of
  the six parts of `applyLive`, which it treats alike; a start with a product paired
  before, for which the operator made overrides, and one without.
* AlertText: lengths on both sides of each limit. AlertRouting: one representative
  of each class of setting the code tells apart.
* AuditLog: files of two lines, one kept, six entries: two rotations and a pruning.
* SiteActivity: intervals of two units, five instants. SiteBaseline: three levels, a
  retention of five, one missed interval.

`CHECK_DEADLOCK FALSE` stands only where a bounded clock or a bounded supply of
work lets the model stop where the program would not.

### Fairness

* `IncidentLifecycle!FairSpec`: the scheduler goes on (its ticker fires again), a
  handler that began ends, and a delivery repeated for ever through a channel that
  is not dead succeeds at last (strong fairness: the assumption under which
  alerting can be promised at all). Nothing obliges a source or a person.
* `Delivery!FairSpec`: goroutines run and every wait has a timeout (`Wait` by the
  context of 90 s, `Send` by the channel's 60 s). A swap need never begin.
* `PeerLiveness!FairSpec`: time, the check's ticker and requests in progress. No
  peer is obliged to come back.
* `Watching!FairSpec` also has the fairness of `ProtectSource` (its sockets, its
  reader and its sweeper are goroutines that run, the sweeper's timer fires, a
  request ends by its timeout) and of `SelfUpdate` (the steps of a daemon that is
  stopping and of the helper; a start that may be refused, or crash, now and then
  succeeds at last, which is strong fairness of `Start`). The console need not
  answer, and nothing obliges an operator.

## Proofs

For every number of goroutines, ids, keys, policies, inputs and bounds:

* `EscalationPolicy_proofs!NoBurst`: once a delivery is recorded nothing is due at
  that instant again, so downtime is caught up by one alert. It follows from how
  `NextDue` counts stages strictly after the last alert.
* `IncidentLifecycle_proofs!TypeSafe`: `TypeOK` is inductive. What a goroutine
  holds is described by its place (`HandlerOK`, `PersonOK`, `SchedulerOK`); there is
  one lemma per action.
* `IncidentSafety_proofs!OneLiveSafe`: `OneLivePerKey` follows from the index for
  every write that looks at it. `PutClosed` replaces a live row and is safe because
  the copy it holds is terminal; that is the second conjunct of `OneLiveInv`.
* `IncidentSafety_proofs!AlertsSafe` and `GiveUpSafe`: the invariants are not
  inductive because a copy read before a delivery is written after it. `HonestInv`
  says that no row and no held copy claims more deliveries than happened, less the
  one the scheduler has yet to record (`Owed`), and that giving up implies one.
  Only the scheduler raises `alertCount`, and it is alone, so a handler's stale
  copy claims at most what the row it was read from did.
* `IncidentSafety_proofs!AnswersSafe`: the lifecycle implements `IncidentPromise`. Each
  operation writes one row at most (`RowStep`), so a step is one promise action or a
  stutter, told apart by what it does to that row: a write that adds an acknowledgement is
  `Answer`, a second one from the web `Confirm`, a write that adds or takes off a closing
  for want of an answer `GiveUp` or `Overtake`. That an acknowledgement is never taken off
  is `AckInv` below; that nothing is given up without telling is `HonestInv`; and no row
  and no held copy is both acknowledged and given up (`SaneInv`), for the ladder has no
  horizon for an acknowledged copy and an acknowledgement refuses a closed one. Once
  overtaken, a give-up may come again: what is over does not stay over, as `NoRevival`
  would have it.
* `IncidentSafety_proofs!AckKeptSafe`: an acknowledgement that was confirmed stays. The
  theorem is of `SwappedAckKept`: of the incidents whose key is in `SwappedKeys`, which
  every arrival reports as an occurrence or a fault, so that `resolve` and `update`, the
  plain writes of conditions that last, never run for it; `Ack_erased_by_clear` shows
  what they do. Other keys may be raised and cleared at will: a copy that is held, and
  the write made of it, are of one incident, and an incident keeps its key. Where all
  keys are such, `EveryAckKept` concludes `AckKept` as it stands. Comparing versions is not
  enough by itself, since an occurrence may leave the version as it was. `SwapOK`
  says why it works all the same: either the row still says of the
  acknowledgement what it said when it was read, or it was acknowledged since, at an
  instant later than the version the swap expects; and nobody sets `updatedAt` of a row
  below its `ackedAt`. The closes of `handle` are plain writes too, of copies that
  agree with the row (`CloseOK`).
* `IncidentSafety_proofs!DetailsSafe`: the occurrences kept in full of an incident are
  fewer than `MaxOccurrences` and the handlers together. The count may be taken back: a
  handler that is late, its instant already reached by the row's version, swaps and
  leaves the version as it was, and whoever read the row before it swaps over it. `DetInv` therefore
  gives each incident a floor and a peak: under one version the count and every count
  read from it lie between them (`Spread`), and a late handler may lift the peak once.
  From the floor on the numbers carried and kept are few (`Room`), since each handler that takes one is
  late no more. A step of the version makes the count the new floor and peak. The bound is of
  the incidents of `SwappedKeys` as well: a plain write of a stale copy takes the count back
  as far as it likes, and two handlers then exceed the bound.
* `Delivery_proofs!PromiseKept`: `Delivery` implements `DeliveryPromise`. `CallOK` is
  the strengthening: an answer in a caller's channel is for the alert the caller
  waits on, since only the waiter of that call is answered, and "sent" is written
  after the channel accepted. A late answer therefore never reaches the next call.
  A step that sends is `Accept` or a stutter, `Return` is `Tell` or `Fail`.
* `Delivery_proofs!QuietSafe` and `DeliveryTypes`: a closed queue stays quiet, and a
  backlog within its depth.

About `Requests`, every invariant of its run. A
step of `Requests` is a step of its subject (`StepsOfSubject`), so each part has an
invariant of its own, and the theorem says that it holds where the part is the
subject.

* `Link_proofs!AtMostOnceSafe`, `AcceptedWasIngestedSafe`, `BlindNeverHoldsSafe` and
  `LinkTypeSafe` share one invariant, `LinkInv`. That an event is ingested at most
  once is not inductive: it needs that only one handler is awaited and serves the
  event in hand (`AwaitedOK`; what was given up on, `GoneOK`, is cancelled and ends
  at the store), that an id stays remembered for as long as the peer may repeat its
  event, though the trim throws away the oldest (`SeenOK`, which orders the stamps
  of earlier ids before the first attempt at this one), and that what was ingested is
  still remembered (`IngestedOK`). An id that nothing disturbed is remembered
  because its event was ingested or is about to be (`AcceptedOK`). A blind peer holds
  no claim because its report demotes the claim until it has an event to say that
  it cleared (`BlindOK`).
* `Requests_proofs!AckedOnceSafe`: a swap succeeds only on the version it read, and
  `AckSafe` says that this version was of a row not yet acknowledged: an acknowledgement has a
  version no write had before, so that what is held under one version is acknowledged
  throughout or nowhere. `erased` counts what plain writes took off, less what a copy
  that had it put back; what was recorded is therefore what is on the row and what was
  erased.
* `CountedIsRaisedSafe`: an arrival keeps the receipt it was recorded on, so
  the sum of raised and under way is kept by the steps of an arrival whichever set
  of hooks is in force by then.
* `SourcesUseTheirKeysSafe`: a source that is kept running is recognised by all it
  connects with (`FormSafe`); a row that was never moved is matched by its name, or its
  position, to the one it was, whose keys were typed into it (`FormKeys`).
* `VocabularyWasAskedSafe`: what is pending was refused since the pairing, and what an
  approval holds between two of its steps was declared or refused for before (`AsksFor`);
  if no pairing came since it began, since that pairing (`Writes`). `VocabularySafe` has
  this of every page, so what is saved is what the theorem says, straddling or not.
* `TakenOnceSafe`: a nonce that was taken is remembered under its own stamp, or the
  stamp is out of the window and the request refused for its age (`TakenSafe`). The
  bound on the memory never evicts a nonce that is still good: a full memory refuses.
* `OnePairingPerCodeSafe`: a code a credential was minted over is used, if it is
  still the one on the page (`PairSafe`); codes are never repeated.
* `NotLockedOutSafe`: a request that holds the token holds one to give back, and a
  password in force is in the file, unless somebody took it out (`WebSafe`).
* `Link_proofs!TypeSafe`: the types of all seven parts, for which each part has
  conjuncts beside those above. That a table never outgrows its limit needs what is
  counted in it to be finite and typed (`AckTables`, `SignedCounts`, `WebFails`). The
  credentials minted stay within those asked for because each request without a verdict
  may still mint one (`PairCounts`), a code is never tried past its last attempt because
  that attempt voids it (`PairCodeOK`), and a handler that saves a copy of the links read
  while they were whole saves whole ones (`PairFlightOK`). That a configuration
  saved from a page has no problem needs that what the write mints changes no name
  (`MintOK`), and that the console's key a row takes over was typed already (`FormTypes`).

About `Watching` (`Watching_proofs`), every invariant of its run:

* `NotAccusedSafe`: a peer that keeps its rate is never said to be silent. The check
  compares a window with the age of the last contact, or of the daemon when it has
  heard nothing. `WatchSafe` says that the peer's own age of its last contact is
  the one the daemon knows, or no less than the daemon's uptime, that the peer beats at
  least as often as the window it was told of asks (also while a request is under
  way, which holds a window that may change), and that who is raised is late.
* `HeldIsReportedSafe`: a door open past its limit is reported by the poll that finds
  it so. `DoorsSafe` says that a door the polls see open is known to be open since no
  later (`openedAt`), and reported if the limit had passed at the last poll.
* `AlarmOutlastsItsEventSafe`: the table of open events holds only events whose type
  has a duration and is no end of another, and none of those raises the condition of
  an alarm (`EventsSafe`); so neither the end of an event nor its eviction from a
  full table resolves an alarm.
* `DownIsReportedSafe`: a device down for the debounce is raised by the poll that
  sees it. `NetworkSafe` says that a device every reading found down is remembered as
  down since no later, whatever moved between two pages of one poll, and that what
  was down for long enough at the last poll was raised and sent by it.
* `NothingDroppedSafe`: what happened between the first window and the last, as far as
  it is surely shown, was emitted, and what is remembered was (`LogSafe`). A window
  overlaps the one before by more than the delay of a row.
* `SilenceIsOpenSafe`: a silent source that is watched, and not about to be reported
  on, has its incident open. `IngestSafe` says that a source has one runner that is
  watched and one the check has in hand, which are the same where it is silent, and
  that no source is watched whose removal is being settled. Names may be shared: a
  silent source's incident is under its name, and what closes that for another source,
  or was refused when it was to be opened, is in `lost`. `ReplaceLooked` is what a
  Replace knows of the name it is about to resolve.
* `TypeSafe`: the types of all eight parts. That the table of events holds each of them
  once needs `RemoveAt` and the eviction to keep the others apart (`WithoutOnce`,
  `TailOnce`); that a row becomes no more events than there were restarts and polls
  is `LogRanges`; that the check never owes a peer both a raise and a resolve, that
  whom it finds silent is paired and whom it takes back is not (`CheckRanges`).

About `Daemon` (`Daemon_proofs`), every property of its run:

* `RunsWhatWasSavedSafe`: the daemon runs nothing the file never held whole. `ConfigSafe`
  follows a save, an edit and the watcher through their steps: what a request publishes
  or applies was written before, and the watcher never reads a file of which half is
  written, so what it carries was saved. A map of
  overrides in memory goes on saying what it said when it was read or made, unless a
  pairing writes the default into it (`HeapGrows`), so what is in force stays as it was
  saved but for that (`Backed`); the theorem excepts that default alone, which is what
  `Pairing_save_failed` is about.
* `RungAtMostTwiceSafe`: a delivery calls nobody more than twice. `SendSafe` says that
  whoever is still to be called was not called, and that the one being called was called at
  most as often as the service broke, which the channel forgives once (`CallsOK`).
* `LinkWithinLimitsSafe`: each message sent is the one a channel builds of the alert
  (`TextSafe`); the theorem is about the arithmetic of the cuts, for every length.
* `WrittenWasWatchedSafe`: an interval that is written was watched whole. The theorem is of
  `Timely => (Spec => [])`: events carry the instant they are received at, and the clock is
  only set back. Without the first it fails, as `Late_event_written` shows; a clock set
  forward counts as watched what nobody saw. `ActivitySafe` says that everything
  from the first instant an open interval claims up to now was watched.
* `DeadLinkIsSaidSafe`: a link that opens on no telephone has a warning, or a step of the
  checklist. `ReachSafe` says that the file, the copy in memory and the draft are valid,
  and that no listener is bound to a port still to be picked; the rest is a
  matter of cases over the kinds of address.
* `DamageIsContainedSafe`: no more accepted entries are unreadable than writes failed part
  of the way. It is not inductive, since a line that was not ended swallows the
  next one: `AuditSafe` counts the unended line too (`Owed`), and says that what it
  holds was never accepted (`LogSafe`).
* `AcceptedReachesSafe`: an accepted configuration reaches somebody. `RoutingSafe` says
  that what runs was accepted and was warned of, and that the ladders in force are
  built of the channels that run (`Filtered`, `BuiltLadders`).
* `ChangeIsLearnedSafe`: a change that lasts is learned. The values by rank exist and
  leave what more than a quarter of the rows saw within nine of ten and one of ten
  (`RankedIs`, `QuarterWithin`), so such a level is ordinary; `RunOK` says that the flags
  counted are those of the last rows, unless the stretch is longer than what is kept,
  and then nothing else is learned from.
* `TypeSafe`: the types of all eight parts. Those of the audit log need that a name is
  free when a file is rotated (`FirstFree`), or the file rotated before would be lost from
  the set; those of the activity that an interval counts no more things than events; those
  of the settings that what a request is about to save was made of a saved configuration.

The assumptions are the ASSUMEs of the modules: goroutines are disjoint
and handlers finitely many, bounds are numbers, policies pass `Policy.Validate`, `None` is no record. In `Watching`:
`WatchAssumption` (a window and a heartbeat are at least one unit), `DoorsAssumption`,
`NetworkAssumption` and `EventsAssumption` (limits are numbers), `IngestAssumption`
(each source can be made a runner),
`ProtectAssumption` (a sweep can be asked for), `UpdateAssumption` (there is a version) and
`LogAssumption` (a row's delay is less than the overlap, the rows of a window fit the
pages read, and polls are at least an instant apart). In `Requests`:
`LinkAssumption` (limits of `internal/link` are numbers, at least one id is
remembered, what demotes is a condition), `InboundAssumption` (arrivals are
finitely many, since the receipts count them), `SignedAssumption` (instants, skews and
limits are numbers, what may be declared is finite), `PairAssumption` (installations are
finitely many, a code may be tried once at least, and what a file held of a product was
an entry with the first credential), `WebAssumption` (addresses are finitely many),
`AckAssumption` (a bucket refills in some time) and `FormAssumption` (a console has a
name, and there is room for the first). In `Daemon`: `ConfigAssumption` and `AuditAssumption` (bounds are
numbers), `TextAssumption` (lengths are numbers), `SendAssumption` (the five channels, and
somebody to call), `LadderAssumption` (a ladder is a list of rungs), `BaselineAssumption`
(events and devices are numbers, a row is kept, a day has intervals), `ActivityAssumption`
(the bucket, the age and the instants are numbers, the clock's bound is past two buckets) and
`AddressAssumption` (of the addresses only `web.ack_listen` may be left to be picked, and
a URL has a scheme). TLC evaluates each on its run.

Only model-checked: liveness and fairness (outside the prover's reach, as is
ENABLED). `WrittenWasWatched` is proved under `Timely`, as its run has
it; `AckKept` for all keys does not hold, and what holds of it is `SwappedAckKept`, which follows
from `AnswersStand`. Every other invariant of a passing run is proved of its specification as it stands.

## What was found

1. *An acknowledgement is erased by a clear* (`rule/engine.go:398`). `resolve` and
   `update` write a copy back with a plain Put; a person's swap in between is lost.
   The interface's comment (`incident/store.go:38-41`) names this loss.
2. *A critical incident is given up* (`escalate/scheduler.go:324`). The give-up is
   re-judged on a fresh copy with the policy of the scanned severity.
3. *A peer's event is lost* (`link/handler.go:435`). When the ingest fails, the id
   is released on the same request's context and the same store, and the error of
   that is dropped (`handler.go:524`). Where the release fails too, for certain when the
   peer gave up and its context is cancelled, the id stays and the retry is
   answered as a duplicate of an event that never became an incident. The run needs
   no crash.
4. *A failed save leaves its defaults behind* (`cmd/notifymatrix/linkwire.go:421`).
   A re-pairing clones the links but not their map of overrides, into which
   `ApplyPeerDefaults` writes before the save. `Pairing` shows it of one pairing;
   `ConfigApply` has the same map beside every other change, and `RunsWhatWasSaved`
   excepts it.
5. *An interval that was not watched is stored* (`surge/record.go:217`). Which
   interval is partial is decided by the first event's own time; an event from
   before the start takes the mark.

Each is a run of its own. The following are stated as properties in the modules
and violated there by the same code, and no run keeps them:

* `IncidentLifecycle!SwapsKeepAcks`: what `PutIfUnchanged` is there for
  (`incident/store.go:44-60`). The attempts of one handler share one reading of the
  clock, with which `update` stamps its write (`rule/engine.go:382`). One handler
  closes a resolved incident that nobody answered, at version v; a person reads it
  there, to close it; a second handler, which had read the incident live and
  acknowledged, writes that copy back; the first one's next attempt finds it and
  raises its severity, which makes the version v again; and the person's swap takes
  the acknowledgement off. Nineteen steps from the first alarm, deeper than the runs go.
* `IncidentLifecycle!RaisedFaultEscalates`: a fault that returns to a resolved,
  unanswered incident is absorbed and never alerts (`rule/engine.go:444`).
* `PeerLiveness!ContactCloses`: a restart forgets which silences were raised, so
  contact closes nothing (`cmd/notifymatrix/peerlive.go:108`).
* `IngestSupervisor!SilenceIsAlwaysOpen`, `FailureIsOpen`: the deadman resolves by name
  although another source of the name is silent, a raise that fails is not repeated,
  and `Replace` resolves a name after it looked whether anybody else reports it
  (`ingest/ingest.go:546-556`, `354`). `OpenIsWatched`: a report made outside the lock
  after `Replace` resolved (`ingest/ingest.go:541`).
* `LinkRequests!VocabularyIsThisPairings`: an approval that began before a pairing is
  saved after it, over the new manifest and credential
  (`cmd/notifymatrix/linkwire.go:675`, `685`, `731`).
* `ProtectSource!KnownOutageReported`: the first sweep that finds a device already
  down only records it (`source/protect/registry.go:128`).
* `AccessDoors!ModeNotGuessed` with a mode the source does not know; `AccessLog!RowOnce`
  over a restart; `InboundReceiver!LastSeenIsReal`: two arrivals interleave and the
  test's restores an older time.
* `ConfigApply!NoMixture`, `RevokedStays` with two changes at once: `applyLive` has no
  lock of its own, and the later writer of `current` brings a revoked credential
  back (`cmd/notifymatrix/main.go:449`).
* `SelfUpdate!RestartReturns` where the manager ends the helper with the service
  (`cmd/notifymatrix/detach_other.go:10`), `ReportedExactly` (`service/marker.go:73`)
  and `NeverNoBinary`: between the two renames there is no program
  (`update/apply.go:20-22` says there always is).
* `AlertText!TimeIsSpoken`: a long title and name still push the time out
  (`channel/voice/voice.go:282-286`).
* `AlertRouting!VoiceIsOptIn`: with voice alone enabled, the default ladders are
  rebuilt on it (`config/config.go:654-658`), where `config/validate.go:628-631`
  says that nothing will place a call; `RungsReachAChannel`, `AcceptedStarts`.
* `AckReach!NothingAnswersIsSaid`; `SettingsForm!KeysStayHome` for rows matched by
  position (`web/settings.go:578-581`); `WebAccess!TokenShownWorks` after the hash
  was cleared by hand (`cmd/notifymatrix/tokenhandoff.go:92-94`);
  `LinkRequests!ForgottenAsksNothing`: a request of a forgotten product still proposes
  (`link/propose.go:219-224`).
* `AuditLog!RotationKeepsWriting` (`audit/file.go:165`), and `OldestGoFirst` with a
  clock too coarse to tell two rotations apart (`audit/file.go:234`).
* `SiteActivity!NeverRewritten`, `DevicesAreThoseSeen` with late events
  (`surge/record.go:164`); `SaysWhatItSaw`, for `main.go` passes no `blindSince`
  (`surge/reporter.go:175-179`). A clock set forward counts every skipped interval
  as watched, from 1970 some 2.9 million inserts under the lock.

Stated in the modules, true on the same instances and kept by no run:
`NoRevival`, `AcceptedWasIngested` (proved), `OneGoroutine`,
`NothingOutlivesRun`, `UnderstoodIsNotMute`, `OutageNotErased`, `EntryIsNotForced`,
`RowOnceWhileReading`, `BounceIsSilent`, `DeafOnlyOnRequest`, `AgreesWhenSettled`
(one change at a time, no default written into overrides in use), `InstalledWasAgreed`, `CopyOnDisk`, `UncleanIsReported`,
`EverybodyAccounted`, `PinnedWasBound`, `NothingForgotten`, `QuietReopens`,
`SessionsEnd`, `BadProofMeansWrongCode`, `CutOffIsNamed`, `TakenOnce` (proved),
`ListingFalls`, `SaysWhatItWatched`, `SentenceHolds`, `MoreIsNotQuiet`,
`RefusedForItsOwn`.

Seen while modelling, without a property:

* `occur` swaps on UpdatedAt but touches with its starting time; when that is older
  than the row the version stays, a second swap on it succeeds and one arrival is
  missing from the count (`rule/engine.go:348`).
* `resolve` may write a live copy over an incident an operator closed
  (`rule/engine.go:398`); `NoRevival` fails with the closes of `handle` too.
* An incident that became terminal after the scan is still alerted once
  (`escalate/scheduler.go:371`).
* After a late first alert the next rung is the first one still ahead: without a
  repeat a stage can be skipped (`escalate/policy.go:112`); a later rung whose only
  channel is dead is retried for ever (`policy.go:154`).
* A momentary condition that cleared first owes its delivery to the first rung
  only: with that channel dead nobody is told, though other channels work
  (`policy.go:198`). The code says "deliberately stage 0", so `MomentaryTold` is about
  the incidents whose first rung has a channel that works (`FirstRungWorks`).
* A claim lost to silence resumes at the first heartbeat (`link/claim.go:121`), and
  what demotes a claim does not survive a restart while the report's retry is a
  duplicate.
* Pairing is not a contact: a peer paired long after the start can be reported
  silent before its first heartbeat (`peerlive.go:140`). A raise that fails is
  never repeated (`peerlive.go:205`).
* `Close` of a queue says queued alerts are abandoned; the worker's select may
  still take one (`channel/queue.go:203`).
* Keeping the picked port copies `current` and saves outside the lock while the
  page is served (`cmd/notifymatrix/main.go:1811-1830`).
* Re-pairing drops the operator's SilentAfter. A failure to mint a credential is
  labelled a bad proof. The peer that "should be impossible" to miss
  (`link/handler.go:293`) can be missed after an unpairing.
* A clock step backwards would admit an expired nonce again.
* `PutBucket` prunes by the row's own start, so a row of the future deletes history.
* `Recent` of the audit log takes no lock (`audit/file.go:240-243`).
* A password that the watcher adopts from the file leaves the sessions open.

## Not modelled

* Outside services and the operating system: SMTP and HTTP, TLS, secret stores, unit
  files, firewall, file permissions, integrity, probe, demo. They are input and
  output without a protocol of their own.
* That a signature, a token or a hash proves what it is for is assumed.
* Rule matching, window and quiet-hours arithmetic, `reconcile.Report`: pure
  functions over lists; in the models a rule ignores nothing and quiet hours are a
  set of instants.
* Backoff and Pace of the unifi client are delays, which the sources' models leave
  to chance.
* The rest of the configuration's validator, wire formats of consoles, HTML.
* Backup and migration of the store.

## Plan

1. `SetPolicies`, `SetQuietHours` and `SetRules` while a pass and handlers run, which
   composes `ConfigApply` with `IncidentLifecycle`.
2. Quiet-hours spans and rule windows against a reference definition; the backup's
   copy, verify and replace.
