-------------------------- MODULE IngestSupervisor --------------------------
(***************************************************************************)
(* ingest.Supervisor: the goroutines that run the sources, the deadman     *)
(* that reports the ones that stopped, and Replace, which changes the set  *)
(* while both go on.  A step is a region under Supervisor.mu or a call     *)
(* made outside it.  A runner is the record of one start of one source; a  *)
(* source that comes back gets a new one.                                  *)
(***************************************************************************)
EXTENDS Integers, FiniteSets

CONSTANTS
  Sources,     \* the source values a configuration can build
  NameOf,      \* source -> Source.Name, the application: two consoles share one
  Window,      \* source -> Source.Liveness, 0 for a source that opts out
  MaxRunners,  \* bound: runners made
  Horizon,     \* bound: the last instant
  EarlyReplace \* whether Replace may be called before Run

Runners == 1 .. MaxRunners
Names == {NameOf[s] : s \in Sources}
Nobody == 0

VARIABLES
  clock,
  phase,     \* "new" before Run, "run", "stopping" once its context is done,
             \* "waiting" once stopped is set, "returned"
  src,       \* runner -> its source, for the runners made so far
  running,   \* Supervisor.running
  routines,  \* runner -> the goroutines started for it
  place,     \* runner -> where its goroutine is
  cancelled, \* the runners whose context was cancelled
  lastAt,    \* runner -> the later of its last event and last contact
  silent, fatal, \* the runners marked so
  replace,   \* the call of Replace: [at, removed, started, r]
  deadman,   \* checkLiveness: [at, now, left, r, silent]
  open,      \* the names whose source_silent incident is open
  lost       \* ghost: the names whose report was lost, see SilenceIsOpen

runnerVars == <<src, running, routines, place, cancelled, lastAt, silent, fatal>>
vars == <<clock, phase, runnerVars, replace, deadman, open, lost>>

Made == DOMAIN src
Name(r) == NameOf[src[r]]
Done(r) == r \in cancelled \/ phase \notin {"new", "run"}
Faulted(r) == r \in silent \cup fatal
Live == {r \in Made : place[r] \notin {"off", "gone"}}

NoReplace == [at |-> "idle", removed |-> {}, started |-> {}, r |-> Nobody]
NoCheck == [at |-> "idle", now |-> 0, left |-> {}, r |-> Nobody, silent |-> FALSE]

\* New: the sources of the configuration the program started with.
Init ==
  /\ clock = 0 /\ phase = "new"
  /\ \E S \in SUBSET Sources : \E f \in [1 .. Cardinality(S) -> S] :
       /\ \A s \in S : \E r \in DOMAIN f : f[r] = s
       /\ src = f
  /\ running = Made
  /\ routines = [r \in Runners |-> 0] /\ place = [r \in Runners |-> "off"]
  /\ cancelled = {} /\ lastAt = [r \in Runners |-> 0]
  /\ silent = {} /\ fatal = {} /\ open = {} /\ lost = {}
  /\ replace = NoReplace /\ deadman = NoCheck

Elapse ==
  /\ clock < Horizon /\ clock' = clock + 1
  /\ UNCHANGED <<phase, runnerVars, replace, deadman, open, lost>>

-----------------------------------------------------------------------------
\* Run: starts what is there, and waits for what is live when its context ends.

StartAll(S) ==
  /\ routines' = [r \in Runners |-> routines[r] + IF r \in S THEN 1 ELSE 0]
  /\ place' = [r \in Runners |-> IF r \in S THEN "up" ELSE place[r]]

Run ==
  /\ phase = "new" /\ phase' = "run"
  /\ StartAll(running)
  /\ UNCHANGED <<clock, src, running, cancelled, lastAt, silent, fatal, replace, deadman, open, lost>>

Shutdown ==
  /\ phase = "run" /\ phase' = "stopping"
  /\ UNCHANGED <<clock, runnerVars, replace, deadman, open, lost>>

Stop ==
  /\ phase = "stopping" /\ deadman = NoCheck
  /\ phase' = "waiting"
  /\ UNCHANGED <<clock, runnerVars, replace, deadman, open, lost>>

RunReturns ==
  /\ phase = "waiting" /\ Live = {}
  /\ phase' = "returned"
  /\ UNCHANGED <<clock, runnerVars, replace, deadman, open, lost>>

-----------------------------------------------------------------------------
\* runSource: the goroutine of a runner.

\* An event, or a frame, poll or sweep that reached the console.
Speak(r) ==
  /\ r \in Made /\ place[r] = "up" /\ lastAt[r] # clock
  /\ lastAt' = [lastAt EXCEPT ![r] = clock]
  /\ UNCHANGED <<clock, phase, src, running, routines, place, cancelled, silent, fatal,
                 replace, deadman, open, lost>>

\* Source.Run returned: cancelled, with an error, or on its own.
Return(r) ==
  /\ r \in Made /\ place[r] = "up"
  /\ \E where \in IF Done(r) THEN {"gone"} ELSE {"failed", "delay"} :
       place' = [place EXCEPT ![r] = where]
  /\ UNCHANGED <<clock, phase, src, running, routines, cancelled, lastAt, silent, fatal,
                 replace, deadman, open, lost>>

\* Restarted after RestartDelay, unless cancelled meanwhile.
Restart(r) ==
  /\ r \in Made /\ place[r] = "delay"
  /\ \E where \in IF Done(r) THEN {"gone"} ELSE {"up"} :
       place' = [place EXCEPT ![r] = where]
  /\ UNCHANGED <<clock, phase, src, running, routines, cancelled, lastAt, silent, fatal,
                 replace, deadman, open, lost>>

\* fail: recorded under the lock, raised outside it; the source is not restarted.
Fail(r) ==
  /\ r \in Made /\ place[r] = "failed"
  /\ fatal' = fatal \cup {r}
  /\ place' = [place EXCEPT ![r] = "raise"]
  /\ UNCHANGED <<clock, phase, src, running, routines, cancelled, lastAt, silent,
                 replace, deadman, open, lost>>

\* Whether the incident was raised or not is not looked at.
RaiseFatal(r) ==
  /\ r \in Made /\ place[r] = "raise"
  /\ open' \in {open, open \cup {Name(r)}}
  /\ place' = [place EXCEPT ![r] = "gone"]
  /\ UNCHANGED <<clock, phase, src, running, routines, cancelled, lastAt, silent, fatal,
                 replace, deadman, lost>>

-----------------------------------------------------------------------------
\* checkLiveness.

Check ==
  /\ phase = "run" /\ deadman.at = "idle"
  /\ deadman' = [NoCheck EXCEPT !.at = "each", !.now = clock, !.left = running]
  /\ UNCHANGED <<clock, phase, runnerVars, replace, open, lost>>

\* The verdict on one runner of the copied list, written under the lock.
Judge(r) ==
  /\ deadman.at = "each" /\ r \in deadman.left
  /\ IF Window[src[r]] = 0 \/ r \in fatal
       THEN deadman' = [deadman EXCEPT !.left = @ \ {r}] /\ UNCHANGED silent
       ELSE LET quiet == deadman.now - lastAt[r] > Window[src[r]]
            IN  /\ silent' = IF quiet THEN silent \cup {r} ELSE silent \ {r}
                /\ deadman' = IF quiet = (r \in silent)
                                THEN [deadman EXCEPT !.left = @ \ {r}]
                                ELSE [deadman EXCEPT !.left = @ \ {r}, !.at = "report",
                                                     !.r = r, !.silent = quiet]
  /\ UNCHANGED <<clock, phase, src, running, routines, place, cancelled, lastAt, fatal,
                 replace, open, lost>>

Told == deadman' = [deadman EXCEPT !.at = "each", !.r = Nobody, !.silent = FALSE]

\* Whom a resolve by name silences besides the one that spoke again.
SilentToo == {q \in running \cap silent : Name(q) = Name(deadman.r) /\ src[q] # src[deadman.r]}

\* A Replace that saw nobody faulted under the name is about to resolve it.
ToBeResolved == replace.at = "resolve" /\ Name(replace.r) = Name(deadman.r)

\* Raised or resolved on a change, after the lock was given up.
Report ==
  /\ deadman.at = "report" /\ Told
  /\ IF deadman.silent
       THEN /\ open' = open \cup {Name(deadman.r)}
            /\ lost' = IF ToBeResolved THEN lost \cup {Name(deadman.r)}
                       ELSE lost \ {Name(deadman.r)}
       ELSE /\ open' = open \ {Name(deadman.r)}
            /\ lost' = IF SilentToo = {} THEN lost ELSE lost \cup {Name(deadman.r)}
  /\ UNCHANGED <<clock, phase, runnerVars, replace>>

\* The engine's error is dropped, and the mark on the source stays.
ReportFails ==
  /\ deadman.at = "report" /\ Told
  /\ lost' = IF deadman.silent THEN lost \cup {Name(deadman.r)} ELSE lost
  /\ UNCHANGED <<clock, phase, runnerVars, replace, open>>

CheckEnds ==
  /\ deadman.at = "each" /\ deadman.left = {}
  /\ deadman' = NoCheck
  /\ UNCHANGED <<clock, phase, runnerVars, replace, open, lost>>

-----------------------------------------------------------------------------
\* Replace.

\* The runners of the sources that stay are kept, fresh ones are made for the
\* others, and what is not wanted any more is cancelled.
ReplaceSet(S) ==
  LET kept == {r \in running : src[r] \in S}
      fresh == S \ {src[r] : r \in kept}
      new == (Cardinality(Made) + 1) .. (Cardinality(Made) + Cardinality(fresh))
  IN  /\ replace.at = "idle"
      /\ phase \in {"run", "stopping"} \/ (EarlyReplace /\ phase = "new")
      /\ new \subseteq Runners
      /\ \E f \in [new -> fresh] :
           /\ \A s \in fresh : \E r \in new : f[r] = s
           /\ src' = [r \in Made \cup new |-> IF r \in new THEN f[r] ELSE src[r]]
      /\ lastAt' = [r \in Runners |-> IF r \in new THEN clock ELSE lastAt[r]]
      /\ running' = kept \cup new
      /\ cancelled' = cancelled \cup {r \in running \ kept : place[r] # "off"}
      /\ replace' = [NoReplace EXCEPT !.at = "wait", !.removed = running \ kept, !.started = new]
      /\ UNCHANGED <<clock, phase, routines, place, silent, fatal, deadman, open, lost>>

\* Mutant: told to go is taken for gone.
ReplaceAtOnce ==
  /\ replace.at = "wait"
  /\ replace' = [replace EXCEPT !.at = "settle"]
  /\ UNCHANGED <<clock, phase, runnerVars, deadman, open, lost>>

\* Until every source that was removed is gone.
ReplaceWaits ==
  /\ replace.at = "wait" /\ replace.removed \cap Live = {}
  /\ replace' = [replace EXCEPT !.at = "settle"]
  /\ UNCHANGED <<clock, phase, runnerVars, deadman, open, lost>>

WatchedAndFaulted(name) == \E r \in running : Name(r) = name /\ Faulted(r)

\* Mutant: nobody asks who else has the name.
SettleBlindly(r) ==
  /\ replace.at = "settle" /\ r \in replace.removed
  /\ replace' = IF Faulted(r)
                  THEN [replace EXCEPT !.at = "resolve", !.r = r, !.removed = @ \ {r}]
                  ELSE [replace EXCEPT !.removed = @ \ {r}]
  /\ UNCHANGED <<clock, phase, runnerVars, deadman, open, lost>>

\* What is open for a removed source is about a configuration that is gone,
\* unless another source of the name reports it too.
Settle(r) ==
  /\ replace.at = "settle" /\ r \in replace.removed
  /\ replace' = IF Faulted(r) /\ ~WatchedAndFaulted(Name(r))
                  THEN [replace EXCEPT !.at = "resolve", !.r = r, !.removed = @ \ {r}]
                  ELSE [replace EXCEPT !.removed = @ \ {r}]
  /\ UNCHANGED <<clock, phase, runnerVars, deadman, open, lost>>

ResolveRemoved ==
  /\ replace.at = "resolve"
  /\ open' \in {open, open \ {Name(replace.r)}}
  /\ replace' = [replace EXCEPT !.at = "settle", !.r = Nobody]
  /\ UNCHANGED <<clock, phase, runnerVars, deadman, lost>>

\* Mutant: without asking whether Run is still there.
StartAnyway ==
  /\ replace.at = "settle" /\ replace.removed = {}
  /\ StartAll(replace.started)
  /\ replace' = NoReplace
  /\ UNCHANGED <<clock, phase, src, running, cancelled, lastAt, silent, fatal, deadman, open, lost>>

ReplaceStarts ==
  /\ replace.at = "settle" /\ replace.removed = {}
  /\ StartAll(IF phase \in {"run", "stopping"} THEN replace.started ELSE {})
  /\ replace' = NoReplace
  /\ UNCHANGED <<clock, phase, src, running, cancelled, lastAt, silent, fatal, deadman, open, lost>>

-----------------------------------------------------------------------------
Routine(r) == Speak(r) \/ Return(r) \/ Restart(r) \/ Fail(r) \/ RaiseFatal(r)
Deadman == Check \/ (\E r \in Runners : Judge(r)) \/ Report \/ ReportFails \/ CheckEnds
Replacing == ReplaceWaits \/ (\E r \in Runners : Settle(r)) \/ ResolveRemoved \/ ReplaceStarts
Lifetime == Run \/ Shutdown \/ Stop \/ RunReturns

Next == \/ Elapse \/ Lifetime \/ Deadman \/ Replacing
        \/ \E r \in Runners : Routine(r)
        \/ \E S \in SUBSET Sources : ReplaceSet(S)

Spec == Init /\ [][Next]_vars

-----------------------------------------------------------------------------
\* Properties.

TypeOK ==
  /\ clock \in 0 .. Horizon /\ phase \in {"new", "run", "stopping", "waiting", "returned"}
  /\ Made \subseteq Runners /\ \A r \in Made : src[r] \in Sources
  /\ running \cup silent \cup fatal \cup cancelled \subseteq Made
  /\ place \in [Runners -> {"off", "up", "delay", "failed", "raise", "gone"}]
  /\ lastAt \in [Runners -> 0 .. Horizon] /\ open \cup lost \subseteq Names
  /\ deadman.left \cup replace.removed \cup replace.started \subseteq Made

\* A source has one goroutine at a time, also when a configuration that dropped
\* it brings it back: two would read one socket and report everything twice.
OneGoroutine ==
  /\ \A r \in Made : routines[r] <= 1
  /\ \A s \in Sources : Cardinality({r \in Live : src[r] = s}) <= 1

\* Once Run has returned no source runs, also one that a Replace was starting
\* while Run was ending.
NothingOutlivesRun == phase = "returned" => Live = {}

\* A source known to be silent has its incident open, unless it is just being
\* reported: whatever Replace stops, resolves and starts while the check is at
\* work. But for the three ways in which the code loses a report: the engine
\* refused it, the deadman resolved the name for another source of it, or
\* Replace did, having looked before this one was found silent.
SilenceIsOpen ==
  \A r \in (running \cap silent) \ fatal :
    \/ Name(r) \in open \cup lost
    \/ deadman.at = "report" /\ deadman.r = r

\* Without those exceptions, which the code does not keep.
SilenceIsAlwaysOpen ==
  \A r \in (running \cap silent) \ fatal :
    Name(r) \in open \/ (deadman.at = "report" /\ deadman.r = r)

\* One that cannot run has its incident open: what is not reported nobody repairs.
FailureIsOpen == \A r \in running \cap fatal : place[r] = "gone" => Name(r) \in open

\* What is open is about a source that is watched: an incident about a removed
\* one would escalate for ever, since only the source could resolve it.
OpenIsWatched ==
  deadman = NoCheck /\ replace = NoReplace =>
    \A n \in open : \E r \in running : Name(r) = n
=============================================================================
