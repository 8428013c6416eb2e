----------------------------- MODULE SiteActivity ----------------------------
(***************************************************************************)
(* surge.Recorder, which counts what happened at the site in each interval *)
(* and stores the intervals it saw all of, and surge.Reporter, which says  *)
(* how busy the last interval's worth of time was.  An event carries the   *)
(* time its source gives it; the recorder closes an interval when an event *)
(* or the timer shows that it is over.  The machine's clock can be set.    *)
(***************************************************************************)
EXTENDS Integers, FiniteSets

CONSTANTS
  Keys,        \* what events are about
  Width,       \* an interval, in instants
  Retention,   \* how far back rows are kept
  MaxSkew,     \* maxClockSkew
  Offsets,     \* how far an event's own time can be from the clock
  Jumps,       \* what the clock can be set forward or back by
  BlindSince,  \* whether the reporter is told since when it is not blind (not, in main.go)
  MaxEvents,   \* bound: events
  MaxJumps,    \* bound: settings of the clock
  MaxBlind,    \* bound: times a source goes silent or comes back
  MaxFailures, \* bound: rows the store refuses
  MaxCrashes,  \* bound: restarts
  Horizon      \* bound: the last instant

VARIABLES
  wall, mono, \* the clock, and the time elapsed
  blind,      \* whether a source is not reporting
  sighted,    \* when blindness last ended, elapsed time
  rec,        \* the Recorder, and whether it watches yet
  stored,     \* the rows of activity_buckets
  started,    \* the Reporter's startedAt
  window,     \* its events: who, when, and which event it was
  seen,       \* the time of each thing's last event
  watched,    \* ghost: the instants this program was running in
  saw,        \* ghost: those in which every source reported
  written,    \* ghost: every row ever written, as it was first
  events, jumps, turns, failures, crashes

vars == <<wall, mono, blind, sighted, rec, stored, started, window, seen, watched, saw,
          written, events, jumps, turns, failures, crashes>>
ghosts == <<watched, saw, written>>

Floor(t) == (t \div Width) * Width
Asleep == [watching |-> FALSE]

Init ==
  /\ wall \in Width .. (2 * Width - 1) /\ mono = 0
  /\ blind \in BOOLEAN /\ sighted = -Width
  /\ rec = Asleep /\ stored = << >>
  /\ started = 0 /\ window = {} /\ seen = << >>
  /\ watched = {} /\ saw = {} /\ written = << >>
  /\ events = 0 /\ jumps = 0 /\ turns = 0 /\ failures = 0 /\ crashes = 0

\* Time passes while the program runs.
Elapse ==
  /\ wall < Horizon /\ wall' = wall + 1 /\ mono' = mono + 1
  /\ watched' = watched \cup {wall}
  /\ saw' = (IF blind THEN saw ELSE saw \cup {mono})
  /\ UNCHANGED <<blind, sighted, rec, stored, started, window, seen, written,
                 events, jumps, turns, failures, crashes>>

\* The clock is set.
SetClock(d) ==
  /\ jumps < MaxJumps /\ jumps' = jumps + 1
  /\ wall + d \in 0 .. Horizon /\ wall' = wall + d
  /\ UNCHANGED <<mono, blind, sighted, rec, stored, started, window, seen, ghosts,
                 events, turns, failures, crashes>>

\* A source goes silent, or reports again.
Turn ==
  /\ turns < MaxBlind /\ turns' = turns + 1
  /\ blind' = ~blind
  /\ sighted' = (IF blind THEN mono ELSE sighted)
  /\ saw' = saw \ {mono}
  /\ UNCHANGED <<wall, mono, rec, stored, started, window, seen, watched, written,
                 events, jumps, failures, crashes>>

-----------------------------------------------------------------------------
\* Mutant: the interval the program started in passes for a whole one.
OpenWhole(start, partial) ==
  [watching |-> TRUE, start |-> start, openedAt |-> <<wall, mono>>, events |-> 0, keys |-> {},
   wasBlind |-> blind, partial |-> FALSE]

\* open.
Open(start, partial) ==
  [watching |-> TRUE, start |-> start, openedAt |-> <<wall, mono>>, events |-> 0, keys |-> {},
   wasBlind |-> blind, partial |-> partial]

\* The clock moved differently from the time elapsed since the interval was opened.
Skewed(r) ==
  LET d == (wall - r.openedAt[1]) - (mono - r.openedAt[2]) IN d > MaxSkew \/ -d > MaxSkew

\* What roll writes: the interval closed, unless it is partial or skewed, and a row
\* of nothing for every interval between it and the next.
Rows(r, next) ==
  LET whole == IF r.partial \/ Skewed(r) THEN {} ELSE {r.start}
      empty == {t \in (r.start + 1) .. (next - 1) : t % Width = 0}
  IN  [t \in whole \cup empty |->
         IF t = r.start
         THEN [events |-> r.events, devices |-> Cardinality(r.keys), degraded |-> r.wasBlind]
         ELSE [events |-> 0, devices |-> 0, degraded |-> r.wasBlind]]

\* PutBucket: each row replaces what has its start, and then what is past the
\* retention goes.  A row the store refuses is lost.
Put(rows) ==
  LET kept == {t \in DOMAIN stored \cup DOMAIN rows : \A u \in DOMAIN rows : t >= u - Retention}
  IN  /\ stored' = [t \in kept |-> IF t \in DOMAIN rows THEN rows[t] ELSE stored[t]]
      /\ written' = [t \in DOMAIN written \cup DOMAIN rows |->
                       IF t \in DOMAIN written THEN written[t] ELSE rows[t]]

Store(rows) ==
  \E lost \in SUBSET DOMAIN rows :
    /\ failures + Cardinality(lost) <= MaxFailures /\ failures' = failures + Cardinality(lost)
    /\ Put([t \in DOMAIN rows \ lost |-> rows[t]])

\* roll: to the interval at next.
Rolled(r, next) == IF next > r.start THEN Open(next, FALSE) ELSE r
Written(r, next) == IF next > r.start THEN Rows(r, next) ELSE << >>

Watching(start) == IF rec.watching THEN rec ELSE Open(start, wall > start)

\* Recorder.Tick, every minute.
Tick ==
  /\ IF ~rec.watching
     THEN rec' = Watching(Floor(wall)) /\ UNCHANGED <<stored, written, failures>>
     ELSE LET r == [rec EXCEPT !.wasBlind = @ \/ blind]
          IN  rec' = Rolled(r, Floor(wall)) /\ Store(Written(r, Floor(wall)))
  /\ UNCHANGED <<wall, mono, blind, sighted, started, window, seen, watched, saw,
                 events, jumps, turns, crashes>>

-----------------------------------------------------------------------------
\* trimLocked: what is older than an interval goes.
Recent(w) == {e \in w : e.at >= wall - Width}
\* Mutant: a thing once seen is not forgotten.
Remembered(s) == s
\* What of the things seen is recent.
Trimmed(s) == [k \in {j \in DOMAIN s : s[j] >= wall - Width} |-> s[k]]

\* siteActivity.observe, for an event that is not a clear and not this program's:
\* Recorder.Observe and Reporter.Observe.  An event from before the open interval is
\* not counted.
Observe(k, at) ==
  LET start == Floor(at)
      r == Watching(start)
      n == events + 1
  IN  /\ events < MaxEvents /\ events' = n
      /\ IF start < r.start
         THEN rec' = r /\ UNCHANGED <<stored, written, failures>>
         ELSE /\ rec' = [Rolled(r, start) EXCEPT !.events = @ + 1, !.keys = @ \cup {k},
                                                 !.wasBlind = @ \/ blind]
              /\ Store(Written(r, start))
      /\ window' = Recent(window \cup {[key |-> k, at |-> at, nth |-> n]})
      /\ seen' = Trimmed([j \in DOMAIN seen \cup {k} |-> IF j = k THEN at ELSE seen[j]])
      /\ UNCHANGED <<wall, mono, blind, sighted, started, watched, saw, jumps, turns, crashes>>

\* The program stops, and starts again after d: what is open is lost.
Restart(d) ==
  /\ crashes < MaxCrashes /\ crashes' = crashes + 1
  /\ wall + d <= Horizon /\ wall' = wall + d /\ mono' = mono + d
  /\ rec' = Asleep /\ started' = mono + d /\ window' = {} /\ seen' = << >>
  /\ UNCHANGED <<blind, sighted, stored, ghosts, events, jumps, turns, failures>>

Next ==
  \/ Elapse \/ Turn \/ Tick
  \/ \E d \in Jumps : SetClock(d)
  \/ \E k \in Keys, o \in Offsets : wall + o >= 0 /\ Observe(k, wall + o)
  \/ \E d \in 0 .. Width : Restart(d)

Spec == Init /\ [][Next]_vars

-----------------------------------------------------------------------------
\* Reporter.Status: whether an alert would carry a sentence.
IsBlind == blind \/ (BlindSince /\ mono - sighted < Width)
\* Mutant: the reporter speaks from the start.
SayingAnyway == ~IsBlind
Saying == mono - started >= Width /\ ~IsBlind

Row == [events : Nat, devices : Nat, degraded : BOOLEAN]

\* The clock, the rows and the counters are what they should be, and the recorder
\* counts no more things than events.
TypeOK ==
  /\ wall \in 0 .. Horizon /\ mono \in Nat /\ blind \in BOOLEAN
  /\ \A t \in DOMAIN stored : t % Width = 0 /\ stored[t] \in Row
  /\ rec.watching => rec.start % Width = 0 /\ Cardinality(rec.keys) <= rec.events
  /\ events \in 0 .. MaxEvents /\ jumps \in 0 .. MaxJumps /\ turns \in 0 .. MaxBlind
  /\ failures \in 0 .. MaxFailures /\ crashes \in 0 .. MaxCrashes

\* "What is never written is a bucket whose span this process did not see all of"
\* (surge/record.go:232).
WrittenWasWatched == \A t \in DOMAIN stored : t .. (t + Width - 1) \subseteq watched

\* "rewriting a closed bucket would mean a number an alert already quoted stops
\* matching what is stored" (surge/record.go:164).
NeverRewritten == \A t \in DOMAIN stored : stored[t] = written[t]

\* The things the sentence counts are those its events are about, whatever was
\* trimmed from either.
DevicesAreThoseSeen == DOMAIN Trimmed(seen) = {e.key : e \in Recent(window)}

\* When an alert says how busy the last ten minutes were, this program was running
\* in all of them.
SaysWhatItWatched == Saying => (wall - Width) .. (wall - 1) \subseteq watched

\* ... and every source was reporting: "the count is not a measurement of the site
\* but of what still reaches us" (surge/reporter.go:175).
SaysWhatItSaw == Saying => (mono - Width) .. (mono - 1) \subseteq saw
=============================================================================
