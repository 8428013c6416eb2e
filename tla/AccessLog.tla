------------------------------ MODULE AccessLog -----------------------------
(***************************************************************************)
(* access.poller: denials come only from the system log, which has no      *)
(* cursor and shows a row up to Lag after it was written.  Windows overlap *)
(* and rows are told apart by their id.                                    *)
(***************************************************************************)
EXTENDS Integers, FiniteSets

CONSTANTS Rows,
          Lag,         \* the slowest indexing
          PollEvery, Overlap,
          PageRows,    \* the rows logMaxPages pages hold
          MaxFailures, \* bound: topics that could not be read
          MaxRestarts, \* bound
          Horizon      \* bound: the last instant

Never == -1000
Topics == {"door_openings", "critical"}
Kinds == {"denied", "opened", "critical"}
TopicOf(kind) == IF kind = "critical" THEN "critical" ELSE "door_openings"

VARIABLES
  now,
  written,   \* the rows written so far
  kind, at, shown, \* row -> what it is, when it happened, when it is in the log
  failures, restarts,
  polled,    \* the instant of the last poll
  watermark, \* the end of the last window that completed
  seen,      \* row -> when it was seen; Never for one that is not in the map
  emitted,   \* row -> the events it became
  from,      \* ghost: the start of the first window read since the start
  stuck      \* ghost: a window began more than two overlaps back

log == <<written, kind, at, shown>>
vars == <<now, log, failures, restarts, polled, watermark, seen, emitted, from, stuck>>

Init ==
  /\ now = 0 /\ written = {} /\ kind \in [Rows -> Kinds]
  /\ at = [r \in Rows |-> 0] /\ shown = [r \in Rows |-> 0]
  /\ failures = 0 /\ restarts = 0 /\ polled = Never /\ watermark = Never
  /\ seen = [r \in Rows |-> Never] /\ emitted = [r \in Rows |-> 0]
  /\ from = Never /\ stuck = FALSE

Elapse ==
  /\ now < Horizon /\ now - polled < PollEvery /\ now' = now + 1
  /\ UNCHANGED <<log, failures, restarts, polled, watermark, seen, emitted, from, stuck>>

\* The console writes a row, and shows it after at most Lag.
Write(r) ==
  /\ r \notin written /\ written' = written \cup {r}
  /\ at' = [at EXCEPT ![r] = now]
  /\ \E d \in 0 .. Lag : shown' = [shown EXCEPT ![r] = now + d]
  /\ UNCHANGED <<now, kind, failures, restarts, polled, watermark, seen, emitted, from, stuck>>

-----------------------------------------------------------------------------
Since == IF watermark = Never THEN now - Overlap ELSE watermark - Overlap

\* readTopic.  Whether a window holds its ends is not known; what does not fit
\* the last page is not read.
Window(topic) ==
  LET inside(r) == r \in written /\ TopicOf(kind[r]) = topic /\ shown[r] <= now
      sure == {r \in Rows : inside(r) /\ at[r] > Since /\ at[r] < now}
      may == {r \in Rows : inside(r) /\ at[r] >= Since /\ at[r] <= now}
  IN  {S \in SUBSET may : IF Cardinality(may) > PageRows THEN Cardinality(S) = PageRows
                                                         ELSE sure \subseteq S}

\* isDenial, eventFromLog: an opening is the system working.
Alarming(r) == kind[r] \in {"denied", "critical"}

\* evictLocked.
Evict(map) == [r \in Rows |-> IF map[r] < now - 2 * Overlap THEN Never ELSE map[r]]

\* Mutant: what a window that failed returned is not remembered.
RecordComplete(rows, ok) ==
  /\ seen' = Evict([r \in Rows |-> IF ok /\ r \in rows /\ seen[r] = Never THEN now ELSE seen[r]])
  /\ emitted' = [r \in Rows |-> IF r \in rows /\ seen[r] = Never /\ Alarming(r)
                                  THEN emitted[r] + 1 ELSE emitted[r]]

\* filterLocked and pollLogs: what was not seen before is emitted.
Record(rows, ok) ==
  /\ seen' = Evict([r \in Rows |-> IF r \in rows /\ seen[r] = Never THEN now ELSE seen[r]])
  /\ emitted' = [r \in Rows |-> IF r \in rows /\ seen[r] = Never /\ Alarming(r)
                                  THEN emitted[r] + 1 ELSE emitted[r]]

\* Mutant: a window that was read in part counts as read.
AdvanceAnyway(ok) == now

\* Advances only if every topic was read.
Advance(ok) == IF ok THEN now ELSE watermark

\* poll, with the topics that failed.
Poll(failed) ==
  /\ now - polled >= PollEvery /\ polled' = now
  /\ failures + Cardinality(failed) <= MaxFailures
  /\ failures' = failures + Cardinality(failed)
  /\ \E pages \in [Topics -> SUBSET Rows] :
       /\ \A t \in Topics : IF t \in failed THEN pages[t] = {} ELSE pages[t] \in Window(t)
       /\ Record(UNION {pages[t] : t \in Topics}, failed = {})
  /\ watermark' = Advance(failed = {})
  /\ from' = IF from = Never /\ failed = {} THEN Since ELSE from
  /\ stuck' = (stuck \/ now - Since > 2 * Overlap)
  /\ UNCHANGED <<now, log, restarts>>

\* Nothing of the poller is stored.
Restart ==
  /\ restarts < MaxRestarts /\ restarts' = restarts + 1
  /\ polled' = Never /\ watermark' = Never /\ from' = Never
  /\ seen' = [r \in Rows |-> Never]
  /\ UNCHANGED <<now, log, failures, emitted, stuck>>

-----------------------------------------------------------------------------
Next == \/ Elapse \/ Restart
        \/ \E r \in Rows : Write(r)
        \/ \E failed \in SUBSET Topics : Poll(failed)

Spec == Init /\ [][Next]_vars

-----------------------------------------------------------------------------
\* Properties.

TypeOK ==
  /\ now \in 0 .. Horizon /\ written \subseteq Rows /\ watermark <= now /\ from <= now
  /\ emitted \in [Rows -> 0 .. 1 + Horizon + MaxRestarts]

\* There is no cursor to go back to: of what happened since the first window
\* that was read, all that can be in the log is reported once a window is
\* complete, though topics failed and rows came late.
NothingDropped ==
  from # Never => \A r \in written :
    Alarming(r) /\ at[r] > from /\ at[r] < watermark - Lag => emitted[r] > 0

\* A denial is one event.
RowOnce == \A r \in Rows : emitted[r] <= 1

\* So it is without a restart, as long as windows complete within an overlap.
RowOnceWhileReading == ~stuck /\ restarts = 0 => RowOnce
=============================================================================
