----------------------------- MODULE SiteBaseline ----------------------------
(***************************************************************************)
(* What surge calls typical of a slot, from the rows stored for it, what   *)
(* it judges a stretch of activity to be against that, and the figures the *)
(* sentence of an alert quotes.  Each interval is closed, stored, judged   *)
(* by the rows before it and, when it was unusual, flagged; a flagged row  *)
(* is not learned from until more than a quarter of the slot is flagged.   *)
(* The rows are those of one slot, oldest first.                           *)
(***************************************************************************)
EXTENDS Integers, FiniteSets, Sequences, SequencesExt

CONSTANTS
  Levels,     \* how busy the site can be in an interval: events and devices
  Retention,  \* the rows of a slot that are kept
  PerDay,     \* the rows of a day
  MinPerDay,  \* MinBucketsPerDay
  MinDays,
  MinSamples,
  MaxMissed   \* bound: consecutive rows not judged: written without the timer, or
              \* before a restart

VARIABLES
  rows,    \* the slot's rows
  phase,   \* the place of the next row in its day
  same,    \* how many intervals the site has been at this level for
  missed,
  flags    \* ghost: how many of those were flagged

vars == <<rows, phase, same, missed, flags>>

Ordinary == "ordinary"
Busy == "busy"
Quiet == "quiet"

Init == rows = << >> /\ phase = 0 /\ same = 0 /\ missed = 0 /\ flags = 0

-----------------------------------------------------------------------------
\* What some rows saw, sorted: the value of a rank.  The upper-middle sample is the
\* median; a quantile, in tenths, is the smallest sample at or above the fraction.
Ranked(sample, rank) ==
  CHOOSE v \in {sample[i] : i \in DOMAIN sample} :
    /\ Cardinality({i \in DOMAIN sample : sample[i] < v}) < rank
    /\ rank <= Cardinality({i \in DOMAIN sample : sample[i] <= v})
Median(sample) ==
  IF DOMAIN sample = {} THEN 0
  ELSE Ranked(sample, (Cardinality(DOMAIN sample) \div 2) + 1)
Quantile(sample, tenths) ==
  IF DOMAIN sample = {} THEN 0
  ELSE LET n == Cardinality(DOMAIN sample)
           rank == (n * tenths + 9) \div 10
       IN  Ranked(sample, IF rank < 1 THEN 1 ELSE IF rank > n THEN n ELSE rank)

\* Rows are named by their place.
Sound(rs) == {i \in DOMAIN rs : ~rs[i].degraded}
Unusual(rs) == {i \in Sound(rs) : rs[i].flagged # Ordinary}

\* Mutant: flagged rows are left out for good.
KeptNever(rs) == Sound(rs) \ Unusual(rs)

\* The rows learned from: the sound ones, without the flagged unless these are more
\* than a quarter of them.
Kept(rs) ==
  IF 4 * Cardinality(Unusual(rs)) <= Cardinality(Sound(rs))
    THEN Sound(rs) \ Unusual(rs) ELSE Sound(rs)

\* The days with rows enough, when the last row is at `place` of its day.
LearnedDays(rs, place) ==
  LET day(i) == (Len(rs) - i + (PerDay - 1 - place)) \div PerDay
  IN  Cardinality({d \in {day(i) : i \in DOMAIN rs} :
        Cardinality({i \in DOMAIN rs : day(i) = d /\ ~rs[i].degraded}) >= MinPerDay})

\* Baseline.
Baseline(rs, place) ==
  LET keep == Kept(rs)
      events == [i \in keep |-> rs[i].level[1]]
      devices == [i \in keep |-> rs[i].level[2]]
  IN  [medianEvents |-> Median(events), p90Events |-> Quantile(events, 9),
       medianDevices |-> Median(devices), p90Devices |-> Quantile(devices, 9),
       p10Devices |-> Quantile(devices, 1),
       earned |-> keep # {} /\ LearnedDays(rs, place) >= MinDays
                            /\ Cardinality(keep) >= MinSamples]

-----------------------------------------------------------------------------
\* Judge: spread, or volume when it is not concentrated, ...
Spread(devices, st) ==
  /\ devices >= 3 /\ devices > st.p90Devices
  /\ 2 * devices >= 3 * st.medianDevices /\ devices >= st.medianDevices + 3
Volume(events, devices, st) ==
  /\ devices >= 3 /\ devices >= st.medianDevices /\ events > st.p90Events
  /\ events >= 3 * st.medianEvents /\ events >= st.medianEvents + 10
\* ... and fewer things than nine in ten such stretches, with no more events than usual.
\* Mutant: as the formula first was, without the events.
FewerThings(events, devices, st) ==
  /\ st.medianDevices >= 4 /\ devices < st.p10Devices
  /\ 2 * devices <= st.medianDevices /\ devices <= st.medianDevices - 3
Fewer(events, devices, st) ==
  /\ events <= st.medianEvents /\ st.medianDevices >= 4 /\ devices < st.p10Devices
  /\ 2 * devices <= st.medianDevices /\ devices <= st.medianDevices - 3

Judge(level, st) ==
  IF ~st.earned THEN Ordinary
  ELSE IF Spread(level[2], st) \/ Volume(level[1], level[2], st) THEN Busy
  ELSE IF Fewer(level[1], level[2], st) THEN Quiet ELSE Ordinary

\* Mutant: a busy sentence always quotes the events.
QuotesEvents(level, st) ==
  LET v == Judge(level, st) IN
  IF v = Busy THEN <<"at most", level[1], st.p90Events>>
  ELSE IF v = Quiet THEN <<"at least", level[2], st.p10Devices>> ELSE << >>

\* Sentence: what it says nine of ten such stretches see, beside what was seen: the
\* devices, or the events when the devices are not what made it busy.
Quoted(level, st) ==
  LET v == Judge(level, st) IN
  IF v = Busy THEN IF level[2] <= st.p90Devices THEN <<"at most", level[1], st.p90Events>>
                   ELSE <<"at most", level[2], st.p90Devices>>
  ELSE IF v = Quiet THEN <<"at least", level[2], st.p10Devices>> ELSE << >>

-----------------------------------------------------------------------------
\* Reporter.Stats: what the rows stored so far make typical.
Stats == Baseline(rows, (phase + PerDay - 1) % PerDay)

\* FlagBucket, in a statement of its own.
Flagged(row, v) == [row EXCEPT !.flagged = v]

\* Mutant: a row of which only part was watched is judged like another.
JudgesAny(row) == Judge(row.level, Stats)

\* JudgeClosed: a degraded row is never judged.
JudgeClosed(row) == IF row.degraded THEN Ordinary ELSE Judge(row.level, Stats)

\* An interval closes: siteActivity.run stores it and judge flags it by the rows
\* before it.  A degraded one is not judged; one the timer did not see close, or that
\* the program did not live to judge, keeps no flag.
Close(level, degraded, judged) ==
  /\ missed' = (IF judged THEN 0 ELSE missed + 1) /\ missed' <= MaxMissed
  /\ LET row == [level |-> level, degraded |-> degraded, flagged |-> Ordinary]
         flag == IF judged THEN JudgeClosed(row) ELSE Ordinary
         all == Append(rows, Flagged(row, flag))
         goesOn == rows # << >> /\ Last(rows).level = level /\ ~degraded
     IN  /\ rows' = (IF Len(all) > Retention THEN Tail(all) ELSE all)
         /\ same' = (IF ~goesOn THEN (IF degraded THEN 0 ELSE 1)
                     ELSE IF same < 2 * Retention THEN same + 1 ELSE same)
         /\ flags' = (IF goesOn THEN flags ELSE 0) + (IF flag # Ordinary THEN 1 ELSE 0)
  /\ phase' = (phase + 1) % PerDay

Next == \E level \in Levels, degraded, judged \in BOOLEAN : Close(level, degraded, judged)

Spec == Init /\ [][Next]_vars

-----------------------------------------------------------------------------
Row == [level : Levels, degraded : BOOLEAN, flagged : {Ordinary, Busy, Quiet}]

\* The rows are rows, no more than are kept, and a degraded one has no flag.
TypeOK ==
  /\ rows \in Seq(Row) /\ Len(rows) <= Retention
  /\ \A i \in DOMAIN rows : rows[i].degraded => rows[i].flagged = Ordinary
  /\ phase \in 0 .. (PerDay - 1) /\ same \in 0 .. (2 * Retention)
  /\ missed \in 0 .. MaxMissed /\ flags \in Nat

\* A site that has changed is called unusual for a while and then is what is usual:
\* one stretch at one level is flagged in no more of its intervals than the share
\* that readmits flagged rows allows (FlaggedShare).
ChangeIsLearned == flags <= (Retention \div 4) + 1

\* What the sentence quotes is contradicted by the count beside it: a busy stretch is
\* above what nine in ten see, a quiet one below.
SentenceHolds ==
  \A level \in Levels :
    LET q == Quoted(level, Stats)
    IN  q = << >> \/ (q[1] = "at most" /\ q[2] > q[3]) \/ (q[1] = "at least" /\ q[2] < q[3])

\* A site with more events than usual is not called quiet (surge/verdict.go:69).
MoreIsNotQuiet ==
  \A level \in Levels : level[1] > Stats.medianEvents => Judge(level, Stats) # Quiet
=============================================================================
