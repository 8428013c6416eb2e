------------------------------- MODULE AuditLog ------------------------------
(***************************************************************************)
(* audit.File: the append-only record, one JSON line an entry, rotated by  *)
(* size, pruned by name and read back newest first.  A line is what was    *)
(* written up to a newline: the entry it reads as, or 0 when it cannot be  *)
(* read.  Appending and rotating hold the lock; reading back takes none.   *)
(***************************************************************************)
EXTENDS Integers, FiniteSets, Sequences, SequencesExt

CONSTANTS
  MaxLines,   \* maxBytes, in entries
  Keep,       \* the rotated files kept
  Limit,      \* the entries a listing asks for
  Coarse,     \* whether the clock can give two rotations one stamp
  MaxEntries, \* bound: entries appended
  MaxClock,   \* bound: stamps
  MaxFaults,  \* bound: calls of the file system that fail
  MaxCrashes, \* bound: crashes
  MaxReads    \* bound: listings

VARIABLES
  disk,     \* the lines of audit.jsonl, the rotated files, what those deleted
            \* held, and File.f: an open file, one already closed, or nil
  clock,    \* the stamp a rotation would get
  entries,  \* entries appended so far, numbered in order
  accepted, \* the entries Append said were written
  dropped,  \* the entries no write was tried for on an open file
  torn,     \* writes that failed part of the way
  reader,   \* a listing under way: the files still to read, and what it has
  reads, faults, crashes

vars == <<disk, clock, entries, accepted, dropped, torn, reader, reads, faults, crashes>>

Entries(lines) == {lines[i].entry : i \in DOMAIN lines} \ {0}

Init ==
  /\ disk = [current |-> << >>, rotated |-> {}, pruned |-> {}, handle |-> "open"]
  /\ clock = 1 /\ entries = 0 /\ accepted = {} /\ dropped = {} /\ torn = 0
  /\ reader = [at |-> "idle"]
  /\ reads = 0 /\ faults = 0 /\ crashes = 0

Elapse ==
  /\ clock < MaxClock /\ clock' = clock + 1
  /\ UNCHANGED <<disk, entries, accepted, dropped, torn, reader, reads, faults, crashes>>

-----------------------------------------------------------------------------
\* What a file holds after e is written to it: the line, its body without the
\* newline, or a part of it.  O_APPEND puts it after whatever is there, on the same
\* line when that one was not ended.
Written(lines, e, how) ==
  IF lines # << >> /\ ~Last(lines).ended
  THEN Front(lines) \o <<[entry |-> 0, ended |-> how = "whole"]>>
  ELSE Append(lines, [entry |-> IF how = "part" THEN 0 ELSE e, ended |-> how = "whole"])

\* Mutant: the torn tail is left as it is.
LeaveTail(lines) == lines

\* A torn tail is ended, so that the next entry starts a line of its own.
Healed(lines) ==
  IF lines = << >> THEN lines ELSE Front(lines) \o <<[Last(lines) EXCEPT !.ended = TRUE]>>

\* reopen.
Reopened(d, ok) ==
  IF ok THEN [d EXCEPT !.handle = "open", !.current = Healed(@)] ELSE [d EXCEPT !.handle = "none"]

\* Whether f's name sorts before g's: "audit-S-1.jsonl" before "audit-S.jsonl".
SortsBefore(f, g) ==
  \/ f.stamp < g.stamp
  \/ f.stamp = g.stamp /\ f.again # 0 /\ (g.again = 0 \/ f.again < g.again)

\* The first name not taken.
Again(fs, s) ==
  CHOOSE i \in 0 .. Cardinality(fs) :
    /\ ~\E f \in fs : f.stamp = s /\ f.again = i
    /\ \A j \in 0 .. (i - 1) : \E f \in fs : f.stamp = s /\ f.again = j

\* pruneLocked: what sorts first goes, down to Keep.
Excess(fs) == {f \in fs : Cardinality({g \in fs : SortsBefore(f, g)}) >= Keep}

Pruned(d) ==
  LET gone == Excess(d.rotated)
  IN  [d EXCEPT !.rotated = @ \ gone, !.pruned = @ \cup UNION {Entries(f.lines) : f \in gone}]

\* The current file under its rotated name.
Renamed(d) ==
  [d EXCEPT !.current = << >>,
            !.rotated = @ \cup {[stamp |-> clock, again |-> Again(@, clock), lines |-> d.current]}]

\* rotateLocked: how it can end, and how many calls failed.  A file Close failed on
\* is not open any more, and is not nil either.
Rotations(d) ==
  IF d.handle = "stale" THEN {<<d, 0>>}
  ELSE {<<[d EXCEPT !.handle = "stale"], 1>>,
        <<Reopened(d, TRUE), 1>>, <<Reopened(d, FALSE), 2>>,
        <<Reopened(Renamed(d), FALSE), 1>>, <<Pruned(Reopened(Renamed(d), TRUE)), 0>>}

\* A clock fine enough has moved since the last rotation by the next.
ClockMoved ==
  Coarse \/ Len(disk.current) < MaxLines \/ ~\E f \in disk.rotated : f.stamp >= clock

\* Append.  The rotation's failure is reported and the write is tried on what it
\* left; a nil file is refused before.
Put ==
  /\ entries < MaxEntries /\ entries' = entries + 1 /\ ClockMoved
  /\ UNCHANGED <<clock, reader, reads, crashes>>
  /\ \E r \in IF disk.handle = "none" \/ Len(disk.current) < MaxLines THEN {<<disk, 0>>}
              ELSE Rotations(disk) :
       LET d == r[1]
       IN  IF d.handle # "open"
           THEN /\ faults + r[2] <= MaxFaults /\ faults' = faults + r[2]
                /\ disk' = d /\ dropped' = dropped \cup {entries'}
                /\ UNCHANGED <<accepted, torn>>
           ELSE \E how \in {"whole", "body", "part", "none"} :
                  LET failed == r[2] + (IF how = "whole" THEN 0 ELSE 1)
                  IN  /\ faults + failed <= MaxFaults /\ faults' = faults + failed
                      /\ disk' = (IF how = "none" THEN d
                                  ELSE [d EXCEPT !.current = Written(@, entries', how)])
                      /\ accepted' = accepted \cup (IF how = "whole" THEN {entries'} ELSE {})
                      /\ torn' = torn + (IF how \in {"body", "part"} THEN 1 ELSE 0)
                      /\ UNCHANGED dropped

\* The process ends, perhaps in an append: in its rotation, before the new file is
\* opened, or in its write.  Open, at the restart, heals the tail.
Crash ==
  /\ crashes < MaxCrashes /\ crashes' = crashes + 1
  /\ reader' = [at |-> "idle"]
  /\ UNCHANGED <<clock, accepted, dropped, torn, reads, faults>>
  /\ \/ disk' = Reopened(disk, TRUE) /\ UNCHANGED entries
     \/ /\ entries < MaxEntries /\ entries' = entries + 1 /\ disk.handle = "open"
        /\ IF Len(disk.current) < MaxLines
           THEN \E how \in {"body", "part"} :
                  disk' = Reopened([disk EXCEPT !.current = Written(@, entries', how)], TRUE)
           ELSE ClockMoved /\ disk' = Reopened(Renamed(disk), TRUE)

-----------------------------------------------------------------------------
\* Recent: the files are listed, current first and the rotated by name, backwards...
List ==
  /\ reader.at = "idle" /\ reads < MaxReads /\ reads' = reads + 1
  /\ reader' = [at   |-> "reading",
                left |-> << <<0, 0>> >> \o
                         LET by(f, g) == SortsBefore(g, f)
                             sorted == SetToSortSeq(disk.rotated, by)
                         IN  [i \in DOMAIN sorted |-> <<sorted[i].stamp, sorted[i].again>>],
                got  |-> << >>]
  /\ UNCHANGED <<disk, clock, entries, accepted, dropped, torn, faults, crashes>>

\* Mutant: each file's entries come as the file has them.
AsTheyStand(lines, n) ==
  LET read == SelectSeq([i \in DOMAIN lines |-> lines[i].entry], LAMBDA e : e # 0)
  IN  SubSeq(read, IF Len(read) > n THEN Len(read) - n + 1 ELSE 1, Len(read))

\* readTail and reverse: a file's last n entries, newest first.
Newest(lines, n) ==
  LET read == SelectSeq([i \in DOMAIN lines |-> lines[i].entry], LAMBDA e : e # 0)
  IN  Reverse(SubSeq(read, IF Len(read) > n THEN Len(read) - n + 1 ELSE 1, Len(read)))

\* ... and read one after another, until there are enough.  One gone by now is skipped.
ReadNext ==
  /\ reader.at = "reading"
  /\ LET name  == Head(reader.left)
         named == {f.lines : f \in {g \in disk.rotated : <<g.stamp, g.again>> = name}}
         found == IF name = <<0, 0>> THEN disk.current
                  ELSE IF named = {} THEN << >> ELSE CHOOSE lines \in named : TRUE
         got   == reader.got \o Newest(found, Limit - Len(reader.got))
         left  == Tail(reader.left)
     IN  reader' = IF Len(got) >= Limit \/ left = << >> THEN [at |-> "done", got |-> got]
                   ELSE [at |-> "reading", left |-> left, got |-> got]
  /\ UNCHANGED <<disk, clock, entries, accepted, dropped, torn, reads, faults, crashes>>

Answer ==
  /\ reader.at = "done" /\ reader' = [at |-> "idle"]
  /\ UNCHANGED <<disk, clock, entries, accepted, dropped, torn, reads, faults, crashes>>

Next == Elapse \/ Put \/ Crash \/ List \/ ReadNext \/ Answer

Spec == Init /\ [][Next]_vars

-----------------------------------------------------------------------------
Line == [entry : 0 .. MaxEntries, ended : BOOLEAN]

\* Every file is lines of entries, no two rotated files share a name, and the
\* counters stay within their bounds.
TypeOK ==
  /\ disk.current \in Seq(Line) /\ disk.handle \in {"open", "stale", "none"}
  /\ disk.pruned \subseteq 1 .. MaxEntries
  /\ \A f \in disk.rotated : f.lines \in Seq(Line) /\ f.stamp \in 1 .. MaxClock
  /\ \A f, g \in disk.rotated : f.stamp = g.stamp /\ f.again = g.again => f = g
  /\ clock \in 1 .. MaxClock /\ entries \in 0 .. MaxEntries
  /\ accepted \cup dropped \subseteq 1 .. entries /\ torn \in 0 .. MaxFaults
  /\ reader.at \in {"idle", "reading", "done"}
  /\ reads \in 0 .. MaxReads /\ faults \in 0 .. MaxFaults /\ crashes \in 0 .. MaxCrashes

Readable == Entries(disk.current) \cup UNION {Entries(f.lines) : f \in disk.rotated}

\* What Append said it wrote can be read back until its file is pruned, whatever
\* crashes cut short: of the entries accepted, no more are unreadable than writes
\* failed part of the way (reopen heals a torn tail).
DamageIsContained == Cardinality((accepted \ disk.pruned) \ Readable) <= torn

\* A listing is newest first, and names no entry twice, whatever rotates, is pruned
\* or crashes while it is read.
ListingFalls ==
  reader.at = "done" => \A i, j \in DOMAIN reader.got : i < j => reader.got[i] > reader.got[j]

\* "Rotation failed: keep writing to the current file rather than dropping the
\* record" (audit/file.go:165).
RotationKeepsWriting == dropped = {}

\* "timestamped names sort chronologically" (audit/file.go:234): what is pruned is
\* older than anything kept.
OldestGoFirst == \A p \in disk.pruned, e \in Readable : p < e
=============================================================================
