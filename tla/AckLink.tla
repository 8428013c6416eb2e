-------------------------------- MODULE AckLink ------------------------------
(***************************************************************************)
(* ack.Handler: the one route that faces the internet.  A request of the   *)
(* right shape is counted against its source, then looked up; a GET shows  *)
(* a page with a button, a POST acknowledges with a compare-and-swap and   *)
(* three attempts, while the escalation loop and the rule engine write the *)
(* same row.  Every refusal of a link is one answer.  Nothing removes an   *)
(* incident.                                                               *)
(*                                                                         *)
(* Whoever writes the row writes a copy read before.  The version is       *)
(* UpdatedAt, a time: a write has a new one, or leaves that of its copy    *)
(* where its own instant is earlier (Incident.touch); an acknowledgement   *)
(* is stamped after it was read, so it always has a new one.               *)
(***************************************************************************)
EXTENDS Integers, FiniteSets, Sequences

CONSTANTS
  Sources,    \* the addresses requests come from
  Requests,
  Kinds,      \* the requests there are: method, and the token: the right one, another
              \* of its shape, or nothing like one
  Burst,      \* DefaultBurst
  Refill,     \* DefaultRefill, in instants
  MaxSources, \* the sources counted before the table is dropped
  Attempts,   \* ackRetries
  Writers,    \* the goroutines of the scheduler and the rule engine
  MaxWrites,  \* bound: what they write to the row
  MaxErrors,  \* bound: reads and swaps the store fails
  Horizon     \* bound: the last instant

VARIABLES
  now,
  row,     \* the incident: its version, whether acknowledged, resolved, closed
  copies,  \* what each writer read of it
  buckets, \* limiter.seen
  req,     \* how far each request has come
  served,  \* ghost: when each source was let through
  audits,  \* ghost: the acknowledgements recorded
  erased,  \* ghost: those that a write of an older copy took off the row
  reopened,\* ghost: such a write took back that the incident was closed
  writes, errors

others == <<copies, erased, reopened, writes>>
vars == <<now, row, buckets, req, served, audits, errors, others>>

NoCopy == [version |-> 0, acked |-> FALSE, resolved |-> FALSE, closed |-> FALSE]

Init ==
  /\ now = 0 /\ row = [NoCopy EXCEPT !.version = 1]
  /\ copies = [w \in Writers |-> NoCopy] /\ erased = 0 /\ reopened = FALSE /\ writes = 0
  /\ buckets = << >> /\ req = [q \in Requests |-> [at |-> "free"]]
  /\ served = [s \in Sources |-> << >>] /\ audits = 0 /\ errors = 0

Elapse ==
  /\ now < Horizon /\ now' = now + 1
  /\ UNCHANGED <<row, buckets, req, served, audits, errors, others>>

\* State: closed, or acknowledged and resolved.
Terminal(r) == r.closed \/ (r.acked /\ r.resolved)

\* A version no write had before.
NextVersion == 2 + writes + audits

\* commit and OpenByDedupKey read the incident while it is live.
Take(w) ==
  /\ ~Terminal(row)
  /\ copies' = [copies EXCEPT ![w] = row]
  /\ UNCHANGED <<now, row, buckets, req, served, audits, erased, reopened, writes, errors>>

One(b) == IF b THEN 1 ELSE 0

\* The copy of w, resolved or closed meanwhile by its writer, becomes the row.
WriteBack(w, resolved, closed) ==
  /\ writes < MaxWrites /\ writes' = writes + 1
  /\ \E v \in {copies[w].version, NextVersion} :
       row' = [copies[w] EXCEPT !.version = v, !.resolved = @ \/ resolved, !.closed = @ \/ closed]
  /\ erased' = erased + One(row.acked) - One(copies[w].acked)
  /\ reopened' = (reopened \/ (row.closed /\ ~row'.closed))
  /\ copies' = [copies EXCEPT ![w] = NoCopy]
  /\ UNCHANGED <<now, buckets, req, served, audits, errors>>

\* The rule engine's resolve, update and handle: the last write wins.
Put(w, resolved, closed) == copies[w] # NoCopy /\ WriteBack(w, resolved, closed)

\* The scheduler's commit, of an alert, a failure or a give-up: compared and swapped.
Commit(w, closed) ==
  /\ copies[w] # NoCopy /\ row.version = copies[w].version
  /\ WriteBack(w, FALSE, closed)

-----------------------------------------------------------------------------
\* Mutant: the time short of a token is thrown away.
FilledAtOnce(b) ==
  LET gained == (now - b.last) \div Refill
  IN  [tokens |-> IF b.tokens + gained > Burst THEN Burst ELSE b.tokens + gained, last |-> now]

\* A bucket refilled by the time elapsed, which a monotonic clock never makes negative.
Filled(b) ==
  LET gained == (now - b.last) \div Refill
  IN  IF gained = 0 THEN b
      ELSE [tokens |-> IF b.tokens + gained > Burst THEN Burst ELSE b.tokens + gained,
            last |-> b.last + gained * Refill]

Fresh == [tokens |-> Burst, last |-> now]

\* The table with a bucket for s; a full one is dropped.
Tracked(s) ==
  IF s \in DOMAIN buckets THEN buckets
  ELSE LET kept == IF Cardinality(DOMAIN buckets) >= MaxSources THEN {} ELSE DOMAIN buckets
       IN  [t \in kept \cup {s} |-> IF t = s THEN Fresh ELSE buckets[t]]

\* parsePath: what cannot be a link of this product's.
IllFormed(kind) == kind[2] = "junk"

Render(q, page) == req' = [req EXCEPT ![q] = [at |-> page]]

\* ServeHTTP: the shape, the limit, the method.  A token is right when it is the one
\* minted for this incident and the time it was opened.
Arrive(q, s, kind) ==
  /\ req[q].at = "free"
  /\ IF IllFormed(kind) THEN Render(q, "invalid") /\ UNCHANGED <<buckets, served>>
     ELSE LET table == Tracked(s)
              b == Filled(table[s])
          IN  IF b.tokens = 0
              THEN /\ buckets' = [table EXCEPT ![s] = b]
                   /\ req' = [req EXCEPT ![q] = [at |-> "refused", source |-> s, when |-> now]]
                   /\ UNCHANGED served
              ELSE /\ buckets' = [table EXCEPT ![s] = [b EXCEPT !.tokens = @ - 1]]
                   /\ served' = [served EXCEPT ![s] = Append(@, now)]
                   /\ req' = [req EXCEPT ![q] = [at    |-> IF kind[1] = "GET" THEN "confirm" ELSE "ack",
                                                right |-> kind[2] = "right", tries |-> 0, seen |-> NoCopy]]
  /\ UNCHANGED <<now, row, audits, errors, others>>

\* lookup: one answer for a wrong token, for no such incident and for a read
\* that fails.
Refused(q) ==
  /\ \/ ~req[q].right /\ UNCHANGED errors
     \/ errors < MaxErrors /\ errors' = errors + 1
  /\ Render(q, "invalid")

\* confirm: a GET changes nothing.
Confirm(q) ==
  /\ req[q].at = "confirm"
  /\ \/ Refused(q)
     \/ req[q].right /\ Render(q, IF row.acked THEN "already" ELSE "button") /\ UNCHANGED errors
  /\ UNCHANGED <<now, row, buckets, served, audits, others>>

\* acknowledge, as far as the swap: what is over or acknowledged needs none.
Read(q) ==
  /\ req[q].at = "ack"
  /\ \/ Refused(q)
     \/ /\ req[q].right /\ UNCHANGED errors
        /\ IF row.acked \/ Terminal(row) THEN Render(q, "already")
           ELSE req' = [req EXCEPT ![q].at = "swap", ![q].seen = row]
  /\ UNCHANGED <<now, row, buckets, served, audits, others>>

\* Mutant: the last write wins.
Anyway(q) == TRUE
\* PutIfUnchanged goes through.
Unchanged(q) == row.version = req[q].seen.version

\* The swap writes the copy that was read; a conflict is another attempt, and the
\* last one an error page.
Swap(q) ==
  /\ req[q].at = "swap"
  /\ \/ /\ Unchanged(q)
        /\ row' = [req[q].seen EXCEPT !.version = NextVersion, !.acked = TRUE]
        /\ audits' = audits + 1 /\ Render(q, "done")
        /\ reopened' = (reopened \/ (row.closed /\ ~row'.closed)) /\ UNCHANGED errors
     \/ /\ ~Unchanged(q) /\ UNCHANGED <<row, audits, errors, reopened>>
        /\ IF req[q].tries + 1 < Attempts
           THEN req' = [req EXCEPT ![q].at = "ack", ![q].tries = @ + 1]
           ELSE Render(q, "error")
     \/ /\ errors < MaxErrors /\ errors' = errors + 1
        /\ Render(q, "error") /\ UNCHANGED <<row, audits, reopened>>
  /\ UNCHANGED <<now, buckets, served, copies, erased, writes>>

Next ==
  \/ Elapse
  \/ \E w \in Writers, resolved, closed \in BOOLEAN :
       Take(w) \/ Put(w, resolved, closed) \/ Commit(w, closed)
  \/ \E q \in Requests :
       \/ \E s \in Sources, kind \in Kinds : Arrive(q, s, kind)
       \/ Confirm(q) \/ Read(q) \/ Swap(q)

Spec == Init /\ [][Next]_vars

-----------------------------------------------------------------------------
Rendered == {"refused", "invalid", "button", "already", "done", "error"}

\* Requests and the row are where they can be; the limiter's table is within its bound.
TypeOK ==
  /\ now \in 0 .. Horizon /\ Cardinality(DOMAIN buckets) <= MaxSources
  /\ \A s \in DOMAIN buckets : buckets[s].tokens \in 0 .. Burst /\ buckets[s].last \in 0 .. now
  /\ \A q \in Requests : req[q].at \in Rendered \cup {"free", "confirm", "ack", "swap"}
  /\ row.acked \in BOOLEAN /\ row.resolved \in BOOLEAN /\ row.closed \in BOOLEAN
  /\ writes \in 0 .. MaxWrites /\ errors \in 0 .. MaxErrors

\* However many taps race each other, the escalation loop and the rule engine, an
\* acknowledgement is recorded once: each that was recorded is on the incident, or a
\* write of an older copy took it off, which is what the finding of
\* Ack_erased_by_clear says of resolve and update.  Whoever reads that it is
\* acknowledged or over is not misled but by such a write.
AckedOnce ==
  /\ audits = erased + One(row.acked)
  /\ \A q \in Requests : req[q].at \in {"done", "already"} =>
       row.acked \/ row.closed \/ erased > 0 \/ reopened

\* A source is refused only for what it has sent: since some request of its own it was
\* let through as often as the burst and the refills since allow (a remainder is not
\* thrown away, ratelimit.go:102).
RefusedForItsOwn ==
  \A q \in Requests : req[q].at = "refused" =>
    LET times == served[req[q].source]
    IN  \E i \in DOMAIN times :
          /\ times[i] <= req[q].when
          /\ Cardinality({j \in DOMAIN times : j >= i /\ times[j] <= req[q].when})
               >= Burst + (req[q].when - times[i]) \div Refill
=============================================================================
