-------------------------- MODULE Requests_proofs ---------------------------
(***************************************************************************)
(* Theorems about what others ask of the daemon, one section per part.     *)
(* Each part has an invariant of its own, which its initial states satisfy *)
(* and its steps keep; a theorem of Requests follows since a behaviour is  *)
(* of one part.                                                            *)
(***************************************************************************)
EXTENDS Requests, Sequences, FiniteSetTheorems, TLAPS

\* A behaviour stays with its subject, and its steps are the subject's.
LEMMA StepsOfSubject ==
  [Next]_vars =>
    /\ subject' = subject
    /\ subject = "link" => [Link!Next]_(Link!vars)
    /\ subject = "pairing" => [Pair!Next]_(Pair!vars)
    /\ subject = "signed" => [Signed!Next]_(Signed!vars)
    /\ subject = "web" => [Web!Next]_(Web!vars)
    /\ subject = "ack" => [Ack!Next]_(Ack!vars)
    /\ subject = "inbound" => [Inbound!Next]_(Inbound!vars)
    /\ subject = "form" => [Form!Next]_(Form!vars)
<1> SUFFICES ASSUME [Next]_vars
             PROVE  /\ subject' = subject
                    /\ subject = "link" => [Link!Next]_(Link!vars)
                    /\ subject = "pairing" => [Pair!Next]_(Pair!vars)
                    /\ subject = "signed" => [Signed!Next]_(Signed!vars)
                    /\ subject = "web" => [Web!Next]_(Web!vars)
                    /\ subject = "ack" => [Ack!Next]_(Ack!vars)
                    /\ subject = "inbound" => [Inbound!Next]_(Inbound!vars)
                    /\ subject = "form" => [Form!Next]_(Form!vars)
  OBVIOUS
<1>1. CASE Next
  BY <1>1 DEF Next, LinkSteps, PairSteps, SignedSteps, WebSteps, AckSteps, InboundSteps, FormSteps
<1>2. CASE UNCHANGED vars
  <2>1. UNCHANGED <<subject, linkVars, pairVars, signedVars, webVars, ackVars, inboundVars, formVars>>
    BY <1>2 DEF vars
  <2>2. UNCHANGED Link!vars
    BY <2>1 DEF linkVars, Link!vars, Link!peer, Link!history
  <2>3. UNCHANGED Pair!vars
    BY <2>1 DEF pairVars, Pair!vars, Pair!bounds
  <2>4. UNCHANGED Signed!vars
    BY <2>1 DEF signedVars, Signed!vars, Signed!bounds, Signed!history, Signed!asking
  <2>5. UNCHANGED Web!vars
    BY <2>1 DEF webVars, Web!vars
  <2>6. UNCHANGED <<Ack!vars, Inbound!vars, Form!vars>>
    BY <2>1 DEF ackVars, Ack!vars, Ack!others, inboundVars, Inbound!vars, formVars, Form!vars
  <2> QED
    BY <2>1, <2>2, <2>3, <2>4, <2>5, <2>6
<1> QED
  BY <1>1, <1>2

-----------------------------------------------------------------------------
(* The acknowledgement page (AckLink).                                     *)

AckRows == [version : Nat, acked : BOOLEAN, resolved : BOOLEAN, closed : BOOLEAN]
AckTaps == [at : {"confirm", "ack", "swap"}, right : BOOLEAN, tries : Nat, seen : AckRows]
AckRequests ==
  [at : Ack!Rendered \cup {"free"}] \cup
  [at : {"refused"}, source : Sources, when : Int] \cup
  AckTaps

AckTypesOK ==
  /\ now_ack \in Int /\ row \in AckRows /\ copies \in [Writers -> AckRows]
  /\ req_ack \in [Taps -> AckRequests]
  /\ audits \in Nat /\ writes \in Nat /\ erased \in Int /\ reopened \in BOOLEAN

\* A row anyone may still write back, or swap.
AckHeld(r) ==
  \/ r = row
  \/ \E w \in Writers : r = copies[w] /\ r # Ack!NoCopy
  \/ \E q \in Taps : req_ack[q].at = "swap" /\ r = req_ack[q].seen

\* The versions there have been: each is of one write or one acknowledgement.
AckVersioned(r) ==
  r \in AckRows /\ r.version <= 1 + writes + audits /\ (r.acked => audits >= 1)

\* A request about to swap read a row that was neither acknowledged nor over; where a
\* write left its copy's version, it left the acknowledgement of that version too.
\* So a swap that goes through finds a row that is not acknowledged.
AckSafe ==
  /\ AckTypesOK
  /\ \A r : AckHeld(r) => AckVersioned(r)
  /\ \A r, s : AckHeld(r) /\ AckHeld(s) /\ r.version = s.version => r.acked = s.acked
  /\ \A q \in Taps : req_ack[q].at = "swap" => ~req_ack[q].seen.acked /\ ~req_ack[q].seen.closed
  /\ audits = erased + Ack!One(row.acked)
  /\ \A q \in Taps : req_ack[q].at \in {"done", "already"} => audits >= 1 \/ row.closed \/ reopened

LEMMA AckInit == Ack!Init => AckSafe
<1> SUFFICES ASSUME Ack!Init PROVE AckSafe
  OBVIOUS
<1> PICK none : none = [version |-> 0, acked |-> FALSE, resolved |-> FALSE, closed |-> FALSE]
  OBVIOUS
<1>1. /\ none \in AckRows /\ row = [none EXCEPT !.version = 1] /\ copies = [w \in Writers |-> none]
      /\ now_ack = 0 /\ audits = 0 /\ writes = 0 /\ erased = 0 /\ reopened = FALSE
      /\ req_ack = [q \in Taps |-> [at |-> "free"]]
  BY DEF Ack!Init, Ack!NoCopy, AckRows
<1>2. row \in AckRows /\ ~row.acked /\ row.version = 1 /\ ~none.acked /\ none.version = 0
  BY <1>1 DEF AckRows
<1>3. AckTypesOK
  <2>1. req_ack \in [Taps -> AckRequests]
    BY <1>1 DEF AckRequests
  <2>2. copies \in [Writers -> AckRows]
    BY <1>1
  <2>3. reopened \in BOOLEAN
    BY <1>1, Zenon
  <2> QED
    BY <1>1, <1>2, <2>1, <2>2, <2>3 DEF AckTypesOK
<1>4. \A r : AckHeld(r) => r = row
  BY <1>1 DEF AckHeld, Ack!NoCopy
<1>5. AckVersioned(row)
  BY <1>1, <1>2 DEF AckVersioned
<1>6. audits = erased + Ack!One(row.acked)
  BY <1>1, <1>2 DEF Ack!One
<1>7. \A q \in Taps : req_ack[q].at = "free"
  BY <1>1
<1> QED
  BY <1>3, <1>4, <1>5, <1>6, <1>7 DEF AckSafe

LEMMA AckOne == Ack!One(TRUE) = 1 /\ Ack!One(FALSE) = 0
  BY DEF Ack!One

\* No row is held that was not, and none counts more than before.
LEMMA AckNothingNew ==
  ASSUME AckSafe, AckTypesOK', \A r : AckHeld(r)' => AckHeld(r),
         UNCHANGED <<row, audits, writes, erased, reopened>>,
         \A q \in Taps : req_ack'[q].at = "swap" => ~req_ack'[q].seen.acked /\ ~req_ack'[q].seen.closed,
         \A q \in Taps : req_ack'[q].at \in {"done", "already"} => audits >= 1 \/ row.closed \/ reopened
  PROVE  AckSafe'
<1>1. \A r : AckVersioned(r) => AckVersioned(r)'
  BY DEF AckVersioned
<1> QED
  BY <1>1 DEF AckSafe

\* A handler that gets to a page or a step other than the swap disturbs nothing.
LEMMA AckElsewhere ==
  ASSUME AckSafe, UNCHANGED <<now_ack, row, copies, audits, writes, erased, reopened>>,
         NEW q \in Taps, NEW r \in AckRequests,
         req_ack' = [req_ack EXCEPT ![q] = r],
         r.at # "swap", r.at \in {"done", "already"} => audits >= 1 \/ row.closed \/ reopened
  PROVE  AckSafe'
<1>1. /\ req_ack' \in [Taps -> AckRequests] /\ req_ack'[q] = r
      /\ \A p \in Taps : p # q => req_ack'[p] = req_ack[p]
  BY DEF AckSafe, AckTypesOK
<1>2. AckTypesOK'
  BY <1>1 DEF AckSafe, AckTypesOK
<1>3. \A s : AckHeld(s)' => AckHeld(s)
  BY <1>1 DEF AckHeld
<1> QED
  BY <1>1, <1>2, <1>3, AckNothingNew DEF AckSafe

LEMMA AckRendered ==
  ASSUME NEW page \in Ack!Rendered \cup {"free"}
  PROVE  [at |-> page] \in AckRequests /\ [at |-> page].at = page
  BY DEF AckTaps, AckRequests

LEMMA AckArrive ==
  ASSUME AckSafe, NEW q \in Taps, NEW s \in Sources, NEW kind, Ack!Arrive(q, s, kind)
  PROVE  AckSafe'
<1> DEFINE refusal == [at |-> "refused", source |-> s, when |-> now_ack]
           entry == [at |-> IF kind[1] = "GET" THEN "confirm" ELSE "ack",
                     right |-> kind[2] = "right", tries |-> 0, seen |-> Ack!NoCopy]
<1>1. UNCHANGED <<now_ack, row, copies, audits, writes, erased, reopened>>
  BY DEF Ack!Arrive, Ack!others
<1>2. \/ req_ack' = [req_ack EXCEPT ![q] = [at |-> "invalid"]]
      \/ req_ack' = [req_ack EXCEPT ![q] = refusal]
      \/ req_ack' = [req_ack EXCEPT ![q] = entry]
  BY DEF Ack!Arrive, Ack!Render
<1>3. refusal \in AckRequests /\ refusal.at = "refused"
  BY DEF AckTaps, AckRequests, AckSafe, AckTypesOK
<1>4. entry \in AckRequests /\ entry.at \in {"confirm", "ack"}
  <2>1. Ack!NoCopy \in AckRows
    BY DEF Ack!NoCopy, AckRows
  <2> QED
    BY <2>1 DEF AckTaps, AckRequests
<1>5. [at |-> "invalid"] \in AckRequests /\ [at |-> "invalid"].at = "invalid"
  BY AckRendered DEF Ack!Rendered
<1> HIDE DEF refusal, entry
<1> QED
  BY <1>1, <1>2, <1>3, <1>4, <1>5, AckElsewhere

\* A page that says what was read of the row.
LEMMA AckConfirm ==
  ASSUME AckSafe, NEW q \in Taps, Ack!Confirm(q)
  PROVE  AckSafe'
<1>1. UNCHANGED <<now_ack, row, copies, audits, writes, erased, reopened>>
  BY DEF Ack!Confirm, Ack!others
<1>2. row.acked => audits >= 1
  BY DEF AckSafe, AckHeld, AckVersioned
<1>3. PICK page \in {"invalid", "already", "button"} :
        /\ req_ack' = [req_ack EXCEPT ![q] = [at |-> page]]
        /\ page = "already" => row.acked
  BY DEF Ack!Confirm, Ack!Refused, Ack!Render
<1> QED
  BY <1>1, <1>2, <1>3, AckElsewhere, AckRendered DEF Ack!Rendered

LEMMA AckRead ==
  ASSUME AckSafe, NEW q \in Taps, Ack!Read(q)
  PROVE  AckSafe'
<1>1. UNCHANGED <<now_ack, row, copies, audits, writes, erased, reopened>> /\ req_ack[q].at = "ack"
  BY DEF Ack!Read, Ack!others
<1>2. AckHeld(row) /\ (row.acked => audits >= 1)
  BY DEF AckSafe, AckHeld, AckVersioned
<1>3. CASE \E page \in {"invalid", "already"} :
             /\ req_ack' = [req_ack EXCEPT ![q] = [at |-> page]]
             /\ page = "already" => row.acked \/ row.closed
  BY <1>1, <1>2, <1>3, AckElsewhere, AckRendered DEF Ack!Rendered
<1>4. CASE ~row.acked /\ ~row.closed /\ req_ack' = [req_ack EXCEPT ![q].at = "swap", ![q].seen = row]
  <2>1. req_ack[q] \in AckTaps
    BY <1>1 DEF AckSafe, AckTypesOK, AckTaps, AckRequests, Ack!Rendered
  <2> DEFINE r == [req_ack[q] EXCEPT !.at = "swap", !.seen = row]
  <2>2. req_ack' = [req_ack EXCEPT ![q] = r]
    BY <1>4, <2>1 DEF AckSafe, AckTypesOK
  <2>3. r \in AckRequests /\ r.at = "swap" /\ r.seen = row
    BY <2>1 DEF AckSafe, AckTypesOK, AckTaps, AckRequests
  <2> HIDE DEF r
  <2>4. req_ack' \in [Taps -> AckRequests] /\ req_ack'[q] = r
        /\ \A p \in Taps : p # q => req_ack'[p] = req_ack[p]
    BY <2>2, <2>3 DEF AckSafe, AckTypesOK
  <2>5. AckTypesOK'
    BY <1>1, <2>4 DEF AckSafe, AckTypesOK
  <2>6. \A s : AckHeld(s)' => AckHeld(s)
    BY <1>1, <2>3, <2>4 DEF AckHeld
  <2> QED
    BY <1>1, <1>4, <2>3, <2>4, <2>5, <2>6, AckNothingNew DEF AckSafe
<1>5. CASE /\ ~(row.acked \/ Ack!Terminal(row))
           /\ req_ack' = [req_ack EXCEPT ![q].at = "swap", ![q].seen = row]
  BY <1>4, <1>5 DEF Ack!Terminal
<1>6. CASE row.acked \/ Ack!Terminal(row)
  <2>1. row.acked \/ row.closed
    BY <1>6 DEF Ack!Terminal
  <2> QED
    BY <1>3, <1>6, <2>1 DEF Ack!Read, Ack!Refused, Ack!Render
<1>7. CASE Ack!Refused(q)
  BY <1>3, <1>7 DEF Ack!Refused, Ack!Render
<1> QED
  BY <1>5, <1>6, <1>7 DEF Ack!Read

LEMMA AckTake ==
  ASSUME AckSafe, NEW w \in Writers, Ack!Take(w)
  PROVE  AckSafe'
<1>1. /\ UNCHANGED <<now_ack, row, req_ack, audits, writes, erased, reopened>>
      /\ copies' = [copies EXCEPT ![w] = row]
  BY DEF Ack!Take
<1>2. AckTypesOK'
  BY <1>1 DEF AckSafe, AckTypesOK
<1>3. \A r : AckHeld(r)' => AckHeld(r)
  BY <1>1 DEF AckHeld, AckSafe, AckTypesOK
<1> QED
  BY <1>1, <1>2, <1>3, AckNothingNew DEF AckSafe

LEMMA OneMore ==
  ASSUME NEW a \in Nat, NEW b \in Nat, NEW c \in Nat, NEW d \in Nat, c + d >= 1 + a + b
  PROVE  2 + a + b <= 1 + c + d
OBVIOUS

\* A write puts a row there of a version of its own, or one that says of the
\* acknowledgement what its version says.
LEMMA AckWritten ==
  ASSUME AckSafe, AckTypesOK', NEW r, row' = r, NEW c, AckHeld(c), r \in AckRows, audits <= audits', writes <= writes',
         \/ r.version = c.version /\ r.acked = c.acked
         \/ r.version = 2 + writes + audits /\ writes' + audits' >= 1 + writes + audits,
         r.acked => audits' >= 1,
         \A s : AckHeld(s)' => s = r \/ AckHeld(s)
  PROVE  /\ \A s : AckHeld(s)' => AckVersioned(s)'
         /\ \A s, t : AckHeld(s)' /\ AckHeld(t)' /\ s.version = t.version => s.acked = t.acked
<1>0. audits \in Nat /\ writes \in Nat /\ audits' \in Nat /\ writes' \in Nat
  BY DEF AckSafe, AckTypesOK
<1>1. \A s : AckHeld(s) => s.version \in Nat /\ s.version <= 1 + writes + audits
  BY DEF AckSafe, AckVersioned, AckRows
<1>2. \A s : AckHeld(s) => AckVersioned(s)'
  <2>1. \A s : AckHeld(s) => AckVersioned(s)
    BY DEF AckSafe
  <2> QED
    BY <1>0, <1>1, <2>1 DEF AckVersioned
<1>3. AckVersioned(r)'
  <2>1. c.version \in Nat /\ c.version <= 1 + writes + audits
    BY <1>1
  <2>2. r.version <= 1 + writes' + audits'
    <3>1. CASE r.version = c.version
      BY <1>0, <2>1, <3>1
    <3>2. CASE r.version = 2 + writes + audits /\ writes' + audits' >= 1 + writes + audits
      <4>1. 2 + writes + audits <= 1 + writes' + audits'
        BY <1>0, <3>2, OneMore
      <4> QED
        BY <3>2, <4>1
    <3> QED
      BY <3>1, <3>2
  <2> QED
    BY <2>2 DEF AckVersioned
<1>4. \A s : AckHeld(s) /\ s.version = r.version => s.acked = r.acked
  <2>1. CASE r.version = c.version /\ r.acked = c.acked
    BY <2>1 DEF AckSafe
  <2>2. CASE r.version = 2 + writes + audits
    BY <1>0, <1>1, <2>2
  <2> QED
    BY <2>1, <2>2
<1>5. \A s, t : AckHeld(s) /\ AckHeld(t) /\ s.version = t.version => s.acked = t.acked
  BY DEF AckSafe
<1> QED
  BY <1>2, <1>3, <1>4, <1>5

LEMMA AckWriteBack ==
  ASSUME AckSafe, NEW w \in Writers, NEW resolved \in BOOLEAN, NEW closed \in BOOLEAN,
         copies[w] # Ack!NoCopy, Ack!WriteBack(w, resolved, closed)
  PROVE  AckSafe'
<1> PICK c : c = copies[w]
  OBVIOUS
<1>1. PICK v \in {c.version, 2 + writes + audits} :
        row' = [c EXCEPT !.version = v, !.resolved = @ \/ resolved, !.closed = @ \/ closed]
  BY DEF Ack!WriteBack, Ack!NextVersion
<1>2. /\ writes' = writes + 1 /\ erased' = erased + Ack!One(row.acked) - Ack!One(c.acked)
      /\ reopened' = (reopened \/ (row.closed /\ ~row'.closed))
      /\ copies' = [copies EXCEPT ![w] = Ack!NoCopy]
      /\ UNCHANGED <<now_ack, req_ack, audits>>
  BY DEF Ack!WriteBack
<1>3. c \in AckRows /\ AckHeld(c) /\ AckVersioned(c)
  BY DEF AckSafe, AckTypesOK, AckHeld
<1>4. /\ row' = [version |-> v, acked |-> c.acked, resolved |-> c.resolved \/ resolved,
                 closed |-> c.closed \/ closed]
      /\ row'.version = v /\ row'.acked = c.acked
  BY <1>1, <1>3 DEF AckRows
<1>5. audits \in Nat /\ writes \in Nat /\ erased \in Int /\ row.acked \in BOOLEAN /\ c.acked \in BOOLEAN
  BY <1>3 DEF AckSafe, AckTypesOK, AckRows
<1>6. row' \in AckRows
  <2>1. v \in Nat
    BY <1>3, <1>5 DEF AckRows
  <2>2. (c.resolved \/ resolved) \in BOOLEAN /\ (c.closed \/ closed) \in BOOLEAN
    OBVIOUS
  <2> QED
    BY <1>4, <1>5, <2>1, <2>2 DEF AckRows
<1>7. AckTypesOK'
  <2>1. erased' \in Int /\ writes' \in Nat
    BY <1>2, <1>5, AckOne
  <2>2. copies' \in [Writers -> AckRows]
    BY <1>2 DEF AckSafe, AckTypesOK, Ack!NoCopy, AckRows
  <2>3. reopened' \in BOOLEAN
    BY <1>2, Zenon
  <2> QED
    BY <1>2, <1>6, <2>1, <2>2, <2>3 DEF AckSafe, AckTypesOK
<1>8. \A s : AckHeld(s)' => s = row' \/ AckHeld(s)
  BY <1>2 DEF AckSafe, AckTypesOK, AckHeld
<1>9. row'.version = 2 + writes + audits => writes' + audits' >= 1 + writes + audits
  BY <1>2, <1>5
<1>10. /\ \A s : AckHeld(s)' => AckVersioned(s)'
       /\ \A s, t : AckHeld(s)' /\ AckHeld(t)' /\ s.version = t.version => s.acked = t.acked
  <2>1. audits <= audits' /\ writes <= writes'
    BY <1>2, <1>5
  <2>2. row'.acked => audits' >= 1
    BY <1>2, <1>3, <1>4 DEF AckVersioned
  <2>3. \/ row'.version = c.version /\ row'.acked = c.acked
        \/ row'.version = 2 + writes + audits /\ writes' + audits' >= 1 + writes + audits
    BY <1>4, <1>9
  <2> PICK r : r = row'
    OBVIOUS
  <2> QED
    BY <1>3, <1>6, <1>7, <1>8, <2>1, <2>2, <2>3, AckWritten
<1>11. audits' = erased' + Ack!One(row.acked)'
  <2>1. Ack!One(row.acked)' = Ack!One(c.acked)
    BY <1>4 DEF Ack!One
  <2>2. Ack!One(row.acked) \in Int /\ Ack!One(c.acked) \in Int
    BY DEF Ack!One
  <2> QED
    BY <1>2, <1>5, <2>1, <2>2 DEF AckSafe
<1>12. row.closed \/ reopened => row'.closed \/ reopened'
  BY <1>2
<1> QED
  BY <1>2, <1>7, <1>10, <1>11, <1>12 DEF AckSafe

LEMMA AckRetried ==
  ASSUME NEW r \in AckTaps, NEW next, next = [r EXCEPT !.at = "ack", !.tries = @ + 1]
  PROVE  next \in AckTaps /\ next.at = "ack"
<1>1. next = [at |-> "ack", right |-> r.right, tries |-> r.tries + 1, seen |-> r.seen]
  BY DEF AckTaps
<1>2. r.right \in BOOLEAN /\ r.tries + 1 \in Nat /\ r.seen \in AckRows
  BY DEF AckTaps
<1> QED
  BY <1>1, <1>2 DEF AckTaps

LEMMA AckSwap ==
  ASSUME AckSafe, NEW q \in Taps, Ack!Swap(q)
  PROVE  AckSafe'
<1> PICK c : c = req_ack[q].seen
  OBVIOUS
<1>1. /\ req_ack[q].at = "swap" /\ UNCHANGED <<now_ack, copies, erased, writes>>
      /\ req_ack[q] \in AckTaps
  BY DEF Ack!Swap, AckSafe, AckTypesOK, AckTaps, AckRequests, Ack!Rendered
<1>2. CASE UNCHANGED <<row, audits, reopened>> /\ Ack!Render(q, "error")
  BY <1>1, <1>2, AckElsewhere, AckRendered DEF Ack!Rendered, Ack!Render
<1>3. CASE /\ UNCHANGED <<row, audits, reopened>>
           /\ req_ack' = [req_ack EXCEPT ![q].at = "ack", ![q].tries = @ + 1]
  <2> DEFINE r == [req_ack[q] EXCEPT !.at = "ack", !.tries = @ + 1]
  <2>1. r \in AckTaps /\ r.at = "ack"
    BY <1>1, AckRetried
  <2>2. req_ack' = [req_ack EXCEPT ![q] = r]
    BY <1>3, <1>1 DEF AckSafe, AckTypesOK
  <2> HIDE DEF r
  <2> QED
    BY <1>1, <1>3, <2>1, <2>2, AckElsewhere DEF AckRequests
<1>4. CASE /\ Ack!Unchanged(q) /\ row' = [c EXCEPT !.version = 2 + writes + audits, !.acked = TRUE]
           /\ audits' = audits + 1 /\ Ack!Render(q, "done")
           /\ reopened' = (reopened \/ (row.closed /\ ~row'.closed))
  <2>1. c \in AckRows /\ AckHeld(c) /\ AckHeld(row) /\ c.version = row.version /\ ~c.acked
    BY <1>1, <1>4 DEF AckHeld, AckSafe, AckTaps, Ack!Unchanged
  <2>2. ~row.acked /\ row.acked \in BOOLEAN
    BY <2>1 DEF AckSafe, AckTypesOK, AckRows
  <2>3. audits \in Nat /\ writes \in Nat /\ erased \in Int /\ audits = erased
    <3>1. Ack!One(row.acked) = 0
      BY <2>2 DEF Ack!One
    <3> QED
      BY <3>1 DEF AckSafe, AckTypesOK
  <2>4. row' \in AckRows /\ row'.version = 2 + writes + audits /\ row'.acked = TRUE
    <3>1. row' = [version |-> 2 + writes + audits, acked |-> TRUE, resolved |-> c.resolved,
                  closed |-> c.closed]
      BY <1>4, <2>1 DEF AckRows
    <3> QED
      BY <2>1, <2>3, <3>1 DEF AckRows
  <2>5. req_ack' = [req_ack EXCEPT ![q] = [at |-> "done"]]
    BY <1>4 DEF Ack!Render
  <2>6. req_ack' \in [Taps -> AckRequests] /\ req_ack'[q].at = "done"
        /\ \A p \in Taps : p # q => req_ack'[p] = req_ack[p]
    BY <2>5, AckRendered DEF AckSafe, AckTypesOK, Ack!Rendered
  <2>7. AckTypesOK'
    <3>1. reopened' \in BOOLEAN
      BY <1>4, Zenon
    <3> QED
      BY <1>1, <1>4, <2>3, <2>4, <2>6, <3>1 DEF AckSafe, AckTypesOK
  <2>8. \A s : AckHeld(s)' => s = row' \/ AckHeld(s)
    BY <1>1, <2>6 DEF AckHeld
  <2>9. /\ \A s : AckHeld(s)' => AckVersioned(s)'
        /\ \A s, t : AckHeld(s)' /\ AckHeld(t)' /\ s.version = t.version => s.acked = t.acked
    <3> PICK r : r = row'
      OBVIOUS
    <3>1. /\ audits <= audits' /\ writes <= writes' /\ audits' >= 1
          /\ writes' + audits' >= 1 + writes + audits
      BY <1>1, <1>4, <2>3
    <3> QED
      BY <2>1, <2>4, <2>7, <2>8, <3>1, AckWritten
  <2>10. audits' = erased' + Ack!One(row.acked)'
    <3>1. Ack!One(row.acked)' = 1
      BY <2>4 DEF Ack!One
    <3> QED
      BY <1>1, <1>4, <2>3, <3>1
  <2>11. audits' >= 1
    BY <1>4, <2>3
  <2> QED
    BY <2>6, <2>7, <2>9, <2>10, <2>11 DEF AckSafe
<1> QED
  BY <1>1, <1>2, <1>3, <1>4 DEF Ack!Swap, Ack!Render, Ack!NextVersion

LEMMA AckStep == AckSafe /\ [Ack!Next]_(Ack!vars) => AckSafe'
<1> SUFFICES ASSUME AckSafe, [Ack!Next]_(Ack!vars) PROVE AckSafe'
  OBVIOUS
<1>1. CASE Ack!Elapse \/ UNCHANGED Ack!vars
  <2>1. UNCHANGED <<row, copies, req_ack, audits, writes, erased, reopened>>
    BY <1>1 DEF Ack!Elapse, Ack!vars, Ack!others
  <2>2. now_ack' \in Int
    BY <1>1 DEF AckSafe, AckTypesOK, Ack!Elapse, Ack!vars
  <2>3. AckTypesOK' /\ \A s : AckHeld(s)' => AckHeld(s)
    BY <2>1, <2>2 DEF AckSafe, AckTypesOK, AckHeld
  <2> QED
    BY <2>1, <2>3, AckNothingNew DEF AckSafe
<1>2. ASSUME NEW w \in Writers, NEW resolved \in BOOLEAN, NEW closed \in BOOLEAN,
             Ack!Put(w, resolved, closed) \/ Ack!Commit(w, closed)
      PROVE  AckSafe'
  <2>1. copies[w] # Ack!NoCopy /\ \E b \in BOOLEAN : Ack!WriteBack(w, b, closed)
    BY <1>2 DEF Ack!Put, Ack!Commit
  <2> QED
    BY <2>1, AckWriteBack
<1> QED
  BY <1>1, <1>2, AckArrive, AckConfirm, AckRead, AckSwap, AckTake DEF Ack!Next

\* However many taps race each other, the escalation loop and the rule engine, an
\* acknowledgement is recorded once, stays on the incident but for a write of an older
\* copy, and a page says nothing else but by such a write (ack.Handler,
\* PutIfUnchanged; rule.Engine.resolve and update).
THEOREM AckedOnceSafe == Spec => []AckedOnce
<1> DEFINE Inv == subject = "ack" => AckSafe
<1>1. Init => Inv
  BY AckInit DEF Init
<1>2. Inv /\ [Next]_vars => Inv'
  BY StepsOfSubject, AckStep
<1>3. AckSafe => Ack!AckedOnce
  <2> SUFFICES ASSUME AckSafe PROVE Ack!AckedOnce
    OBVIOUS
  <2>1. audits \in Nat /\ row.acked \in BOOLEAN /\ erased \in Int
    BY DEF AckSafe, AckTypesOK, AckRows
  <2>2. audits >= 1 => row.acked \/ erased > 0
    <3>1. ~row.acked => Ack!One(row.acked) = 0
      BY DEF Ack!One
    <3> QED
      BY <2>1, <3>1 DEF AckSafe
  <2> QED
    BY <2>2 DEF AckSafe, Ack!AckedOnce
<1>4. Inv => AckedOnce
  BY <1>3 DEF AckedOnce
<1> QED
  BY <1>1, <1>2, <1>4, PTL DEF Spec

AckBuckets == [tokens : 0 .. Burst, last : 0 .. now_ack]

\* The table holds a bucket for finitely many sources, and no more than it may.
AckTables ==
  /\ now_ack \in 0 .. Horizon_ack
  /\ buckets \in [DOMAIN buckets -> AckBuckets]
  /\ IsFiniteSet(DOMAIN buckets) /\ Cardinality(DOMAIN buckets) <= MaxSources
  /\ writes \in 0 .. MaxWrites /\ errors \in 0 .. MaxErrors

LEMMA CardinalityOfAck == ASSUME NEW S PROVE Ack!Cardinality(S) = Cardinality(S)
  BY DEF Ack!Cardinality, Cardinality

\* Refilling counts whole tokens, and the rest of the time stays to be counted.
LEMMA WholeTokens ==
  ASSUME NEW n \in Nat, NEW d \in Nat \ {0}
  PROVE  n \div d \in Nat /\ (n \div d) * d \in Nat /\ (n \div d) * d <= n
  OBVIOUS

LEMMA FilledOK ==
  ASSUME now_ack \in 0 .. Horizon_ack, NEW b \in AckBuckets
  PROVE  Ack!Filled(b) \in AckBuckets
<1> DEFINE gained == (now_ack - b.last) \div Refill
           left == IF b.tokens + gained > Burst THEN Burst ELSE b.tokens + gained
           from == b.last + gained * Refill
<1>1. b.tokens \in 0 .. Burst /\ b.last \in 0 .. now_ack /\ now_ack \in Nat /\ Burst \in Nat
  BY AckAssumption DEF AckBuckets
<1>2. gained \in Nat /\ gained * Refill \in Nat /\ gained * Refill <= now_ack - b.last
  <2>1. now_ack - b.last \in Nat
    BY <1>1
  <2> QED
    BY <2>1, WholeTokens, AckAssumption
<1> HIDE DEF gained
<1>3. left \in 0 .. Burst
  BY <1>1, <1>2
<1>4. from \in 0 .. now_ack
  <2> DEFINE g == gained * Refill
  <2>1. g \in Nat /\ g <= now_ack - b.last
    BY <1>2
  <2> HIDE DEF g
  <2>2. b.last + g \in 0 .. now_ack
    BY <1>1, <2>1
  <2> QED
    BY <2>2 DEF g
<1>5. Ack!Filled(b) = IF gained = 0 THEN b ELSE [tokens |-> left, last |-> from]
  BY DEF Ack!Filled, gained
<1> HIDE DEF left, from
<1> QED
  BY <1>3, <1>4, <1>5 DEF AckBuckets

LEMMA FreshOK ==
  ASSUME now_ack \in 0 .. Horizon_ack PROVE Ack!Fresh \in AckBuckets
  BY AckAssumption DEF Ack!Fresh, AckBuckets

\* The table a source's bucket is in is within its bound: one that is full is dropped.
LEMMA TrackedOK ==
  ASSUME AckTables, NEW s
  PROVE  /\ s \in DOMAIN Ack!Tracked(s)
         /\ Ack!Tracked(s) \in [DOMAIN Ack!Tracked(s) -> AckBuckets]
         /\ IsFiniteSet(DOMAIN Ack!Tracked(s))
         /\ Cardinality(DOMAIN Ack!Tracked(s)) <= MaxSources
<1>1. CASE s \in DOMAIN buckets
  BY <1>1 DEF AckTables, Ack!Tracked
<1>2. CASE s \notin DOMAIN buckets
  <2> DEFINE kept == IF Cardinality(DOMAIN buckets) >= MaxSources THEN {} ELSE DOMAIN buckets
  <2>1. Ack!Tracked(s) = [t \in kept \cup {s} |-> IF t = s THEN Ack!Fresh ELSE buckets[t]]
    BY <1>2, CardinalityOfAck DEF Ack!Tracked
  <2>2. IsFiniteSet(kept) /\ s \notin kept /\ kept \subseteq DOMAIN buckets
    BY <1>2, FS_EmptySet DEF AckTables
  <2>3. Cardinality(kept) \in Nat /\ Cardinality(kept) + 1 <= MaxSources
    <3>1. Cardinality(DOMAIN buckets) \in Nat /\ Cardinality({}) = 0
      BY FS_CardinalityType, FS_EmptySet DEF AckTables
    <3> QED
      BY <3>1, AckAssumption
  <2> HIDE DEF kept
  <2>4. IsFiniteSet(kept \cup {s}) /\ Cardinality(kept \cup {s}) = Cardinality(kept) + 1
    BY <2>2, FS_AddElement
  <2>5. Ack!Fresh \in AckBuckets
    BY FreshOK DEF AckTables
  <2> QED
    BY <2>1, <2>2, <2>3, <2>4, <2>5 DEF AckTables
<1> QED
  BY <1>1, <1>2

LEMMA AckTablesInit == Ack!Init => AckTables
<1> SUFFICES ASSUME Ack!Init PROVE AckTables
  OBVIOUS
<1>1. DOMAIN buckets = {}
  BY DEF Ack!Init
<1>2. IsFiniteSet(DOMAIN buckets) /\ Cardinality(DOMAIN buckets) = 0
  BY <1>1, FS_EmptySet
<1> QED
  BY <1>1, <1>2, AckAssumption DEF Ack!Init, AckTables

LEMMA AckTablesStep == AckTables /\ [Ack!Next]_(Ack!vars) => AckTables'
<1> SUFFICES ASSUME AckTables, [Ack!Next]_(Ack!vars) PROVE AckTables'
  OBVIOUS
<1>1. CASE Ack!Elapse
  <2>1. /\ now_ack' \in 0 .. Horizon_ack /\ now_ack \in 0 .. now_ack'
        /\ UNCHANGED <<buckets, writes, errors>>
    BY <1>1, AckAssumption DEF AckTables, Ack!Elapse, Ack!others
  <2>2. AckBuckets \subseteq AckBuckets'
    BY <2>1, AckAssumption DEF AckTables, AckBuckets
  <2> QED
    BY <2>1, <2>2 DEF AckTables
<1>2. ASSUME NEW w \in Writers, NEW resolved \in BOOLEAN, NEW closed \in BOOLEAN,
             Ack!Take(w) \/ Ack!Put(w, resolved, closed) \/ Ack!Commit(w, closed)
      PROVE  AckTables'
  <2>1. UNCHANGED <<now_ack, buckets, errors>>
    BY <1>2 DEF Ack!Take, Ack!Put, Ack!Commit, Ack!WriteBack
  <2>2. writes' = writes \/ (writes < MaxWrites /\ writes' = writes + 1)
    BY <1>2 DEF Ack!Take, Ack!Put, Ack!Commit, Ack!WriteBack
  <2>3. writes' \in 0 .. MaxWrites
    BY <2>2, AckAssumption DEF AckTables
  <2> QED
    BY <2>1, <2>3 DEF AckTables, AckBuckets
<1>3. ASSUME NEW q \in Taps, NEW s \in Sources, NEW kind, Ack!Arrive(q, s, kind)
      PROVE  AckTables'
  <2> DEFINE table == Ack!Tracked(s)
             b == Ack!Filled(table[s])
  <2>1. UNCHANGED <<now_ack, writes, errors>>
    BY <1>3 DEF Ack!Arrive, Ack!others
  <2>2. \/ buckets' = buckets
        \/ buckets' = [table EXCEPT ![s] = b]
        \/ b.tokens # 0 /\ buckets' = [table EXCEPT ![s] = [b EXCEPT !.tokens = @ - 1]]
    BY <1>3 DEF Ack!Arrive
  <2>3. b \in AckBuckets
    BY TrackedOK, FilledOK DEF AckTables
  <2>4. b.tokens # 0 => [b EXCEPT !.tokens = @ - 1] \in AckBuckets
    BY <2>3, AckAssumption DEF AckBuckets
  <2>5. AckBuckets' = AckBuckets
    BY <2>1 DEF AckBuckets
  <2> HIDE DEF b
  <2>6. CASE buckets' = buckets
    BY <2>1, <2>5, <2>6 DEF AckTables
  <2>7. ASSUME NEW c \in AckBuckets, buckets' = [table EXCEPT ![s] = c]
        PROVE  AckTables'
    BY <2>1, <2>5, <2>7, TrackedOK DEF AckTables
  <2> QED
    BY <2>2, <2>3, <2>4, <2>6, <2>7
<1>4. ASSUME NEW q \in Taps, Ack!Confirm(q) \/ Ack!Read(q) \/ Ack!Swap(q)
      PROVE  AckTables'
  <2>1. UNCHANGED <<now_ack, buckets, writes>>
    BY <1>4 DEF Ack!Confirm, Ack!Read, Ack!Swap, Ack!others
  <2>2. errors' = errors \/ (errors < MaxErrors /\ errors' = errors + 1)
    BY <1>4 DEF Ack!Confirm, Ack!Read, Ack!Swap, Ack!Refused
  <2>3. errors' \in 0 .. MaxErrors
    BY <2>2, AckAssumption DEF AckTables
  <2> QED
    BY <2>1, <2>3 DEF AckTables, AckBuckets
<1>5. CASE UNCHANGED Ack!vars
  BY <1>5 DEF Ack!vars, Ack!others, AckTables, AckBuckets
<1> QED
  BY <1>1, <1>2, <1>3, <1>4, <1>5 DEF Ack!Next

LEMMA AckTypes == AckSafe /\ AckTables => Ack!TypeOK
<1> SUFFICES ASSUME AckSafe, AckTables PROVE Ack!TypeOK
  OBVIOUS
<1>1. \A q \in Taps : req_ack[q].at \in Ack!Rendered \cup {"free", "confirm", "ack", "swap"}
  BY DEF AckSafe, AckTypesOK, AckRequests, AckTaps, Ack!Rendered
<1> QED
  BY <1>1, CardinalityOfAck DEF AckSafe, AckTypesOK, AckTables, AckBuckets, AckRows, Ack!TypeOK

-----------------------------------------------------------------------------
(* The inbound receiver (InboundReceiver).                                 *)

Receipts == [count : Int, lastAt : Int, testCount : Int, rejected : Int]
InboundRequests ==
  [at : {"free", "over"}] \cup
  [at : {"matched", "refused"}, hook : Hooks] \cup
  [at : {"pass", "undo"}, hook : Hooks, book : Inbound!Books, was : Int, when : Int]

InboundTypes ==
  /\ now_inbound \in Int /\ sets \in 0 .. MaxSets
  /\ hooks \in Inbound!Configurations
  /\ DOMAIN receipts \subseteq Hooks /\ \A n \in DOMAIN receipts : receipts[n] \in Inbound!Books
  /\ book \in [Inbound!Books -> Receipts]
  /\ request \in [Arrivals -> InboundRequests]
  /\ raised \in [Inbound!Books -> Int]

\* Each receipt counts what was passed on, and what is still under way; which
\* receipt that is was settled when the request was recorded.
InboundSafe == InboundTypes /\ Inbound!CountedIsRaised

Counting(b) == {q \in Arrivals : request[q].at \in {"pass", "undo"} /\ request[q].book = b}

LEMMA CardinalityOfInbound == ASSUME NEW S PROVE Inbound!Cardinality(S) = Cardinality(S)
  BY DEF Cardinality, Inbound!Cardinality

LEMMA ArrivalsFinite == IsFiniteSet(Arrivals)
  BY InboundAssumption DEF InboundAssumption

LEMMA CountingOK ==
  /\ \A b \in Inbound!Books : IsFiniteSet(Counting(b)) /\ Cardinality(Counting(b)) \in Nat
  /\ Inbound!CountedIsRaised <=>
       \A b \in Inbound!Books : book[b].count = raised[b] + Cardinality(Counting(b))
<1>1. ASSUME NEW b PROVE Inbound!UnderWay(b, {"pass", "undo"}) = Counting(b)
  BY DEF Inbound!UnderWay, Counting
<1>2. ASSUME NEW b \in Inbound!Books PROVE IsFiniteSet(Counting(b)) /\ Cardinality(Counting(b)) \in Nat
  <2>1. Counting(b) \in SUBSET Arrivals
    BY DEF Counting
  <2>2. IsFiniteSet(Counting(b))
    BY <2>1, ArrivalsFinite, FS_Subset
  <2> QED
    BY <2>2, FS_CardinalityType
<1> QED
  BY <1>1, <1>2, CardinalityOfInbound, Zenon DEF Inbound!CountedIsRaised

LEMMA CountingNext ==
  Inbound!CountedIsRaised' <=>
    \A b \in Inbound!Books : book'[b].count = raised'[b] + Cardinality(Counting(b)')
<1>1. ASSUME NEW b PROVE Inbound!UnderWay(b, {"pass", "undo"})' = Counting(b)'
  BY DEF Inbound!UnderWay, Counting
<1> QED
  BY <1>1, CardinalityOfInbound, Zenon DEF Inbound!CountedIsRaised, Inbound!Books

LEMMA InboundInit == Inbound!Init => InboundSafe
<1> SUFFICES ASSUME Inbound!Init PROVE InboundSafe
  OBVIOUS
<1>1. /\ now_inbound = 0 /\ sets = 0 /\ hooks \in Inbound!Configurations
      /\ receipts = [n \in DOMAIN hooks |-> <<1, n>>]
      /\ book = [b \in Inbound!Books |-> [count |-> 0, lastAt |-> -1000, testCount |-> 0, rejected |-> 0]]
      /\ request = [q \in Arrivals |-> [at |-> "free"]]
      /\ raised = [b \in Inbound!Books |-> 0]
  BY DEF Inbound!Init, Inbound!Receipt, Inbound!Never
<1>2. DOMAIN hooks \subseteq Hooks
  BY <1>1 DEF Inbound!Configurations
<1>3. 1 \in 1 .. (MaxSets + 1) /\ 0 \in 0 .. MaxSets
  BY InboundAssumption DEF InboundAssumption
<1>4. DOMAIN receipts \subseteq Hooks /\ \A n \in DOMAIN receipts : receipts[n] \in Inbound!Books
  BY <1>1, <1>2, <1>3 DEF Inbound!Books
<1>5. book \in [Inbound!Books -> Receipts] /\ raised \in [Inbound!Books -> Int]
  BY <1>1 DEF Receipts
<1>6. request \in [Arrivals -> InboundRequests]
  <2>1. [at |-> "free"] \in InboundRequests
    BY DEF InboundRequests
  <2> QED
    BY <1>1, <2>1
<1>7. InboundTypes
  BY <1>1, <1>3, <1>4, <1>5, <1>6 DEF InboundTypes
<1>8. \A b \in Inbound!Books : Counting(b) = {}
  BY <1>1 DEF Counting
<1>9. \A b \in Inbound!Books : book[b].count = raised[b] + Cardinality(Counting(b))
  <2>1. \A b \in Inbound!Books : book[b].count = 0 /\ raised[b] = 0
    BY <1>1
  <2> QED
    BY <1>8, <2>1, FS_EmptySet
<1> QED
  BY <1>7, <1>9, CountingOK DEF InboundSafe

\* Which receipt a request is booked on.
LEMMA BookForOK ==
  ASSUME InboundTypes, NEW q \in Arrivals, request[q].at \in {"matched", "refused"}
  PROVE  /\ request[q].hook \in Hooks /\ Inbound!BookFor(q) \in Inbound!Books
         /\ DOMAIN Inbound!Booked(q) \subseteq Hooks
         /\ \A n \in DOMAIN Inbound!Booked(q) : Inbound!Booked(q)[n] \in Inbound!Books
<1>1. request[q].hook \in Hooks
  BY DEF InboundTypes, InboundRequests
<1>2. Inbound!BookFor(q) \in Inbound!Books
  BY DEF Inbound!BookFor, InboundTypes, Inbound!Books
<1>3. /\ Inbound!Booked(q) = [n \in DOMAIN receipts \cup {request[q].hook} |->
            IF n = request[q].hook THEN Inbound!BookFor(q) ELSE receipts[n]]
  BY DEF Inbound!Booked
<1> QED
  BY <1>1, <1>2, <1>3 DEF InboundTypes

\* A step that leaves the counts, and who is under way, as they were.
LEMMA NotCounting ==
  ASSUME Inbound!CountedIsRaised,
         \A b \in Inbound!Books : book'[b].count = book[b].count /\ raised'[b] = raised[b],
         \A q \in Arrivals :
            \/ request'[q] = request[q]
            \/ request[q].at \notin {"pass", "undo"} /\ request'[q].at \notin {"pass", "undo"}
  PROVE  Inbound!CountedIsRaised'
<1>1. \A b \in Inbound!Books : Counting(b)' = Counting(b)
  BY DEF Counting
<1>2. \A b \in Inbound!Books : book[b].count = raised[b] + Cardinality(Counting(b))
  BY CountingOK
<1>3. \A b \in Inbound!Books : book'[b].count = raised'[b] + Cardinality(Counting(b)')
  BY <1>1, <1>2
<1> QED
  BY <1>3, CountingNext

\* One that is done with: it was counted once.
LEMMA NoLongerCounting ==
  ASSUME InboundTypes, Inbound!CountedIsRaised, NEW q \in Arrivals, request[q].at \in {"pass", "undo"},
         request' = [request EXCEPT ![q] = [at |-> "over"]],
         \A b \in Inbound!Books :
            IF b = request[q].book THEN book'[b].count - raised'[b] = book[b].count - raised[b] - 1
                                   ELSE book'[b].count = book[b].count /\ raised'[b] = raised[b],
         book' \in [Inbound!Books -> Receipts], raised' \in [Inbound!Books -> Int]
  PROVE  Inbound!CountedIsRaised'
<1>1. \A b \in Inbound!Books :
        Counting(b)' = IF b = request[q].book THEN Counting(b) \ {q} ELSE Counting(b)
  BY DEF Counting, InboundTypes
<1>2. \A b \in Inbound!Books : book[b].count = raised[b] + Cardinality(Counting(b))
  BY CountingOK
<1>3. ASSUME NEW b \in Inbound!Books
      PROVE  book'[b].count = raised'[b] + Cardinality(Counting(b)')
  <2>1. /\ book[b].count \in Int /\ raised[b] \in Int /\ book'[b].count \in Int /\ raised'[b] \in Int
        /\ IsFiniteSet(Counting(b)) /\ Cardinality(Counting(b)) \in Nat
    BY CountingOK DEF InboundTypes, Receipts
  <2>2. CASE b = request[q].book
    <3>1. q \in Counting(b)
      BY <2>2 DEF Counting
    <3>2. Cardinality(Counting(b) \ {q}) = Cardinality(Counting(b)) - 1
      BY <2>1, <3>1, FS_RemoveElement
    <3>3. /\ Counting(b)' = Counting(b) \ {q} /\ book[b].count = raised[b] + Cardinality(Counting(b))
          /\ book'[b].count - raised'[b] = book[b].count - raised[b] - 1
      BY <1>1, <1>2, <2>2
    <3> QED
      BY <2>1, <3>2, <3>3
  <2>3. CASE b # request[q].book
    BY <1>1, <1>2, <2>1, <2>3
  <2> QED
    BY <2>2, <2>3
<1> QED
  BY <1>3, CountingNext

LEMMA RecordSafe == ASSUME InboundSafe, NEW q \in Arrivals, Inbound!Record(q) PROVE InboundSafe'
<1>1. /\ request[q].at = "matched" /\ request[q].hook \in Hooks
      /\ Inbound!BookFor(q) \in Inbound!Books
      /\ receipts' = Inbound!Booked(q)
      /\ UNCHANGED <<now_inbound, sets, hooks, raised>>
  BY BookForOK DEF Inbound!Record, InboundSafe
<1>2. PICK k \in Inbound!Books : k = Inbound!BookFor(q)
  BY <1>1
<1>3. book[k] \in Receipts /\ now_inbound \in Int
  BY DEF InboundSafe, InboundTypes
<1>4. PICK r : /\ r = [book[k] EXCEPT !.count = @ + 1, !.lastAt = now_inbound]
               /\ book' = [book EXCEPT ![k] = r]
  BY <1>2 DEF Inbound!Record, InboundSafe, InboundTypes
<1>5. r = [count |-> book[k].count + 1, lastAt |-> now_inbound,
           testCount |-> book[k].testCount, rejected |-> book[k].rejected]
  BY <1>3, <1>4 DEF Receipts
<1>6. r \in Receipts /\ r.count = book[k].count + 1
  BY <1>3, <1>5 DEF Receipts
<1>7. PICK at \in {"pass", "undo"} :
        request' = [request EXCEPT ![q] = [at |-> at, hook |-> request[q].hook, book |-> k,
                                           was |-> book[k].lastAt, when |-> now_inbound]]
  BY <1>2 DEF Inbound!Record
<1>8. /\ request' \in [Arrivals -> InboundRequests]
      /\ request'[q].at \in {"pass", "undo"} /\ request'[q].book = k
      /\ \A p \in Arrivals : p # q => request'[p] = request[p]
  <2>1. book[k].lastAt \in Int
    BY <1>3 DEF Receipts
  <2>2. [at |-> at, hook |-> request[q].hook, book |-> k, was |-> book[k].lastAt, when |-> now_inbound]
          \in InboundRequests
    BY <1>1, <1>3, <2>1 DEF InboundRequests
  <2> QED
    BY <1>7, <2>2 DEF InboundSafe, InboundTypes
<1>9. /\ book' \in [Inbound!Books -> Receipts] /\ book'[k].count = book[k].count + 1
      /\ \A b \in Inbound!Books : b # k => book'[b] = book[b]
  BY <1>4, <1>6 DEF InboundSafe, InboundTypes
<1>10. InboundTypes'
  BY <1>1, <1>8, <1>9, BookForOK DEF InboundSafe, InboundTypes, Inbound!Books
<1>11. \A b \in Inbound!Books : Counting(b)' = IF b = k THEN Counting(b) \cup {q} ELSE Counting(b)
  BY <1>1, <1>8 DEF Counting
<1>12. ASSUME NEW b \in Inbound!Books
       PROVE  book'[b].count = raised'[b] + Cardinality(Counting(b)')
  <2>1. /\ book[b].count = raised[b] + Cardinality(Counting(b))
        /\ IsFiniteSet(Counting(b)) /\ Cardinality(Counting(b)) \in Nat
        /\ book[b].count \in Int /\ raised[b] \in Int
    BY CountingOK DEF InboundSafe, InboundTypes, Receipts
  <2>2. CASE b = k
    <3>1. q \notin Counting(b)
      BY <1>1 DEF Counting
    <3>2. Cardinality(Counting(b) \cup {q}) = Cardinality(Counting(b)) + 1
      BY <2>1, <3>1, FS_AddElement
    <3>3. Counting(b)' = Counting(b) \cup {q} /\ book'[b].count = book[b].count + 1 /\ raised'[b] = raised[b]
      BY <1>1, <1>9, <1>11, <2>2
    <3> QED
      BY <2>1, <3>2, <3>3
  <2>3. CASE b # k
    <3>1. Counting(b)' = Counting(b) /\ book'[b] = book[b] /\ raised'[b] = raised[b]
      BY <1>1, <1>9, <1>11, <2>3
    <3> QED
      BY <2>1, <3>1
  <2> QED
    BY <2>2, <2>3
<1> QED
  BY <1>10, <1>12, CountingNext DEF InboundSafe

LEMMA DiscardSafe == ASSUME InboundSafe, NEW q \in Arrivals, Inbound!Discard(q) PROVE InboundSafe'
<1>1. /\ request[q].at = "undo" /\ request' = [request EXCEPT ![q] = [at |-> "over"]]
      /\ UNCHANGED <<now_inbound, sets, hooks, receipts, raised>>
  BY DEF Inbound!Discard
<1>2. request[q].book \in Inbound!Books /\ request[q].was \in Int
  BY <1>1 DEF InboundSafe, InboundTypes, InboundRequests
<1>3. PICK k \in Inbound!Books : k = request[q].book
  BY <1>2
<1>4. book[k] \in Receipts
  BY DEF InboundSafe, InboundTypes
<1>5. PICK r : /\ r = [book[k] EXCEPT !.testCount = @ + 1, !.count = @ - 1, !.lastAt = request[q].was]
               /\ book' = [book EXCEPT ![k] = r]
  BY <1>3 DEF Inbound!Discard, InboundSafe, InboundTypes
<1>6. r = [count |-> book[k].count - 1, lastAt |-> request[q].was,
           testCount |-> book[k].testCount + 1, rejected |-> book[k].rejected]
  BY <1>4, <1>5 DEF Receipts
<1>7. r \in Receipts /\ r.count = book[k].count - 1
  BY <1>2, <1>4, <1>6 DEF Receipts
<1>8. /\ book' \in [Inbound!Books -> Receipts] /\ book'[k].count = book[k].count - 1
      /\ \A b \in Inbound!Books : b # k => book'[b] = book[b]
  BY <1>5, <1>7 DEF InboundSafe, InboundTypes
<1>9. InboundTypes'
  <2>1. [at |-> "over"] \in InboundRequests
    BY DEF InboundRequests
  <2> QED
    BY <1>1, <1>8, <2>1 DEF InboundSafe, InboundTypes, Inbound!Books
<1>10. \A b \in Inbound!Books :
         IF b = request[q].book THEN book'[b].count - raised'[b] = book[b].count - raised[b] - 1
                                ELSE book'[b].count = book[b].count /\ raised'[b] = raised[b]
  <2>1. \A b \in Inbound!Books : book[b].count \in Int /\ raised[b] \in Int
    BY DEF InboundSafe, InboundTypes, Receipts
  <2> QED
    BY <1>1, <1>3, <1>8, <2>1
<1>11. Inbound!CountedIsRaised'
  BY <1>1, <1>8, <1>10, NoLongerCounting DEF InboundSafe, InboundTypes
<1> QED
  BY <1>9, <1>11 DEF InboundSafe

LEMMA PassOnSafe == ASSUME InboundSafe, NEW q \in Arrivals, Inbound!PassOn(q) PROVE InboundSafe'
<1>1. /\ request[q].at = "pass" /\ request' = [request EXCEPT ![q] = [at |-> "over"]]
      /\ raised' = [raised EXCEPT ![request[q].book] = @ + 1]
      /\ UNCHANGED <<now_inbound, sets, hooks, receipts, book>>
  BY DEF Inbound!PassOn
<1>2. request[q].book \in Inbound!Books
  BY <1>1 DEF InboundSafe, InboundTypes, InboundRequests
<1>3. \A b \in Inbound!Books : book[b].count \in Int /\ raised[b] \in Int
  BY DEF InboundSafe, InboundTypes, Receipts
<1>4. /\ raised' \in [Inbound!Books -> Int] /\ raised'[request[q].book] = raised[request[q].book] + 1
      /\ \A b \in Inbound!Books : b # request[q].book => raised'[b] = raised[b]
  BY <1>1, <1>2, <1>3 DEF InboundSafe, InboundTypes
<1>5. InboundTypes'
  <2>1. [at |-> "over"] \in InboundRequests
    BY DEF InboundRequests
  <2> QED
    BY <1>1, <1>4, <2>1 DEF InboundSafe, InboundTypes, Inbound!Books
<1>6. \A b \in Inbound!Books :
        IF b = request[q].book THEN book'[b].count - raised'[b] = book[b].count - raised[b] - 1
                               ELSE book'[b].count = book[b].count /\ raised'[b] = raised[b]
  BY <1>1, <1>2, <1>3, <1>4
<1>7. Inbound!CountedIsRaised'
  BY <1>1, <1>4, <1>6, NoLongerCounting DEF InboundSafe, InboundTypes
<1> QED
  BY <1>5, <1>7 DEF InboundSafe

LEMMA RejectSafe == ASSUME InboundSafe, NEW q \in Arrivals, Inbound!Reject(q) PROVE InboundSafe'
<1>1. /\ request[q].at = "refused" /\ request' = [request EXCEPT ![q] = [at |-> "over"]]
      /\ receipts' = Inbound!Booked(q) /\ Inbound!BookFor(q) \in Inbound!Books
      /\ UNCHANGED <<now_inbound, sets, hooks, raised>>
  BY BookForOK DEF Inbound!Reject, InboundSafe
<1>2. PICK k \in Inbound!Books : k = Inbound!BookFor(q)
  BY <1>1
<1>3. book[k] \in Receipts
  BY DEF InboundSafe, InboundTypes
<1>4. PICK r : /\ r = [book[k] EXCEPT !.rejected = @ + 1]
               /\ book' = [book EXCEPT ![k] = r]
  BY <1>2 DEF Inbound!Reject, InboundSafe, InboundTypes
<1>5. r \in Receipts /\ r.count = book[k].count
  BY <1>3, <1>4 DEF Receipts
<1>6. book' \in [Inbound!Books -> Receipts] /\ \A b \in Inbound!Books : book'[b].count = book[b].count
  BY <1>4, <1>5 DEF InboundSafe, InboundTypes
<1>7. request' \in [Arrivals -> InboundRequests] /\ request'[q].at = "over"
      /\ \A p \in Arrivals : p # q => request'[p] = request[p]
  <2>1. [at |-> "over"] \in InboundRequests
    BY DEF InboundRequests
  <2> QED
    BY <1>1, <2>1 DEF InboundSafe, InboundTypes
<1>8. InboundTypes'
  BY <1>1, <1>6, <1>7, BookForOK DEF InboundSafe, InboundTypes, Inbound!Books
<1> QED
  BY <1>1, <1>6, <1>7, <1>8, NotCounting DEF InboundSafe

LEMMA InboundArriveSafe ==
  ASSUME InboundSafe, NEW q \in Arrivals, NEW t, NEW header \in BOOLEAN, Inbound!Arrive(q, t, header)
  PROVE  InboundSafe'
<1>1. /\ request[q].at = "free" /\ UNCHANGED <<now_inbound, sets, hooks, receipts, book, raised>>
  BY DEF Inbound!Arrive
<1>2. PICK n \in DOMAIN hooks :
        request' = [request EXCEPT ![q] = [at |-> IF header THEN "matched" ELSE "refused", hook |-> n]]
  BY DEF Inbound!Arrive
<1>3. n \in Hooks
  BY DEF InboundSafe, InboundTypes, Inbound!Configurations
<1>4. /\ request' \in [Arrivals -> InboundRequests] /\ request'[q].at \in {"matched", "refused"}
      /\ \A p \in Arrivals : p # q => request'[p] = request[p]
  <2>1. [at |-> IF header THEN "matched" ELSE "refused", hook |-> n] \in InboundRequests
    BY <1>3 DEF InboundRequests
  <2> QED
    BY <1>2, <2>1 DEF InboundSafe, InboundTypes
<1>5. InboundTypes'
  BY <1>1, <1>4 DEF InboundSafe, InboundTypes, Inbound!Books
<1> QED
  BY <1>1, <1>4, <1>5, NotCounting DEF InboundSafe

LEMMA SetHooksSafe ==
  ASSUME InboundSafe, NEW next \in Inbound!Configurations, Inbound!SetHooks(next)
  PROVE  InboundSafe'
<1>1. /\ sets' = sets + 1 /\ hooks' = next /\ sets < MaxSets
      /\ UNCHANGED <<now_inbound, book, request, raised>>
  BY DEF Inbound!SetHooks
<1>2. sets' \in 1 .. MaxSets
  BY <1>1, InboundAssumption DEF InboundAssumption, InboundSafe, InboundTypes
<1>3. DOMAIN next \subseteq Hooks
  BY DEF Inbound!Configurations
<1>4. /\ DOMAIN receipts' = DOMAIN next
      /\ \A n \in DOMAIN next :
           receipts'[n] = <<sets' + 1, n>> \/ (n \in DOMAIN receipts /\ receipts'[n] = receipts[n])
  <2>1. receipts' = [n \in DOMAIN next |->
                       IF n \in DOMAIN receipts \cap DOMAIN hooks /\ hooks[n] = next[n]
                         THEN receipts[n] ELSE <<sets' + 1, n>>]
    BY DEF Inbound!SetHooks
  <2> QED
    BY <2>1
<1>5. \A n \in DOMAIN next : <<sets' + 1, n>> \in Inbound!Books
  <2>1. sets' + 1 \in 1 .. (MaxSets + 1)
    <3>1. MaxSets \in Nat
      BY InboundAssumption DEF InboundAssumption
    <3>2. \A k \in 1 .. MaxSets : k + 1 \in 1 .. (MaxSets + 1)
      BY <3>1
    <3> QED
      BY <1>2, <3>2
  <2> QED
    BY <1>3, <2>1 DEF Inbound!Books
<1>6. InboundTypes'
  <2>1. sets' \in 0 .. MaxSets
    BY <1>2
  <2>2. \A n \in DOMAIN receipts' : receipts'[n] \in Inbound!Books
    BY <1>4, <1>5 DEF InboundSafe, InboundTypes
  <2> QED
    BY <1>1, <1>3, <1>4, <2>1, <2>2 DEF InboundSafe, InboundTypes, Inbound!Books, Inbound!Configurations
<1> QED
  BY <1>1, <1>6, NotCounting DEF InboundSafe

LEMMA InboundStep == InboundSafe /\ [Inbound!Next]_(Inbound!vars) => InboundSafe'
<1> SUFFICES ASSUME InboundSafe, [Inbound!Next]_(Inbound!vars) PROVE InboundSafe'
  OBVIOUS
<1>1. ASSUME UNCHANGED <<sets, hooks, receipts, book, request, raised>>, now_inbound' \in Int
      PROVE  InboundSafe'
  <2>1. InboundTypes'
    BY <1>1 DEF InboundSafe, InboundTypes, Inbound!Books, Inbound!Configurations
  <2> QED
    BY <1>1, <2>1, NotCounting DEF InboundSafe
<1>2. CASE Inbound!Elapse
  BY <1>1, <1>2 DEF Inbound!Elapse, InboundSafe, InboundTypes
<1>3. CASE UNCHANGED Inbound!vars
  BY <1>1, <1>3 DEF Inbound!vars, InboundSafe, InboundTypes
<1>4. ASSUME NEW n \in Hooks, Inbound!DisarmTest(n) \/ \E d \in {1, MaxWindow + 1} : Inbound!ArmTest(n, d)
      PROVE  InboundSafe'
  BY <1>1, <1>4 DEF Inbound!DisarmTest, Inbound!ArmTest, InboundSafe, InboundTypes
<1>5. ASSUME NEW q \in Arrivals, Inbound!Serve(q) PROVE InboundSafe'
  BY <1>5, RejectSafe, RecordSafe, DiscardSafe, PassOnSafe DEF Inbound!Serve
<1> QED
  BY <1>2, <1>3, <1>4, <1>5, InboundArriveSafe, SetHooksSafe DEF Inbound!Next

\* An alarm a hook's receipt counts was passed on, or is under way, whatever test
\* windows, changes of the hooks and other requests come between its steps
\* (Receiver.ServeHTTP, SetHooks).
THEOREM CountedIsRaisedSafe == Spec => []CountedIsRaised
<1> DEFINE Inv == subject = "inbound" => InboundSafe
<1>1. Init => Inv
  BY InboundInit DEF Init
<1>2. Inv /\ [Next]_vars => Inv'
  BY StepsOfSubject, InboundStep
<1>3. Inv => CountedIsRaised
  BY DEF InboundSafe, CountedIsRaised
<1> QED
  BY <1>1, <1>2, <1>3, PTL DEF Spec

Finished == {q \in Arrivals : request[q].at = "over"}

\* What a receipt says was passed on, finished requests passed on; and the tables
\* are of hooks there may be.
InboundBounds ==
  /\ now_inbound \in 0 .. Horizon_inbound /\ DOMAIN testUntil \subseteq Hooks
  /\ \A b \in Inbound!Books : raised[b] \in 0 .. Cardinality(Finished)

LEMMA FinishedOK == IsFiniteSet(Finished) /\ Cardinality(Finished) \in Nat
<1>1. Finished \in SUBSET Arrivals
  BY DEF Finished
<1>2. IsFiniteSet(Finished)
  BY <1>1, ArrivalsFinite, FS_Subset
<1> QED
  BY <1>2, FS_CardinalityType

LEMMA InboundBoundsInit == Inbound!Init => InboundBounds
<1> SUFFICES ASSUME Inbound!Init PROVE InboundBounds
  OBVIOUS
<1>1. now_inbound = 0 /\ DOMAIN testUntil = {} /\ raised = [b \in Inbound!Books |-> 0]
  BY DEF Inbound!Init
<1> QED
  BY <1>1, FinishedOK, InboundAssumption DEF InboundAssumption, InboundBounds

\* A step that passes nothing on finishes no fewer requests than had finished.
LEMMA NothingPassed ==
  ASSUME InboundBounds, UNCHANGED raised, now_inbound' \in 0 .. Horizon_inbound,
         DOMAIN testUntil' \subseteq Hooks,
         \A q \in Arrivals : request[q].at = "over" => request'[q].at = "over"
  PROVE  InboundBounds'
<1>1. Finished \subseteq Finished'
  BY DEF Finished
<1>2. IsFiniteSet(Finished')
  <2>1. Finished' \in SUBSET Arrivals
    BY DEF Finished
  <2> QED
    BY <2>1, ArrivalsFinite, FS_Subset
<1>3. Cardinality(Finished) <= Cardinality(Finished') /\ Cardinality(Finished') \in Nat
  BY <1>1, <1>2, FS_Subset, FS_CardinalityType
<1>4. \A b \in Inbound!Books : raised'[b] \in 0 .. Cardinality(Finished')
  BY <1>3, FinishedOK DEF InboundBounds
<1> QED
  BY <1>4 DEF InboundBounds, Inbound!Books

LEMMA PassOnBounds ==
  ASSUME InboundTypes, InboundBounds, NEW q \in Arrivals, Inbound!PassOn(q)
  PROVE  InboundBounds'
<1>1. /\ request[q].at = "pass" /\ request' = [request EXCEPT ![q] = [at |-> "over"]]
      /\ raised' = [raised EXCEPT ![request[q].book] = @ + 1]
      /\ UNCHANGED <<now_inbound, testUntil>>
  BY DEF Inbound!PassOn
<1>2. Finished' = Finished \cup {q} /\ q \notin Finished
  BY <1>1 DEF Finished, InboundTypes
<1>3. Cardinality(Finished') = Cardinality(Finished) + 1
  BY <1>2, FinishedOK, FS_AddElement
<1>4. \A b \in Inbound!Books : raised'[b] \in 0 .. Cardinality(Finished')
  <2> SUFFICES ASSUME NEW b \in Inbound!Books PROVE raised'[b] \in 0 .. Cardinality(Finished')
    OBVIOUS
  <2>1. raised'[b] \in {raised[b], raised[b] + 1}
    BY <1>1 DEF InboundTypes
  <2>2. raised[b] \in 0 .. Cardinality(Finished)
    BY DEF InboundBounds
  <2> QED
    BY <1>3, <2>1, <2>2, FinishedOK
<1> QED
  BY <1>1, <1>4 DEF InboundBounds, Inbound!Books

LEMMA InboundBoundsStep == InboundSafe /\ InboundBounds /\ [Inbound!Next]_(Inbound!vars) => InboundBounds'
<1> SUFFICES ASSUME InboundSafe, InboundBounds, [Inbound!Next]_(Inbound!vars) PROVE InboundBounds'
  OBVIOUS
<1>1. InboundTypes /\ request \in [Arrivals -> InboundRequests]
  BY DEF InboundSafe, InboundTypes
<1>2. now_inbound \in 0 .. Horizon_inbound /\ DOMAIN testUntil \subseteq Hooks
  BY DEF InboundBounds
<1>3. CASE Inbound!Elapse
  BY <1>2, <1>3, InboundAssumption, NothingPassed DEF InboundAssumption, Inbound!Elapse
<1>4. ASSUME NEW next \in Inbound!Configurations, Inbound!SetHooks(next)
      PROVE  InboundBounds'
  BY <1>2, <1>4, NothingPassed DEF Inbound!SetHooks, Inbound!TestsOf
<1>5. ASSUME NEW n \in Hooks, Inbound!DisarmTest(n) \/ \E d \in {1, MaxWindow + 1} : Inbound!ArmTest(n, d)
      PROVE  InboundBounds'
  BY <1>2, <1>5, NothingPassed DEF Inbound!DisarmTest, Inbound!ArmTest
<1>6. ASSUME NEW q \in Arrivals, Inbound!Reject(q) \/ Inbound!Discard(q)
      PROVE  InboundBounds'
  BY <1>1, <1>2, <1>6, NothingPassed DEF Inbound!Reject, Inbound!Discard
<1>7. ASSUME NEW q \in Arrivals, Inbound!Record(q)
      PROVE  InboundBounds'
  <2>1. /\ DOMAIN testUntil' \subseteq DOMAIN testUntil /\ UNCHANGED <<raised, now_inbound>>
        /\ \A p \in Arrivals : p # q => request'[p] = request[p]
        /\ request[q].at = "matched"
    BY <1>1, <1>7 DEF Inbound!Record
  <2> QED
    BY <1>2, <2>1, NothingPassed
<1>8. ASSUME NEW q \in Arrivals, NEW t \in Tokens, NEW header \in BOOLEAN, Inbound!Arrive(q, t, header)
      PROVE  InboundBounds'
  <2>1. /\ UNCHANGED <<raised, now_inbound, testUntil>>
        /\ \A p \in Arrivals : p # q => request'[p] = request[p]
        /\ request[q].at = "free"
    BY <1>1, <1>8 DEF Inbound!Arrive
  <2> QED
    BY <1>2, <2>1, NothingPassed
<1>9. CASE UNCHANGED Inbound!vars
  BY <1>2, <1>9, NothingPassed DEF Inbound!vars
<1> QED
  BY <1>1, <1>3, <1>4, <1>5, <1>6, <1>7, <1>8, <1>9, PassOnBounds DEF Inbound!Next, Inbound!Serve

\* A receipt counts no more than there are requests: those it counts have finished
\* or are under way, and none is both.
LEMMA InboundTypesOK == InboundSafe /\ InboundBounds => Inbound!TypeOK
<1> SUFFICES ASSUME InboundSafe, InboundBounds PROVE Inbound!TypeOK
  OBVIOUS
<1>1. ASSUME NEW b \in Inbound!Books PROVE book[b].count \in 0 .. Cardinality(Arrivals)
  <2>1. /\ IsFiniteSet(Counting(b)) /\ Cardinality(Counting(b)) \in Nat
        /\ book[b].count = raised[b] + Cardinality(Counting(b))
    BY CountingOK DEF InboundSafe
  <2>2. Finished \cap Counting(b) = {} /\ Finished \cup Counting(b) \subseteq Arrivals
    BY DEF Finished, Counting
  <2>3. Cardinality(Finished \cup Counting(b)) = Cardinality(Finished) + Cardinality(Counting(b))
    <3>1. Cardinality(Finished \cap Counting(b)) = 0
      BY <2>2, FS_EmptySet
    <3>2. Cardinality(Finished \cup Counting(b)) =
            Cardinality(Finished) + Cardinality(Counting(b)) - Cardinality(Finished \cap Counting(b))
      BY <2>1, FinishedOK, FS_Union
    <3> QED
      BY <2>1, <3>1, <3>2, FinishedOK
  <2>4. Cardinality(Finished \cup Counting(b)) <= Cardinality(Arrivals) /\ Cardinality(Arrivals) \in Nat
    BY <2>2, ArrivalsFinite, FS_Subset, FS_CardinalityType
  <2>5. raised[b] \in 0 .. Cardinality(Finished)
    BY DEF InboundBounds
  <2> QED
    BY <2>1, <2>3, <2>4, <2>5, FinishedOK
<1> QED
  BY <1>1, CardinalityOfInbound DEF InboundSafe, InboundTypes, InboundBounds, Inbound!TypeOK

-----------------------------------------------------------------------------
(* The settings form and the sources built from it (SettingsForm).         *)

\* A running source is recognised by all it connects with.
FormSafe ==
  /\ \A s \in running : s.id = <<s.host, s.app, s.key>>
  /\ {[host |-> s.host, app |-> s.app, key |-> s.key] : s \in running} = Form!Connections(config)

LEMMA BuildSourcesOK ==
  ASSUME NEW c
  PROVE  /\ \A b \in Form!BuildSources(c) : b.id = <<b.host, b.app, b.key>>
         /\ Form!Connections(c) = {[host |-> b.host, app |-> b.app, key |-> b.key] : b \in Form!BuildSources(c)}
<1>1. \A b \in Form!BuildSources(c) : \E i \in DOMAIN c.consoles, a \in Apps :
        /\ b = [id |-> <<c.consoles[i].host, a, Form!KeyFor(c.consoles[i], a)>>,
                host |-> c.consoles[i].host, app |-> a, key |-> Form!KeyFor(c.consoles[i], a)]
  BY DEF Form!BuildSources, Form!SourceKey
<1>2. \A i \in DOMAIN c.consoles, a \in Apps :
        [id |-> <<c.consoles[i].host, a, Form!KeyFor(c.consoles[i], a)>>,
         host |-> c.consoles[i].host, app |-> a, key |-> Form!KeyFor(c.consoles[i], a)]
          \in Form!BuildSources(c)
  BY DEF Form!BuildSources, Form!SourceKey
<1>3. ASSUME NEW x \in Form!Connections(c)
      PROVE  x \in {[host |-> b.host, app |-> b.app, key |-> b.key] : b \in Form!BuildSources(c)}
  <2>1. PICK i \in DOMAIN c.consoles, a \in Apps :
          x = [host |-> c.consoles[i].host, app |-> a, key |-> Form!KeyFor(c.consoles[i], a)]
    BY DEF Form!Connections
  <2>2. PICK b \in Form!BuildSources(c) :
          b = [id |-> <<c.consoles[i].host, a, Form!KeyFor(c.consoles[i], a)>>,
               host |-> c.consoles[i].host, app |-> a, key |-> Form!KeyFor(c.consoles[i], a)]
    BY <1>2
  <2>3. x = [host |-> b.host, app |-> b.app, key |-> b.key]
    BY <2>1, <2>2
  <2> QED
    BY <2>3
<1>4. ASSUME NEW b \in Form!BuildSources(c)
      PROVE  [host |-> b.host, app |-> b.app, key |-> b.key] \in Form!Connections(c)
  <2>1. PICK i \in DOMAIN c.consoles, a \in Apps :
          b = [id |-> <<c.consoles[i].host, a, Form!KeyFor(c.consoles[i], a)>>,
               host |-> c.consoles[i].host, app |-> a, key |-> Form!KeyFor(c.consoles[i], a)]
    BY <1>1
  <2> QED
    BY <2>1 DEF Form!Connections
<1>5. \A b \in Form!BuildSources(c) : b.id = <<b.host, b.app, b.key>>
  BY <1>1
<1> QED
  BY <1>3, <1>4, <1>5

\* Sources kept because they are recognised are those that would have been built.
LEMMA ReuseOK ==
  ASSUME NEW live, NEW built,
         \A s \in live : s.id = <<s.host, s.app, s.key>>,
         \A b \in built : b.id = <<b.host, b.app, b.key>>
  PROVE  /\ \A s \in Form!ReuseSources(live, built) : s.id = <<s.host, s.app, s.key>>
         /\ {[host |-> s.host, app |-> s.app, key |-> s.key] : s \in Form!ReuseSources(live, built)}
              = {[host |-> b.host, app |-> b.app, key |-> b.key] : b \in built}
<1> DEFINE Triple(s) == [host |-> s.host, app |-> s.app, key |-> s.key]
<1>1. ASSUME NEW s \in Form!ReuseSources(live, built)
      PROVE  s.id = <<s.host, s.app, s.key>> /\ \E b \in built : Triple(s) = Triple(b)
  BY DEF Form!ReuseSources
<1>2. ASSUME NEW b \in built
      PROVE  \E s \in Form!ReuseSources(live, built) : Triple(s) = Triple(b)
  BY DEF Form!ReuseSources
<1>3. {Triple(s) : s \in Form!ReuseSources(live, built)} = {Triple(b) : b \in built}
  <2> HIDE DEF Triple
  <2> QED
    BY <1>1, <1>2
<1> QED
  BY <1>1, <1>3

LEMMA FormSave ==
  ASSUME FormSafe, NEW upd, NEW where, Form!Save(upd, where)
  PROVE  FormSafe'
<1>1. PICK next, from : next = Form!ApplyUpdate(config, upd) /\ config' = Form!Mint(next, from)
                        /\ running' = Form!ReuseSources(running, Form!BuildSources(next))
  BY DEF Form!Save
<1>2. config'.consoles = next.consoles
  BY <1>1 DEF Form!Mint, Form!ApplyUpdate
<1>3. Form!Connections(config)' = Form!Connections(next)
  BY <1>2 DEF Form!Connections
<1>4. /\ \A s \in running' : s.id = <<s.host, s.app, s.key>>
      /\ {[host |-> s.host, app |-> s.app, key |-> s.key] : s \in running'}
           = {[host |-> b.host, app |-> b.app, key |-> b.key] : b \in Form!BuildSources(next)}
  BY <1>1, BuildSourcesOK, ReuseOK DEF FormSafe
<1> QED
  BY <1>3, <1>4, BuildSourcesOK DEF FormSafe

LEMMA FormInit == Form!Init => FormSafe
<1> SUFFICES ASSUME Form!Init PROVE FormSafe
  OBVIOUS
<1>1. running = Form!BuildSources(config)
  BY DEF Form!Init
<1> QED
  BY <1>1, BuildSourcesOK DEF FormSafe

LEMMA FormStep == FormSafe /\ [Form!Next]_(Form!vars) => FormSafe'
<1> SUFFICES ASSUME FormSafe, [Form!Next]_(Form!vars) PROVE FormSafe'
  OBVIOUS
<1>1. ASSUME UNCHANGED <<config, running>> PROVE FormSafe'
  BY <1>1 DEF FormSafe, Form!Connections, Form!KeyFor
<1>2. CASE UNCHANGED Form!vars
  BY <1>1, <1>2 DEF Form!vars
<1>3. ASSUME NEW t \in Tabs, Form!HandleGet(t) PROVE FormSafe'
  BY <1>1, <1>3 DEF Form!HandleGet
<1>4. ASSUME NEW t \in Tabs, Form!Submit(t) PROVE FormSafe'
  <2>1. \E upd, where : Form!Save(upd, where)
    <3>1. CASE Form!SaveConsoles(t)
      BY <3>1 DEF Form!SaveConsoles
    <3>2. CASE Form!SaveChannel(t)
      BY <3>2 DEF Form!SaveChannel
    <3>3. CASE Form!SaveHooks(t)
      BY <3>3 DEF Form!SaveHooks
    <3>4. CASE Form!SaveRest(t)
      BY <3>4 DEF Form!SaveRest
    <3> QED
      BY <1>4, <3>1, <3>2, <3>3, <3>4 DEF Form!Submit
  <2> QED
    BY <2>1, FormSave
<1> QED
  BY <1>2, <1>3, <1>4 DEF Form!Next

\* The rows a page shows, and those it sends with what was typed up to a number.
FormRows == [name : RowNames, host : {0, 1}, row : Nat]
SentRows(n) == [name : RowNames, host : {0, 1}, row : Nat, key : 0 .. n, own : [Apps -> 0 .. n],
                clear : SUBSET Apps]
FormConsoles(n) == [name : RowNames, host : {0, 1}, row : Nat, key : 0 .. n, own : [Apps -> 0 .. n]]
FormEndpoints == [name : HookNames, cred : Nat]
FormHookRows == [name : HookNames, regenerate : BOOLEAN]
FormPages == [consoles : Seq(FormRows), webhooks : Seq(HookNames), hooks : Seq(HookNames)]

\* A list within a configuration, and a page that shows one, is of things that have
\* a name; no name stands twice, and every key was typed.
FormTypes ==
  /\ typed \in 0 .. MaxTyped /\ rows \in 1 .. MaxRows /\ saves \in 0 .. MaxSaves
  /\ home \in Seq(Nat) /\ Len(home) = typed
  /\ config.consoles \in Seq(FormConsoles(typed))
  /\ config.webhooks \in Seq(FormEndpoints) /\ config.hooks \in Seq(FormEndpoints)
  /\ Form!Problems(config) = {}
  /\ forms \in [Tabs -> FormPages \cup {Absent}]

LEMMA CardinalityOfForm == ASSUME NEW S PROVE Form!Cardinality(S) = Cardinality(S)
  BY DEF Form!Cardinality, Cardinality

\* A configuration without a problem has no name twice.
LEMMA NoProblems ==
  ASSUME NEW c, Form!Problems(c) = {}
  PROVE  ~Form!Twice(c.consoles) /\ ~Form!Twice(c.webhooks) /\ ~Form!Twice(c.hooks)
  BY DEF Form!Problems

\* So the one of a name is that one.
LEMMA NamedOK ==
  ASSUME NEW S, NEW list \in Seq(S), ~Form!Twice(list), NEW n \in Form!NamesOf(list)
  PROVE  Form!Named(list, n) \in S
<1>1. PICK i \in DOMAIN list : list[i].name = n
  BY DEF Form!NamesOf
<1>2. DOMAIN list = 1 .. Len(list) /\ \A j \in DOMAIN list : list[j] \in S
  OBVIOUS
<1>3. \A j \in DOMAIN list : list[j].name = n => j = i
  BY <1>1 DEF Form!Twice
<1>4. \E k \in DOMAIN list : list[k].name = n /\ \A j \in DOMAIN list : list[j].name = n => j <= k
  BY <1>1, <1>2, <1>3
<1>5. PICK k \in DOMAIN list : Form!Named(list, n) = list[k]
  BY <1>4 DEF Form!Named
<1> QED
  BY <1>2, <1>5

LEMMA ConsoleFromOK ==
  ASSUME FormTypes, NEW n \in Nat, typed <= n, NEW in \in SentRows(n), NEW i \in Nat
  PROVE  Form!ConsoleFrom(config, in, i) \in FormConsoles(n)
<1> DEFINE prev == Form!Previous(config, in, i)
<1>1. config.consoles \in Seq(FormConsoles(typed)) /\ ~Form!Twice(config.consoles) /\ typed \in Nat
  BY NoProblems, FormAssumption DEF FormAssumption, FormTypes
<1>2. prev.key \in 0 .. typed /\ \A a \in Apps : prev.own[a] \in 0 .. typed
  <2>1. CASE in.name \in Form!NamesOf(config.consoles)
    <3>1. Form!Named(config.consoles, in.name) \in FormConsoles(typed)
      BY <1>1, <2>1, NamedOK
    <3> QED
      BY <2>1, <3>1 DEF Form!Previous, FormConsoles
  <2>2. CASE in.name \notin Form!NamesOf(config.consoles) /\ i \in DOMAIN config.consoles
    <3>1. config.consoles[i] \in FormConsoles(typed)
      BY <1>1, <2>2
    <3> QED
      BY <2>2, <3>1 DEF Form!Previous, FormConsoles
  <2>3. CASE in.name \notin Form!NamesOf(config.consoles) /\ i \notin DOMAIN config.consoles
    <3>1. prev = Form!Blank
      BY <2>3 DEF Form!Previous
    <3>2. Form!Blank.key = 0 /\ \A a \in Apps : Form!Blank.own[a] = 0
      BY DEF Form!Blank, Form!None
    <3>3. 0 \in 0 .. typed
      BY <1>1
    <3> QED
      BY <3>1, <3>2, <3>3
  <2> QED
    BY <2>1, <2>2, <2>3
<1> HIDE DEF prev
<1>3. Form!Kept(in.key, prev.key) \in 0 .. n
  BY <1>1, <1>2 DEF SentRows, Form!Kept
<1>4. [a \in Apps |-> IF in.own[a] # Form!None THEN in.own[a]
                      ELSE IF a \in in.clear THEN Form!None ELSE prev.own[a]] \in [Apps -> 0 .. n]
  <2>1. \A a \in Apps : prev.own[a] \in 0 .. n
    BY <1>1, <1>2
  <2>2. 0 \in 0 .. n /\ \A a \in Apps : in.own[a] \in 0 .. n
    BY DEF SentRows
  <2> QED
    BY <2>1, <2>2 DEF Form!None
<1>5. Form!ConsoleFrom(config, in, i) =
        [name |-> in.name, host |-> in.host, row |-> in.row,
         key |-> Form!Kept(in.key, prev.key),
         own |-> [a \in Apps |-> IF in.own[a] # Form!None THEN in.own[a]
                      ELSE IF a \in in.clear THEN Form!None ELSE prev.own[a]]]
  BY DEF Form!ConsoleFrom, prev
<1> QED
  BY <1>3, <1>4, <1>5 DEF SentRows, FormConsoles

LEMMA ConsolesOfOK ==
  ASSUME FormTypes, NEW n \in Nat, typed <= n, NEW upd,
         upd.consoles = Absent \/ upd.consoles \in Seq(SentRows(n))
  PROVE  Form!ConsolesOf(config, upd) \in Seq(FormConsoles(n))
<1>1. FormConsoles(typed) \subseteq FormConsoles(n)
  <2>1. typed \in Nat
    BY FormAssumption DEF FormAssumption, FormTypes
  <2>2. 0 .. typed \subseteq 0 .. n
    BY <2>1
  <2> QED
    BY <2>2 DEF FormConsoles
<1>2. config.consoles \in Seq(FormConsoles(n))
  BY <1>1 DEF FormTypes
<1>3. CASE upd.consoles = Absent
  BY <1>2, <1>3 DEF Form!ConsolesOf
<1>4. CASE upd.consoles # Absent /\ upd.consoles \in Seq(SentRows(n))
  <2>1. \A i \in DOMAIN upd.consoles :
          Form!ConsoleFrom(config, upd.consoles[i], i) \in FormConsoles(n)
    BY <1>4, ConsoleFromOK
  <2>2. DOMAIN upd.consoles = 1 .. Len(upd.consoles) /\ Len(upd.consoles) \in Nat
    BY <1>4
  <2>3. Form!ConsolesOf(config, upd) =
          [i \in 1 .. Len(upd.consoles) |-> Form!ConsoleFrom(config, upd.consoles[i], i)]
    BY <1>4, <2>2 DEF Form!ConsolesOf
  <2> QED
    BY <2>1, <2>2, <2>3
<1> QED
  BY <1>3, <1>4

LEMMA EndpointOK ==
  ASSUME NEW list \in Seq(FormEndpoints), ~Form!Twice(list), NEW in \in FormEndpoints
  PROVE  Form!Endpoint(list, in) \in FormEndpoints
<1>1. CASE in.name \in Form!NamesOf(list)
  <2>1. Form!Named(list, in.name) \in FormEndpoints
    BY <1>1, NamedOK
  <2>2. Form!Kept(in.cred, Form!Named(list, in.name).cred) \in Nat
    BY <2>1 DEF FormEndpoints, Form!Kept
  <2> QED
    BY <1>1, <2>2 DEF Form!Endpoint, FormEndpoints
<1>2. CASE in.name \notin Form!NamesOf(list)
  BY <1>2 DEF Form!Endpoint, FormEndpoints
<1> QED
  BY <1>1, <1>2

LEMMA WebhooksOfOK ==
  ASSUME FormTypes, NEW upd, upd.webhooks = Absent \/ upd.webhooks \in Seq(FormEndpoints)
  PROVE  Form!WebhooksOf(config, upd) \in Seq(FormEndpoints)
<1>1. config.webhooks \in Seq(FormEndpoints) /\ ~Form!Twice(config.webhooks)
  BY NoProblems DEF FormTypes
<1>2. CASE upd.webhooks = Absent
  BY <1>1, <1>2 DEF Form!WebhooksOf
<1>3. CASE upd.webhooks # Absent /\ upd.webhooks \in Seq(FormEndpoints)
  <2>1. \A i \in DOMAIN upd.webhooks :
          Form!Endpoint(config.webhooks, upd.webhooks[i]) \in FormEndpoints
    BY <1>1, <1>3, EndpointOK
  <2>2. DOMAIN upd.webhooks = 1 .. Len(upd.webhooks) /\ Len(upd.webhooks) \in Nat
    BY <1>3
  <2>3. Form!WebhooksOf(config, upd) =
          [i \in 1 .. Len(upd.webhooks) |-> Form!Endpoint(config.webhooks, upd.webhooks[i])]
    BY <1>3, <2>2 DEF Form!WebhooksOf
  <2> QED
    BY <2>1, <2>2, <2>3
<1> QED
  BY <1>2, <1>3

LEMMA HooksOfOK ==
  ASSUME FormTypes, NEW upd,
         upd.hooks = Absent \/ upd.hooks \in Seq(FormHookRows)
  PROVE  Form!HooksOf(config, upd) \in Seq(FormEndpoints)
<1>1. config.hooks \in Seq(FormEndpoints) /\ ~Form!Twice(config.hooks)
  BY NoProblems DEF FormTypes
<1>2. CASE upd.hooks = Absent
  BY <1>1, <1>2 DEF Form!HooksOf
<1>3. CASE upd.hooks # Absent /\ upd.hooks \in Seq(FormHookRows)
  <2> DEFINE hook(i) == IF upd.hooks[i].regenerate
                        THEN [name |-> upd.hooks[i].name, cred |-> Form!None]
                        ELSE Form!Endpoint(config.hooks, [name |-> upd.hooks[i].name, cred |-> Form!None])
  <2>1. ASSUME NEW i \in DOMAIN upd.hooks PROVE hook(i) \in FormEndpoints
    <3>1. upd.hooks[i].name \in HookNames
      <4>1. upd.hooks[i] \in FormHookRows
        BY <1>3
      <4>2. PICK r \in FormHookRows : r = upd.hooks[i]
        BY <4>1
      <4> QED
        BY <4>2 DEF FormHookRows
    <3>2. [name |-> upd.hooks[i].name, cred |-> Form!None] \in FormEndpoints
      BY <3>1 DEF FormEndpoints, Form!None
    <3>3. Form!Endpoint(config.hooks, [name |-> upd.hooks[i].name, cred |-> Form!None]) \in FormEndpoints
      BY <1>1, <3>2, EndpointOK
    <3> QED
      BY <3>2, <3>3
  <2>2. DOMAIN upd.hooks = 1 .. Len(upd.hooks) /\ Len(upd.hooks) \in Nat
    BY <1>3
  <2>3. Form!HooksOf(config, upd) = [i \in 1 .. Len(upd.hooks) |-> hook(i)]
    BY <1>3, <2>2 DEF Form!HooksOf
  <2> HIDE DEF hook
  <2> QED
    BY <2>1, <2>2, <2>3
<1> QED
  BY <1>2, <1>3

\* What each save brings, and what it was typed into.
Typed(upd, where) ==
  /\ where \in Seq(Nat)
  /\ upd.consoles = Absent \/ upd.consoles \in Seq(SentRows(typed + Len(where)))
  /\ upd.webhooks = Absent \/ upd.webhooks \in Seq(FormEndpoints)
  /\ upd.hooks = Absent \/ upd.hooks \in Seq(FormHookRows)

\* The configuration after a save: what it mints changes no name and no console.
FormSaved ==
  /\ typed' \in 0 .. MaxTyped /\ saves' \in 0 .. MaxSaves
  /\ home' \in Seq(Nat) /\ Len(home') = typed'
  /\ config'.consoles \in Seq(FormConsoles(typed'))
  /\ config'.webhooks \in Seq(FormEndpoints) /\ config'.hooks \in Seq(FormEndpoints)
  /\ Form!Problems(config') = {}

LEMMA ToMintOK ==
  ASSUME NEW c, c.hooks \in Seq(FormEndpoints), NEW S \in SUBSET Form!ToMint(c)
  PROVE  Cardinality(S) \in Nat
<1>1. S \subseteq 1 .. Len(c.hooks) /\ Len(c.hooks) \in Nat
  BY DEF Form!ToMint
<1>2. IsFiniteSet(1 .. Len(c.hooks))
  BY <1>1, FS_Interval
<1>3. IsFiniteSet(S)
  BY <1>1, <1>2, FS_Subset
<1> QED
  BY <1>3, FS_CardinalityType

LEMMA MintOK ==
  ASSUME NEW c, NEW from \in Nat, c.hooks \in Seq(FormEndpoints), Form!Problems(c) = {},
         c = [consoles |-> c.consoles, channels |-> c.channels, webhooks |-> c.webhooks,
              hooks |-> c.hooks, policies |-> c.policies, web |-> c.web]
  PROVE  /\ Form!Mint(c, from).consoles = c.consoles /\ Form!Mint(c, from).webhooks = c.webhooks
         /\ Form!Mint(c, from).hooks \in Seq(FormEndpoints)
         /\ Form!Problems(Form!Mint(c, from)) = {}
<1> DEFINE cred(i) == from + Cardinality({j \in Form!ToMint(c) : j <= i})
           hook(i) == IF c.hooks[i].cred # Form!None THEN c.hooks[i]
                      ELSE [c.hooks[i] EXCEPT !.cred = cred(i)]
           next == Form!Mint(c, from)
<1>1. next = [c EXCEPT !.hooks = [i \in DOMAIN c.hooks |-> hook(i)]]
  BY CardinalityOfForm DEF Form!Mint
<1>2. /\ next.consoles = c.consoles /\ next.webhooks = c.webhooks
      /\ next.hooks = [i \in DOMAIN c.hooks |-> hook(i)]
  BY <1>1
<1>3. DOMAIN c.hooks = 1 .. Len(c.hooks) /\ Len(c.hooks) \in Nat
  OBVIOUS
<1>4. ASSUME NEW i \in DOMAIN c.hooks
      PROVE  hook(i) \in FormEndpoints /\ hook(i).name = c.hooks[i].name
  <2>1. c.hooks[i] \in FormEndpoints /\ i \in Nat
    BY <1>3
  <2>2. cred(i) \in Nat
    <3>1. PICK S \in SUBSET Form!ToMint(c) : S = {j \in Form!ToMint(c) : j <= i}
      OBVIOUS
    <3>2. Cardinality(S) \in Nat
      BY ToMintOK
    <3> QED
      BY <3>1, <3>2
  <2> HIDE DEF cred
  <2> QED
    BY <2>1, <2>2 DEF FormEndpoints
<1> HIDE DEF hook, next
<1>5. next.hooks \in Seq(FormEndpoints)
  <2>1. next.hooks = [i \in 1 .. Len(c.hooks) |-> hook(i)]
    BY <1>2, <1>3
  <2>2. \A i \in 1 .. Len(c.hooks) : hook(i) \in FormEndpoints
    BY <1>3, <1>4
  <2> QED
    BY <1>3, <2>1, <2>2
<1>6. Form!Twice(next.hooks) <=> Form!Twice(c.hooks)
  <2>1. DOMAIN next.hooks = DOMAIN c.hooks
        /\ \A i \in DOMAIN c.hooks : next.hooks[i].name = c.hooks[i].name
    BY <1>2, <1>4
  <2> QED
    BY <2>1 DEF Form!Twice
<1>7. Form!Problems(next) = {}
  BY <1>2, <1>6 DEF Form!Problems
<1> QED
  BY <1>2, <1>5, <1>7 DEF next

LEMMA JoinedOK ==
  ASSUME NEW a \in Seq(Nat), NEW b \in Seq(Nat)
  PROVE  a \o b \in Seq(Nat) /\ Len(a \o b) = Len(a) + Len(b)
  OBVIOUS

LEMMA FormSaveOK ==
  ASSUME FormTypes, NEW upd, NEW where, Typed(upd, where), Form!Save(upd, where)
  PROVE  FormSaved
<1> DEFINE next == Form!ApplyUpdate(config, upd)
           after == typed + Len(where)
           fresh == Cardinality(Form!ToMint(next))
<1>1. /\ saves < MaxSaves /\ saves' = saves + 1 /\ after + fresh <= MaxTyped
      /\ Form!Problems(next) = {} /\ config' = Form!Mint(next, after)
      /\ typed' = after + fresh /\ home' = home \o where \o [i \in 1 .. fresh |-> 0]
  BY CardinalityOfForm DEF Form!Save
<1>2. typed \in Nat /\ Len(where) \in Nat /\ after \in Nat /\ typed <= after
  BY FormAssumption DEF FormAssumption, FormTypes, Typed
<1>3. next = [consoles |-> next.consoles, channels |-> next.channels, webhooks |-> next.webhooks,
              hooks |-> next.hooks, policies |-> next.policies, web |-> next.web]
  BY DEF Form!ApplyUpdate
<1>4. /\ next.consoles = Form!ConsolesOf(config, upd)
      /\ next.webhooks = Form!WebhooksOf(config, upd)
      /\ next.hooks = Form!HooksOf(config, upd)
  BY DEF Form!ApplyUpdate
<1>5. next.consoles \in Seq(FormConsoles(after))
  BY <1>2, <1>4, ConsolesOfOK DEF Typed
<1>6. next.webhooks \in Seq(FormEndpoints) /\ next.hooks \in Seq(FormEndpoints)
  BY <1>4, WebhooksOfOK, HooksOfOK DEF Typed
<1>7. fresh \in Nat
  BY <1>6, ToMintOK
<1> HIDE DEF next, fresh
<1>8. typed' \in 0 .. MaxTyped /\ after <= typed' /\ typed' \in Nat
  BY <1>1, <1>2, <1>7, FormAssumption DEF FormAssumption
<1>9. saves' \in 0 .. MaxSaves
  BY <1>1, FormAssumption DEF FormAssumption, FormTypes
<1>10. home' \in Seq(Nat) /\ Len(home') = typed'
  <2>1. [i \in 1 .. fresh |-> 0] \in Seq(Nat) /\ Len([i \in 1 .. fresh |-> 0]) = fresh
    BY <1>7
  <2>2. PICK zeros \in Seq(Nat) : zeros = [i \in 1 .. fresh |-> 0] /\ Len(zeros) = fresh
    BY <2>1
  <2>3. home \in Seq(Nat) /\ where \in Seq(Nat) /\ Len(home) = typed
    BY DEF FormTypes, Typed
  <2>4. PICK known \in Seq(Nat) : known = home \o where /\ Len(known) = Len(home) + Len(where)
    BY <2>3, JoinedOK
  <2>5. known \o zeros \in Seq(Nat) /\ Len(known \o zeros) = Len(known) + Len(zeros)
    BY JoinedOK
  <2> QED
    BY <1>1, <2>2, <2>3, <2>4, <2>5
<1>11. /\ config'.consoles = next.consoles /\ config'.webhooks = next.webhooks
       /\ config'.hooks \in Seq(FormEndpoints) /\ Form!Problems(config') = {}
  BY <1>1, <1>2, <1>3, <1>6, MintOK
<1>12. FormConsoles(after) \subseteq FormConsoles(typed')
  <2>1. 0 .. after \subseteq 0 .. typed'
    BY <1>2, <1>8
  <2> QED
    BY <2>1 DEF FormConsoles
<1>13. config'.consoles \in Seq(FormConsoles(typed'))
  BY <1>5, <1>11, <1>12
<1> QED
  BY <1>6, <1>8, <1>9, <1>10, <1>11, <1>13 DEF FormSaved

\* A save makes of the consoles what it was sent, and keeps where each key was typed.
LEMMA HomeJoined ==
  ASSUME NEW a \in Seq(Nat), NEW b \in Seq(Nat), NEW z \in Seq(Nat)
  PROVE  /\ \A k \in 1 .. Len(a) : ((a \o b) \o z)[k] = a[k]
         /\ \A x : b = <<x>> => ((a \o b) \o z)[Len(a) + 1] = x
<1>1. PICK c \in Seq(Nat) : c = a \o b /\ Len(c) = Len(a) + Len(b)
  BY JoinedOK
<1>2. \A k \in 1 .. Len(c) : (c \o z)[k] = c[k]
  OBVIOUS
<1>3. \A k \in 1 .. Len(a) : c[k] = a[k]
  BY <1>1
<1>4. \A x : b = <<x>> => Len(c) = Len(a) + 1 /\ c[Len(a) + 1] = x
  BY <1>1
<1>5. \A k \in 1 .. Len(a) : k \in 1 .. Len(c)
  BY <1>1
<1>6. Len(c) = Len(a) + 1 => Len(a) + 1 \in 1 .. Len(c)
  OBVIOUS
<1> QED
  BY <1>1, <1>2, <1>3, <1>4, <1>5, <1>6

LEMMA FormSaveKeys ==
  ASSUME FormTypes, NEW upd, NEW where, Typed(upd, where), Form!Save(upd, where)
  PROVE  /\ config'.consoles = Form!ConsolesOf(config, upd)
         /\ \A k \in 1 .. typed : home'[k] = home[k]
         /\ \A x : where = <<x>> => home'[typed + 1] = x
<1> DEFINE next == Form!ApplyUpdate(config, upd)
           fresh == Cardinality(Form!ToMint(next))
<1>1. /\ \E from : config' = Form!Mint(next, from)
      /\ home' = home \o where \o [i \in 1 .. fresh |-> 0]
  BY CardinalityOfForm DEF Form!Save
<1>2. config'.consoles = Form!ConsolesOf(config, upd)
  BY <1>1 DEF Form!Mint, Form!ApplyUpdate
<1>3. next.hooks \in Seq(FormEndpoints)
  BY HooksOfOK DEF Form!ApplyUpdate, Typed
<1>4. fresh \in Nat
  BY <1>3, ToMintOK
<1> HIDE DEF next, fresh
<1>5. PICK zeros \in Seq(Nat) : zeros = [i \in 1 .. fresh |-> 0]
  <2>1. [i \in 1 .. fresh |-> 0] \in Seq(Nat)
    BY <1>4
  <2> QED
    BY <2>1
<1>6. home \in Seq(Nat) /\ where \in Seq(Nat) /\ Len(home) = typed
  BY DEF FormTypes, Typed
<1> QED
  BY <1>1, <1>2, <1>5, <1>6, HomeJoined

LEMMA ChangedOK ==
  ASSUME NEW S, NEW l \in Seq(S), NEW k, NEW r \in S
  PROVE  [l EXCEPT ![k] = r] \in Seq(S)
<1>1. l \in [1 .. Len(l) -> S] /\ Len(l) \in Nat
  OBVIOUS
<1>2. [l EXCEPT ![k] = r] \in [1 .. Len(l) -> S]
  BY <1>1, Zenon
<1> QED
  BY <1>1, <1>2

LEMMA RenamedOK ==
  ASSUME NEW L \in SUBSET Seq(FormRows) PROVE Form!Renamed(L) \subseteq Seq(FormRows)
<1> SUFFICES ASSUME NEW l \in L \ {<< >>}, NEW n \in RowNames
             PROVE  [l EXCEPT ![1].name = n] \in Seq(FormRows)
  BY DEF Form!Renamed
<1>1. l \in Seq(FormRows) /\ l # << >>
  OBVIOUS
<1>2. l[1] \in FormRows
  BY <1>1
<1>3. PICK r \in FormRows : r = [l[1] EXCEPT !.name = n]
  BY <1>2 DEF FormRows
<1>4. [l EXCEPT ![1].name = n] = [l EXCEPT ![1] = r]
  BY <1>3
<1> QED
  BY <1>1, <1>4, ChangedOK

LEMMA ReaddressedOK ==
  ASSUME NEW L \in SUBSET Seq(FormRows) PROVE Form!Readdressed(L) \subseteq Seq(FormRows)
<1> SUFFICES ASSUME NEW l \in L \ {<< >>}
             PROVE  [l EXCEPT ![Len(l)].host = 1 - @] \in Seq(FormRows)
  BY DEF Form!Readdressed
<1>1. l \in Seq(FormRows) /\ l # << >>
  OBVIOUS
<1>2. PICK last \in FormRows : last = l[Len(l)]
  BY <1>1
<1>3. PICK r \in FormRows : r = [last EXCEPT !.host = 1 - @]
  <2>1. 1 - last.host \in {0, 1}
    BY DEF FormRows
  <2> QED
    BY <2>1 DEF FormRows
<1>4. [l EXCEPT ![Len(l)].host = 1 - @] = [l EXCEPT ![Len(l)] = r]
  BY <1>2, <1>3
<1> QED
  BY <1>1, <1>4, ChangedOK

\* The rows of a page, edited.
LEMMA EditedOK ==
  ASSUME NEW view \in Seq(FormRows), NEW l \in Form!Edited(view) PROVE l \in Seq(FormRows)
<1>1. Form!Thinned(view) \subseteq Seq(FormRows)
  <2> SUFFICES ASSUME NEW m \in Form!Thinned(view) PROVE m \in Seq(FormRows)
    OBVIOUS
  <2>1. PICK n \in 0 .. Len(view) : \E at \in [1 .. n -> DOMAIN view] : m = [k \in 1 .. n |-> view[at[k]]]
    BY DEF Form!Thinned
  <2>2. PICK at \in [1 .. n -> DOMAIN view] : m = [k \in 1 .. n |-> view[at[k]]]
    BY <2>1
  <2>3. n \in Nat /\ \A k \in 1 .. n : view[at[k]] \in FormRows
    OBVIOUS
  <2> QED
    BY <2>2, <2>3
<1>2. Form!Renamed(Form!Thinned(view)) \subseteq Seq(FormRows)
  BY <1>1, RenamedOK
<1> QED
  BY <1>2, ReaddressedOK DEF Form!Edited

LEMMA AddedOK ==
  ASSUME FormTypes, NEW view, NEW more \in Form!Added(view)
  PROVE  more \in Seq(FormRows) /\ rows + Len(more) \in 1 .. MaxRows
<1>1. rows \in Nat /\ rows \in 1 .. MaxRows /\ MaxRows \in Nat
  BY FormAssumption DEF FormAssumption, FormTypes
<1>2. CASE more = << >>
  BY <1>1, <1>2
<1>3. CASE more # << >>
  <2> DEFINE line(m) == [name |-> m, host |-> 0, row |-> rows + 1]
             free == {m \in RowNames \ Form!NamesOf(view) : rows < MaxRows}
  <2>1. more \in {<<line(m)>> : m \in free}
    BY <1>3 DEF Form!Added
  <2> HIDE DEF line
  <2>2. PICK n \in free : more = <<line(n)>>
    <3> HIDE DEF free
    <3> QED
      BY <2>1
  <2>3. rows < MaxRows /\ n \in RowNames
    OBVIOUS
  <2> HIDE DEF free
  <2>4. line(n) \in FormRows
    <3>1. rows + 1 \in Nat
      BY <1>1
    <3> QED
      BY <2>3, <3>1 DEF FormRows, line
  <2>5. more \in Seq(FormRows) /\ Len(more) = 1
    BY <2>2, <2>4
  <2> QED
    BY <1>1, <2>3, <2>5
<1> QED
  BY <1>2, <1>3

\* What a page that saves its rows sends: in the row at `at` a key, a key of one
\* application's, or the clearing of one.
SentLine(list, at, app, what, i) ==
  IF i # at THEN Form!Sent(list[i], 0, Form!NoOwn, {})
  ELSE CASE what = "key" -> Form!Sent(list[i], typed + 1, Form!NoOwn, {})
         [] what = "own" -> Form!Sent(list[i], 0, [Form!NoOwn EXCEPT ![app] = typed + 1], {})
         [] OTHER -> Form!Sent(list[i], 0, Form!NoOwn, {app})
SentInto(list, at, what) == IF at = 0 \/ what = "clear" THEN << >> ELSE <<list[at].row>>
SentUpdate(list, at, app, what) ==
  [Form!Nothing EXCEPT !.consoles = [i \in DOMAIN list |-> SentLine(list, at, app, what, i)]]
ConsolesSent(list, at, app, what) ==
  /\ list \in Seq(FormRows) /\ at \in 0 .. Len(list) /\ app \in Apps
  /\ what \in {"key", "own", "clear"}
  /\ Form!Save(SentUpdate(list, at, app, what), SentInto(list, at, what))

LEMMA SaveConsolesIs ==
  ASSUME FormTypes, NEW t \in Tabs, forms[t] \in FormPages, Form!SaveConsoles(t)
  PROVE  /\ rows' \in 1 .. MaxRows /\ UNCHANGED forms
         /\ \E list, at, app, what :
              /\ ConsolesSent(list, at, app, what)
              /\ moved' = moved \cup Form!Moved(list)
<1> DEFINE view == forms[t].consoles
<1>1. view \in Seq(FormRows)
  BY DEF FormPages
<1>2. PICK l \in Form!Edited(view), more \in Form!Added(view) :
        \E at \in 0 .. (Len(l) + Len(more)), app \in Apps, what \in {"key", "own", "clear"} :
          /\ Form!Save(SentUpdate(l \o more, at, app, what), SentInto(l \o more, at, what))
          /\ rows' = rows + Len(more) /\ moved' = moved \cup Form!Moved(l \o more)
          /\ UNCHANGED forms
  BY ZenonT(60) DEF Form!SaveConsoles, Form!None, SentUpdate, SentInto, SentLine
<1>3. PICK list : list = l \o more
  OBVIOUS
<1>4. l \in Seq(FormRows) /\ more \in Seq(FormRows)
  BY <1>1, EditedOK, AddedOK
<1>5. list \in Seq(FormRows) /\ Len(list) = Len(l) + Len(more)
  BY <1>3, <1>4
<1>6. PICK at \in 0 .. Len(list), app \in Apps, what \in {"key", "own", "clear"} :
        /\ Form!Save(SentUpdate(list, at, app, what), SentInto(list, at, what))
        /\ rows' = rows + Len(more) /\ moved' = moved \cup Form!Moved(list) /\ UNCHANGED forms
  BY <1>2, <1>3, <1>5
<1>7. ConsolesSent(list, at, app, what)
  BY <1>5, <1>6 DEF ConsolesSent
<1> QED
  BY <1>6, <1>7, AddedOK

LEMMA ConsolesTyped ==
  ASSUME FormTypes, NEW list, NEW at, NEW app, NEW what, ConsolesSent(list, at, app, what)
  PROVE  Typed(SentUpdate(list, at, app, what), SentInto(list, at, what))
<1> DEFINE fresh == typed + 1
           into == SentInto(list, at, what)
<1>1. typed \in Nat
  BY FormAssumption DEF FormAssumption, FormTypes
<1>2. list \in Seq(FormRows) /\ at \in 0 .. Len(list) /\ app \in Apps
      /\ what \in {"key", "own", "clear"}
  BY DEF ConsolesSent
<1>3. into \in Seq(Nat) /\ Len(into) = IF at = 0 \/ what = "clear" THEN 0 ELSE 1
  <2>1. ASSUME at # 0 PROVE list[at].row \in Nat
    <3>1. list[at] \in FormRows
      BY <1>2, <2>1
    <3> QED
      BY <3>1 DEF FormRows
  <2> QED
    BY <2>1 DEF SentInto
<1> HIDE DEF into
<1>4. \A i \in DOMAIN list : SentLine(list, at, app, what, i) \in SentRows(typed + Len(into))
  <2> SUFFICES ASSUME NEW i \in DOMAIN list
               PROVE  SentLine(list, at, app, what, i) \in SentRows(typed + Len(into))
    OBVIOUS
  <2>1. PICK r \in FormRows : r = list[i]
    BY <1>2
  <2> DEFINE most == typed + Len(into)
  <2>2. \A n \in Nat : \A key \in 0 .. n, own \in [Apps -> 0 .. n], clear \in SUBSET Apps :
          Form!Sent(r, key, own, clear) \in SentRows(n)
    BY DEF Form!Sent, FormRows, SentRows
  <2>3. most \in Nat /\ 0 \in 0 .. most
    BY <1>1, <1>3
  <2>4. Form!NoOwn \in [Apps -> 0 .. most]
    BY <2>3 DEF Form!NoOwn, Form!None
  <2>5. i = at /\ what # "clear" => fresh \in 0 .. most
    <3>1. i # 0
      BY <1>2
    <3> QED
      BY <1>1, <1>3, <3>1
  <2> HIDE DEF most, fresh
  <2>6. i = at /\ what = "own" => [Form!NoOwn EXCEPT ![app] = fresh] \in [Apps -> 0 .. most]
    BY <2>4, <2>5
  <2>7. SentLine(list, at, app, what, i) \in SentRows(most)
    <3>1. CASE i # at
      BY <2>1, <2>2, <2>3, <2>4, <3>1 DEF SentLine
    <3>2. CASE i = at /\ what = "key"
      BY <2>1, <2>2, <2>3, <2>4, <2>5, <3>2 DEF SentLine, fresh
    <3>3. CASE i = at /\ what = "own"
      BY <2>1, <2>2, <2>3, <2>6, <3>3 DEF SentLine, fresh
    <3>4. CASE i = at /\ what = "clear"
      BY <1>2, <2>1, <2>2, <2>3, <2>4, <3>4 DEF SentLine
    <3> QED
      BY <1>2, <3>1, <3>2, <3>3, <3>4
  <2> QED
    BY <2>7 DEF most
<1> DEFINE upd == SentUpdate(list, at, app, what)
<1>5. /\ upd.consoles = [i \in DOMAIN list |-> SentLine(list, at, app, what, i)]
      /\ upd.webhooks = Absent /\ upd.hooks = Absent
  BY DEF SentUpdate, Form!Nothing
<1>6. DOMAIN list = 1 .. Len(list) /\ Len(list) \in Nat
  BY <1>2
<1> HIDE DEF upd
<1>7. upd.consoles \in Seq(SentRows(typed + Len(into)))
  BY <1>4, <1>5, <1>6
<1> QED
  BY <1>3, <1>5, <1>7 DEF Typed, upd, into

LEMMA SaveConsolesOK ==
  ASSUME FormTypes, NEW t \in Tabs, forms[t] \in FormPages, Form!SaveConsoles(t)
  PROVE  FormSaved /\ rows' \in 1 .. MaxRows /\ UNCHANGED forms
BY SaveConsolesIs, ConsolesTyped, FormSaveOK DEF ConsolesSent

LEMMA SaveChannelOK ==
  ASSUME FormTypes, NEW t \in Tabs, Form!SaveChannel(t)
  PROVE  /\ FormSaved /\ UNCHANGED <<rows, forms, moved>>
         /\ \E form, where : Typed(form, where) /\ Form!Save(form, where) /\ form.consoles = Absent
<1> DEFINE upd(c, s, retyped) ==
             [Form!Nothing EXCEPT !.channels[c] =
                [x \in Form!Slots |-> IF retyped /\ x = s THEN typed + 1 ELSE 0]]
           into(retyped) == IF retyped THEN <<0>> ELSE << >>
<1>1. PICK c \in Channels, s \in Form!Slots, retyped \in BOOLEAN :
        Form!Save(upd(c, s, retyped), into(retyped)) /\ UNCHANGED <<forms, moved, rows>>
  BY Zenon DEF Form!SaveChannel, Form!None
<1>2. /\ upd(c, s, retyped).consoles = Absent /\ upd(c, s, retyped).webhooks = Absent
      /\ upd(c, s, retyped).hooks = Absent
  BY DEF Form!Nothing
<1>3. into(retyped) \in Seq(Nat)
  OBVIOUS
<1>4. Typed(upd(c, s, retyped), into(retyped))
  BY <1>2, <1>3 DEF Typed
<1> HIDE DEF upd, into
<1>5. FormSaved
  BY <1>1, <1>4, FormSaveOK
<1> QED
  BY <1>1, <1>2, <1>4, <1>5

LEMMA NamesSentOK ==
  ASSUME NEW view \in Seq(HookNames), NEW w \in Form!NamesSent(view) PROVE w \in Seq(HookNames)
<1>1. CASE w = view
  BY <1>1
<1>2. CASE w \in {Form!RemoveAt(view, i) : i \in DOMAIN view}
  <2>1. PICK i \in DOMAIN view : w = Form!RemoveAt(view, i)
    BY <1>2
  <2>2. i \in 1 .. Len(view) /\ Len(view) \in Nat
    OBVIOUS
  <2>3. /\ SubSeq(view, 1, i - 1) \in Seq(HookNames)
        /\ SubSeq(view, i + 1, Len(view)) \in Seq(HookNames)
    BY <2>2
  <2> QED
    BY <2>1, <2>3 DEF Form!RemoveAt
<1>3. CASE w \in {Append(view, n) : n \in HookNames}
  BY <1>3
<1> QED
  BY <1>1, <1>2, <1>3 DEF Form!NamesSent

LEMMA SaveHooksOK ==
  ASSUME FormTypes, NEW t \in Tabs, forms[t] \in FormPages, Form!SaveHooks(t)
  PROVE  /\ FormSaved /\ UNCHANGED <<rows, forms, moved>>
         /\ \E form, where : Typed(form, where) /\ Form!Save(form, where) /\ form.consoles = Absent
<1> DEFINE out(w, signed) == [i \in DOMAIN w |-> [name |-> w[i],
                                cred |-> IF signed /\ i = 1 THEN typed + 1 ELSE 0]]
           inbound(h, again) == [i \in DOMAIN h |-> [name |-> h[i], regenerate |-> h[i] = again]]
           upd(w, h, again, signed) ==
             [Form!Nothing EXCEPT !.webhooks = out(w, signed), !.hooks = inbound(h, again)]
           into(w, signed) == IF signed /\ w # << >> THEN <<0>> ELSE << >>
<1>0. PICK w \in Form!NamesSent(forms[t].webhooks), h \in Form!NamesSent(forms[t].hooks),
           signed \in BOOLEAN :
        \E again : Form!Save(upd(w, h, again, signed), into(w, signed)) /\ UNCHANGED <<forms, moved, rows>>
  <2>1. \E w \in Form!NamesSent(forms[t].webhooks), h \in Form!NamesSent(forms[t].hooks),
           again \in HookNames \cup {""}, signed \in BOOLEAN :
          Form!Save(upd(w, h, again, signed), into(w, signed)) /\ UNCHANGED <<forms, moved, rows>>
    BY Zenon DEF Form!SaveHooks, Form!None
  <2> HIDE DEF upd, into
  <2> QED
    BY <2>1, Zenon
<1>1. PICK again : Form!Save(upd(w, h, again, signed), into(w, signed)) /\ UNCHANGED <<forms, moved, rows>>
  BY <1>0
<1>2. w \in Seq(HookNames) /\ h \in Seq(HookNames)
  <2>1. forms[t].webhooks \in Seq(HookNames) /\ forms[t].hooks \in Seq(HookNames)
    BY DEF FormPages
  <2> QED
    BY <2>1, NamesSentOK
<1>3. typed \in Nat
  BY FormAssumption DEF FormAssumption, FormTypes
<1>4. DOMAIN w = 1 .. Len(w) /\ Len(w) \in Nat /\ DOMAIN h = 1 .. Len(h) /\ Len(h) \in Nat
  BY <1>2
<1>5. out(w, signed) \in Seq(FormEndpoints)
  <2>1. ASSUME NEW i \in DOMAIN w
        PROVE  [name |-> w[i], cred |-> IF signed /\ i = 1 THEN typed + 1 ELSE 0] \in FormEndpoints
    <3>1. w[i] \in HookNames
      BY <1>2
    <3>2. (IF signed /\ i = 1 THEN typed + 1 ELSE 0) \in Nat
      BY <1>3
    <3> QED
      BY <3>1, <3>2 DEF FormEndpoints
  <2> QED
    BY <1>4, <2>1
<1>6. inbound(h, again) \in Seq(FormHookRows)
  <2>1. ASSUME NEW i \in DOMAIN h
        PROVE  [name |-> h[i], regenerate |-> h[i] = again] \in FormHookRows
    <3>1. h[i] \in HookNames
      BY <1>2
    <3> QED
      BY <3>1 DEF FormHookRows
  <2> QED
    BY <1>4, <2>1
<1>7. /\ upd(w, h, again, signed).consoles = Absent
      /\ upd(w, h, again, signed).webhooks = out(w, signed)
      /\ upd(w, h, again, signed).hooks = inbound(h, again)
  BY DEF Form!Nothing
<1>8. into(w, signed) \in Seq(Nat)
  OBVIOUS
<1> HIDE DEF out, inbound, upd, into
<1>9. Typed(upd(w, h, again, signed), into(w, signed))
  BY <1>5, <1>6, <1>7, <1>8 DEF Typed
<1>10. FormSaved
  BY <1>1, <1>9, FormSaveOK
<1> QED
  BY <1>1, <1>7, <1>9, <1>10

LEMMA SaveRestOK ==
  ASSUME FormTypes, NEW t \in Tabs, Form!SaveRest(t)
  PROVE  /\ FormSaved /\ UNCHANGED <<rows, forms, moved>>
         /\ \E form, where : Typed(form, where) /\ Form!Save(form, where) /\ form.consoles = Absent
<1> DEFINE upd(p, l, a) == [Form!Nothing EXCEPT !.policies = p, !.listen = l, !.ackListen = a]
<1>1. PICK p \in {Absent, 0, 1}, l \in {Absent, 1}, a \in {Absent, 0, 1} :
        Form!Save(upd(p, l, a), << >>) /\ UNCHANGED <<forms, moved, rows>>
  BY Zenon DEF Form!SaveRest
<1>2. /\ upd(p, l, a).consoles = Absent /\ upd(p, l, a).webhooks = Absent
      /\ upd(p, l, a).hooks = Absent
  BY DEF Form!Nothing
<1>3. Typed(upd(p, l, a), << >>)
  BY <1>2 DEF Typed
<1> HIDE DEF upd
<1>4. FormSaved
  BY <1>1, <1>3, FormSaveOK
<1> QED
  BY <1>1, <1>2, <1>3, <1>4

\* What a page is shown.
LEMMA ViewOK == ASSUME FormTypes PROVE Form!View \in FormPages
<1>1. /\ config.consoles \in Seq(FormConsoles(typed))
      /\ config.webhooks \in Seq(FormEndpoints) /\ config.hooks \in Seq(FormEndpoints)
  BY DEF FormTypes
<1> DEFINE cs == config.consoles
           shown(i) == [name |-> cs[i].name, host |-> cs[i].host, row |-> cs[i].row]
<1>3. [i \in DOMAIN cs |-> shown(i)] \in Seq(FormRows)
  <2>1. ASSUME NEW i \in DOMAIN cs PROVE shown(i) \in FormRows
    <3>1. PICK c \in FormConsoles(typed) : c = cs[i]
      BY <1>1
    <3> QED
      BY <3>1 DEF FormConsoles, FormRows
  <2>2. DOMAIN cs = 1 .. Len(cs) /\ Len(cs) \in Nat
    BY <1>1
  <2> HIDE DEF shown, cs
  <2> QED
    BY <2>1, <2>2
<1>4. ASSUME NEW list \in Seq(FormEndpoints)
      PROVE  [i \in DOMAIN list |-> list[i].name] \in Seq(HookNames)
  <2>1. ASSUME NEW i \in DOMAIN list PROVE list[i].name \in HookNames
    <3>1. list[i] \in FormEndpoints
      OBVIOUS
    <3> QED
      BY <3>1 DEF FormEndpoints
  <2>2. DOMAIN list = 1 .. Len(list) /\ Len(list) \in Nat
    OBVIOUS
  <2> QED
    BY <2>1, <2>2
<1> QED
  BY <1>1, <1>3, <1>4 DEF Form!View, FormPages

LEMMA FormTypesInit == Form!Init => FormTypes
<1> SUFFICES ASSUME Form!Init PROVE FormTypes
  OBVIOUS
<1> DEFINE first == [name |-> CHOOSE n \in RowNames : TRUE, host |-> 0, key |-> 1,
                     own |-> Form!NoOwn, row |-> 1]
<1>1. /\ config.consoles = <<first>> /\ config.webhooks = << >> /\ config.hooks = << >>
      /\ typed = 1 /\ home = <<1>> /\ rows = 1 /\ saves = 0
      /\ forms = [t \in Tabs |-> Absent]
  BY DEF Form!Init
<1>2. first \in FormConsoles(1) /\ first.key = 1
  <2>1. (CHOOSE n \in RowNames : TRUE) \in RowNames
    BY FormAssumption DEF FormAssumption
  <2>2. Form!NoOwn \in [Apps -> 0 .. 1]
    BY DEF Form!NoOwn, Form!None
  <2> QED
    BY <2>1, <2>2 DEF FormConsoles
<1> HIDE DEF first
<1>3. config.consoles \in Seq(FormConsoles(typed))
  BY <1>1, <1>2
<1>4. Form!Problems(config) = {}
  <2>1. \A i \in DOMAIN config.consoles : ~Form!Keyless(config.consoles[i])
    BY <1>1, <1>2 DEF Form!Keyless, Form!None
  <2>2. ~Form!Twice(config.consoles) /\ ~Form!Twice(config.webhooks) /\ ~Form!Twice(config.hooks)
    BY <1>1 DEF Form!Twice
  <2> QED
    BY <2>1, <2>2 DEF Form!Problems
<1>5. typed \in 0 .. MaxTyped /\ rows \in 1 .. MaxRows /\ saves \in 0 .. MaxSaves
  BY <1>1, FormAssumption DEF FormAssumption
<1>6. /\ home \in Seq(Nat) /\ Len(home) = typed
      /\ config.webhooks \in Seq(FormEndpoints) /\ config.hooks \in Seq(FormEndpoints)
      /\ forms \in [Tabs -> FormPages \cup {Absent}]
  BY <1>1
<1> QED
  BY <1>3, <1>4, <1>5, <1>6 DEF FormTypes

LEMMA FormTypesStep == FormTypes /\ [Form!Next]_(Form!vars) => FormTypes'
<1> SUFFICES ASSUME FormTypes, [Form!Next]_(Form!vars) PROVE FormTypes'
  OBVIOUS
<1>1. ASSUME FormSaved, rows' \in 1 .. MaxRows, UNCHANGED forms PROVE FormTypes'
  BY <1>1 DEF FormSaved, FormTypes
<1>2. ASSUME UNCHANGED <<config, typed, home, rows, saves>>,
             forms' \in [Tabs -> FormPages \cup {Absent}]
      PROVE  FormTypes'
  BY <1>2 DEF FormTypes, Form!Problems, Form!Keyless, Form!Twice
<1>3. CASE UNCHANGED Form!vars
  <2>1. UNCHANGED <<config, typed, home, rows, saves, forms>>
    BY <1>3 DEF Form!vars
  <2> QED
    BY <1>2, <2>1 DEF FormTypes
<1>4. ASSUME NEW t \in Tabs, Form!HandleGet(t) PROVE FormTypes'
  <2>1. /\ UNCHANGED <<config, typed, home, rows, saves>>
        /\ forms' = [forms EXCEPT ![t] = Form!View]
    BY <1>4 DEF Form!HandleGet
  <2>2. forms' \in [Tabs -> FormPages \cup {Absent}]
    BY <2>1, ViewOK DEF FormTypes
  <2> QED
    BY <1>2, <2>1, <2>2
<1>5. ASSUME NEW t \in Tabs, Form!Submit(t) PROVE FormTypes'
  <2>1. forms[t] \in FormPages
    BY <1>5 DEF Form!Submit, FormTypes
  <2>2. rows \in 1 .. MaxRows
    BY DEF FormTypes
  <2> QED
    BY <1>1, <1>5, <2>1, <2>2, SaveConsolesOK, SaveChannelOK, SaveHooksOK, SaveRestOK
    DEF Form!Submit
<1> QED
  BY <1>3, <1>4, <1>5 DEF Form!Next

\* Where what is stored was typed.
FormKeys ==
  \A i \in DOMAIN config.consoles :
    config.consoles[i].row \notin moved =>
      \A k \in Form!StoredKeys(config.consoles[i]) : k # 0 => home[k] = config.consoles[i].row

LEMMA StoredOK ==
  ASSUME NEW n \in Nat, NEW con \in FormConsoles(n), NEW k \in Form!StoredKeys(con)
  PROVE  k \in 0 .. n
BY DEF FormConsoles, Form!StoredKeys

\* A console that a save does not touch keeps its keys, and they their home.
LEMMA FormKeysKept ==
  ASSUME FormTypes, FormKeys, config'.consoles = config.consoles, moved \subseteq moved',
         \A k \in 1 .. typed : home'[k] = home[k]
  PROVE  FormKeys'
<1>1. typed \in Nat /\ config.consoles \in Seq(FormConsoles(typed))
  BY FormAssumption DEF FormAssumption, FormTypes
<1>2. ASSUME NEW i \in DOMAIN config.consoles, NEW k \in Form!StoredKeys(config.consoles[i]), k # 0
      PROVE  home'[k] = home[k]
  <2>1. config.consoles[i] \in FormConsoles(typed)
    BY <1>1
  <2>2. k \in 1 .. typed
    BY <1>1, <1>2, <2>1, StoredOK
  <2> QED
    BY <2>2
<1>3. ASSUME NEW i \in DOMAIN config.consoles
      PROVE  Form!StoredKeys(config.consoles[i])' = Form!StoredKeys(config.consoles[i])
  BY DEF Form!StoredKeys
<1> QED
  BY <1>2, <1>3 DEF FormKeys

LEMMA NamedIs ==
  ASSUME NEW list, ~Form!Twice(list), NEW i \in DOMAIN list, DOMAIN list \subseteq Nat
  PROVE  Form!Named(list, list[i].name) = list[i]
<1>1. \A j \in DOMAIN list : list[j].name = list[i].name => j = i
  BY DEF Form!Twice
<1>2. i \in Nat /\ i <= i
  OBVIOUS
<1>3. \E k \in DOMAIN list : /\ list[k].name = list[i].name
                            /\ \A j \in DOMAIN list : list[j].name = list[i].name => j <= k
  BY <1>1, <1>2
<1> QED
  BY <1>1, <1>3 DEF Form!Named

\* The stored row that a settled one is matched with is its own, or there is none.
LEMMA PreviousIsItsOwn ==
  ASSUME FormTypes, FormKeys, NEW list, NEW i \in DOMAIN list, NEW in, in.name = list[i].name,
         Form!Settled(list, i), list[i].row \notin moved,
         NEW k \in Form!StoredKeys(Form!Previous(config, in, i)), k # 0
  PROVE  k \in 1 .. typed /\ home[k] = list[i].row
<1>1. typed \in Nat /\ config.consoles \in Seq(FormConsoles(typed)) /\ ~Form!Twice(config.consoles)
  BY NoProblems, FormAssumption DEF FormAssumption, FormTypes
<1>2. ASSUME NEW j \in DOMAIN config.consoles, config.consoles[j].row = list[i].row,
             Form!Previous(config, in, i) = config.consoles[j]
      PROVE  k \in 1 .. typed /\ home[k] = list[i].row
  <2>1. config.consoles[j] \in FormConsoles(typed) /\ k \in Form!StoredKeys(config.consoles[j])
    BY <1>1, <1>2
  <2>2. k \in 1 .. typed
    BY <1>1, <2>1, StoredOK
  <2> QED
    BY <1>2, <2>1, <2>2 DEF FormKeys
<1>3. CASE \E j \in DOMAIN config.consoles :
             config.consoles[j].row = list[i].row /\ config.consoles[j].name = list[i].name
  <2>1. PICK j \in DOMAIN config.consoles :
          config.consoles[j].row = list[i].row /\ config.consoles[j].name = in.name
    BY <1>3
  <2>2. in.name \in Form!NamesOf(config.consoles)
    BY <2>1 DEF Form!NamesOf
  <2>3. Form!Named(config.consoles, in.name) = config.consoles[j]
    BY <1>1, <2>1, NamedIs
  <2> QED
    BY <1>2, <2>1, <2>2, <2>3 DEF Form!Previous
<1>4. CASE /\ list[i].name \notin Form!NamesOf(config.consoles) /\ i \in DOMAIN config.consoles
           /\ config.consoles[i].row = list[i].row
  BY <1>2, <1>4 DEF Form!Previous
<1>5. CASE list[i].name \notin Form!NamesOf(config.consoles) /\ i \notin DOMAIN config.consoles
  <2>1. Form!Previous(config, in, i) = Form!Blank
    BY <1>5 DEF Form!Previous
  <2>2. Form!Blank.key = 0 /\ \A a \in Apps : Form!Blank.own[a] = 0
    BY DEF Form!Blank, Form!None
  <2> QED
    BY <2>1, <2>2 DEF Form!StoredKeys
<1> QED
  BY <1>3, <1>4, <1>5 DEF Form!Settled

LEMMA ConsolesKeys ==
  ASSUME FormTypes, FormKeys, NEW list, NEW at, NEW app, NEW what, ConsolesSent(list, at, app, what),
         moved' = moved \cup Form!Moved(list)
  PROVE  FormKeys'
<1> DEFINE upd == SentUpdate(list, at, app, what)
           line(i) == SentLine(list, at, app, what, i)
<1>1. /\ config'.consoles = Form!ConsolesOf(config, upd)
      /\ \A k \in 1 .. typed : home'[k] = home[k]
      /\ \A x : SentInto(list, at, what) = <<x>> => home'[typed + 1] = x
  BY ConsolesTyped, FormSaveKeys DEF ConsolesSent
<1>2. upd.consoles = [i \in DOMAIN list |-> line(i)]
  BY DEF SentUpdate, Form!Nothing
<1> HIDE DEF upd, line
<1>3. CASE upd.consoles = Absent
  BY <1>1, <1>3, FormKeysKept DEF Form!ConsolesOf
<1>4. CASE upd.consoles # Absent
  <2>1. config'.consoles = [i \in DOMAIN list |-> Form!ConsoleFrom(config, line(i), i)]
    BY <1>1, <1>2, <1>4 DEF Form!ConsolesOf
  <2>2. ASSUME NEW i \in DOMAIN list
        PROVE  Form!ConsoleFrom(config, line(i), i).row = list[i].row
    BY DEF Form!ConsoleFrom, line, SentLine, Form!Sent
  <2>3. ASSUME NEW i \in DOMAIN list, list[i].row \notin moved',
               NEW k \in Form!StoredKeys(Form!ConsoleFrom(config, line(i), i)), k # 0
        PROVE  home'[k] = list[i].row
    <3>1. Form!Settled(list, i) /\ list[i].row \notin moved
      BY <2>3 DEF Form!Moved
    <3>2. line(i).name = list[i].name
      BY DEF line, SentLine, Form!Sent
    <3>3. \/ k = line(i).key \/ \E a \in Apps : k = line(i).own[a]
          \/ k \in Form!StoredKeys(Form!Previous(config, line(i), i))
      BY <2>3 DEF Form!ConsoleFrom, Form!StoredKeys, Form!Kept, Form!None
    <3>4. CASE k \in Form!StoredKeys(Form!Previous(config, line(i), i))
      <4>1. k \in 1 .. typed /\ home[k] = list[i].row
        BY <2>3, <3>1, <3>2, <3>4, PreviousIsItsOwn
      <4> QED
        BY <1>1, <4>1
    <3>5. CASE k = line(i).key \/ \E a \in Apps : k = line(i).own[a]
      <4>1. i = at /\ what # "clear" /\ k = typed + 1
        <5>1. \A key, own, clear : /\ Form!Sent(list[i], key, own, clear).key = key
                                   /\ Form!Sent(list[i], key, own, clear).own = own
          BY DEF Form!Sent
        <5>2. \A a \in Apps : /\ Form!NoOwn[a] = 0
                              /\ [Form!NoOwn EXCEPT ![app] = typed + 1][a] \in {0, typed + 1}
          BY DEF Form!NoOwn, Form!None
        <5>3. ASSUME line(i) = Form!Sent(list[i], 0, Form!NoOwn, {})
                     \/ line(i) = Form!Sent(list[i], 0, Form!NoOwn, {app})
              PROVE  FALSE
          BY <2>3, <3>5, <5>1, <5>2, <5>3
        <5>4. i = at /\ what # "clear"
          BY <5>3 DEF line, SentLine, ConsolesSent
        <5>5. CASE what = "key"
          <6>1. line(i) = Form!Sent(list[i], typed + 1, Form!NoOwn, {})
            BY <5>4, <5>5 DEF line, SentLine
          <6> QED
            BY <2>3, <3>5, <5>1, <5>2, <5>4, <6>1
        <5>6. CASE what = "own"
          <6>1. line(i) = Form!Sent(list[i], 0, [Form!NoOwn EXCEPT ![app] = typed + 1], {})
            BY <5>4, <5>6 DEF line, SentLine
          <6>2. /\ line(i).key = 0
                /\ line(i).own = [Form!NoOwn EXCEPT ![app] = typed + 1]
            BY <6>1 DEF Form!Sent
          <6>3. \A a \in Apps : line(i).own[a] \in {0, typed + 1}
            BY <5>2, <6>2
          <6> QED
            BY <2>3, <3>5, <5>4, <6>2, <6>3
        <5> QED
          BY <5>4, <5>5, <5>6 DEF ConsolesSent
      <4>2. at # 0
        <5>1. list \in Seq(FormRows)
          BY DEF ConsolesSent
        <5> QED
          BY <4>1, <5>1
      <4>3. SentInto(list, at, what) = <<list[i].row>>
        BY <4>1, <4>2 DEF SentInto
      <4> QED
        BY <1>1, <4>1, <4>3
    <3> QED
      BY <3>3, <3>4, <3>5
  <2>4. ASSUME NEW i \in DOMAIN config'.consoles, config'.consoles[i].row \notin moved',
               NEW k \in Form!StoredKeys(config'.consoles[i]), k # 0
        PROVE  home'[k] = config'.consoles[i].row
    BY <2>1, <2>2, <2>3, <2>4
  <2>5. ASSUME NEW i \in DOMAIN config'.consoles
        PROVE  Form!StoredKeys(config.consoles[i])' = Form!StoredKeys(config'.consoles[i])
    BY DEF Form!StoredKeys
  <2> QED
    BY <2>4, <2>5 DEF FormKeys
<1> QED
  BY <1>3, <1>4

\* The other saves leave the consoles as they are.
LEMMA OtherKeys ==
  ASSUME FormTypes, FormKeys, NEW upd, NEW where, Typed(upd, where), Form!Save(upd, where),
         upd.consoles = Absent, moved' = moved
  PROVE  FormKeys'
<1>1. config'.consoles = config.consoles /\ \A k \in 1 .. typed : home'[k] = home[k]
  BY FormSaveKeys DEF Form!ConsolesOf
<1> QED
  BY <1>1, FormKeysKept

LEMMA FormKeysInit == Form!Init => FormKeys
<1> SUFFICES ASSUME Form!Init PROVE FormKeys
  OBVIOUS
<1> DEFINE con == [name |-> CHOOSE n \in RowNames : TRUE, host |-> 0, key |-> 1,
                   own |-> Form!NoOwn, row |-> 1]
<1>1. config.consoles = <<con>> /\ home = <<1>>
  BY DEF Form!Init
<1>2. \A k \in Form!StoredKeys(con) : k # 0 => k = 1
  BY DEF Form!StoredKeys, Form!NoOwn, Form!None
<1>3. con.row = 1
  OBVIOUS
<1>4. \A i \in DOMAIN config.consoles : config.consoles[i] = con
  <2> HIDE DEF con
  <2>1. PICK l : l = <<con>>
    OBVIOUS
  <2>2. DOMAIN l = {1} /\ l[1] = con
    BY <2>1
  <2>3. config.consoles = l
    BY <1>1, <2>1
  <2> QED
    BY <2>2, <2>3
<1>5. home[1] = 1
  BY <1>1
<1> QED
  BY <1>2, <1>3, <1>4, <1>5 DEF FormKeys

LEMMA FormKeysStep == FormTypes /\ FormKeys /\ [Form!Next]_(Form!vars) => FormKeys'
<1> SUFFICES ASSUME FormTypes, FormKeys, [Form!Next]_(Form!vars) PROVE FormKeys'
  OBVIOUS
<1>1. CASE UNCHANGED <<config, home, moved>>
  BY <1>1, FormKeysKept
<1>2. ASSUME NEW t \in Tabs, Form!Submit(t) PROVE FormKeys'
  <2>1. forms[t] \in FormPages
    BY <1>2 DEF Form!Submit, FormTypes
  <2>2. CASE Form!SaveConsoles(t)
    BY <2>1, <2>2, SaveConsolesIs, ConsolesKeys
  <2>3. CASE Form!SaveChannel(t) \/ Form!SaveHooks(t) \/ Form!SaveRest(t)
    <3>1. /\ moved' = moved
          /\ \E upd, where : /\ Typed(upd, where) /\ Form!Save(upd, where)
                             /\ upd.consoles = Absent
      BY <2>1, <2>3, SaveChannelOK, SaveHooksOK, SaveRestOK
    <3> QED
      BY <3>1, OtherKeys
  <2> QED
    BY <1>2, <2>2, <2>3 DEF Form!Submit
<1>3. ASSUME NEW t \in Tabs, Form!HandleGet(t) PROVE FormKeys'
  BY <1>1, <1>3 DEF Form!HandleGet
<1> QED
  BY <1>1, <1>2, <1>3 DEF Form!Next, Form!vars

\* Whatever pages save in whatever order, the sources that run connect to the
\* hosts, with the keys, of the configuration saved last: one is kept running only
\* if all it was built from is unchanged (sources.go, reuseSources). And a key is
\* read with the row it was typed into, unless a save could not recognise that row
\* (settings.go, applyUpdate).
THEOREM SourcesUseTheirKeysSafe == Spec => []SourcesUseTheirKeys
<1> DEFINE Inv == subject = "form" => FormSafe /\ FormTypes /\ FormKeys
<1>1. Init => Inv
  BY FormInit, FormTypesInit, FormKeysInit DEF Init
<1>2. Inv /\ [Next]_vars => Inv'
  BY StepsOfSubject, FormStep, FormTypesStep, FormKeysStep
<1>3. Inv => SourcesUseTheirKeys
  BY DEF FormSafe, FormKeys, SourcesUseTheirKeys, Form!SourcesUseTheirKeys, Form!None
<1> QED
  BY <1>1, <1>2, <1>3, PTL DEF Spec

LEMMA FormTypesOK == FormTypes => Form!TypeOK
<1> SUFFICES ASSUME FormTypes PROVE Form!TypeOK
  OBVIOUS
<1>1. \A i \in DOMAIN config.consoles : config.consoles[i].key \in 0 .. typed
  <2> SUFFICES ASSUME NEW i \in DOMAIN config.consoles
               PROVE  config.consoles[i].key \in 0 .. typed
    OBVIOUS
  <2>1. config.consoles[i] \in FormConsoles(typed)
    BY DEF FormTypes
  <2> QED
    BY <2>1 DEF FormConsoles
<1> QED
  BY <1>1 DEF FormTypes, Form!TypeOK

-----------------------------------------------------------------------------
(* The requests a product signs (LinkRequests).                            *)

\* The entry of a product, and what an operator's request may hold.
Products == [cred : Signed!Credentials, conditions : Signed!Manifests]
Reading(o) == o # Absent /\ o.do = "read"
Saving(o) == o # Absent /\ o.do = "save"
Requested(o) ==
  /\ Reading(o) => o.condition \in Declarable
  /\ Saving(o) => o.next \in Products
PeerTypes ==
  /\ pairings \in Signed!Credentials /\ peer \in Products \cup {Absent}
  /\ office = [p \in Pages |-> office[p]] /\ \A p \in Pages : Requested(office[p])

LEMMA CardinalityOfSigned == ASSUME NEW S PROVE Signed!Cardinality(S) = Cardinality(S)
  BY DEF Signed!Cardinality, Cardinality

LEMMA DeclarableFinite == ASSUME NEW S \in SUBSET Declarable PROVE IsFiniteSet(S) /\ Cardinality(S) \in Nat
<1>1. IsFiniteSet(Declarable)
  BY SignedAssumption DEF SignedAssumption
<1>2. IsFiniteSet(S)
  BY <1>1, FS_Subset
<1> QED
  BY <1>2, FS_CardinalityType

\* A manifest that is not full takes another condition.
LEMMA ManifestGrows ==
  ASSUME NEW m \in Signed!Manifests, NEW c \in Declarable, c \notin m,
         Signed!Cardinality(m) < MaxListed
  PROVE  m \cup {c} \in Signed!Manifests
<1>1. m \in SUBSET Declarable /\ MaxListed \in Nat
  BY SignedAssumption DEF SignedAssumption, Signed!Manifests
<1>2. Cardinality(m \cup {c}) = Cardinality(m) + 1 /\ Cardinality(m) \in Nat
  BY <1>1, DeclarableFinite, FS_AddElement
<1>3. Cardinality(m \cup {c}) <= MaxListed
  BY <1>1, <1>2, CardinalityOfSigned
<1> QED
  BY <1>1, <1>3, CardinalityOfSigned DEF Signed!Manifests

LEMMA PeerInit == Signed!Init => PeerTypes
<1> SUFFICES ASSUME Signed!Init PROVE PeerTypes
  OBVIOUS
<1>1. PICK m \in Signed!Manifests : peer = [cred |-> 0, conditions |-> m]
  BY DEF Signed!Init
<1>2. pairings = 0 /\ office = [p \in Pages |-> Absent]
  BY DEF Signed!Init, Signed!Nothing
<1>3. 0 \in Signed!Credentials
  BY SignedAssumption DEF SignedAssumption, Signed!Credentials
<1> QED
  BY <1>1, <1>2, <1>3 DEF PeerTypes, Products, Requested, Reading, Saving

\* One request of the operator moves on, or ends.
LEMMA DeskMoves ==
  ASSUME PeerTypes, NEW p \in Pages, NEW o, office' = [office EXCEPT ![p] = o], Requested(o),
         UNCHANGED pairings, peer' \in Products \cup {Absent}
  PROVE  PeerTypes'
<1>1. \A q \in Pages : office'[q] = IF q = p THEN o ELSE office[q]
  BY DEF PeerTypes
<1>2. office' = [q \in Pages |-> office'[q]]
  BY DEF PeerTypes
<1>3. \A q \in Pages : Requested(office'[q])
  BY <1>1 DEF PeerTypes
<1>4. \A q \in Pages : Requested(office[q])' = Requested(office'[q])
  BY DEF Requested, Reading, Saving, Products, Signed!Credentials, Signed!Manifests
<1> QED
  BY <1>2, <1>3, <1>4 DEF PeerTypes, Products, Signed!Credentials, Signed!Manifests

LEMMA DeskKept ==
  ASSUME PeerTypes, UNCHANGED office, pairings' \in Signed!Credentials, peer' \in Products \cup {Absent}
  PROVE  PeerTypes'
BY DEF PeerTypes, Requested, Reading, Saving, Products, Signed!Credentials, Signed!Manifests

LEMMA PeerStep == PeerTypes /\ [Signed!Next]_(Signed!vars) => PeerTypes'
<1> SUFFICES ASSUME PeerTypes, [Signed!Next]_(Signed!vars) PROVE PeerTypes'
  OBVIOUS
<1>1. peer \in Products \cup {Absent} /\ pairings \in Signed!Credentials
      /\ \A p \in Pages : Requested(office[p])
  BY DEF PeerTypes
<1>2. ASSUME UNCHANGED <<peer, office, pairings>> PROVE PeerTypes'
  BY <1>1, <1>2, DeskKept
<1>3. CASE Signed!Send \/ Signed!Tick \/ UNCHANGED Signed!vars
  BY <1>2, <1>3 DEF Signed!Send, Signed!Tick, Signed!vars, Signed!bounds
<1>4. ASSUME NEW h \in Handlers,
             \/ Signed!Arrive(h) \/ Signed!Verify(h) \/ Signed!Resolve(h)
             \/ Signed!Accept(h) \/ Signed!Propose(h)
      PROVE  PeerTypes'
  BY <1>2, <1>4 DEF Signed!Arrive, Signed!Verify, Signed!Resolve, Signed!Accept, Signed!Propose,
                    Signed!bounds
<1>5. ASSUME NEW c \in Declarable, Signed!Dismiss(c) PROVE PeerTypes'
  BY <1>2, <1>5 DEF Signed!Dismiss, Signed!bounds
<1>6. ASSUME NEW p \in Pages, Signed!Served(p), UNCHANGED <<peer, pairings>> PROVE PeerTypes'
  BY <1>1, <1>6, DeskMoves DEF Signed!Served, Requested, Reading, Saving
<1>7. ASSUME NEW p \in Pages, NEW c \in Declarable, Signed!Approve(p, c) PROVE PeerTypes'
  <2>1. PICK o : o = [do |-> "read", condition |-> c, since |-> pairings]
    OBVIOUS
  <2>2. office' = [office EXCEPT ![p] = o] /\ UNCHANGED <<peer, pairings>>
    BY <1>7, <2>1 DEF Signed!Approve, Signed!bounds
  <2>3. Requested(o)
    BY <2>1 DEF Requested, Reading, Saving
  <2> QED
    BY <1>1, <2>2, <2>3, DeskMoves
<1>8. ASSUME NEW p \in Pages, Signed!Amend(p) PROVE PeerTypes'
  <2>1. UNCHANGED <<peer, pairings>>
    BY <1>8 DEF Signed!Amend, Signed!bounds
  <2> DEFINE c == office[p].condition
             next == [peer EXCEPT !.conditions = @ \cup {c}]
             o == [do |-> "save", condition |-> c, since |-> office[p].since, next |-> next]
  <2>2. CASE /\ peer # Absent /\ c \notin peer.conditions
             /\ Signed!Cardinality(peer.conditions) < MaxListed
             /\ office' = [office EXCEPT ![p] = o]
    <3>1. c \in Declarable
      BY <1>1, <1>8 DEF Signed!Amend, Signed!Goes, Requested, Reading
    <3>2. peer \in Products /\ peer.conditions \cup {c} \in Signed!Manifests
      BY <1>1, <2>2, <3>1, ManifestGrows DEF Products
    <3>3. next \in Products
      BY <3>2 DEF Products
    <3> HIDE DEF next
    <3>4. Requested(o)
      BY <3>3 DEF Requested, Reading, Saving
    <3> HIDE DEF o
    <3> QED
      BY <1>1, <2>1, <2>2, <3>4, DeskMoves
  <2> HIDE DEF o
  <2>3. Signed!Served(p) \/ (/\ peer # Absent /\ c \notin peer.conditions
                             /\ Signed!Cardinality(peer.conditions) < MaxListed
                             /\ office' = [office EXCEPT ![p] = o])
    BY <1>8 DEF Signed!Amend, o
  <2> QED
    BY <1>6, <2>1, <2>2, <2>3
<1>9. ASSUME NEW p \in Pages, Signed!Save(p) PROVE PeerTypes'
  <2>1. CASE Signed!Served(p) /\ UNCHANGED peer
    BY <1>6, <1>9, <2>1 DEF Signed!Save, Signed!bounds
  <2>2. CASE /\ peer' = office[p].next
             /\ office' = [office EXCEPT ![p] = [do |-> "forget", condition |-> office[p].condition]]
    <3>1. peer' \in Products
      BY <1>1, <1>9, <2>2 DEF Signed!Save, Signed!Goes, Requested, Saving
    <3>2. PICK o : o = [do |-> "forget", condition |-> office[p].condition]
      OBVIOUS
    <3>3. Requested(o)
      BY <3>2 DEF Requested, Reading, Saving
    <3>4. UNCHANGED pairings
      BY <1>9 DEF Signed!Save, Signed!bounds
    <3> QED
      BY <2>2, <3>1, <3>2, <3>3, <3>4, DeskMoves
  <2> QED
    BY <1>9, <2>1, <2>2 DEF Signed!Save
<1>10. ASSUME NEW p \in Pages, Signed!Approved(p) \/ Signed!Unpaired(p) PROVE PeerTypes'
  BY <1>6, <1>10 DEF Signed!Approved, Signed!Unpaired, Signed!bounds
<1>11. ASSUME NEW p \in Pages, Signed!Unpair(p) PROVE PeerTypes'
  <2>1. PICK o : o = [do |-> "peer"]
    OBVIOUS
  <2>2. office' = [office EXCEPT ![p] = o] /\ peer' = Absent /\ UNCHANGED pairings
    BY <1>11, <2>1 DEF Signed!Unpair, Signed!bounds
  <2>3. Requested(o)
    BY <2>1 DEF Requested, Reading, Saving
  <2> QED
    BY <2>2, <2>3, DeskMoves
<1>12. CASE Signed!Pair
  <2>1. pairings < MaxPairings /\ pairings' = pairings + 1 /\ UNCHANGED office
    BY <1>12 DEF Signed!Pair
  <2>2. pairings' \in Signed!Credentials
    BY <1>1, <2>1, SignedAssumption DEF SignedAssumption, Signed!Credentials
  <2>3. PICK m \in Signed!Manifests : peer' = [cred |-> pairings + 1, conditions |-> m]
    BY <1>12 DEF Signed!Pair
  <2>4. peer' \in Products
    BY <2>1, <2>2, <2>3 DEF Products
  <2> QED
    BY <2>1, <2>2, <2>4, DeskKept
<1>13. CASE Signed!Crash
  <2>1. office' = [p \in Pages |-> Absent] /\ UNCHANGED <<peer, pairings>>
    BY <1>13 DEF Signed!Crash, Signed!Nothing
  <2> QED
    BY <1>1, <2>1 DEF PeerTypes, Requested, Reading, Saving, Products, Signed!Credentials,
                      Signed!Manifests
<1> QED
  BY <1>3, <1>4, <1>5, <1>7, <1>8, <1>9, <1>10, <1>11, <1>12, <1>13 DEF Signed!Next

\* What the operator may approve was refused since the product was paired, and so
\* was what an approval begun in this pairing has yet to add or to save.
Remembering == DOMAIN pending \subseteq refused /\ refused \subseteq asked /\ declared \subseteq asked
AsksFor(o) ==
  Reading(o) => /\ o.condition \in asked /\ o.since \in 0 .. pairings
                /\ o.since = pairings => o.condition \in refused
Writes(o) ==
  Saving(o) => /\ o.next.conditions \subseteq asked /\ o.since \in 0 .. pairings
               /\ o.since = pairings => late \/ o.next.conditions \subseteq declared \cup refused
VocabularySafe ==
  /\ Remembering /\ Signed!VocabularyWasAsked
  /\ \A p \in Pages : AsksFor(office[p]) /\ Writes(office[p])

LEMMA VocabularyInit == Signed!Init => VocabularySafe
<1> SUFFICES ASSUME Signed!Init PROVE VocabularySafe
  OBVIOUS
<1>1. PICK m : peer = [cred |-> 0, conditions |-> m] /\ declared = m /\ asked = m
  BY DEF Signed!Init
<1>2. pending = << >> /\ refused = {} /\ office = [p \in Pages |-> Absent]
  BY Zenon DEF Signed!Init, Signed!Empty, Signed!Nothing
<1>3. DOMAIN pending = {}
  BY <1>2
<1>4. Remembering /\ Signed!VocabularyWasAsked
  BY <1>1, <1>2, <1>3 DEF Remembering, Signed!VocabularyWasAsked
<1>5. \A p \in Pages : office[p] = Absent
  BY <1>2
<1> QED
  BY <1>4, <1>5 DEF VocabularySafe, AsksFor, Writes, Reading, Saving

\* Within one pairing, what was refused only grows, and so does lateness.
LEMMA VocabularyKept ==
  ASSUME PeerTypes, VocabularySafe, UNCHANGED <<declared, pairings>>, Remembering',
         refused \subseteq refused', asked \subseteq asked', late => late',
         Signed!VocabularyWasAsked',
         \A p \in Pages : \/ office'[p] = office[p]
                          \/ AsksFor(office'[p]) /\ Writes(office'[p])
  PROVE  VocabularySafe'
<1>1. ASSUME NEW p \in Pages PROVE AsksFor(office[p])' /\ Writes(office[p])'
  <2>1. AsksFor(office'[p]) /\ Writes(office'[p])
    BY DEF VocabularySafe
  <2>2. AsksFor(office[p])'
    BY <2>1 DEF AsksFor, Reading
  <2>3. Writes(office[p])'
    BY <2>1 DEF Writes, Saving
  <2> QED
    BY <2>2, <2>3
<1> QED
  BY <1>1 DEF VocabularySafe

\* Where nothing was refused and the manifest is unchanged or gone.
LEMMA VocabularySame ==
  ASSUME PeerTypes, VocabularySafe, UNCHANGED <<refused, declared, asked, late, pairings>>,
         DOMAIN pending' \subseteq DOMAIN pending, peer' \in {peer, Absent},
         \A p \in Pages : \/ office'[p] = office[p]
                          \/ AsksFor(office'[p]) /\ Writes(office'[p])
  PROVE  VocabularySafe'
<1>1. Remembering'
  BY DEF VocabularySafe, Remembering
<1>2. Signed!VocabularyWasAsked'
  BY DEF VocabularySafe, Signed!VocabularyWasAsked
<1> QED
  BY <1>1, <1>2, VocabularyKept

LEMMA ForgetNarrows ==
  ASSUME NEW c, Signed!Forget(c)
  PROVE  DOMAIN pending' \subseteq DOMAIN pending
  BY DEF Signed!Forget, Signed!Without, Signed!Restrict

\* A request of the operator that ends asks and writes nothing.
LEMMA ServedAsksNothing ==
  ASSUME PeerTypes, NEW p \in Pages, Signed!Served(p), NEW q \in Pages
  PROVE  office'[q] = office[q] \/ (AsksFor(office'[q]) /\ Writes(office'[q]))
<1>1. office'[q] = office[q] \/ office'[q] = Absent
  BY DEF PeerTypes, Signed!Served
<1> QED
  BY <1>1 DEF AsksFor, Writes, Reading, Saving

\* An approval asks what the product was refused for, since its pairing.
LEMMA ApproveAsks ==
  ASSUME PeerTypes, VocabularySafe, NEW p \in Pages, NEW c, Signed!Approve(p, c)
  PROVE  VocabularySafe'
<1>1. c \in refused /\ c \in asked
  BY DEF VocabularySafe, Remembering, Signed!Approve, Signed!Approvable
<1>2. PICK o : o = [do |-> "read", condition |-> c, since |-> pairings]
  OBVIOUS
<1>3. office' = [office EXCEPT ![p] = o]
      /\ UNCHANGED <<peer, pending, refused, declared, asked, late, pairings>>
  BY <1>2 DEF Signed!Approve, Signed!asking, Signed!history, Signed!bounds
<1>4. pairings \in 0 .. pairings
  BY SignedAssumption DEF SignedAssumption, PeerTypes, Signed!Credentials
<1>5. AsksFor(o) /\ Writes(o)
  BY <1>1, <1>2, <1>4 DEF AsksFor, Writes, Reading, Saving
<1>6. \A q \in Pages : office'[q] = office[q] \/ office'[q] = o
  BY <1>3 DEF PeerTypes
<1> QED
  BY <1>3, <1>5, <1>6, VocabularySame

\* What it then writes is what it read, with that condition.
LEMMA AmendAsks ==
  ASSUME PeerTypes, VocabularySafe, NEW p \in Pages, Signed!Amend(p)
  PROVE  VocabularySafe'
<1> DEFINE c == office[p].condition
           next == [peer EXCEPT !.conditions = @ \cup {c}]
           o == [do |-> "save", condition |-> c, since |-> office[p].since, next |-> next]
<1>1. UNCHANGED <<peer, refused, declared, asked, late, pairings>>
      /\ DOMAIN pending' \subseteq DOMAIN pending
  BY ForgetNarrows DEF Signed!Amend, Signed!asking, Signed!history, Signed!bounds
<1>2. CASE Signed!Served(p)
  BY <1>1, <1>2, ServedAsksNothing, VocabularySame
<1>3. CASE peer # Absent /\ office' = [office EXCEPT ![p] = o]
  <2>1. /\ c \in asked /\ office[p].since \in 0 .. pairings
        /\ office[p].since = pairings => c \in refused
    BY DEF Signed!Amend, Signed!Goes, VocabularySafe, AsksFor, Reading
  <2>2. next.conditions = peer.conditions \cup {c}
    BY <1>3 DEF PeerTypes, Products
  <2> HIDE DEF next, c
  <2>3. next.conditions \subseteq asked
    BY <1>3, <2>1, <2>2 DEF VocabularySafe, Signed!VocabularyWasAsked
  <2>4. office[p].since = pairings => late \/ next.conditions \subseteq declared \cup refused
    BY <1>3, <2>1, <2>2 DEF VocabularySafe, Signed!VocabularyWasAsked
  <2>5. AsksFor(o) /\ Writes(o)
    BY <2>1, <2>3, <2>4 DEF AsksFor, Writes, Reading, Saving
  <2> HIDE DEF o
  <2>6. \A q \in Pages : office'[q] = office[q] \/ office'[q] = o
    BY <1>3 DEF PeerTypes
  <2> QED
    BY <1>1, <2>5, <2>6, VocabularySame
<1> HIDE DEF o
<1>4. Signed!Served(p) \/ (peer # Absent /\ office' = [office EXCEPT ![p] = o])
  BY DEF Signed!Amend, o
<1> QED
  BY <1>2, <1>3, <1>4

LEMMA SaveAsks ==
  ASSUME PeerTypes, VocabularySafe, NEW p \in Pages, Signed!Save(p)
  PROVE  VocabularySafe'
<1>1. UNCHANGED <<pending, refused, declared, asked, pairings>>
  BY DEF Signed!Save, Signed!asking, Signed!bounds
<1>2. CASE Signed!Served(p) /\ UNCHANGED <<peer, late>>
  BY <1>1, <1>2, ServedAsksNothing, VocabularySame
<1>3. CASE /\ peer' = office[p].next /\ late' = (late \/ office[p].since # pairings)
           /\ office' = [office EXCEPT ![p] = [do |-> "forget", condition |-> office[p].condition]]
  <2>1. /\ office[p].next.conditions \subseteq asked
        /\ office[p].since = pairings =>
             late \/ office[p].next.conditions \subseteq declared \cup refused
    BY DEF Signed!Save, Signed!Goes, VocabularySafe, Writes, Saving
  <2>2. Signed!VocabularyWasAsked'
    BY <1>1, <1>3, <2>1 DEF Signed!VocabularyWasAsked
  <2>3. PICK o : o = [do |-> "forget", condition |-> office[p].condition]
    OBVIOUS
  <2>4. AsksFor(o) /\ Writes(o)
    BY <2>3 DEF AsksFor, Writes, Reading, Saving
  <2>5. \A q \in Pages : office'[q] = office[q] \/ office'[q] = o
    BY <1>3, <2>3 DEF PeerTypes
  <2>6. Remembering'
    BY <1>1 DEF VocabularySafe, Remembering
  <2> QED
    BY <1>1, <1>3, <2>2, <2>4, <2>5, <2>6, VocabularyKept
<1> QED
  BY <1>2, <1>3 DEF Signed!Save

LEMMA ProposeAsks ==
  ASSUME PeerTypes, VocabularySafe, NEW h \in Handlers, Signed!Propose(h)
  PROVE  VocabularySafe'
<1>1. PICK c : Signed!Noted(c) /\ refused' = refused \cup {c} /\ asked' = asked \cup {c}
  BY DEF Signed!Propose
<1>2. DOMAIN pending' \subseteq DOMAIN pending \cup {c}
  BY <1>1 DEF Signed!Noted
<1>3. UNCHANGED <<peer, declared, late, pairings, office>>
  BY DEF Signed!Propose, Signed!bounds
<1>4. Remembering'
  BY <1>1, <1>2, <1>3 DEF VocabularySafe, Remembering
<1>5. Signed!VocabularyWasAsked'
  BY <1>1, <1>3 DEF VocabularySafe, Signed!VocabularyWasAsked
<1> QED
  BY <1>1, <1>3, <1>4, <1>5, VocabularyKept

\* At a pairing every approval under way is of before it.
LEMMA PairAsks == ASSUME PeerTypes, VocabularySafe, Signed!Pair PROVE VocabularySafe'
<1>1. PICK m : /\ peer' = [cred |-> pairings + 1, conditions |-> m] /\ declared' = m
               /\ asked' = asked \cup m
  BY DEF Signed!Pair
<1>2. refused' = DOMAIN pending /\ pairings' = pairings + 1 /\ UNCHANGED <<pending, office>>
  BY DEF Signed!Pair, Signed!asking
<1>3. Remembering' /\ Signed!VocabularyWasAsked'
  BY <1>1, <1>2 DEF VocabularySafe, Remembering, Signed!VocabularyWasAsked
<1>4. \A k \in 0 .. pairings : k \in 0 .. pairings + 1 /\ k # pairings + 1
  BY SignedAssumption DEF SignedAssumption, PeerTypes, Signed!Credentials
<1>5. ASSUME NEW p \in Pages PROVE AsksFor(office[p])' /\ Writes(office[p])'
  BY <1>1, <1>2, <1>4 DEF VocabularySafe, AsksFor, Writes, Reading, Saving
<1> QED
  BY <1>3, <1>5 DEF VocabularySafe

LEMMA VocabularyStep == PeerTypes /\ VocabularySafe /\ [Signed!Next]_(Signed!vars) => VocabularySafe'
<1> SUFFICES ASSUME PeerTypes, VocabularySafe, [Signed!Next]_(Signed!vars) PROVE VocabularySafe'
  OBVIOUS
<1>1. ASSUME UNCHANGED <<peer, pending, office, refused, declared, asked, late, pairings>>
      PROVE  VocabularySafe'
  BY <1>1, VocabularySame
<1>2. CASE Signed!Send \/ Signed!Tick \/ UNCHANGED Signed!vars
  BY <1>1, <1>2 DEF Signed!Send, Signed!Tick, Signed!vars, Signed!asking, Signed!history, Signed!bounds
<1>3. ASSUME NEW h \in Handlers,
             Signed!Arrive(h) \/ Signed!Verify(h) \/ Signed!Resolve(h) \/ Signed!Accept(h)
      PROVE  VocabularySafe'
  BY <1>1, <1>3 DEF Signed!Arrive, Signed!Verify, Signed!Resolve, Signed!Accept, Signed!asking,
                    Signed!history, Signed!bounds
<1>4. ASSUME NEW p \in Pages, Signed!Approved(p) PROVE VocabularySafe'
  <2>1. UNCHANGED <<peer, refused, declared, asked, late, pairings>>
        /\ DOMAIN pending' \subseteq DOMAIN pending /\ Signed!Served(p)
    BY <1>4, ForgetNarrows DEF Signed!Approved, Signed!history, Signed!bounds
  <2> QED
    BY <2>1, ServedAsksNothing, VocabularySame
<1>5. ASSUME NEW c \in Declarable, Signed!Dismiss(c) PROVE VocabularySafe'
  <2>1. UNCHANGED <<peer, office, refused, declared, asked, late, pairings>>
        /\ DOMAIN pending' \subseteq DOMAIN pending
    BY <1>5, ForgetNarrows DEF Signed!Dismiss, Signed!history, Signed!bounds
  <2> QED
    BY <2>1, VocabularySame
<1>6. ASSUME NEW p \in Pages, Signed!Unpair(p) PROVE VocabularySafe'
  <2>1. PICK o : o = [do |-> "peer"]
    OBVIOUS
  <2>2. office' = [office EXCEPT ![p] = o] /\ peer' = Absent
        /\ UNCHANGED <<pending, refused, declared, asked, late, pairings>>
    BY <1>6, <2>1 DEF Signed!Unpair, Signed!asking, Signed!history, Signed!bounds
  <2>3. AsksFor(o) /\ Writes(o)
    BY <2>1 DEF AsksFor, Writes, Reading, Saving
  <2>4. \A q \in Pages : office'[q] = office[q] \/ office'[q] = o
    BY <2>2 DEF PeerTypes
  <2> QED
    BY <2>2, <2>3, <2>4, VocabularySame
<1>7. ASSUME NEW p \in Pages, Signed!Unpaired(p) PROVE VocabularySafe'
  <2>1. pending' = << >> /\ UNCHANGED <<peer, refused, declared, asked, late, pairings>>
        /\ Signed!Served(p)
    BY <1>7, Zenon DEF Signed!Unpaired, Signed!Empty, Signed!history, Signed!bounds
  <2>2. DOMAIN pending' = {}
    BY <2>1
  <2> QED
    BY <2>1, <2>2, ServedAsksNothing, VocabularySame
<1>8. CASE Signed!Crash
  <2>1. pending' = << >> /\ UNCHANGED <<peer, refused, declared, asked, late, pairings>>
        /\ office' = [p \in Pages |-> Absent]
    BY <1>8, Zenon DEF Signed!Crash, Signed!Empty, Signed!Nothing
  <2>2. DOMAIN pending' = {} /\ \A p \in Pages : office'[p] = Absent
    BY <2>1
  <2>3. AsksFor(Absent) /\ Writes(Absent)
    BY DEF AsksFor, Writes, Reading, Saving
  <2> QED
    BY <2>1, <2>2, <2>3, VocabularySame
<1> QED
  BY <1>2, <1>3, <1>4, <1>5, <1>6, <1>7, <1>8, ApproveAsks, AmendAsks, SaveAsks, ProposeAsks, PairAsks
  DEF Signed!Next

\* The vocabulary the operator approved is what the product declared when it was
\* paired and what it was refused for since, however its requests and those of the
\* operator interleave; where an approval begun before a pairing is saved after it,
\* it is still what the product declared or was refused for at some time
\* (approveCondition's three steps, Proposals.Has).
THEOREM VocabularyWasAskedSafe == Spec => []VocabularyWasAsked
<1> DEFINE Inv == subject = "signed" => PeerTypes /\ VocabularySafe
<1>1. Init => Inv
  BY PeerInit, VocabularyInit DEF Init
<1>2. Inv /\ [Next]_vars => Inv'
  BY StepsOfSubject, PeerStep, VocabularyStep
<1>3. Inv => VocabularyWasAsked
  BY DEF VocabularySafe, VocabularyWasAsked
<1> QED
  BY <1>1, <1>2, <1>3, PTL DEF Spec

SignedHandlers ==
  [at : {"read", "verified", "resolved"}, nonce : Signed!Nonces,
   cred : Signed!Credentials \cup {Absent}, allowed : SUBSET Declarable]

TakenTypes ==
  /\ clock_signed \in Int /\ sent \in 0 .. MaxSent /\ DOMAIN wire = 1 .. sent
  /\ \A n \in DOMAIN wire : wire[n].stamp \in Int
  /\ handler \in [Handlers -> SignedHandlers \cup {Absent}]
  /\ \A h \in Handlers : handler[h] # Absent => handler[h].nonce \in DOMAIN wire
  /\ verified \in [Signed!Nonces -> Int]

\* A nonce that verified is remembered by its stamp until the stamp itself is out
\* of the window; a request under it is refused on one ground or the other.
TakenSafe ==
  /\ TakenTypes
  /\ \A n \in DOMAIN nonces : n \in DOMAIN wire /\ nonces[n] = wire[n].stamp
  /\ \A n \in Signed!Nonces :
       \/ verified[n] = 0
       \/ /\ verified[n] = 1 /\ n \in DOMAIN wire
          /\ n \in DOMAIN nonces \/ clock_signed - wire[n].stamp > Window

LEMMA NoncesInRange ==
  ASSUME NEW k \in 0 .. MaxSent
  PROVE  1 .. k \subseteq Signed!Nonces
<1>1. MaxSent \in Nat
  BY SignedAssumption DEF SignedAssumption
<1> QED
  BY <1>1 DEF Signed!Nonces

LEMMA TakenInit == Signed!Init => TakenSafe
<1> SUFFICES ASSUME Signed!Init PROVE TakenSafe
  OBVIOUS
<1>1. /\ clock_signed = 0 /\ sent = 0 /\ wire = << >> /\ nonces = << >>
      /\ handler = [h \in Handlers |-> Absent] /\ verified = [n \in Signed!Nonces |-> 0]
  BY Zenon DEF Signed!Init, Signed!Empty
<1>2. DOMAIN wire = {} /\ DOMAIN nonces = {} /\ 1 .. sent = {}
  BY <1>1
<1>3. sent \in 0 .. MaxSent
  BY <1>1, SignedAssumption DEF SignedAssumption
<1> QED
  BY <1>1, <1>2, <1>3 DEF TakenSafe, TakenTypes

\* A step that is no verification: the nonces known stay, or go with the counts.
LEMMA TakenKept ==
  ASSUME TakenSafe, UNCHANGED <<wire, sent, nonces, verified, clock_signed>>,
         \A h \in Handlers :
            \/ handler'[h] = handler[h] \/ handler'[h] = Absent
            \/ handler'[h] \in SignedHandlers /\ handler'[h].nonce \in DOMAIN wire,
         handler' = [h \in Handlers |-> handler'[h]]
  PROVE  TakenSafe'
<1>1. TakenTypes'
  <2>1. handler' \in [Handlers -> SignedHandlers \cup {Absent}]
    BY DEF TakenSafe, TakenTypes
  <2> QED
    BY <2>1 DEF TakenSafe, TakenTypes, SignedHandlers, Signed!Credentials, Signed!Nonces
<1> QED
  BY <1>1 DEF TakenSafe, Signed!Nonces

LEMMA HandlerMoves ==
  ASSUME TakenSafe, NEW h \in Handlers, handler[h] # Absent,
         NEW at \in {"verified", "resolved"}, NEW next,
         next = [handler[h] EXCEPT !.at = at]
  PROVE  next \in SignedHandlers /\ next.nonce \in DOMAIN wire
<1>1. handler[h] \in SignedHandlers /\ handler[h].nonce \in DOMAIN wire
  BY DEF TakenSafe, TakenTypes
<1>2. next = [at |-> at, nonce |-> handler[h].nonce, cred |-> handler[h].cred,
              allowed |-> handler[h].allowed]
  BY <1>1 DEF SignedHandlers
<1> QED
  BY <1>1, <1>2 DEF SignedHandlers

LEMMA SendSigned == ASSUME TakenSafe, Signed!Send PROVE TakenSafe'
<1>1. /\ sent < MaxSent /\ sent' = sent + 1
      /\ UNCHANGED <<clock_signed, nonces, handler, verified>>
  BY DEF Signed!Send, Signed!history
<1>2. PICK c \in Signed!Names, k \in Skews :
        wire' = [n \in DOMAIN wire \cup {sent + 1} |->
                   IF n = sent + 1 THEN [stamp |-> clock_signed + k, condition |-> c, key |-> pairings]
                   ELSE wire[n]]
  BY DEF Signed!Send
<1>3. sent \in Nat /\ MaxSent \in Nat /\ DOMAIN wire = 1 .. sent /\ sent' \in 0 .. MaxSent
  BY <1>1, SignedAssumption DEF TakenSafe, TakenTypes, SignedAssumption
<1>4. DOMAIN wire' = 1 .. sent'
  BY <1>1, <1>2, <1>3
<1>5. \A n \in DOMAIN wire : n \in DOMAIN wire' /\ wire'[n] = wire[n]
  BY <1>2, <1>3
<1>6. \A n \in DOMAIN wire' : wire'[n].stamp \in Int
  <2>1. k \in Int /\ clock_signed \in Int
    BY SignedAssumption DEF SignedAssumption, TakenSafe, TakenTypes
  <2>2. ASSUME NEW n \in DOMAIN wire' PROVE wire'[n].stamp \in Int
    <3>1. CASE n = sent + 1
      BY <1>2, <2>1, <3>1
    <3>2. CASE n # sent + 1
      BY <1>2, <3>2 DEF TakenSafe, TakenTypes
    <3> QED
      BY <3>1, <3>2
  <2> QED
    BY <2>2
<1>7. TakenTypes'
  BY <1>1, <1>3, <1>4, <1>5, <1>6 DEF TakenSafe, TakenTypes, SignedHandlers, Signed!Credentials, Signed!Nonces
<1> QED
  BY <1>1, <1>5, <1>7 DEF TakenSafe, Signed!Nonces

LEMMA TickSigned == ASSUME TakenSafe, Signed!Tick PROVE TakenSafe'
<1>1. /\ clock_signed' = clock_signed + 1
      /\ UNCHANGED <<wire, sent, nonces, verified, handler>>
  BY DEF Signed!Tick, Signed!bounds, Signed!history
<1>2. TakenTypes'
  BY <1>1 DEF TakenSafe, TakenTypes, SignedHandlers, Signed!Credentials, Signed!Nonces
<1>3. ASSUME NEW n \in DOMAIN wire, clock_signed - wire[n].stamp > Window
      PROVE  clock_signed' - wire'[n].stamp > Window
  <2>1. clock_signed \in Int /\ wire[n].stamp \in Int /\ Window \in Int
    BY SignedAssumption DEF SignedAssumption, TakenSafe, TakenTypes
  <2> QED
    BY <1>1, <1>3, <2>1
<1> QED
  BY <1>1, <1>2, <1>3 DEF TakenSafe, Signed!Nonces

LEMMA ArriveSigned ==
  ASSUME TakenSafe, PeerTypes, NEW h \in Handlers, Signed!Arrive(h) PROVE TakenSafe'
<1>1. UNCHANGED <<clock_signed, wire, sent, nonces, verified>>
  BY DEF Signed!Arrive, Signed!bounds, Signed!history
<1>2. PICK n \in DOMAIN wire : \E r :
        /\ r = [at |-> "read", nonce |-> n, cred |-> IF peer = Absent THEN Absent ELSE peer.cred,
                allowed |-> {}]
        /\ handler' = [handler EXCEPT ![h] = r]
  BY DEF Signed!Arrive
<1>3. n \in Signed!Nonces
  BY NoncesInRange DEF TakenSafe, TakenTypes
<1>4. PICK r :
        /\ r = [at |-> "read", nonce |-> n, cred |-> IF peer = Absent THEN Absent ELSE peer.cred,
                allowed |-> {}]
        /\ handler' = [handler EXCEPT ![h] = r]
  BY <1>2
<1>5. r \in SignedHandlers /\ r.nonce \in DOMAIN wire
  BY <1>3, <1>4 DEF SignedHandlers, PeerTypes, Products
<1> QED
  BY <1>1, <1>4, <1>5, TakenKept DEF TakenSafe, TakenTypes

LEMMA ResolveSigned ==
  ASSUME TakenSafe, PeerTypes, NEW h \in Handlers, Signed!Resolve(h) PROVE TakenSafe'
<1>1. UNCHANGED <<clock_signed, wire, sent, nonces, verified>>
  BY DEF Signed!Resolve, Signed!bounds, Signed!history
<1>2. CASE Signed!Done(h)
  BY <1>1, <1>2, TakenKept DEF Signed!Done, TakenSafe, TakenTypes
<1>3. CASE /\ peer # Absent
           /\ handler' = [handler EXCEPT ![h].at = "resolved", ![h].allowed = peer.conditions]
  <2>1. handler[h] \in SignedHandlers /\ handler[h].nonce \in DOMAIN wire
    BY DEF TakenSafe, TakenTypes, Signed!Resolve
  <2>2. PICK r : r = [handler[h] EXCEPT !.at = "resolved", !.allowed = peer.conditions]
    OBVIOUS
  <2>3. handler' = [handler EXCEPT ![h] = r]
    BY <1>3, <2>2 DEF TakenSafe, TakenTypes
  <2>4. r = [at |-> "resolved", nonce |-> handler[h].nonce, cred |-> handler[h].cred,
             allowed |-> peer.conditions]
    BY <2>1, <2>2 DEF SignedHandlers
  <2>5. peer.conditions \subseteq Declarable
    BY <1>3 DEF PeerTypes, Products, Signed!Manifests
  <2>6. r \in SignedHandlers /\ r.nonce \in DOMAIN wire
    BY <2>1, <2>4, <2>5 DEF SignedHandlers
  <2> QED
    BY <1>1, <2>3, <2>6, TakenKept DEF TakenSafe, TakenTypes
<1> QED
  BY <1>2, <1>3 DEF Signed!Resolve

\* Each verification finds its nonce new, and remembers it.
LEMMA VerifySigned == ASSUME TakenSafe, NEW h \in Handlers, Signed!Verify(h) PROVE TakenSafe'
<1> DEFINE n == handler[h].nonce
<1>1. /\ handler[h] # Absent /\ handler[h] \in SignedHandlers /\ n \in DOMAIN wire /\ n \in Signed!Nonces
      /\ UNCHANGED <<clock_signed, wire, sent>>
  BY DEF Signed!Verify, Signed!bounds, TakenSafe, TakenTypes, SignedHandlers
<1>2. clock_signed \in Int /\ Window \in Int /\ \A m \in DOMAIN wire : wire[m].stamp \in Int
  BY SignedAssumption DEF SignedAssumption, TakenSafe, TakenTypes
<1>3. /\ DOMAIN Signed!Remembered(h) \subseteq DOMAIN nonces
      /\ \A m \in DOMAIN Signed!Remembered(h) : Signed!Remembered(h)[m] = nonces[m]
      /\ \A m \in DOMAIN nonces : m \notin DOMAIN Signed!Remembered(h) =>
            clock_signed - wire[m].stamp > Window
  <2>1. Signed!Remembered(h) = [m \in DOMAIN nonces \ Signed!Expired(h) |-> nonces[m]]
    BY DEF Signed!Remembered, Signed!Restrict
  <2>2. \A m \in Signed!Expired(h) : clock_signed - wire[m].stamp > Window
    BY DEF Signed!Expired, TakenSafe
  <2> QED
    BY <2>1, <2>2
<1>4. /\ handler' = [g \in Handlers |-> handler'[g]]
      /\ \A g \in Handlers : \/ handler'[g] = handler[g] \/ handler'[g] = Absent
                             \/ handler'[g] \in SignedHandlers /\ handler'[g].nonce \in DOMAIN wire
  <2>1. CASE Signed!Done(h)
    BY <2>1 DEF Signed!Done, TakenSafe, TakenTypes
  <2>2. CASE handler' = [handler EXCEPT ![h].at = "verified"]
    <3>1. PICK r : r = [handler[h] EXCEPT !.at = "verified"]
      OBVIOUS
    <3>2. r \in SignedHandlers /\ r.nonce \in DOMAIN wire
      BY <1>1, <3>1, HandlerMoves
    <3>3. handler' = [handler EXCEPT ![h] = r]
      BY <2>2, <3>1 DEF TakenSafe, TakenTypes
    <3> QED
      BY <3>2, <3>3 DEF TakenSafe, TakenTypes
  <2> QED
    BY <2>1, <2>2 DEF Signed!Verify
<1>5. ASSUME verified' \in [Signed!Nonces -> Int] PROVE TakenTypes'
  <2>1. handler' \in [Handlers -> SignedHandlers \cup {Absent}]
    BY <1>4 DEF TakenSafe, TakenTypes
  <2> QED
    BY <1>1, <1>4, <1>5, <2>1 DEF TakenSafe, TakenTypes, SignedHandlers, Signed!Credentials, Signed!Nonces
<1>6. CASE UNCHANGED <<nonces, verified>>
  BY <1>1, <1>5, <1>6 DEF TakenSafe, TakenTypes, Signed!Nonces
<1>7. CASE nonces' = Signed!Remembered(h) /\ UNCHANGED verified
  <2>1. TakenTypes'
    BY <1>5, <1>7 DEF TakenSafe, TakenTypes
  <2> QED
    BY <1>1, <1>3, <1>7, <2>1 DEF TakenSafe, Signed!Nonces
<1>8. CASE /\ Signed!InWindow(Signed!Request(h).stamp) /\ Signed!Genuine(h)
           /\ n \notin DOMAIN Signed!Remembered(h)
           /\ nonces' = [m \in DOMAIN Signed!Remembered(h) \cup {n} |->
                           IF m = n THEN Signed!Request(h).stamp ELSE Signed!Remembered(h)[m]]
           /\ verified' = [verified EXCEPT ![n] = @ + 1]
  <2>1. Signed!Request(h).stamp = wire[n].stamp
    BY DEF Signed!Request
  <2>2. ~(clock_signed - wire[n].stamp > Window)
    BY <1>1, <1>2, <1>8, <2>1 DEF Signed!InWindow
  <2>3. n \notin DOMAIN nonces /\ verified[n] = 0
    BY <1>1, <1>3, <1>8, <2>2 DEF TakenSafe
  <2>4. /\ verified' \in [Signed!Nonces -> Int] /\ verified'[n] = 1
        /\ \A m \in Signed!Nonces : m # n => verified'[m] = verified[m]
    BY <1>1, <1>8, <2>3 DEF TakenSafe, TakenTypes
  <2>5. TakenTypes'
    BY <1>5, <2>4
  <2>6. /\ n \in DOMAIN nonces' /\ nonces'[n] = wire[n].stamp
        /\ \A m \in DOMAIN nonces' : m # n => m \in DOMAIN nonces /\ nonces'[m] = nonces[m]
        /\ \A m \in DOMAIN nonces : m \in DOMAIN nonces' \/ clock_signed - wire[m].stamp > Window
    BY <1>3, <1>8, <2>1
  <2> HIDE DEF n
  <2>7. \A m \in DOMAIN nonces' : m \in DOMAIN wire' /\ nonces'[m] = wire'[m].stamp
    BY <1>1, <2>6 DEF TakenSafe
  <2>8. ASSUME NEW m \in Signed!Nonces'
        PROVE  \/ verified'[m] = 0
               \/ /\ verified'[m] = 1 /\ m \in DOMAIN wire'
                  /\ m \in DOMAIN nonces' \/ clock_signed' - wire'[m].stamp > Window
    <3>1. CASE m = n
      BY <1>1, <2>4, <2>6, <3>1
    <3>2. CASE m # n
      BY <1>1, <2>4, <2>6, <3>2 DEF TakenSafe, Signed!Nonces
    <3> QED
      BY <3>1, <3>2
  <2> QED
    BY <2>5, <2>7, <2>8 DEF TakenSafe
<1> QED
  BY <1>6, <1>7, <1>8 DEF Signed!Verify

LEMMA TakenStep == TakenSafe /\ PeerTypes /\ [Signed!Next]_(Signed!vars) => TakenSafe'
<1> SUFFICES ASSUME TakenSafe, PeerTypes, [Signed!Next]_(Signed!vars) PROVE TakenSafe'
  OBVIOUS
<1>1. handler = [h \in Handlers |-> handler[h]]
  BY DEF TakenSafe, TakenTypes
<1>2. ASSUME UNCHANGED <<clock_signed, wire, sent, nonces, verified, handler>>
      PROVE  TakenSafe'
  BY <1>1, <1>2, TakenKept
<1>3. CASE UNCHANGED Signed!vars
  BY <1>2, <1>3 DEF Signed!vars, Signed!bounds, Signed!history
<1>4. ASSUME NEW h \in Handlers, Signed!Accept(h) \/ Signed!Propose(h) PROVE TakenSafe'
  <2>1. /\ Signed!Done(h)
        /\ UNCHANGED <<clock_signed, wire, sent, nonces, verified>>
    BY <1>4 DEF Signed!Accept, Signed!Propose, Signed!bounds, Signed!history
  <2> QED
    BY <1>1, <2>1, TakenKept DEF Signed!Done
<1>5. ASSUME NEW p \in Pages,
             \/ Signed!Amend(p) \/ Signed!Save(p) \/ Signed!Approved(p)
             \/ Signed!Unpair(p) \/ Signed!Unpaired(p) \/ \E c \in Declarable : Signed!Approve(p, c)
      PROVE  TakenSafe'
  BY <1>2, <1>5 DEF Signed!Amend, Signed!Save, Signed!Approved, Signed!Unpair, Signed!Unpaired,
                    Signed!Approve, Signed!bounds, Signed!history
<1>6. ASSUME NEW c \in Declarable, Signed!Dismiss(c) PROVE TakenSafe'
  BY <1>2, <1>6 DEF Signed!Dismiss, Signed!bounds, Signed!history
<1>7. CASE Signed!Pair
  BY <1>2, <1>7 DEF Signed!Pair
<1>8. CASE Signed!Crash
  <2>1. /\ nonces' = << >> /\ verified' = [n \in Signed!Nonces |-> 0]
        /\ handler' = [h \in Handlers |-> Absent]
        /\ UNCHANGED <<clock_signed, wire, sent>>
    BY <1>8, Zenon DEF Signed!Crash, Signed!Empty
  <2>2. DOMAIN nonces' = {}
    BY <2>1
  <2> QED
    BY <2>1, <2>2 DEF TakenSafe, TakenTypes, SignedHandlers, Signed!Credentials, Signed!Nonces
<1> QED
  BY <1>3, <1>4, <1>5, <1>6, <1>7, <1>8, SendSigned, TickSigned, ArriveSigned, VerifySigned,
     ResolveSigned DEF Signed!Next

\* A signed request is taken at most once by a run of the daemon, however late and
\* often copies of it arrive and however far the product's clock is off
\* (Verifier.useNonce keeps a nonce by its stamp).
THEOREM TakenOnceSafe == Spec => [](subject = "signed" => Signed!TakenOnce)
<1> DEFINE Inv == subject = "signed" => TakenSafe /\ PeerTypes
<1>1. Init => Inv
  BY TakenInit, PeerInit DEF Init
<1>2. Inv /\ [Next]_vars => Inv'
  BY StepsOfSubject, TakenStep, PeerStep
<1>3. Inv => (subject = "signed" => Signed!TakenOnce)
  BY DEF TakenSafe, Signed!TakenOnce
<1> QED
  BY <1>1, <1>2, <1>3, PTL DEF Spec

SignedBuckets == [start : 0 .. Horizon_signed, n : 0 .. PerPeerRate + 1]

\* The nonces remembered of a credential.
KnownOf(k) == {n \in DOMAIN nonces : wire[n].key = k}

SignedCounts ==
  /\ clock_signed \in 0 .. Horizon_signed
  /\ bucket \in [Signed!Credentials -> SignedBuckets]
  /\ \A k \in Signed!Credentials : Cardinality(KnownOf(k)) <= MaxNonces

SignedProposals ==
  /\ DOMAIN pending \subseteq Declarable /\ Cardinality(DOMAIN pending) <= MaxListed
  /\ full \in 0 .. MaxSent /\ unusable \in 0 .. MaxSent
  /\ \A n \in DOMAIN wire : wire[n].condition \in Signed!Names

LEMMA NoncesFinite ==
  ASSUME TakenSafe, NEW S \in SUBSET DOMAIN nonces PROVE IsFiniteSet(S) /\ Cardinality(S) \in Nat
<1>1. S \subseteq 1 .. sent /\ sent \in Int
  BY SignedAssumption DEF SignedAssumption, TakenSafe, TakenTypes
<1>2. IsFiniteSet(1 .. sent)
  BY <1>1, FS_Interval
<1>3. IsFiniteSet(S)
  BY <1>1, <1>2, FS_Subset
<1> QED
  BY <1>3, FS_CardinalityType

LEMMA CappedAt ==
  ASSUME NEW k \in 0 .. MaxSent PROVE Signed!Min({k + 1, MaxSent}) \in 0 .. MaxSent
<1>1. k + 1 \in Nat /\ MaxSent \in Nat
  BY SignedAssumption DEF SignedAssumption
<1>2. \E x \in {k + 1, MaxSent} : \A y \in {k + 1, MaxSent} : x <= y
  BY <1>1
<1>3. PICK m : m = Signed!Min({k + 1, MaxSent})
  OBVIOUS
<1>4. m \in {k + 1, MaxSent} /\ \A y \in {k + 1, MaxSent} : m <= y
  BY <1>2, <1>3 DEF Signed!Min
<1> QED
  BY <1>1, <1>3, <1>4

LEMMA CountedOK ==
  ASSUME clock_signed \in 0 .. Horizon_signed, NEW b \in SignedBuckets
  PROVE  Signed!Counted(b) \in SignedBuckets
<1>1. b.n \in 0 .. PerPeerRate + 1 /\ PerPeerRate \in Nat
  BY SignedAssumption DEF SignedAssumption, SignedBuckets
<1>2. PICK m : m = Signed!Min({b.n + 1, PerPeerRate + 1})
  OBVIOUS
<1>3. \E x \in {b.n + 1, PerPeerRate + 1} : \A y \in {b.n + 1, PerPeerRate + 1} : x <= y
  BY <1>1
<1>4. m \in {b.n + 1, PerPeerRate + 1} /\ \A y \in {b.n + 1, PerPeerRate + 1} : m <= y
  BY <1>2, <1>3 DEF Signed!Min
<1>5. m \in 0 .. PerPeerRate + 1 /\ 1 \in 0 .. PerPeerRate + 1
  BY <1>1, <1>4
<1>6. Signed!Counted(b) = [start |-> clock_signed, n |-> 1] \/ Signed!Counted(b) = [b EXCEPT !.n = m]
  BY <1>2 DEF Signed!Counted
<1> QED
  BY <1>5, <1>6 DEF SignedBuckets

LEMMA SignedCountsInit == Signed!Init => SignedCounts
<1> SUFFICES ASSUME Signed!Init PROVE SignedCounts
  OBVIOUS
<1>1. /\ clock_signed = 0 /\ nonces = << >>
      /\ bucket = [k \in Signed!Credentials |-> [start |-> 0, n |-> 0]]
  BY Zenon DEF Signed!Init, Signed!Empty, Signed!NoBuckets
<1>2. \A k : KnownOf(k) = {}
  BY <1>1 DEF KnownOf
<1>3. Cardinality({}) = 0
  BY FS_EmptySet
<1>4. 0 \in 0 .. Horizon_signed /\ 0 \in 0 .. PerPeerRate + 1 /\ 0 <= MaxNonces
  BY SignedAssumption DEF SignedAssumption
<1> QED
  BY <1>1, <1>2, <1>3, <1>4 DEF SignedCounts, SignedBuckets

LEMMA SignedProposalsInit == Signed!Init => SignedProposals
<1> SUFFICES ASSUME Signed!Init PROVE SignedProposals
  OBVIOUS
<1>1. pending = << >> /\ wire = << >> /\ full = 0 /\ unusable = 0
  BY Zenon DEF Signed!Init, Signed!Empty
<1>2. DOMAIN pending = {} /\ DOMAIN wire = {}
  BY <1>1
<1> QED
  BY <1>1, <1>2, FS_EmptySet, SignedAssumption DEF SignedAssumption, SignedProposals

\* The nonces of a step that counts no request: some of those there were.
LEMMA CountsKept ==
  ASSUME TakenSafe, SignedCounts, clock_signed' \in 0 .. Horizon_signed, UNCHANGED bucket,
         DOMAIN nonces' \subseteq DOMAIN nonces, \A n \in DOMAIN nonces : wire'[n].key = wire[n].key
  PROVE  SignedCounts'
<1>1. ASSUME NEW k \in Signed!Credentials PROVE Cardinality(KnownOf(k)') <= MaxNonces
  <2>1. KnownOf(k)' \subseteq KnownOf(k) /\ KnownOf(k) \in SUBSET DOMAIN nonces
    BY DEF KnownOf
  <2>2. Cardinality(KnownOf(k)') <= Cardinality(KnownOf(k))
    BY <2>1, NoncesFinite, FS_Subset
  <2>3. KnownOf(k)' \in SUBSET DOMAIN nonces
    BY <2>1
  <2>4. Cardinality(KnownOf(k)') \in Nat /\ Cardinality(KnownOf(k)) \in Nat
    BY <2>1, <2>3, NoncesFinite
  <2>5. Cardinality(KnownOf(k)) <= MaxNonces /\ MaxNonces \in Nat
    BY SignedAssumption DEF SignedAssumption, SignedCounts
  <2> QED
    BY <2>2, <2>4, <2>5
<1> QED
  BY <1>1 DEF SignedCounts, SignedBuckets, Signed!Credentials

\* A nonce is remembered only where there is room, and each request is counted once.
LEMMA VerifyCounts ==
  ASSUME TakenSafe, SignedCounts, NEW h \in Handlers, Signed!Verify(h)
  PROVE  SignedCounts'
<1> DEFINE n == handler[h].nonce
           c == handler[h].cred
<1>1. /\ handler[h] # Absent /\ handler[h] \in SignedHandlers /\ n \in DOMAIN wire
      /\ UNCHANGED <<clock_signed, wire>>
  BY DEF Signed!Verify, TakenSafe, TakenTypes
<1>2. DOMAIN Signed!Remembered(h) \subseteq DOMAIN nonces
  BY DEF Signed!Remembered, Signed!Restrict
<1>3. CASE UNCHANGED <<nonces, bucket>>
  BY <1>1, <1>3, CountsKept DEF SignedCounts
<1>4. CASE nonces' = Signed!Remembered(h) /\ UNCHANGED bucket
  BY <1>1, <1>2, <1>4, CountsKept DEF SignedCounts
<1>5. CASE /\ Signed!Genuine(h) /\ ~Signed!IsFull(h)
           /\ nonces' = [m \in DOMAIN Signed!Remembered(h) \cup {n} |->
                           IF m = n THEN Signed!Request(h).stamp ELSE Signed!Remembered(h)[m]]
           /\ bucket' = [bucket EXCEPT ![c] = Signed!Counted(@)]
  <2>1. c \in Signed!Credentials /\ wire[n].key = c
    BY <1>1, <1>5 DEF Signed!Genuine, Signed!Request, SignedHandlers
  <2>2. bucket' \in [Signed!Credentials -> SignedBuckets]
    BY <1>5, <2>1, CountedOK DEF SignedCounts
  <2>3. DOMAIN nonces' = DOMAIN Signed!Remembered(h) \cup {n}
    BY <1>5
  <2>4. ASSUME NEW k \in Signed!Credentials PROVE Cardinality(KnownOf(k)') <= MaxNonces
    <3> DEFINE kept == {m \in DOMAIN Signed!Remembered(h) : wire[m].key = k}
    <3>1. kept \in SUBSET DOMAIN nonces /\ kept \subseteq KnownOf(k)
          /\ KnownOf(k) \in SUBSET DOMAIN nonces
      BY <1>2 DEF KnownOf
    <3>2. /\ IsFiniteSet(kept) /\ Cardinality(kept) \in Nat
          /\ IsFiniteSet(KnownOf(k)) /\ Cardinality(KnownOf(k)) \in Nat /\ MaxNonces \in Nat
      BY <3>1, NoncesFinite, SignedAssumption DEF SignedAssumption
    <3>3. CASE k = c
      <4>1. KnownOf(k)' = kept \cup {n}
        BY <1>1, <2>1, <2>3, <3>3 DEF KnownOf
      <4>2. Cardinality(kept) < MaxNonces
        <5>1. ~(Cardinality(kept) >= MaxNonces)
          BY <1>5, <3>3, CardinalityOfSigned DEF Signed!IsFull
        <5> QED
          BY <3>2, <5>1
      <4>3. Cardinality(kept \cup {n}) \in {Cardinality(kept), Cardinality(kept) + 1}
        BY <3>2, FS_AddElement
      <4> QED
        BY <3>2, <4>1, <4>2, <4>3
    <3>4. CASE k # c
      <4>1. KnownOf(k)' = kept
        BY <1>1, <2>1, <2>3, <3>4 DEF KnownOf
      <4>2. Cardinality(kept) <= Cardinality(KnownOf(k)) /\ Cardinality(KnownOf(k)) <= MaxNonces
        BY <3>1, <3>2, FS_Subset DEF SignedCounts
      <4> QED
        BY <3>2, <4>1, <4>2
    <3> QED
      BY <3>3, <3>4
  <2> QED
    BY <1>1, <2>2, <2>4 DEF SignedCounts, SignedBuckets, Signed!Credentials
<1> QED
  BY <1>3, <1>4, <1>5 DEF Signed!Verify

LEMMA SignedCountsStep == TakenSafe /\ SignedCounts /\ [Signed!Next]_(Signed!vars) => SignedCounts'
<1> SUFFICES ASSUME TakenSafe, SignedCounts, [Signed!Next]_(Signed!vars) PROVE SignedCounts'
  OBVIOUS
<1>1. ASSUME UNCHANGED <<clock_signed, wire, nonces, bucket>> PROVE SignedCounts'
  BY <1>1, CountsKept DEF SignedCounts
<1>2. CASE UNCHANGED Signed!vars
  BY <1>1, <1>2 DEF Signed!vars
<1>3. CASE Signed!Send
  <2>1. UNCHANGED <<clock_signed, nonces, bucket>>
    BY <1>3 DEF Signed!Send
  <2>2. PICK c \in Signed!Names, k \in Skews :
          wire' = [n \in DOMAIN wire \cup {sent + 1} |->
                     IF n = sent + 1 THEN [stamp |-> clock_signed + k, condition |-> c, key |-> pairings]
                     ELSE wire[n]]
    BY <1>3 DEF Signed!Send
  <2>3. sent \in Nat /\ DOMAIN wire = 1 .. sent /\ DOMAIN nonces \subseteq DOMAIN wire
    BY SignedAssumption DEF SignedAssumption, TakenSafe, TakenTypes
  <2>4. \A n \in DOMAIN nonces : wire'[n].key = wire[n].key
    BY <2>2, <2>3
  <2> QED
    BY <2>1, <2>4, CountsKept DEF SignedCounts
<1>4. CASE Signed!Tick
  <2>1. clock_signed' \in 0 .. Horizon_signed
    BY <1>4, SignedAssumption DEF SignedAssumption, Signed!Tick, SignedCounts
  <2> QED
    BY <1>4, <2>1, CountsKept DEF Signed!Tick
<1>5. CASE Signed!Crash
  <2>2. /\ nonces' = << >> /\ bucket' = [k \in Signed!Credentials |-> [start |-> 0, n |-> 0]]
        /\ UNCHANGED <<clock_signed, wire>>
    BY <1>5, Zenon DEF Signed!Crash, Signed!Empty, Signed!NoBuckets
  <2>3. \A k : KnownOf(k)' = {}
    BY <2>2 DEF KnownOf
  <2>4. Cardinality({}) = 0
    BY FS_EmptySet
  <2>5. 0 \in 0 .. Horizon_signed /\ 0 \in 0 .. PerPeerRate + 1 /\ 0 <= MaxNonces
    BY SignedAssumption DEF SignedAssumption
  <2> QED
    BY <2>2, <2>3, <2>4, <2>5 DEF SignedCounts, SignedBuckets, Signed!Credentials
<1>6. ASSUME NEW h \in Handlers,
             Signed!Arrive(h) \/ Signed!Resolve(h) \/ Signed!Accept(h) \/ Signed!Propose(h)
      PROVE  SignedCounts'
  BY <1>1, <1>6 DEF Signed!Arrive, Signed!Resolve, Signed!Accept, Signed!Propose
<1>7. ASSUME NEW p \in Pages,
             \/ Signed!Amend(p) \/ Signed!Save(p) \/ Signed!Approved(p)
             \/ Signed!Unpair(p) \/ Signed!Unpaired(p) \/ \E c \in Declarable : Signed!Approve(p, c)
      PROVE  SignedCounts'
  BY <1>1, <1>7 DEF Signed!Amend, Signed!Save, Signed!Approved, Signed!Unpair, Signed!Unpaired,
                    Signed!Approve
<1>8. CASE Signed!Pair \/ \E c \in Declarable : Signed!Dismiss(c)
  BY <1>1, <1>8 DEF Signed!Pair, Signed!Dismiss
<1> QED
  BY <1>2, <1>3, <1>4, <1>5, <1>6, <1>7, <1>8, VerifyCounts DEF Signed!Next

\* A list some names left is no longer than it was.
LEMMA FewerPending ==
  ASSUME SignedProposals, NEW S \in SUBSET DOMAIN pending
  PROVE  S \subseteq Declarable /\ Cardinality(S) <= MaxListed
<1>1. S \subseteq DOMAIN pending /\ DOMAIN pending \subseteq Declarable
  BY DEF SignedProposals
<1>2. S \in SUBSET Declarable /\ DOMAIN pending \in SUBSET Declarable
  BY <1>1
<1>3. Cardinality(S) <= Cardinality(DOMAIN pending)
  BY <1>1, <1>2, DeclarableFinite, FS_Subset
<1>4. Cardinality(S) \in Nat /\ Cardinality(DOMAIN pending) \in Nat /\ MaxListed \in Nat
  BY <1>2, DeclarableFinite, SignedAssumption DEF SignedAssumption
<1> QED
  BY <1>1, <1>3, <1>4 DEF SignedProposals

\* The list and the counts after a step that signs nothing.
LEMMA ProposalsKept ==
  ASSUME SignedProposals, UNCHANGED wire,
         DOMAIN pending' \subseteq DOMAIN pending,
         full' \in {0, full}, unusable' \in {0, unusable}
  PROVE  SignedProposals'
<1>1. 0 \in 0 .. MaxSent
  BY SignedAssumption DEF SignedAssumption
<1>2. DOMAIN pending' \subseteq Declarable /\ Cardinality(DOMAIN pending') <= MaxListed
  BY FewerPending
<1> QED
  BY <1>1, <1>2 DEF SignedProposals, Signed!Names

LEMMA ProposeOK ==
  ASSUME TakenSafe, SignedProposals, NEW h \in Handlers, Signed!Propose(h)
  PROVE  SignedProposals'
<1> DEFINE c == Signed!Request(h).condition
<1>1. UNCHANGED wire /\ Signed!Noted(c) /\ c \in Signed!Names
  BY DEF Signed!Propose, Signed!Request, TakenSafe, TakenTypes, SignedProposals
<1>2. full \in 0 .. MaxSent /\ unusable \in 0 .. MaxSent
      /\ Signed!Min({full + 1, MaxSent}) \in 0 .. MaxSent
      /\ Signed!Min({unusable + 1, MaxSent}) \in 0 .. MaxSent
  BY CappedAt DEF SignedProposals
<1> HIDE DEF c
<1>3. full' \in 0 .. MaxSent /\ unusable' \in 0 .. MaxSent
  BY <1>1, <1>2 DEF Signed!Noted
<1>4. \/ DOMAIN pending' = DOMAIN pending
      \/ /\ c \notin DOMAIN pending /\ ~(Cardinality(DOMAIN pending) >= MaxListed)
         /\ DOMAIN pending' = DOMAIN pending \cup {c} /\ c \in Declarable
  BY <1>1, CardinalityOfSigned DEF Signed!Noted, Signed!Names
<1>5. DOMAIN pending \in SUBSET Declarable
  BY DEF SignedProposals
<1>6. DOMAIN pending' \subseteq Declarable /\ Cardinality(DOMAIN pending') <= MaxListed
  <2>1. CASE DOMAIN pending' = DOMAIN pending
    BY <2>1 DEF SignedProposals
  <2>2. CASE /\ c \notin DOMAIN pending /\ ~(Cardinality(DOMAIN pending) >= MaxListed)
             /\ DOMAIN pending' = DOMAIN pending \cup {c} /\ c \in Declarable
    <3>1. Cardinality(DOMAIN pending') = Cardinality(DOMAIN pending) + 1
      BY <1>5, <2>2, DeclarableFinite, FS_AddElement
    <3>2. Cardinality(DOMAIN pending') <= MaxListed
      BY <1>5, <2>2, <3>1, DeclarableFinite, SignedAssumption DEF SignedAssumption
    <3> QED
      BY <1>5, <2>2, <3>2
  <2> QED
    BY <1>4, <2>1, <2>2
<1> QED
  BY <1>1, <1>3, <1>6 DEF SignedProposals, Signed!Names

LEMMA SignedProposalsStep ==
  TakenSafe /\ SignedProposals /\ [Signed!Next]_(Signed!vars) => SignedProposals'
<1> SUFFICES ASSUME TakenSafe, SignedProposals, [Signed!Next]_(Signed!vars) PROVE SignedProposals'
  OBVIOUS
<1>1. ASSUME UNCHANGED <<wire, pending, full, unusable>> PROVE SignedProposals'
  BY <1>1, ProposalsKept
<1>2. ASSUME NEW c, Signed!Forget(c), UNCHANGED wire PROVE SignedProposals'
  BY <1>2, ForgetNarrows, ProposalsKept DEF Signed!Forget
<1>3. CASE UNCHANGED Signed!vars
  BY <1>1, <1>3 DEF Signed!vars, Signed!asking
<1>4. CASE Signed!Send
  <2>1. UNCHANGED <<pending, full, unusable>>
    BY <1>4 DEF Signed!Send, Signed!asking
  <2>2. PICK c \in Signed!Names, k \in Skews :
          wire' = [n \in DOMAIN wire \cup {sent + 1} |->
                     IF n = sent + 1 THEN [stamp |-> clock_signed + k, condition |-> c, key |-> pairings]
                     ELSE wire[n]]
    BY <1>4 DEF Signed!Send
  <2>3. \A n \in DOMAIN wire' : wire'[n].condition \in Signed!Names
    BY <2>2 DEF SignedProposals
  <2> QED
    BY <2>1, <2>3 DEF SignedProposals, Signed!Names
<1>5. CASE Signed!Tick \/ Signed!Pair
  BY <1>1, <1>5 DEF Signed!Tick, Signed!Pair, Signed!asking
<1>6. ASSUME NEW p \in Pages,
             Signed!Save(p) \/ Signed!Unpair(p) \/ \E c \in Declarable : Signed!Approve(p, c)
      PROVE  SignedProposals'
  BY <1>1, <1>6 DEF Signed!Save, Signed!Unpair, Signed!Approve, Signed!asking
<1>7. ASSUME NEW p \in Pages, Signed!Amend(p) \/ Signed!Approved(p) PROVE SignedProposals'
  BY <1>1, <1>2, <1>7 DEF Signed!Amend, Signed!Approved, Signed!asking
<1>8. CASE Signed!Crash \/ \E p \in Pages : Signed!Unpaired(p)
  <2>1. pending' = << >> /\ full' = 0 /\ unusable' = 0 /\ UNCHANGED wire
    BY <1>8, Zenon DEF Signed!Unpaired, Signed!Crash, Signed!Empty
  <2>2. DOMAIN pending' \subseteq DOMAIN pending
    BY <2>1
  <2> QED
    BY <2>1, <2>2, ProposalsKept
<1>9. ASSUME NEW h \in Handlers,
             Signed!Arrive(h) \/ Signed!Verify(h) \/ Signed!Resolve(h) \/ Signed!Accept(h)
      PROVE  SignedProposals'
  BY <1>1, <1>9 DEF Signed!Arrive, Signed!Verify, Signed!Resolve, Signed!Accept, Signed!asking
<1>10. ASSUME NEW c \in Declarable, Signed!Dismiss(c) PROVE SignedProposals'
  BY <1>2, <1>10 DEF Signed!Dismiss
<1> QED
  BY <1>3, <1>4, <1>5, <1>6, <1>7, <1>8, <1>9, <1>10, ProposeOK DEF Signed!Next

LEMMA SignedTypes == PeerTypes /\ SignedCounts /\ SignedProposals => Signed!TypeOK
<1> SUFFICES ASSUME PeerTypes, SignedCounts, SignedProposals PROVE Signed!TypeOK
  OBVIOUS
<1>1. \A k : {n \in DOMAIN nonces : wire[n].key = k} = KnownOf(k)
  BY DEF KnownOf
<1> QED
  BY <1>1, CardinalityOfSigned DEF PeerTypes, Products, SignedCounts, SignedProposals, SignedBuckets,
                                  Signed!TypeOK

-----------------------------------------------------------------------------
(* Pairing (Pairing).                                                      *)

PairTypes ==
  /\ codes \in Nat /\ ids \in Nat /\ minted \subseteq Nat \X Nat
  /\ DOMAIN code = {"n", "age", "attempts", "used", "voided"} /\ code.n \in 0 .. codes

\* A code that a credential was minted over is one that was offered, and if it is
\* the one on the page it is used.
PairSafe ==
  /\ PairTypes /\ Pair!OnePairingPerCode
  /\ \A p \in minted : p[1] \in 1 .. codes /\ (p[1] = code.n => code.used)

LEMMA PairInit == Pair!Init => PairSafe
<1> SUFFICES ASSUME Pair!Init PROVE PairSafe
  OBVIOUS
<1>1. ids \in Nat
  BY DEF Pair!Init
<1>2. /\ code = [n |-> 0, age |-> 0, attempts |-> 0, used |-> FALSE, voided |-> FALSE]
      /\ codes = 0 /\ minted = {}
  BY DEF Pair!Init, Pair!NoCode
<1> QED
  BY <1>1, <1>2 DEF PairSafe, PairTypes, Pair!OnePairingPerCode

\* A step that mints nothing may use the code, and may put another on the page.
LEMMA PairKept ==
  ASSUME PairSafe, UNCHANGED <<minted, ids>>,
         DOMAIN code' = DOMAIN code, codes' \in Nat, codes <= codes',
         \/ code'.n = code.n /\ code'.used = code.used
         \/ code'.n = 0
         \/ code'.n = codes + 1 /\ codes' = codes + 1
  PROVE  PairSafe'
<1>1. codes \in Nat /\ code.n \in 0 .. codes /\ code'.n \in 0 .. codes'
  BY DEF PairSafe, PairTypes
<1>2. PairTypes'
  BY <1>1 DEF PairSafe, PairTypes
<1>3. ASSUME NEW p \in minted PROVE p[1] \in 1 .. codes' /\ (p[1] = code'.n => code'.used)
  BY <1>1 DEF PairSafe
<1>4. Pair!OnePairingPerCode'
  BY DEF PairSafe, Pair!OnePairingPerCode
<1> QED
  BY <1>2, <1>3, <1>4 DEF PairSafe

LEMMA CompleteSafe == ASSUME PairSafe, NEW i \in Installs, Pair!Complete(i) PROVE PairSafe'
<1>1. codes \in Nat /\ ids \in Nat /\ code.n \in 0 .. codes /\ UNCHANGED codes
  BY DEF PairSafe, PairTypes, Pair!Complete
<1>2. CASE Pair!Verdict(flight[i]) = "paired"
  <2>1. code.n # 0 /\ ~code.used
    BY <1>2, Zenon DEF Pair!Verdict, Pair!Closed
  <2>2. /\ code' = [code EXCEPT !.used = TRUE] /\ ids' = ids + 1
        /\ minted' = minted \cup {<<code.n, ids + 1>>}
    BY <1>2 DEF Pair!Complete, Pair!Spent
  <2>3. DOMAIN code' = DOMAIN code /\ code'.n = code.n /\ code'.used = TRUE
    BY <2>2 DEF PairSafe, PairTypes
  <2>4. \A p \in minted : p[1] # code.n
    BY <2>1 DEF PairSafe
  <2>5. Pair!OnePairingPerCode'
    BY <2>2, <2>4 DEF PairSafe, Pair!OnePairingPerCode
  <2>6. PairTypes'
    BY <1>1, <2>2, <2>3 DEF PairSafe, PairTypes
  <2>7. \A p \in minted' : p[1] \in 1 .. codes' /\ (p[1] = code'.n => code'.used)
    BY <1>1, <2>1, <2>2, <2>3 DEF PairSafe
  <2> QED
    BY <2>5, <2>6, <2>7 DEF PairSafe
<1>3. CASE Pair!Verdict(flight[i]) # "paired"
  <2>1. code' = Pair!Charged(Pair!Verdict(flight[i])) /\ UNCHANGED <<ids, minted>>
    BY <1>3 DEF Pair!Complete
  <2>2. DOMAIN code' = DOMAIN code /\ code'.n = code.n /\ code'.used = code.used
    BY <2>1 DEF Pair!Charged, PairSafe, PairTypes
  <2> QED
    BY <1>1, <2>1, <2>2, PairKept
<1> QED
  BY <1>2, <1>3

LEMMA PairStep == PairSafe /\ [Pair!Next]_(Pair!vars) => PairSafe'
<1> SUFFICES ASSUME PairSafe, [Pair!Next]_(Pair!vars) PROVE PairSafe'
  OBVIOUS
<1>1. /\ codes \in Nat /\ code.n \in 0 .. codes
      /\ DOMAIN code = {"n", "age", "attempts", "used", "voided"}
  BY DEF PairSafe, PairTypes
<1>2. ASSUME UNCHANGED <<code, codes, ids, minted>> PROVE PairSafe'
  BY <1>1, <1>2, PairKept
<1>3. CASE UNCHANGED Pair!vars
  BY <1>2, <1>3 DEF Pair!vars
<1>4. CASE Pair!Offer
  <2>1. /\ codes' = codes + 1 /\ UNCHANGED <<ids, minted>>
        /\ code' = [n |-> codes + 1, age |-> 0, attempts |-> 0, used |-> FALSE, voided |-> FALSE]
    BY <1>4 DEF Pair!Offer, Pair!NoCode
  <2> QED
    BY <1>1, <2>1, PairKept
<1>5. CASE Pair!Cancel
  <2>1. DOMAIN code' = DOMAIN code /\ code'.n = 0 /\ UNCHANGED <<codes, ids, minted>>
    BY <1>1, <1>5 DEF Pair!Cancel
  <2> QED
    BY <1>1, <2>1, PairKept
<1>6. CASE Pair!Age
  <2>1. /\ DOMAIN code' = DOMAIN code /\ code'.n = code.n /\ code'.used = code.used
        /\ UNCHANGED <<codes, ids, minted>>
    BY <1>1, <1>6 DEF Pair!Age
  <2> QED
    BY <1>1, <2>1, PairKept
<1>7. CASE Pair!Crash
  <2>1. /\ code' = [n |-> 0, age |-> 0, attempts |-> 0, used |-> FALSE, voided |-> FALSE]
        /\ UNCHANGED <<codes, ids, minted>>
    BY <1>7 DEF Pair!Crash, Pair!NoCode
  <2> QED
    BY <1>1, <2>1, PairKept
<1>8. CASE Pair!Identify \/ \E s \in Pair!Slugs : Pair!Unpair(s)
  BY <1>2, <1>8 DEF Pair!Identify, Pair!Unpair
<1>9. ASSUME NEW i \in Installs, Pair!Ask(i) \/ Pair!Read(i) \/ Pair!Save(i) \/ Pair!Answer(i)
      PROVE  PairSafe'
  BY <1>2, <1>9 DEF Pair!Ask, Pair!Read, Pair!Save, Pair!Answer
<1> QED
  BY <1>3, <1>4, <1>5, <1>6, <1>7, <1>8, <1>9, CompleteSafe DEF Pair!Next

\* A code pairs one product once, however many requests carry its proof, and
\* whatever saves fail and restarts come after the first (Pairer.Complete).
THEOREM OnePairingPerCodeSafe == Spec => []OnePairingPerCode
<1> DEFINE Inv == subject = "pairing" => PairSafe
<1>1. Init => Inv
  BY PairInit DEF Init
<1>2. Inv /\ [Next]_vars => Inv'
  BY StepsOfSubject, PairStep
<1>3. Inv => OnePairingPerCode
  BY DEF PairSafe, OnePairingPerCode
<1> QED
  BY <1>1, <1>2, <1>3, PTL DEF Spec

\* What a configuration may hold of the products, the ids it no longer honours, the
\* copy a handler is about to save, and a pairing request.
PairLinks == [Pair!Slugs -> Pair!Entries \cup {Absent}]
PairRetired == {r \in Seq(Nat) : Len(r) <= MaxRetired}
PairNexts == [links : PairLinks, retired : PairRetired]
PairFlights == [stage : {"sent", "minted", "read", "stored"}, typed : Nat,
                saw : {"ours", "another"}, manifest : WordsOf, id : Nat,
                next : PairNexts \cup {Absent}]
PairCodes == [n : 0 .. MaxCodes, age : 0 .. CodeTTL + 1, attempts : 0 .. MaxCodeAttempts,
              used : BOOLEAN, voided : BOOLEAN]

\* The requests that have had no verdict.
PairSent == {i \in Installs : flight[i] # Absent /\ flight[i].stage = "sent"}

\* A code that is not voided may be tried once more.
PairCodeOK ==
  codes \in 0 .. MaxCodes /\ code \in PairCodes /\ (code.voided \/ code.attempts < MaxCodeAttempts)

\* Each credential minted was asked for, but the one the file held.
PairCounts ==
  /\ ids \in Nat /\ asked_pairing \in 0 .. MaxAsked_pairing
  /\ ids + Cardinality(PairSent) <= asked_pairing + 1
  /\ held \in [Installs -> Nat] /\ \A i \in Installs : held[i] <= ids

PairFlightOK ==
  /\ DOMAIN flight = Installs
  /\ \A i \in Installs : flight[i] # Absent =>
       /\ flight[i] \in PairFlights /\ flight[i].id <= ids
       /\ flight[i].stage = "read" => flight[i].next \in PairNexts

PairLinksOK == links \in PairLinks /\ saved \in PairLinks /\ retired \in PairRetired

PairShape == PairCodeOK /\ PairCounts /\ PairFlightOK /\ PairLinksOK

LEMMA PairShapeOK == PairShape => Pair!TypeOK
<1> SUFFICES ASSUME PairShape PROVE Pair!TypeOK
  OBVIOUS
<1>1. code \in PairCodes
  BY DEF PairShape, PairCodeOK
<1>2. \A s \in Pair!Slugs : {links[s], saved[s]} \subseteq Pair!Entries \cup {Absent}
  BY DEF PairShape, PairLinksOK, PairLinks
<1>3. Len(retired) <= MaxRetired
  BY DEF PairShape, PairLinksOK, PairRetired
<1>4. \A i \in Installs : held[i] \in 0 .. ids
  BY DEF PairShape, PairCounts
<1> QED
  BY <1>1, <1>2, <1>3, <1>4 DEF Pair!TypeOK, PairCodes

LEMMA PairSentOK == ASSUME NEW S \in SUBSET Installs PROVE IsFiniteSet(S) /\ Cardinality(S) \in Nat
<1>1. IsFiniteSet(S)
  BY PairAssumption, FS_Subset DEF PairAssumption
<1> QED
  BY <1>1, FS_CardinalityType

\* The defaults keep an entry an entry.
LEMMA DefaultedOK ==
  ASSUME NEW s, NEW e \in Pair!Entries
  PROVE  Pair!Defaulted(s, e) \in Pair!Entries /\ Pair!Defaulted(s, e).id = e.id
<1>1. CASE s \notin FirstParty
  BY <1>1 DEF Pair!Defaulted
<1>2. CASE s \in FirstParty
  <2> DEFINE over == IF e.undecided THEN e.over \cup {"default"} ELSE e.over
  <2>1. over \in SUBSET {"operator", "default"}
    BY DEF Pair!Entries
  <2>2. Pair!Defaulted(s, e) = [e EXCEPT !.stops = TRUE, !.over = over]
    BY <1>2 DEF Pair!Defaulted
  <2> HIDE DEF over
  <2> QED
    BY <2>1, <2>2 DEF Pair!Entries
<1> QED
  BY <1>1, <1>2

LEMMA RetireOK ==
  ASSUME NEW seq \in PairRetired, NEW id \in Nat PROVE Pair!Retire(seq, id) \in PairRetired
<1>1. seq \in Seq(Nat) /\ Len(seq) <= MaxRetired /\ Len(seq) \in Nat /\ MaxRetired \in Nat
  BY PairAssumption DEF PairAssumption, PairRetired
<1> DEFINE left == Pair!Others(seq, id)
<1>2. left \in Seq(Nat) /\ Len(left) <= Len(seq)
  <2>1. CASE \E k \in DOMAIN seq : seq[k] = id
    <3>1. PICK k \in DOMAIN seq : left = Pair!RemoveAt(seq, k)
      BY <2>1 DEF Pair!Others
    <3>2. k \in 1 .. Len(seq)
      BY <1>1
    <3>3. /\ SubSeq(seq, 1, k - 1) \in Seq(Nat) /\ Len(SubSeq(seq, 1, k - 1)) = k - 1
          /\ SubSeq(seq, k + 1, Len(seq)) \in Seq(Nat)
          /\ Len(SubSeq(seq, k + 1, Len(seq))) = Len(seq) - k
      BY SMTT(30), <1>1, <3>2
    <3>4. PICK a \in Seq(Nat), b \in Seq(Nat) :
            left = a \o b /\ Len(a) = k - 1 /\ Len(b) = Len(seq) - k
      BY <3>1, <3>3 DEF Pair!RemoveAt
    <3>5. a \o b \in Seq(Nat) /\ Len(a \o b) = Len(a) + Len(b)
      OBVIOUS
    <3> QED
      BY SMTT(30), <1>1, <3>2, <3>4, <3>5
  <2>2. CASE ~\E k \in DOMAIN seq : seq[k] = id
    BY <1>1, <2>2 DEF Pair!Others
  <2> QED
    BY <2>1, <2>2
<1> HIDE DEF left
<1>3. Append(left, id) \in Seq(Nat) /\ Len(Append(left, id)) = Len(left) + 1
  BY <1>2
<1>4. Pair!Retire(seq, id) = IF Len(Append(left, id)) > MaxRetired
                             THEN Tail(Append(left, id)) ELSE Append(left, id)
  BY DEF Pair!Retire, left
<1>5. Len(left) \in Nat
  BY <1>2
<1>6. PICK all : all = Append(left, id)
  OBVIOUS
<1>7. all \in Seq(Nat) /\ Len(all) <= MaxRetired + 1 /\ Len(all) >= 1
  BY <1>1, <1>2, <1>3, <1>5, <1>6
<1>8. Tail(all) \in Seq(Nat) /\ Len(Tail(all)) = Len(all) - 1
  BY <1>7
<1> QED
  BY <1>1, <1>4, <1>6, <1>7, <1>8 DEF PairRetired

LEMMA PairShapeInit == Pair!Init => PairShape
<1> SUFFICES ASSUME Pair!Init PROVE PairShape
  OBVIOUS
<1>1. PICK i \in Installs, e \in Earlier \cup {Absent} :
        /\ links = [t \in Pair!Slugs |-> IF t = SlugOf[i] /\ e # Absent
                                         THEN Pair!Defaulted(SlugOf[i], e) ELSE Absent]
        /\ held = [j \in Installs |-> IF j = i /\ e # Absent THEN e.id ELSE 0]
        /\ ids = IF e # Absent THEN 1 ELSE 0
  BY DEF Pair!Init
<1>2. /\ saved = links /\ codes = 0 /\ retired = << >> /\ asked_pairing = 0
      /\ code = [n |-> 0, age |-> 0, attempts |-> 0, used |-> FALSE, voided |-> FALSE]
      /\ flight = [j \in Installs |-> Absent]
  BY DEF Pair!Init, Pair!NoCode
<1>3. e # Absent => e \in Pair!Entries /\ e.id = 1
  BY PairAssumption DEF PairAssumption
<1>4. PairCodeOK
  BY <1>2, PairAssumption DEF PairAssumption, PairCodeOK, PairCodes
<1>5. PairCounts
  <2>1. PairSent = {}
    BY <1>2 DEF PairSent
  <2>2. Cardinality(PairSent) = 0
    BY <2>1, FS_EmptySet
  <2>3. ids \in {0, 1} /\ held \in [Installs -> Nat] /\ \A j \in Installs : held[j] <= ids
    BY <1>1, <1>3
  <2> QED
    BY <1>2, <2>2, <2>3, PairAssumption DEF PairAssumption, PairCounts
<1>6. PairFlightOK
  BY <1>2 DEF PairFlightOK
<1>7. PairLinksOK
  <2>1. links \in PairLinks
    BY <1>1, <1>3, DefaultedOK DEF PairLinks
  <2>2. retired \in PairRetired
    BY <1>2, PairAssumption DEF PairAssumption, PairRetired
  <2> QED
    BY <1>2, <2>1, <2>2 DEF PairLinksOK
<1> QED
  BY <1>4, <1>5, <1>6, <1>7 DEF PairShape

\* The code: asked for, withdrawn, ageing, tried and used.
LEMMA PairCodeStep == PairCodeOK /\ [Pair!Next]_(Pair!vars) => PairCodeOK'
<1> SUFFICES ASSUME PairCodeOK, [Pair!Next]_(Pair!vars) PROVE PairCodeOK'
  OBVIOUS
<1>1. /\ codes \in Nat /\ MaxCodes \in Nat /\ codes <= MaxCodes /\ CodeTTL \in Nat
      /\ MaxCodeAttempts \in Nat \ {0}
  BY PairAssumption DEF PairAssumption, PairCodeOK
<1>2. PICK c \in PairCodes : c = code /\ (c.voided \/ c.attempts < MaxCodeAttempts)
  BY DEF PairCodeOK
<1>3. ASSUME UNCHANGED <<code, codes>> PROVE PairCodeOK'
  BY <1>3 DEF PairCodeOK
<1>4. CASE UNCHANGED Pair!vars
  BY <1>3, <1>4 DEF Pair!vars
<1>5. CASE Pair!Offer
  <2>1. /\ codes < MaxCodes /\ codes' = codes + 1
        /\ code' = [n |-> codes + 1, age |-> 0, attempts |-> 0, used |-> FALSE, voided |-> FALSE]
    BY <1>5 DEF Pair!Offer, Pair!NoCode
  <2>2. /\ codes' \in 0 .. MaxCodes /\ 0 \in 0 .. CodeTTL + 1 /\ 0 \in 0 .. MaxCodeAttempts
        /\ 0 < MaxCodeAttempts /\ codes + 1 \in 0 .. MaxCodes
    BY <1>1, <2>1
  <2> QED
    BY <2>1, <2>2 DEF PairCodeOK, PairCodes
<1>6. CASE Pair!Cancel
  <2>1. code' = [c EXCEPT !.n = 0, !.used = FALSE, !.voided = TRUE] /\ UNCHANGED codes
    BY <1>2, <1>6 DEF Pair!Cancel
  <2>2. 0 \in 0 .. MaxCodes
    BY <1>1
  <2> QED
    BY <2>1, <2>2 DEF PairCodeOK, PairCodes
<1>7. CASE Pair!Age
  <2>1. code' = [c EXCEPT !.age = c.age + 1] /\ c.age <= CodeTTL /\ UNCHANGED codes
    BY <1>2, <1>7 DEF Pair!Age
  <2>2. c.age + 1 \in 0 .. CodeTTL + 1
    BY <1>1, <2>1 DEF PairCodes
  <2> QED
    BY <1>2, <2>1, <2>2 DEF PairCodeOK, PairCodes
<1>8. CASE Pair!Crash
  <2>1. code' = [n |-> 0, age |-> 0, attempts |-> 0, used |-> FALSE, voided |-> FALSE]
        /\ UNCHANGED codes
    BY <1>8 DEF Pair!Crash, Pair!NoCode
  <2>2. 0 \in 0 .. MaxCodes /\ 0 \in 0 .. CodeTTL + 1 /\ 0 \in 0 .. MaxCodeAttempts
        /\ 0 < MaxCodeAttempts
    BY <1>1
  <2> QED
    BY <2>1, <2>2 DEF PairCodeOK, PairCodes
<1>9. ASSUME NEW i \in Installs, Pair!Complete(i) PROVE PairCodeOK'
  <2>1. UNCHANGED codes
    BY <1>9 DEF Pair!Complete
  <2>2. CASE Pair!Verdict(flight[i]) = "paired"
    <3>1. code' = [c EXCEPT !.used = TRUE]
      BY <1>2, <1>9, <2>2 DEF Pair!Complete, Pair!Spent
    <3> QED
      BY <1>2, <2>1, <3>1 DEF PairCodeOK, PairCodes
  <2>3. CASE Pair!Verdict(flight[i]) # "paired"
    <3>1. code' = Pair!Charged(Pair!Verdict(flight[i]))
      BY <1>9, <2>3 DEF Pair!Complete
    <3>2. CASE Pair!Verdict(flight[i]) # "ErrBadProof"
      BY <1>3, <2>1, <3>1, <3>2 DEF Pair!Charged
    <3>3. CASE Pair!Verdict(flight[i]) = "ErrBadProof"
      <4>1. ~code.voided
        BY <3>3, Zenon DEF Pair!Verdict, Pair!Closed
      <4>2. code' = [c EXCEPT !.attempts = c.attempts + 1,
                              !.voided = c.attempts + 1 >= MaxCodeAttempts]
        BY <1>2, <3>1, <3>3 DEF Pair!Charged
      <4>3. /\ c.attempts + 1 \in 0 .. MaxCodeAttempts
            /\ c.attempts + 1 >= MaxCodeAttempts \/ c.attempts + 1 < MaxCodeAttempts
        <5>1. c.attempts \in 0 .. MaxCodeAttempts /\ c.attempts < MaxCodeAttempts
          BY <1>2, <4>1 DEF PairCodes
        <5> QED
          BY <1>1, <5>1
      <4>4. PICK k \in 0 .. MaxCodeAttempts : k = c.attempts + 1
        BY <4>3
      <4>5. CASE k >= MaxCodeAttempts
        <5>1. code' = [c EXCEPT !.attempts = k, !.voided = TRUE]
          BY <4>2, <4>4, <4>5
        <5> QED
          BY <1>2, <2>1, <5>1 DEF PairCodeOK, PairCodes
      <4>6. CASE ~(k >= MaxCodeAttempts)
        <5>1. (c.attempts + 1 >= MaxCodeAttempts) = FALSE
          BY <4>4, <4>6
        <5>2. code' = [c EXCEPT !.attempts = k, !.voided = FALSE]
          BY <4>2, <4>4, <5>1
        <5>3. k < MaxCodeAttempts
          BY <1>1, <4>4, <4>6
        <5> QED
          BY <1>2, <2>1, <5>2, <5>3 DEF PairCodeOK, PairCodes
      <4> QED
        BY <4>5, <4>6
    <3> QED
      BY <3>2, <3>3
  <2> QED
    BY <2>2, <2>3
<1>10. ASSUME NEW i \in Installs, Pair!Ask(i) \/ Pair!Read(i) \/ Pair!Save(i) \/ Pair!Answer(i)
       PROVE  PairCodeOK'
  BY <1>3, <1>10 DEF Pair!Ask, Pair!Read, Pair!Save, Pair!Answer
<1>11. CASE Pair!Identify \/ \E s \in Pair!Slugs : Pair!Unpair(s)
  BY <1>3, <1>11 DEF Pair!Identify, Pair!Unpair
<1> QED
  BY <1>4, <1>5, <1>6, <1>7, <1>8, <1>9, <1>10, <1>11 DEF Pair!Next

\* What a step does to the flights: one request of one installation, or all of them.
PairMoves(i, to) == flight' = [flight EXCEPT ![i] = to]

LEMMA PairMovesOK ==
  ASSUME PairFlightOK, NEW i \in Installs, NEW to, PairMoves(i, to), ids' \in Nat, ids \in Nat,
         ids <= ids',
         to # Absent => /\ to \in PairFlights /\ to.id <= ids'
                        /\ to.stage = "read" => to.next \in PairNexts
  PROVE  PairFlightOK'
<1>1. /\ DOMAIN flight' = Installs /\ flight'[i] = to
      /\ \A j \in Installs \ {i} : flight'[j] = flight[j]
  BY DEF PairMoves, PairFlightOK
<1>2. ASSUME NEW j \in Installs, flight'[j] # Absent
      PROVE  /\ flight'[j] \in PairFlights /\ flight'[j].id <= ids'
             /\ flight'[j].stage = "read" => flight'[j].next \in PairNexts
  <2>1. CASE j = i
    BY <1>1, <1>2, <2>1
  <2>2. CASE j # i
    <3>1. /\ flight[j] \in PairFlights /\ flight[j].id <= ids
          /\ flight[j].stage = "read" => flight[j].next \in PairNexts
      BY <1>1, <1>2, <2>2 DEF PairFlightOK
    <3>2. flight[j].id \in Nat
      BY <3>1 DEF PairFlights
    <3>3. flight[j].id <= ids'
      BY <3>1, <3>2
    <3> QED
      BY <1>1, <2>2, <3>1, <3>3
  <2> QED
    BY <2>1, <2>2
<1> QED
  BY <1>1, <1>2 DEF PairFlightOK

\* The requests without a verdict after it.
LEMMA PairSentMoves ==
  ASSUME PairFlightOK, NEW i \in Installs, NEW to, PairMoves(i, to)
  PROVE  /\ to # Absent /\ to.stage = "sent" => PairSent' = PairSent \cup {i}
         /\ to = Absent \/ to.stage # "sent" => PairSent' = PairSent \ {i}
<1>1. /\ flight'[i] = to /\ \A j \in Installs \ {i} : flight'[j] = flight[j]
  BY DEF PairMoves, PairFlightOK
<1> QED
  BY <1>1 DEF PairSent

LEMMA PairMovesKeepCounts ==
  ASSUME PairCounts, PairFlightOK, NEW i \in Installs, NEW to, PairMoves(i, to),
         to = Absent \/ to.stage # "sent", UNCHANGED <<ids, asked_pairing, held>>
  PROVE  PairCounts'
<1>1. PairSent' \subseteq PairSent /\ PairSent \subseteq Installs
  BY PairSentMoves DEF PairSent
<1>2. IsFiniteSet(PairSent) /\ Cardinality(PairSent) \in Nat /\ Cardinality(PairSent') \in Nat
  BY <1>1, PairSentOK
<1>3. Cardinality(PairSent') <= Cardinality(PairSent)
  BY <1>1, <1>2, FS_Subset
<1> QED
  BY <1>2, <1>3, PairAssumption DEF PairAssumption, PairCounts

\* A request that goes on, or ends.
LEMMA PairCompleteShape ==
  ASSUME PairShape, NEW i \in Installs, Pair!Complete(i)
  PROVE  PairCounts' /\ PairFlightOK'
<1>1. /\ flight[i] # Absent /\ flight[i].stage = "sent" /\ UNCHANGED <<asked_pairing, held>>
  BY DEF Pair!Complete, Pair!bounds
<1>2. /\ ids \in Nat /\ asked_pairing \in Nat /\ asked_pairing <= MaxAsked_pairing
      /\ ids + Cardinality(PairSent) <= asked_pairing + 1
  BY PairAssumption DEF PairAssumption, PairShape, PairCounts
<1>3. PICK f \in PairFlights : f = flight[i] /\ f.stage = "sent"
  BY <1>1 DEF PairShape, PairFlightOK
<1>4. CASE Pair!Verdict(flight[i]) # "paired"
  <2>1. PairMoves(i, Absent) /\ UNCHANGED ids
    BY <1>4 DEF Pair!Complete, PairMoves
  <2> QED
    BY <1>1, <1>2, <2>1, PairMovesOK, PairMovesKeepCounts DEF PairShape
<1>5. CASE Pair!Verdict(flight[i]) = "paired"
  <2>1. /\ flight' = [flight EXCEPT ![i].stage = "minted", ![i].id = ids + 1]
        /\ ids' = ids + 1
    BY <1>5 DEF Pair!Complete
  <2>2. PICK to : to = [f EXCEPT !.stage = "minted", !.id = ids + 1]
    OBVIOUS
  <2>3. PairMoves(i, to)
    BY <1>3, <2>1, <2>2 DEF PairMoves
  <2>4. to \in PairFlights /\ to.stage = "minted" /\ to.id = ids + 1
    <3>1. ids + 1 \in Nat
      BY <1>2
    <3> QED
      BY <2>2, <3>1 DEF PairFlights
  <2>5. PairFlightOK'
    <3>1. ids' \in Nat /\ ids <= ids' /\ to.id <= ids'
      BY <1>2, <2>1, <2>4
    <3> QED
      BY <1>2, <2>2, <2>3, <2>4, <3>1, PairMovesOK DEF PairShape
  <2>6. PairSent' = PairSent \ {i} /\ i \in PairSent
    BY <1>1, <2>3, <2>4, PairSentMoves DEF PairSent, PairShape
  <2>7. IsFiniteSet(PairSent) /\ Cardinality(PairSent) \in Nat
    BY PairSentOK DEF PairSent
  <2>8. Cardinality(PairSent') = Cardinality(PairSent) - 1
    BY <2>6, <2>7, FS_RemoveElement
  <2>9. ids' \in Nat /\ ids' + Cardinality(PairSent') <= asked_pairing' + 1
    BY <1>1, <1>2, <2>1, <2>7, <2>8
  <2>10. held' \in [Installs -> Nat] /\ \A j \in Installs : held'[j] <= ids'
    <3>1. held \in [Installs -> Nat] /\ \A j \in Installs : held[j] <= ids
      BY DEF PairShape, PairCounts
    <3>2. \A j \in Installs : held[j] \in Nat
      BY <3>1
    <3> QED
      BY <1>1, <1>2, <2>1, <3>1, <3>2
  <2>11. asked_pairing' \in 0 .. MaxAsked_pairing
    BY <1>1 DEF PairShape, PairCounts
  <2> QED
    BY <2>5, <2>9, <2>10, <2>11 DEF PairCounts
<1> QED
  BY <1>4, <1>5

LEMMA PairAskShape ==
  ASSUME PairShape, NEW i \in Installs, Pair!Ask(i)
  PROVE  PairCounts' /\ PairFlightOK'
<1>1. /\ flight[i] = Absent /\ asked_pairing < MaxAsked_pairing
      /\ asked_pairing' = asked_pairing + 1 /\ UNCHANGED <<ids, held>>
  BY DEF Pair!Ask
<1>2. PICK n \in 0 .. codes, spelling \in Pair!Spellings, saw \in Pair!Sees, m \in WordsOf :
        flight' = [flight EXCEPT ![i] =
          [stage |-> "sent", typed |-> Pair!Normalised(n, spelling), saw |-> saw, manifest |-> m,
           id |-> 0, next |-> Absent]]
  BY Zenon DEF Pair!Ask
<1>3. PICK to : to = [stage |-> "sent", typed |-> Pair!Normalised(n, spelling), saw |-> saw,
                      manifest |-> m, id |-> 0, next |-> Absent]
  OBVIOUS
<1>4. to \in PairFlights /\ to.stage = "sent" /\ to.id = 0
  <2>1. Pair!Normalised(n, spelling) \in Nat
    <3>1. n \in Nat /\ 0 \in Nat
      BY PairAssumption DEF PairAssumption, PairShape, PairCodeOK
    <3> QED
      BY <3>1, Zenon DEF Pair!Normalised
  <2>2. saw \in {"ours", "another"}
    BY DEF Pair!Sees
  <2> QED
    BY <1>3, <2>1, <2>2 DEF PairFlights
<1>5. PairMoves(i, to)
  BY <1>2, <1>3 DEF PairMoves
<1>6. /\ ids \in Nat /\ asked_pairing \in Nat /\ MaxAsked_pairing \in Nat
      /\ ids + Cardinality(PairSent) <= asked_pairing + 1
  BY PairAssumption DEF PairAssumption, PairShape, PairCounts
<1>7. to # Absent => PairFlightOK'
  <2>1. to.id <= ids' /\ ids' \in Nat /\ ids <= ids'
    BY <1>1, <1>4, <1>6
  <2> QED
    BY <1>1, <1>4, <1>5, <1>6, <2>1, PairMovesOK DEF PairShape
<1>8. to = Absent => PairFlightOK'
  BY <1>1, <1>5, <1>6, PairMovesOK DEF PairShape
<1>9. PairSent' \subseteq PairSent \cup {i} /\ PairSent \subseteq Installs
  BY <1>5, PairSentMoves DEF PairSent, PairShape
<1>10. IsFiniteSet(PairSent) /\ Cardinality(PairSent) \in Nat
       /\ IsFiniteSet(PairSent \cup {i}) /\ Cardinality(PairSent') \in Nat
       /\ Cardinality(PairSent \cup {i}) \in Nat
  BY <1>9, PairSentOK
<1>11. Cardinality(PairSent') <= Cardinality(PairSent \cup {i})
  BY <1>9, <1>10, FS_Subset
<1>12. Cardinality(PairSent \cup {i}) <= Cardinality(PairSent) + 1
  BY <1>10, FS_AddElement
<1>13. ids' + Cardinality(PairSent') <= asked_pairing' + 1 /\ asked_pairing' \in 0 .. MaxAsked_pairing
  BY <1>1, <1>6, <1>10, <1>11, <1>12
<1>14. PairCounts'
  BY <1>1, <1>13 DEF PairShape, PairCounts
<1> QED
  BY <1>7, <1>8, <1>14

LEMMA ReadLinksOK ==
  ASSUME PairShape, NEW i \in Installs, flight[i] # Absent, NEW e,
         e = Pair!Entry(flight[i].id, flight[i].manifest,
                        IF links[SlugOf[i]] = Absent THEN {} ELSE links[SlugOf[i]].over)
  PROVE  e \in Pair!Entries
<1>1. PICK f \in PairFlights : f = flight[i] /\ f.id <= ids
  BY DEF PairShape, PairFlightOK
<1>2. f.id \in 0 .. MaxAsked_pairing + 1
  <2>1. PairSent \in SUBSET Installs
    BY DEF PairSent
  <2>2. Cardinality(PairSent) \in Nat
    BY <2>1, PairSentOK
  <2>3. /\ ids \in Nat /\ asked_pairing \in Nat /\ asked_pairing <= MaxAsked_pairing
        /\ MaxAsked_pairing \in Nat /\ ids + Cardinality(PairSent) <= asked_pairing + 1
    BY PairAssumption DEF PairAssumption, PairShape, PairCounts
  <2>4. f.id \in Nat
    BY DEF PairFlights
  <2> QED
    BY <1>1, <2>2, <2>3, <2>4
<1>3. f.manifest \in [reviewable : BOOLEAN, cap : STRING, undecided : BOOLEAN, stops : BOOLEAN]
  BY PairAssumption DEF PairAssumption, PairFlights
<1>4. (IF links[SlugOf[i]] = Absent THEN {} ELSE links[SlugOf[i]].over)
        \in SUBSET {"operator", "default"}
  <2>1. SlugOf[i] \in Pair!Slugs
    BY DEF Pair!Slugs
  <2>2. links[SlugOf[i]] \in Pair!Entries \cup {Absent}
    BY <2>1 DEF PairShape, PairLinksOK, PairLinks
  <2> QED
    BY <2>2 DEF Pair!Entries
<1> QED
  BY <1>1, <1>2, <1>3, <1>4 DEF Pair!Entry, Pair!Entries

\* The copy a handler will save, and the default it writes into the running
\* configuration.
LEMMA PairReadShape ==
  ASSUME PairShape, NEW i \in Installs, Pair!Read(i)
  PROVE  PairCounts' /\ PairFlightOK' /\ PairLinksOK'
<1> DEFINE s == SlugOf[i]
           old == links[s]
           e == Pair!Entry(flight[i].id, flight[i].manifest, IF old = Absent THEN {} ELSE old.over)
           left == IF old = Absent THEN retired ELSE Pair!Retire(retired, old.id)
           copy == [links |-> [links EXCEPT ![s] = Pair!Defaulted(s, e)], retired |-> left]
<1>1. /\ flight[i] # Absent /\ flight[i].stage = "minted"
      /\ flight' = [flight EXCEPT ![i].stage = "read", ![i].next = copy]
      /\ links' = IF Pair!WritesThrough(s, e, old)
                  THEN [links EXCEPT ![s].over = Pair!Defaulted(s, e).over] ELSE links
      /\ UNCHANGED <<saved, retired, ids, held, asked_pairing>>
  BY DEF Pair!Read, Pair!bounds
<1>2. e \in Pair!Entries
  BY <1>1, ReadLinksOK
<1>3. Pair!Defaulted(s, e) \in Pair!Entries
  BY <1>2, DefaultedOK
<1>4. links \in PairLinks /\ saved \in PairLinks /\ retired \in PairRetired /\ s \in Pair!Slugs
  BY DEF PairShape, PairLinksOK, Pair!Slugs
<1>5. old \in Pair!Entries \cup {Absent}
  BY <1>4 DEF PairLinks
<1>6. left \in PairRetired
  <2>1. old # Absent => old.id \in Nat
    BY <1>5 DEF Pair!Entries
  <2> QED
    BY <1>4, <2>1, RetireOK
<1> HIDE DEF e, left
<1>7. copy \in PairNexts
  <2>1. [links EXCEPT ![s] = Pair!Defaulted(s, e)] \in PairLinks
    BY <1>3, <1>4 DEF PairLinks
  <2> QED
    BY <1>6, <2>1 DEF PairNexts
<1> HIDE DEF copy
<1>8. PICK f \in PairFlights : f = flight[i] /\ f.stage = "minted" /\ f.id <= ids
  BY <1>1 DEF PairShape, PairFlightOK
<1>9. PICK to : to = [f EXCEPT !.stage = "read", !.next = copy]
  OBVIOUS
<1>10. to \in PairFlights /\ to.stage = "read" /\ to.id = f.id /\ to.next = copy
  BY <1>7, <1>9 DEF PairFlights
<1>11. PairMoves(i, to)
  BY <1>1, <1>8, <1>9 DEF PairMoves
<1>12. PairCounts'
  BY <1>1, <1>10, <1>11, PairMovesKeepCounts DEF PairShape
<1>13. PairFlightOK'
  <2>1. ids \in Nat
    BY DEF PairShape, PairCounts
  <2>2. to.id <= ids' /\ to.next \in PairNexts /\ ids' \in Nat /\ ids <= ids'
    BY <1>1, <1>7, <1>8, <1>10, <2>1
  <2> QED
    BY <1>10, <1>11, <2>1, <2>2, PairMovesOK DEF PairShape
<1>14. links' \in PairLinks
  <2>1. CASE Pair!WritesThrough(s, e, old)
    <3>1. PICK was \in Pair!Entries : was = old
      BY <1>5, <2>1 DEF Pair!WritesThrough
    <3>2. PICK over \in SUBSET {"operator", "default"} : over = Pair!Defaulted(s, e).over
      BY <1>3 DEF Pair!Entries
    <3>3. PICK now : now = [was EXCEPT !.over = over]
      OBVIOUS
    <3>4. now \in Pair!Entries
      BY <3>3 DEF Pair!Entries
    <3>5. links' = [links EXCEPT ![s] = now]
      BY <1>1, <2>1, <3>1, <3>2, <3>3
    <3> QED
      BY <1>4, <3>4, <3>5 DEF PairLinks
  <2>2. CASE ~Pair!WritesThrough(s, e, old)
    BY <1>1, <1>4, <2>2
  <2> QED
    BY <2>1, <2>2
<1> QED
  BY <1>1, <1>4, <1>12, <1>13, <1>14 DEF PairLinksOK

LEMMA PairSaveShape ==
  ASSUME PairShape, NEW i \in Installs, Pair!Save(i)
  PROVE  PairCounts' /\ PairFlightOK' /\ PairLinksOK'
<1>1. /\ flight[i] # Absent /\ flight[i].stage = "read"
      /\ UNCHANGED <<held, ids, asked_pairing>>
      /\ \/ /\ Pair!Install(flight[i].next)
            /\ flight' = [flight EXCEPT ![i].stage = "stored", ![i].next = Absent]
         \/ PairMoves(i, Absent) /\ UNCHANGED <<links, saved, retired>>
  BY DEF Pair!Save, Pair!Refuse, PairMoves
<1>2. ids \in Nat /\ ids' \in Nat /\ ids <= ids'
  BY <1>1 DEF PairShape, PairCounts
<1>3. PICK f \in PairFlights : f = flight[i] /\ f.next \in PairNexts /\ f.id <= ids
  BY <1>1 DEF PairShape, PairFlightOK
<1>4. CASE PairMoves(i, Absent) /\ UNCHANGED <<links, saved, retired>>
  <2>1. PairCounts' /\ PairFlightOK'
    BY <1>1, <1>2, <1>4, PairMovesOK, PairMovesKeepCounts DEF PairShape
  <2> QED
    BY <1>4, <2>1 DEF PairShape, PairLinksOK
<1>5. CASE /\ Pair!Install(flight[i].next)
           /\ flight' = [flight EXCEPT ![i].stage = "stored", ![i].next = Absent]
  <2>1. PICK to : to = [f EXCEPT !.stage = "stored", !.next = Absent]
    OBVIOUS
  <2>2. to \in PairFlights /\ to.stage = "stored" /\ to.id = f.id
    BY <2>1 DEF PairFlights
  <2>3. PairMoves(i, to)
    BY <1>3, <1>5, <2>1 DEF PairMoves
  <2>4. PairCounts'
    BY <1>1, <2>2, <2>3, PairMovesKeepCounts DEF PairShape
  <2>5. to.id <= ids'
    BY <1>1, <1>3, <2>2
  <2>6. PairFlightOK'
    BY <1>2, <2>2, <2>3, <2>5, PairMovesOK DEF PairShape
  <2>7. PairLinksOK'
    BY <1>3, <1>5 DEF Pair!Install, PairNexts, PairLinksOK
  <2> QED
    BY <2>4, <2>6, <2>7
<1> QED
  BY <1>1, <1>4, <1>5

LEMMA PairAnswerShape ==
  ASSUME PairShape, NEW i \in Installs, Pair!Answer(i)
  PROVE  PairCounts' /\ PairFlightOK'
<1>1. /\ flight[i] # Absent /\ PairMoves(i, Absent) /\ UNCHANGED <<ids, asked_pairing>>
      /\ held' = held \/ held' = [held EXCEPT ![i] = flight[i].id]
  BY DEF Pair!Answer, Pair!bounds, PairMoves
<1>2. ids \in Nat /\ held \in [Installs -> Nat] /\ \A j \in Installs : held[j] <= ids
  BY DEF PairShape, PairCounts
<1>3. flight[i].id \in Nat /\ flight[i].id <= ids
  BY <1>1 DEF PairShape, PairFlightOK, PairFlights
<1>4. held' \in [Installs -> Nat] /\ \A j \in Installs : held'[j] <= ids
  BY <1>1, <1>2, <1>3
<1>5. PairSent' \subseteq PairSent /\ PairSent \subseteq Installs
  BY <1>1, PairSentMoves DEF PairSent, PairShape
<1>6. IsFiniteSet(PairSent) /\ Cardinality(PairSent) \in Nat /\ Cardinality(PairSent') \in Nat
  BY <1>5, PairSentOK
<1>7. Cardinality(PairSent') <= Cardinality(PairSent)
  BY <1>5, <1>6, FS_Subset
<1>8. PairCounts'
  BY <1>1, <1>2, <1>4, <1>6, <1>7, PairAssumption DEF PairAssumption, PairShape, PairCounts
<1>9. PairFlightOK'
  BY <1>1, <1>2, PairMovesOK DEF PairShape
<1> QED
  BY <1>8, <1>9

LEMMA PairUnpairShape ==
  ASSUME PairShape, NEW s \in Pair!Slugs, Pair!Unpair(s) PROVE PairLinksOK'
<1>1. /\ links' = [links EXCEPT ![s] = Absent] /\ saved' = [links EXCEPT ![s] = Absent]
      /\ retired' = Pair!Retire(retired, links[s].id) /\ links[s] # Absent
  BY DEF Pair!Unpair, Pair!Install
<1>2. links \in PairLinks /\ retired \in PairRetired
  BY DEF PairShape, PairLinksOK
<1>3. links[s].id \in Nat
  <2>1. links[s] \in Pair!Entries
    BY <1>1, <1>2 DEF PairLinks
  <2> QED
    BY <2>1 DEF Pair!Entries
<1>4. retired' \in PairRetired
  BY <1>1, <1>2, <1>3, RetireOK
<1>5. links' \in PairLinks /\ saved' \in PairLinks
  BY <1>1, <1>2 DEF PairLinks
<1> QED
  BY <1>4, <1>5 DEF PairLinksOK

LEMMA PairCrashShape ==
  ASSUME PairShape, Pair!Crash PROVE PairCounts' /\ PairFlightOK' /\ PairLinksOK'
<1>1. /\ flight' = [i \in Installs |-> Absent] /\ links' = saved'
      /\ saved' = [s \in Pair!Slugs |-> IF saved[s] = Absent THEN Absent
                                        ELSE Pair!Defaulted(s, saved[s])]
      /\ UNCHANGED <<retired, held, ids, asked_pairing>>
  BY DEF Pair!Crash
<1>2. PairSent' = {}
  BY <1>1 DEF PairSent
<1>3. Cardinality(PairSent') = 0
  BY <1>2, FS_EmptySet
<1>4. PairSent \in SUBSET Installs
  BY DEF PairSent
<1>5. Cardinality(PairSent) \in Nat
  BY <1>4, PairSentOK
<1>6. PairCounts'
  BY <1>1, <1>3, <1>5, PairAssumption DEF PairAssumption, PairShape, PairCounts
<1>7. PairFlightOK'
  BY <1>1 DEF PairFlightOK
<1>8. saved' \in PairLinks
  <2>1. \A s \in Pair!Slugs : saved[s] \in Pair!Entries \cup {Absent}
    BY DEF PairShape, PairLinksOK, PairLinks
  <2> QED
    BY <1>1, <2>1, DefaultedOK DEF PairLinks
<1> QED
  BY <1>1, <1>6, <1>7, <1>8 DEF PairShape, PairLinksOK

LEMMA PairShapeStep == PairShape /\ [Pair!Next]_(Pair!vars) => PairShape'
<1> SUFFICES ASSUME PairShape, [Pair!Next]_(Pair!vars) PROVE PairShape'
  OBVIOUS
<1>1. PairCodeOK'
  BY PairCodeStep DEF PairShape
<1>2. ASSUME UNCHANGED <<flight, ids, held, asked_pairing>> PROVE PairCounts' /\ PairFlightOK'
  BY <1>2 DEF PairShape, PairCounts, PairSent, PairFlightOK
<1>3. ASSUME UNCHANGED <<links, saved, retired>> PROVE PairLinksOK'
  BY <1>3 DEF PairShape, PairLinksOK
<1>4. CASE UNCHANGED Pair!vars
  BY <1>1, <1>2, <1>3, <1>4 DEF Pair!vars, Pair!bounds, PairShape
<1>5. CASE Pair!Offer \/ Pair!Cancel \/ Pair!Age \/ Pair!Identify
  BY <1>1, <1>2, <1>3, <1>5
  DEF Pair!Offer, Pair!Cancel, Pair!Age, Pair!Identify, Pair!bounds, PairShape
<1>6. CASE Pair!Crash
  BY <1>1, <1>6, PairCrashShape DEF PairShape
<1>7. ASSUME NEW i \in Installs, Pair!Ask(i) \/ Pair!Complete(i) \/ Pair!Answer(i) PROVE PairShape'
  <2>1. PairCounts' /\ PairFlightOK'
    BY <1>7, PairAskShape, PairCompleteShape, PairAnswerShape
  <2>2. UNCHANGED <<links, saved, retired>>
    BY <1>7 DEF Pair!Ask, Pair!Complete, Pair!Answer
  <2> QED
    BY <1>1, <1>3, <2>1, <2>2 DEF PairShape
<1>8. ASSUME NEW i \in Installs, Pair!Read(i) \/ Pair!Save(i) PROVE PairShape'
  BY <1>1, <1>8, PairReadShape, PairSaveShape DEF PairShape
<1>9. ASSUME NEW s \in Pair!Slugs, Pair!Unpair(s) PROVE PairShape'
  <2>1. PairLinksOK'
    BY <1>9, PairUnpairShape
  <2>2. UNCHANGED <<flight, ids, held, asked_pairing>>
    BY <1>9 DEF Pair!Unpair, Pair!bounds
  <2> QED
    BY <1>1, <1>2, <2>1, <2>2 DEF PairShape
<1> QED
  BY <1>4, <1>5, <1>6, <1>7, <1>8, <1>9 DEF Pair!Next

-----------------------------------------------------------------------------
(* Signing in (WebAccess).                                                 *)

WebTypes ==
  /\ passwords \in Nat /\ tokens \in Nat /\ DOMAIN req_web = SignIns
  /\ \A r \in SignIns : DOMAIN req_web[r] = {"at", "peer", "given", "hash"}

\* A first setup carries a token; and while nobody takes the hash out of the file,
\* a daemon that has a password has it there too.
WebSafe ==
  /\ WebTypes /\ Web!NotLockedOut
  /\ \A r \in SignIns : req_web[r].at \in {"setup", "store"} => req_web[r].given # 0
  /\ ~cleared /\ current_web # 0 => stored # 0

LEMMA WebInit == Web!Init => WebSafe
<1> SUFFICES ASSUME Web!Init PROVE WebSafe
  OBVIOUS
<1>1. /\ req_web = [r \in SignIns |-> Web!Idle]
      /\ up = "down" /\ current_web = 0 /\ passwords = 0 /\ tokens = 0
  BY DEF Web!Init
<1> QED
  BY <1>1 DEF WebSafe, WebTypes, Web!NotLockedOut, Web!Idle

\* The requests of browsers after a step of one of them.
WebRequestsOK ==
  /\ DOMAIN req_web' = SignIns
  /\ \A r \in SignIns :
        /\ DOMAIN req_web'[r] = {"at", "peer", "given", "hash"}
        /\ req_web'[r].at \in {"setup", "store"} => req_web'[r].given # 0

LEMMA WebMoves ==
  ASSUME WebSafe, NEW r \in SignIns, NEW to, Web!Becomes(r, to),
         DOMAIN to = {"at", "peer", "given", "hash"},
         to.at \in {"setup", "store"} => to.given # 0
  PROVE  WebRequestsOK
<1>1. req_web' = [req_web EXCEPT ![r] = to]
  BY DEF Web!Becomes
<1> QED
  BY <1>1 DEF WebSafe, WebTypes, WebRequestsOK

\* A request that ends without a first setup to store leaves every other's.
LEMMA WebEnds ==
  ASSUME WebSafe, NEW r \in SignIns, Web!Becomes(r, Web!Idle)
  PROVE  /\ WebRequestsOK
         /\ \A s \in SignIns \ {r} : req_web'[s] = req_web[s]
<1>1. DOMAIN Web!Idle = {"at", "peer", "given", "hash"} /\ Web!Idle.at = "idle"
  BY DEF Web!Idle
<1>2. WebRequestsOK
  BY <1>1, WebMoves
<1> QED
  BY <1>2 DEF Web!Becomes, WebSafe, WebTypes

\* A step that touches neither the password nor the token in memory, and ends no
\* setup that holds the token.
LEMMA WebKept ==
  ASSUME WebSafe, WebRequestsOK, UNCHANGED <<stored, current_web, cleared, up, token>>,
         passwords' \in Nat, tokens' \in Nat,
         \A r \in SignIns : req_web[r].at = "store" => req_web'[r].at = "store"
  PROVE  WebSafe'
<1>1. WebTypes'
  BY DEF WebTypes, WebRequestsOK
<1>2. Web!NotLockedOut'
  BY DEF WebSafe, Web!NotLockedOut
<1> QED
  BY <1>1, <1>2 DEF WebSafe, WebRequestsOK

\* Once a password is in force there is nothing to be locked out of.
LEMMA WebStored ==
  ASSUME WebSafe, WebRequestsOK, Web!SetPasswordHash, UNCHANGED <<cleared, up, tokens>>
  PROVE  WebSafe'
<1>1. /\ passwords \in Nat /\ tokens \in Nat
      /\ passwords' = passwords + 1 /\ stored' = passwords + 1
      /\ current_web' = passwords + 1
  BY DEF WebSafe, WebTypes, Web!SetPasswordHash
<1>2. WebTypes'
  BY <1>1 DEF WebTypes, WebRequestsOK
<1>3. Web!NotLockedOut' /\ stored' # 0
  BY <1>1 DEF Web!NotLockedOut
<1> QED
  BY <1>2, <1>3 DEF WebSafe, WebRequestsOK

LEMMA WebArrive == ASSUME WebSafe, NEW r \in SignIns, Web!Arrive(r) PROVE WebSafe'
<1>1. /\ req_web[r].at = "idle" /\ tokens \in Nat /\ passwords \in Nat
      /\ UNCHANGED <<stored, current_web, cleared, up, token, passwords, tokens>>
  BY DEF Web!Arrive, WebSafe, WebTypes
<1>2. PICK p \in Peers, kind \in {"signin", "setup", "change"} :
        \E given \in IF kind = "setup" THEN 1 .. tokens ELSE 0 .. passwords :
          Web!Becomes(r, IF Web!Allowed(p) THEN [at |-> kind, peer |-> p,
                                                 given |-> given, hash |-> 0]
                         ELSE Web!Idle)
  BY DEF Web!Arrive
<1>3. PICK given \in IF kind = "setup" THEN 1 .. tokens ELSE 0 .. passwords :
        Web!Becomes(r, IF Web!Allowed(p) THEN [at |-> kind, peer |-> p,
                                               given |-> given, hash |-> 0]
                       ELSE Web!Idle)
  BY <1>2
<1>4. WebRequestsOK /\ \A s \in SignIns \ {r} : req_web'[s] = req_web[s]
  <2>1. CASE Web!Allowed(p)
    <3> DEFINE to == [at |-> kind, peer |-> p, given |-> given, hash |-> 0]
    <3>1. Web!Becomes(r, to)
      BY <1>3, <2>1
    <3>2. to.at \in {"setup", "store"} => to.given # 0
      BY <1>1
    <3>3. WebRequestsOK
      BY <3>1, <3>2, WebMoves
    <3> QED
      BY <3>1, <3>3 DEF Web!Becomes, WebSafe, WebTypes
  <2>2. CASE ~Web!Allowed(p)
    BY <1>3, <2>2, WebEnds
  <2> QED
    BY <2>1, <2>2
<1> QED
  BY <1>1, <1>4, WebKept

LEMMA WebReadHash == ASSUME WebSafe, NEW r \in SignIns, Web!ReadHash(r) PROVE WebSafe'
<1>1. /\ req_web[r].at \in {"signin", "change"} /\ tokens' \in Nat /\ passwords' \in Nat
      /\ UNCHANGED <<stored, current_web, cleared, up, token>>
  BY DEF Web!ReadHash, WebSafe, WebTypes, Web!counters
<1>2. WebRequestsOK /\ \A s \in SignIns \ {r} : req_web'[s] = req_web[s]
  <2>1. CASE Web!Becomes(r, Web!Idle)
    BY <2>1, WebEnds
  <2>2. CASE ~Web!Becomes(r, Web!Idle)
    <3>1. PICK to : /\ Web!Becomes(r, to)
                    /\ to = [req_web[r] EXCEPT
                               !.at = IF @ = "signin" THEN "verify" ELSE "recheck",
                               !.hash = current_web]
      BY <2>2 DEF Web!ReadHash
    <3>2. DOMAIN to = {"at", "peer", "given", "hash"} /\ to.at \in {"verify", "recheck"}
      BY <3>1 DEF WebSafe, WebTypes
    <3>3. WebRequestsOK
      BY <3>1, <3>2, WebMoves
    <3> QED
      BY <3>1, <3>3 DEF Web!Becomes, WebSafe, WebTypes
  <2> QED
    BY <2>1, <2>2
<1> QED
  BY <1>1, <1>2, WebKept

\* A request moves to another place of its handler.
LEMMA WebGoes ==
  ASSUME WebSafe, NEW r \in SignIns, NEW at, Web!Goes(r, at),
         at \in {"setup", "store"} => req_web[r].given # 0
  PROVE  /\ WebRequestsOK /\ req_web'[r].at = at
         /\ \A s \in SignIns \ {r} : req_web'[s] = req_web[s]
<1> DEFINE to == [req_web[r] EXCEPT !.at = at]
<1>1. Web!Becomes(r, to)
  BY DEF Web!Goes
<1>2. DOMAIN to = {"at", "peer", "given", "hash"} /\ to.at = at /\ to.given = req_web[r].given
  BY DEF WebSafe, WebTypes
<1>3. WebRequestsOK
  BY <1>1, <1>2, WebMoves
<1> QED
  BY <1>1, <1>2, <1>3 DEF Web!Becomes, WebSafe, WebTypes

LEMMA WebSetup == ASSUME WebSafe, NEW r \in SignIns, Web!HandleSetup(r) PROVE WebSafe'
<1>1. /\ req_web[r].at = "setup" /\ tokens' \in Nat /\ passwords' \in Nat
      /\ UNCHANGED <<stored, current_web, cleared, up>>
  BY DEF Web!HandleSetup, WebSafe, WebTypes, Web!counters
<1>2. CASE current_web = 0 /\ token # 0 /\ req_web[r].given = token
  <2>1. Web!Goes(r, "store")
    BY <1>2 DEF Web!HandleSetup
  <2>2. WebRequestsOK /\ req_web'[r].at = "store"
    BY <1>2, <2>1, WebGoes
  <2>3. WebTypes'
    BY <1>1, <2>2 DEF WebTypes, WebRequestsOK
  <2>4. Web!NotLockedOut'
    BY <2>2 DEF Web!NotLockedOut
  <2> QED
    BY <1>1, <2>2, <2>3, <2>4 DEF WebSafe, WebRequestsOK
<1>3. CASE ~(current_web = 0 /\ token # 0 /\ req_web[r].given = token)
  <2>1. Web!Becomes(r, Web!Idle) /\ UNCHANGED token
    BY <1>3 DEF Web!HandleSetup
  <2> QED
    BY <1>1, <2>1, WebEnds, WebKept
<1> QED
  BY <1>2, <1>3

LEMMA WebSetupFails == ASSUME WebSafe, NEW r \in SignIns, Web!SetupFails(r) PROVE WebSafe'
<1>1. /\ req_web[r].at = "store" /\ tokens' \in Nat /\ passwords' \in Nat
      /\ Web!Becomes(r, Web!Idle) /\ UNCHANGED <<stored, current_web, cleared, up>>
      /\ token' = IF token = 0 THEN req_web[r].given ELSE token
  BY DEF Web!SetupFails, WebSafe, WebTypes, Web!counters, Web!RestoreSetupToken
<1>2. WebRequestsOK
  BY <1>1, WebEnds
<1>3. token' # 0
  BY <1>1 DEF WebSafe
<1>4. WebTypes'
  BY <1>1, <1>2 DEF WebTypes, WebRequestsOK
<1>5. Web!NotLockedOut'
  BY <1>3 DEF Web!NotLockedOut
<1> QED
  BY <1>1, <1>2, <1>4, <1>5 DEF WebSafe, WebRequestsOK

LEMMA WebStart == ASSUME WebSafe, Web!Start PROVE WebSafe'
<1>1. /\ current_web' = stored /\ UNCHANGED <<stored, cleared, req_web, passwords>>
      /\ IF stored = 0 THEN tokens' = tokens + 1 /\ token' = tokens + 1
         ELSE UNCHANGED tokens
      /\ tokens \in Nat
  BY DEF Web!Start, WebSafe, WebTypes
<1>2. WebTypes'
  BY <1>1 DEF WebSafe, WebTypes
<1>3. Web!NotLockedOut'
  BY <1>1 DEF Web!NotLockedOut
<1> QED
  BY <1>1, <1>2, <1>3 DEF WebSafe

LEMMA WebStop == ASSUME WebSafe, Web!Stop PROVE WebSafe'
<1>1. /\ up' = "down" /\ req_web' = [r \in SignIns |-> Web!Idle]
      /\ UNCHANGED <<stored, current_web, cleared, passwords, tokens>>
  BY DEF Web!Stop
<1>2. WebTypes' /\ \A r \in SignIns : req_web'[r].at = "idle"
  BY <1>1 DEF WebSafe, WebTypes, Web!Idle
<1>3. Web!NotLockedOut'
  BY <1>1 DEF Web!NotLockedOut
<1> QED
  BY <1>1, <1>2, <1>3 DEF WebSafe

\* The file changes under the daemon: by `set-password', by hand, and when the
\* watcher puts it into force.
LEMMA WebFile ==
  ASSUME WebSafe, Web!SetPassword \/ Web!ClearByHand \/ Web!Adopt
  PROVE  WebSafe'
<1>1. /\ UNCHANGED <<up, token, req_web, tokens>>
      /\ passwords' \in Nat
      /\ \/ /\ stored' = passwords + 1 /\ passwords \in Nat
            /\ UNCHANGED <<current_web, cleared>>
         \/ cleared' = TRUE /\ UNCHANGED current_web
         \/ /\ current_web # stored /\ current_web' = stored
            /\ UNCHANGED <<stored, cleared>>
  BY DEF Web!SetPassword, Web!ClearByHand, Web!Adopt, Web!counters, WebSafe, WebTypes
<1>2. WebTypes'
  BY <1>1 DEF WebSafe, WebTypes
<1>3. Web!NotLockedOut'
  BY <1>1 DEF WebSafe, Web!NotLockedOut
<1>4. ~cleared' /\ current_web' # 0 => stored' # 0
  BY <1>1 DEF WebSafe
<1> QED
  BY <1>1, <1>2, <1>3, <1>4 DEF WebSafe

\* What one request does.
LEMMA WebHandle == ASSUME WebSafe, NEW r \in SignIns, Web!Handle(r) PROVE WebSafe'
<1>0. passwords \in Nat /\ tokens \in Nat
  BY DEF WebSafe, WebTypes
<1>1. CASE Web!HandleSignIn(r) \/ Web!WrongCurrent(r) \/ Web!TooShort(r) \/ Web!DropAll(r)
           \/ Web!ChangeFails(r)
  <2>1. /\ Web!Becomes(r, Web!Idle) /\ req_web[r].at # "store"
        /\ UNCHANGED <<stored, current_web, cleared, up, token, passwords, tokens>>
    BY <1>1 DEF Web!HandleSignIn, Web!WrongCurrent, Web!TooShort, Web!DropAll,
                Web!ChangeFails, Web!counters
  <2>2. \A s \in SignIns : req_web[s].at = "store" => req_web'[s].at = "store"
    BY <2>1, WebEnds
  <2> QED
    BY <1>0, <2>1, <2>2, WebEnds, WebKept
<1>2. CASE Web!SetupStores(r)
  BY <1>2, WebEnds, WebStored DEF Web!SetupStores
<1>3. CASE Web!ChangeStores(r)
  <2>1. Web!Goes(r, "drop") /\ Web!SetPasswordHash /\ UNCHANGED <<cleared, up, tokens>>
    BY <1>3 DEF Web!ChangeStores
  <2>2. WebRequestsOK
    BY <2>1, WebGoes
  <2> QED
    BY <2>1, <2>2, WebStored
<1> QED
  BY <1>1, <1>2, <1>3, WebArrive, WebReadHash, WebSetup, WebSetupFails DEF Web!Handle

LEMMA WebStep == WebSafe /\ [Web!Next]_(Web!vars) => WebSafe'
<1> SUFFICES ASSUME WebSafe, [Web!Next]_(Web!vars) PROVE WebSafe'
  OBVIOUS
<1>1. ASSUME UNCHANGED <<req_web, current_web, stored, cleared, token, passwords, tokens>>,
             up' = "down" => up = "down", up = "down" => up' = "down"
      PROVE  WebSafe'
  BY <1>1 DEF WebSafe, WebTypes, Web!NotLockedOut
<1>2. CASE UNCHANGED Web!vars
  BY <1>1, <1>2 DEF Web!vars
<1>3. CASE Web!Serve \/ Web!SignOut \/ Web!HandOver \/ Web!WaitForSetupToken
           \/ Web!AwaitConfirmation \/ Web!SetupTokenCmd \/ Web!Tick
  BY <1>1, <1>3 DEF Web!Serve, Web!SignOut, Web!HandOver, Web!WaitForSetupToken,
     Web!AwaitConfirmation, Web!SetupTokenCmd, Web!Tick, Web!counters
<1>4. CASE Web!WriteSetupToken
  BY <1>1, <1>4 DEF Web!WriteSetupToken, Web!counters
<1> QED
  BY <1>2, <1>3, <1>4, WebHandle, WebStart, WebStop, WebFile DEF Web!Next

\* While nobody takes the password out of the file by hand, an installation that
\* runs without one has a setup token, or a setup that holds it (restoreSetupToken,
\* config.New): whichever setups, changes, saves that fail and restarts overlap.
THEOREM NotLockedOutSafe == Spec => []NotLockedOut
<1> DEFINE Inv == subject = "web" => WebSafe
<1>1. Init => Inv
  BY WebInit DEF Init
<1>2. Inv /\ [Next]_vars => Inv'
  BY StepsOfSubject, WebStep
<1>3. Inv => NotLockedOut
  BY DEF WebSafe, NotLockedOut
<1> QED
  BY <1>1, <1>2, <1>3, PTL DEF Spec

Recorded == {p \in Peers : fails[p] # {}}

\* At most one record of an address, and records of as many as the table has room for.
WebFails ==
  /\ fails = [p \in Peers |-> fails[p]]
  /\ \A p \in Peers : fails[p] = {} \/ \E f : fails[p] = {f}
  /\ Cardinality(Recorded) <= MaxTracked

WebLogins == [id : 1 .. issued, born : 0 .. clock_web, expires : Nat, used : Nat]

\* A session was opened by now, under a number that was given out.
WebSessions == clock_web \in Nat /\ issued \in Nat /\ sessions \subseteq WebLogins

InstallerAt == {"installing", "signin", "waiting", "shown", "told", "copied"}

\* A hash is of a password that was set, a token one that was minted.
WebNumbers ==
  /\ stored \in 0 .. passwords /\ current_web \in 0 .. passwords
  /\ token \in 0 .. tokens /\ tokenFile \in 0 .. tokens
  /\ installer \in [at : InstallerAt, shown : 0 .. tokens]
  /\ up \in {"down", "starting", "up"}
  /\ \A r \in SignIns : req_web[r].at \in {"setup", "store"} => req_web[r].given \in 0 .. tokens

LEMMA CardinalityOfWeb == ASSUME NEW S PROVE Web!Cardinality(S) = Cardinality(S)
  BY DEF Web!Cardinality, Cardinality

LEMMA PeersFinite == ASSUME NEW S \in SUBSET Peers PROVE IsFiniteSet(S) /\ Cardinality(S) \in Nat
<1>1. IsFiniteSet(Peers)
  BY WebAssumption DEF WebAssumption
<1>2. IsFiniteSet(S)
  BY <1>1, FS_Subset
<1> QED
  BY <1>2, FS_CardinalityType

LEMMA WebFailsInit == Web!Init => WebFails
<1> SUFFICES ASSUME Web!Init PROVE WebFails
  OBVIOUS
<1>1. fails = [p \in Peers |-> {}]
  BY DEF Web!Init
<1>2. Recorded = {}
  BY <1>1 DEF Recorded
<1> QED
  BY <1>1, <1>2, FS_EmptySet, WebAssumption DEF WebAssumption, WebFails

\* The table after records were dropped.
LEMMA FewerFails ==
  ASSUME WebFails, fails' = [p \in Peers |-> fails'[p]],
         \A p \in Peers : fails'[p] \subseteq fails[p]
  PROVE  WebFails'
<1>1. Recorded' \subseteq Recorded /\ Recorded \in SUBSET Peers
      /\ Recorded' \in SUBSET Peers
  BY DEF Recorded
<1>2. Cardinality(Recorded') <= Cardinality(Recorded)
  BY <1>1, PeersFinite, FS_Subset
<1>3. Cardinality(Recorded') <= MaxTracked
  <2>1. Cardinality(Recorded') \in Nat /\ Cardinality(Recorded) \in Nat /\ MaxTracked \in Nat
    BY <1>1, PeersFinite, WebAssumption DEF WebAssumption
  <2> QED
    BY <1>2, <2>1 DEF WebFails
<1>4. ASSUME NEW p \in Peers PROVE fails'[p] = {} \/ \E f : fails'[p] = {f}
  <2>1. fails'[p] \subseteq fails[p] /\ (fails[p] = {} \/ \E f : fails[p] = {f})
    BY DEF WebFails
  <2> QED
    BY <2>1
<1> QED
  BY <1>3, <1>4 DEF WebFails

LEMMA SweptOK ==
  ASSUME WebFails
  PROVE  /\ \A p \in Peers : Web!Swept(p) \subseteq fails[p]
         /\ Web!SweptFails = [p \in Peers |-> Web!Swept(p)]
  BY DEF Web!Swept, Web!SweptFails

LEMMA RecordFailureOK == ASSUME WebFails, NEW p, Web!RecordFailure(p) PROVE WebFails'
<1> DEFINE left == {q \in Peers : Web!Swept(q) # {}}
<1>1. Web!Tracked = Cardinality(left)
  BY CardinalityOfWeb DEF Web!Tracked
<1>2. left \in SUBSET Peers /\ left \subseteq Recorded /\ Recorded \in SUBSET Peers
  BY SweptOK DEF Recorded
<1>3. Cardinality(left) \in Nat /\ Cardinality(Recorded) \in Nat /\ MaxTracked \in Nat
      /\ IsFiniteSet(left) /\ Cardinality(left) <= Cardinality(Recorded)
  BY <1>2, PeersFinite, FS_Subset, WebAssumption DEF WebAssumption
<1>4. CASE fails' = Web!SweptFails
  BY <1>4, SweptOK, FewerFails
<1>5. CASE /\ ~(Web!Swept(p) = {} /\ Web!Tracked >= MaxTracked)
           /\ \E f : fails' = [Web!SweptFails EXCEPT ![p] = {f}]
  <2>1. PICK f : fails' = [Web!SweptFails EXCEPT ![p] = {f}]
    BY <1>5
  <2>2. /\ fails' = [q \in Peers |-> fails'[q]]
        /\ \A q \in Peers : fails'[q] = IF q = p THEN {f} ELSE Web!Swept(q)
    BY <2>1, SweptOK
  <2>3. \A q \in Peers : fails'[q] = {} \/ \E g : fails'[q] = {g}
    <3>1. ASSUME NEW q \in Peers PROVE Web!Swept(q) = {} \/ \E g : Web!Swept(q) = {g}
      <4>1. Web!Swept(q) \subseteq fails[q] /\ (fails[q] = {} \/ \E g : fails[q] = {g})
        BY SweptOK DEF WebFails
      <4> QED
        BY <4>1
    <3> QED
      BY <2>2, <3>1
  <2>4. Cardinality(Recorded') <= MaxTracked
    <3>1. CASE p \notin Peers \/ p \in left
      <4>1. Recorded' = left
        BY <2>2, <3>1 DEF Recorded
      <4> QED
        BY <1>3, <4>1 DEF WebFails
    <3>2. CASE p \in Peers /\ p \notin left
      <4>1. Recorded' = left \cup {p}
        BY <2>2, <3>2 DEF Recorded
      <4>2. Cardinality(left \cup {p}) = Cardinality(left) + 1
        BY <1>3, <3>2, FS_AddElement
      <4>3. Cardinality(left) < MaxTracked
        BY <1>1, <1>3, <1>5, <3>2
      <4> QED
        BY <1>3, <4>1, <4>2, <4>3
    <3> QED
      BY <3>1, <3>2
  <2> QED
    BY <2>2, <2>3, <2>4 DEF WebFails
<1> QED
  BY <1>4, <1>5 DEF Web!RecordFailure

LEMMA WebFailsStep == WebFails /\ [Web!Next]_(Web!vars) => WebFails'
<1> SUFFICES ASSUME WebFails, [Web!Next]_(Web!vars) PROVE WebFails'
  OBVIOUS
<1>1. CASE UNCHANGED fails
  BY <1>1 DEF WebFails, Recorded
<1>2. ASSUME NEW r \in SignIns, Web!Arrive(r) PROVE WebFails'
  BY <1>2, SweptOK, FewerFails DEF Web!Arrive
<1>3. ASSUME NEW p, Web!RecordSuccess(p) PROVE WebFails'
  <2>1. fails' = [q \in Peers |-> fails'[q]] /\ \A q \in Peers : fails'[q] \subseteq fails[q]
    BY <1>3 DEF Web!RecordSuccess, WebFails
  <2> QED
    BY <2>1, FewerFails
<1>4. CASE Web!Stop
  <2>1. fails' = [p \in Peers |-> {}]
    BY <1>4 DEF Web!Stop
  <2> QED
    BY <2>1, FewerFails
<1>5. ASSUME NEW r \in SignIns, Web!Handle(r), ~Web!Arrive(r)
      PROVE  UNCHANGED fails \/ (\E p : Web!RecordSuccess(p)) \/ \E p : Web!RecordFailure(p)
  BY <1>5 DEF Web!Handle, Web!ReadHash, Web!HandleSignIn, Web!WrongCurrent, Web!HandleSetup,
     Web!TooShort, Web!SetupStores, Web!SetupFails, Web!ChangeStores, Web!DropAll, Web!ChangeFails
<1>6. CASE \/ Web!Serve \/ Web!SignOut \/ Web!Start \/ Web!WriteSetupToken \/ Web!SetPassword
           \/ Web!ClearByHand \/ Web!Adopt \/ Web!HandOver \/ Web!WaitForSetupToken
           \/ Web!AwaitConfirmation \/ Web!SetupTokenCmd \/ Web!Tick
  BY <1>1, <1>6 DEF Web!Serve, Web!SignOut, Web!Start, Web!WriteSetupToken, Web!SetPassword,
     Web!ClearByHand, Web!Adopt, Web!HandOver, Web!WaitForSetupToken, Web!AwaitConfirmation,
     Web!SetupTokenCmd, Web!Tick
<1>7. CASE UNCHANGED Web!vars
  BY <1>1, <1>7 DEF Web!vars
<1> QED
  BY <1>1, <1>2, <1>3, <1>4, <1>5, <1>6, <1>7, RecordFailureOK DEF Web!Next

LEMMA WebSessionsInit == Web!Init => WebSessions
  BY DEF Web!Init, WebSessions

\* An extended session is the one it was, used later.
LEMMA ExtendOK ==
  ASSUME WebSessions, NEW s \in sessions PROVE Web!Extend(s) \subseteq WebLogins
<1>1. /\ s \in WebLogins /\ sessions \subseteq WebLogins /\ clock_web + TTL \in Nat /\ clock_web \in Nat
  BY WebAssumption DEF WebAssumption, WebSessions
<1>2. [s EXCEPT !.expires = clock_web + TTL, !.used = clock_web] \in WebLogins
  BY <1>1 DEF WebLogins
<1> QED
  BY <1>1, <1>2 DEF Web!Extend

LEMMA NewSessionOK ==
  ASSUME WebSessions, NEW live \in SUBSET sessions, Web!NewSession(live), UNCHANGED clock_web
  PROVE  WebSessions'
<1> DEFINE new == [id |-> issued + 1, born |-> clock_web, expires |-> clock_web + TTL, used |-> clock_web]
<1>1. /\ issued' = issued + 1 /\ issued \in Nat /\ clock_web \in Nat /\ clock_web + TTL \in Nat
  BY WebAssumption DEF WebAssumption, WebSessions, Web!NewSession
<1>2. sessions' \subseteq sessions \cup {new}
  BY DEF Web!NewSession
<1>3. new \in WebLogins'
  BY <1>1 DEF WebLogins
<1>4. WebLogins \subseteq WebLogins'
  <2>1. 1 .. issued \subseteq 1 .. issued'
    BY <1>1
  <2> QED
    BY <2>1 DEF WebLogins
<1> QED
  BY <1>1, <1>2, <1>3, <1>4 DEF WebSessions

LEMMA WebSessionsStep == WebSessions /\ [Web!Next]_(Web!vars) => WebSessions'
<1> SUFFICES ASSUME WebSessions, [Web!Next]_(Web!vars) PROVE WebSessions'
  OBVIOUS
<1>1. ASSUME UNCHANGED <<clock_web, issued>>, sessions' \subseteq WebLogins PROVE WebSessions'
  BY <1>1 DEF WebSessions, WebLogins
<1>2. sessions \subseteq WebLogins
  BY DEF WebSessions
<1>3. CASE Web!Serve \/ Web!SignOut
  <2>1. PICK s \in sessions : sessions' \subseteq sessions \/ sessions' = Web!Extend(s)
    BY <1>3 DEF Web!Serve, Web!SignOut
  <2>2. UNCHANGED <<clock_web, issued>>
    BY <1>3 DEF Web!Serve, Web!SignOut, Web!counters
  <2> QED
    BY <1>1, <1>2, <2>1, <2>2, ExtendOK
<1>4. ASSUME NEW r \in SignIns, Web!Arrive(r) PROVE WebSessions'
  <2>1. UNCHANGED sessions \/ \E s \in sessions : sessions' = Web!Extend(s)
    BY <1>4 DEF Web!Arrive
  <2>2. UNCHANGED <<clock_web, issued>>
    BY <1>4 DEF Web!Arrive
  <2> QED
    BY <1>1, <1>2, <2>1, <2>2, ExtendOK
<1>5. ASSUME NEW r \in SignIns, Web!Handle(r), ~Web!Arrive(r)
      PROVE  /\ UNCHANGED clock_web
             /\ \/ UNCHANGED <<sessions, issued>>
                \/ Web!NewSession(sessions) \/ Web!NewSession({})
  BY <1>5 DEF Web!Handle, Web!ReadHash, Web!HandleSignIn, Web!WrongCurrent, Web!HandleSetup,
     Web!TooShort, Web!SetupStores, Web!SetupFails, Web!ChangeStores, Web!DropAll, Web!ChangeFails,
     Web!counters
<1>6. ASSUME NEW r \in SignIns, Web!Handle(r), ~Web!Arrive(r) PROVE WebSessions'
  BY <1>1, <1>2, <1>5, <1>6, NewSessionOK
<1>7. CASE Web!Tick
  <2>1. clock_web' = clock_web + 1 /\ clock_web \in Nat /\ UNCHANGED <<sessions, issued>>
    BY <1>7 DEF Web!Tick, Web!counters, WebSessions
  <2>2. WebLogins \subseteq WebLogins'
    <3>1. 0 .. clock_web \subseteq 0 .. clock_web'
      BY <2>1
    <3> QED
      BY <2>1, <3>1 DEF WebLogins
  <2> QED
    BY <2>1, <2>2 DEF WebSessions
<1>8. CASE Web!Stop
  BY <1>1, <1>8 DEF Web!Stop
<1>9. CASE \/ Web!Start \/ Web!WriteSetupToken \/ Web!SetPassword
           \/ Web!ClearByHand \/ Web!Adopt \/ Web!HandOver \/ Web!WaitForSetupToken
           \/ Web!AwaitConfirmation \/ Web!SetupTokenCmd
  BY <1>1, <1>2, <1>9 DEF Web!Start, Web!WriteSetupToken, Web!SetPassword,
     Web!ClearByHand, Web!Adopt, Web!HandOver, Web!WaitForSetupToken, Web!AwaitConfirmation,
     Web!SetupTokenCmd, Web!counters
<1>10. CASE UNCHANGED Web!vars
  BY <1>1, <1>2, <1>10 DEF Web!vars
<1> QED
  BY <1>3, <1>4, <1>6, <1>7, <1>8, <1>9, <1>10 DEF Web!Next

LEMMA WebNumbersInit == Web!Init => WebNumbers
<1> SUFFICES ASSUME Web!Init PROVE WebNumbers
  OBVIOUS
<1>1. /\ stored = 0 /\ current_web = 0 /\ token = 0 /\ tokenFile = 0 /\ up = "down"
      /\ req_web = [r \in SignIns |-> Web!Idle] /\ passwords = 0 /\ tokens = 0
      /\ installer = [at |-> "installing", shown |-> 0]
  BY DEF Web!Init
<1>2. Web!Idle.at = "idle"
  BY DEF Web!Idle
<1>3. 0 \in 0 .. passwords /\ 0 \in 0 .. tokens
  BY <1>1
<1>4. installer \in [at : InstallerAt, shown : 0 .. tokens]
  BY <1>1, <1>3 DEF InstallerAt
<1> QED
  BY <1>1, <1>2, <1>3, <1>4 DEF WebNumbers

\* A request moves: into a first setup with a token that was minted, or with the one it had.
LEMMA SetupsCarryTokens ==
  ASSUME WebSafe, WebNumbers, NEW r \in SignIns, NEW to, Web!Becomes(r, to), UNCHANGED tokens,
         to.at \in {"setup", "store"} => to.given \in 0 .. tokens
  PROVE  \A s \in SignIns : req_web'[s].at \in {"setup", "store"} => req_web'[s].given \in 0 .. tokens'
<1>1. DOMAIN req_web = SignIns
  BY DEF WebSafe, WebTypes
<1>2. \A s \in SignIns : req_web'[s] = to \/ req_web'[s] = req_web[s]
  BY <1>1 DEF Web!Becomes
<1> QED
  BY <1>2 DEF WebNumbers

LEMMA WebHandleNumbers ==
  ASSUME WebSafe, WebNumbers, NEW r \in SignIns, Web!Handle(r)
  PROVE  WebNumbers'
<1> DEFINE Carried == \A s \in SignIns :
             req_web'[s].at \in {"setup", "store"} => req_web'[s].given \in 0 .. tokens'
<1>0. passwords \in Nat /\ tokens \in Nat
      /\ DOMAIN req_web[r] = {"at", "peer", "given", "hash"}
  BY DEF WebSafe, WebTypes
<1>1. UNCHANGED <<tokens, up, installer>>
  BY DEF Web!Handle, Web!Arrive, Web!ReadHash, Web!HandleSignIn, Web!WrongCurrent, Web!HandleSetup,
     Web!TooShort, Web!SetupStores, Web!SetupFails, Web!ChangeStores, Web!DropAll, Web!ChangeFails,
     Web!counters
<1>2. ASSUME Web!Becomes(r, Web!Idle) PROVE Carried
  <2>1. Web!Idle.at = "idle"
    BY DEF Web!Idle
  <2> QED
    BY <1>1, <1>2, <2>1, SetupsCarryTokens
<1>3. ASSUME NEW at, Web!Goes(r, at), at \in {"setup", "store"} => req_web[r].given \in 0 .. tokens
      PROVE  Carried
  <2> DEFINE to == [req_web[r] EXCEPT !.at = at]
  <2>1. to.at = at /\ to.given = req_web[r].given /\ Web!Becomes(r, to)
    BY <1>0, <1>3 DEF Web!Goes
  <2> QED
    BY <1>1, <1>3, <2>1, SetupsCarryTokens
<1> HIDE DEF Carried
<1>4. ASSUME UNCHANGED <<stored, current_web, tokenFile, passwords>>, Carried, token' \in 0 .. tokens
      PROVE  WebNumbers'
  BY <1>1, <1>4 DEF WebNumbers, Carried
<1>5. ASSUME Web!SetPasswordHash, Carried, UNCHANGED token
      PROVE  WebNumbers'
  <2>1. /\ passwords' = passwords + 1 /\ stored' = passwords + 1 /\ current_web' = passwords + 1
        /\ tokenFile' = 0
    BY <1>5 DEF Web!SetPasswordHash
  <2>2. stored' \in 0 .. passwords' /\ current_web' \in 0 .. passwords' /\ tokenFile' \in 0 .. tokens'
    BY <1>0, <1>1, <2>1
  <2> QED
    BY <1>1, <1>5, <2>2 DEF WebNumbers, Carried
<1>6. CASE Web!Arrive(r)
  <2>1. UNCHANGED <<stored, current_web, tokenFile, passwords, token>>
    BY <1>6 DEF Web!Arrive
  <2>2. PICK p \in Peers, kind \in {"signin", "setup", "change"} :
          \E given \in IF kind = "setup" THEN 1 .. tokens ELSE 0 .. passwords :
            Web!Becomes(r, IF Web!Allowed(p) THEN [at |-> kind, peer |-> p,
                                                   given |-> given, hash |-> 0]
                           ELSE Web!Idle)
    BY <1>6 DEF Web!Arrive
  <2>3. PICK given \in IF kind = "setup" THEN 1 .. tokens ELSE 0 .. passwords :
          Web!Becomes(r, IF Web!Allowed(p) THEN [at |-> kind, peer |-> p,
                                                 given |-> given, hash |-> 0]
                         ELSE Web!Idle)
    BY <2>2
  <2>4. CASE Web!Allowed(p)
    <3> DEFINE to == [at |-> kind, peer |-> p, given |-> given, hash |-> 0]
    <3>1. Web!Becomes(r, to) /\ (to.at \in {"setup", "store"} => to.given \in 0 .. tokens)
      BY <1>0, <2>3, <2>4
    <3>2. Carried
      BY <1>1, <3>1, SetupsCarryTokens DEF Carried
    <3> QED
      BY <1>4, <2>1, <3>2 DEF WebNumbers
  <2>5. CASE ~Web!Allowed(p)
    BY <1>2, <1>4, <2>1, <2>3, <2>5 DEF WebNumbers
  <2> QED
    BY <2>4, <2>5
<1>7. CASE Web!ReadHash(r)
  <2>1. UNCHANGED <<stored, current_web, tokenFile, passwords, token>>
    BY <1>7 DEF Web!ReadHash, Web!counters
  <2>2. CASE Web!Becomes(r, Web!Idle)
    BY <1>2, <1>4, <2>1, <2>2 DEF WebNumbers
  <2>3. CASE ~Web!Becomes(r, Web!Idle)
    <3>1. PICK to : /\ Web!Becomes(r, to)
                    /\ to = [req_web[r] EXCEPT
                               !.at = IF @ = "signin" THEN "verify" ELSE "recheck",
                               !.hash = current_web]
      BY <1>7, <2>3 DEF Web!ReadHash
    <3>2. to.at \in {"verify", "recheck"}
      BY <1>0, <3>1
    <3>3. Carried
      BY <1>1, <3>1, <3>2, SetupsCarryTokens DEF Carried
    <3> QED
      BY <1>4, <2>1, <3>3 DEF WebNumbers
  <2> QED
    BY <2>2, <2>3
<1>8. CASE Web!HandleSignIn(r) \/ Web!WrongCurrent(r) \/ Web!TooShort(r) \/ Web!DropAll(r)
           \/ Web!ChangeFails(r)
  <2>1. Web!Becomes(r, Web!Idle) /\ UNCHANGED <<stored, current_web, tokenFile, passwords, token>>
    BY <1>8 DEF Web!HandleSignIn, Web!WrongCurrent, Web!TooShort, Web!DropAll, Web!ChangeFails,
       Web!counters
  <2> QED
    BY <1>2, <1>4, <2>1 DEF WebNumbers
<1>9. CASE Web!HandleSetup(r)
  <2>1. /\ UNCHANGED <<stored, current_web, tokenFile, passwords>> /\ token' \in {0, token}
        /\ Web!Becomes(r, Web!Idle) \/ Web!Goes(r, "store")
        /\ req_web[r].at = "setup"
    BY <1>9 DEF Web!HandleSetup, Web!counters
  <2>2. req_web[r].given \in 0 .. tokens /\ token' \in 0 .. tokens
    BY <1>0, <2>1 DEF WebNumbers
  <2>3. Carried
    BY <1>2, <1>3, <2>1, <2>2
  <2> QED
    BY <1>4, <2>1, <2>2, <2>3
<1>10. CASE Web!SetupFails(r)
  <2>1. /\ UNCHANGED <<stored, current_web, tokenFile, passwords>>
        /\ token' \in {req_web[r].given, token} /\ req_web[r].at = "store"
        /\ Web!Becomes(r, Web!Idle)
    BY <1>10 DEF Web!SetupFails, Web!RestoreSetupToken, Web!counters
  <2>2. token' \in 0 .. tokens
    BY <2>1 DEF WebNumbers
  <2> QED
    BY <1>2, <1>4, <2>1, <2>2
<1>11. CASE Web!SetupStores(r)
  BY <1>2, <1>5, <1>11 DEF Web!SetupStores
<1>12. CASE Web!ChangeStores(r)
  BY <1>3, <1>5, <1>12 DEF Web!ChangeStores
<1> QED
  BY <1>6, <1>7, <1>8, <1>9, <1>10, <1>11, <1>12 DEF Web!Handle

LEMMA WebNumbersStep == WebSafe /\ WebNumbers /\ [Web!Next]_(Web!vars) => WebNumbers'
<1> SUFFICES ASSUME WebSafe, WebNumbers, [Web!Next]_(Web!vars) PROVE WebNumbers'
  OBVIOUS
<1>1. passwords \in Nat /\ tokens \in Nat
  BY DEF WebSafe, WebTypes
<1>2. CASE Web!Start
  <2>1. /\ UNCHANGED <<stored, tokenFile, installer, passwords, req_web>> /\ up' = "starting"
        /\ current_web' = stored
        /\ (tokens' = tokens + 1 /\ token' = tokens + 1) \/ (tokens' = tokens /\ token' = 0)
    BY <1>2 DEF Web!Start
  <2>2. 0 .. tokens \subseteq 0 .. tokens' /\ token' \in 0 .. tokens'
    BY <1>1, <2>1
  <2> QED
    BY <2>1, <2>2 DEF WebNumbers
<1>3. CASE Web!WriteSetupToken \/ Web!Adopt \/ Web!Tick \/ Web!Serve \/ Web!SignOut
  <2>1. /\ UNCHANGED <<stored, token, installer, passwords, tokens, req_web>>
        /\ up' \in {up, "up"} /\ current_web' \in {current_web, stored}
        /\ tokenFile' \in {tokenFile, 0, token}
    BY <1>3 DEF Web!WriteSetupToken, Web!Adopt, Web!Tick, Web!Serve, Web!SignOut, Web!counters
  <2> QED
    BY <1>1, <2>1 DEF WebNumbers
<1>4. CASE Web!Stop
  <2>1. /\ UNCHANGED <<stored, current_web, tokenFile, installer, passwords, tokens>>
        /\ up' = "down" /\ token' = 0 /\ \A r \in SignIns : req_web'[r] = Web!Idle
    BY <1>4 DEF Web!Stop
  <2>2. Web!Idle.at = "idle"
    BY DEF Web!Idle
  <2> QED
    BY <1>1, <2>1, <2>2 DEF WebNumbers
<1>5. CASE Web!SetPassword \/ Web!ClearByHand
  <2>1. /\ UNCHANGED <<current_web, up, token, installer, tokens, req_web>>
        /\ tokenFile' \in {tokenFile, 0}
        /\ \/ passwords' = passwords + 1 /\ stored' = passwords + 1
           \/ passwords' = passwords /\ stored' = 0
    BY <1>5 DEF Web!SetPassword, Web!ClearByHand, Web!counters
  <2>2. 0 .. passwords \subseteq 0 .. passwords' /\ stored' \in 0 .. passwords' /\ 0 \in 0 .. tokens
    BY <1>1, <2>1
  <2> QED
    BY <2>1, <2>2 DEF WebNumbers
<1>6. CASE Web!HandOver \/ Web!WaitForSetupToken \/ Web!AwaitConfirmation \/ Web!SetupTokenCmd
  <2>1. UNCHANGED <<stored, current_web, up, token, tokenFile, passwords, tokens, req_web>>
    BY <1>6 DEF Web!HandOver, Web!WaitForSetupToken, Web!AwaitConfirmation, Web!SetupTokenCmd,
       Web!counters
  <2>2. \E at \in InstallerAt : \/ installer' = [installer EXCEPT !.at = at]
                          \/ installer' = [at |-> at, shown |-> tokenFile]
    BY <1>6, Zenon DEF InstallerAt, Web!HandOver, Web!WaitForSetupToken, Web!AwaitConfirmation,
       Web!SetupTokenCmd
  <2>3. installer' \in [at : InstallerAt, shown : 0 .. tokens]
    BY <2>2 DEF WebNumbers
  <2> QED
    BY <2>1, <2>3 DEF WebNumbers
<1>7. CASE UNCHANGED Web!vars
  BY <1>7 DEF Web!vars, WebNumbers
<1> QED
  BY <1>2, <1>3, <1>4, <1>5, <1>6, <1>7, WebHandleNumbers DEF Web!Next

LEMMA WebTypesOK == WebSafe /\ WebFails /\ WebSessions /\ WebNumbers => Web!TypeOK
<1> SUFFICES ASSUME WebSafe, WebFails, WebSessions, WebNumbers PROVE Web!TypeOK
  OBVIOUS
<1>1. Cardinality({p \in Peers : fails[p] # {}}) <= MaxTracked
  BY DEF WebFails, Recorded
<1>2. ASSUME NEW p \in Peers PROVE Cardinality(fails[p]) <= 1
  <2>1. fails[p] = {} \/ \E f : fails[p] = {f}
    BY DEF WebFails
  <2>2. ASSUME NEW f, fails[p] = {f} PROVE Cardinality(fails[p]) <= 1
    BY <2>2, FS_Singleton
  <2>3. CASE fails[p] = {}
    BY <2>3, FS_EmptySet
  <2> QED
    BY <2>1, <2>2, <2>3
<1>3. \A s \in sessions : s.born \in 0 .. clock_web /\ s.id \in 1 .. issued
  BY DEF WebSessions, WebLogins
<1> QED
  BY <1>1, <1>2, <1>3, CardinalityOfWeb DEF WebNumbers, Web!TypeOK
=============================================================================
