---------------------------- MODULE InboundReceiver --------------------------
(***************************************************************************)
(* inbound.Receiver: the hooks a console posts its alarms to, what is      *)
(* recorded of the arrivals at each, and the test mode in which an arrival *)
(* is taken and thrown away.  An arrival matches its hook, records itself, *)
(* and undoes that in test mode, under the lock three times; SetHooks and  *)
(* other arrivals come between.                                            *)
(***************************************************************************)
EXTENDS Integers, FiniteSets

CONSTANTS
  Hooks,     \* the names a configuration can give a hook
  Tokens,    \* the secrets a hook's URL can carry
  Requests,  \* bound: requests under way or over
  MaxWindow, \* MaxTestWindow
  MaxSets,   \* bound: changes of the configured hooks
  Horizon    \* bound: the last instant

Never == -1000
Receipt == [count |-> 0, lastAt |-> Never, testCount |-> 0, rejected |-> 0]
Books == ({0} \X Requests) \cup ((1 .. (MaxSets + 1)) \X Hooks)   \* where a receipt was made

VARIABLES
  now,
  sets,      \* changes of the hooks so far
  hooks,     \* Receiver.hooks: the name of each hook served -> its token
  receipts,  \* Receiver.receipts: name -> the receipt it points to
  book,      \* the receipts, where they are
  testUntil, \* Receiver.testUntil
  request,   \* how far each request has come
  raised,    \* ghost: per receipt, the alarms passed on that it counts
  dropped,   \* ghost: the instants at which each name's alarms were thrown away
  deafUntil  \* ghost: when what somebody asked for, of each hook served, ends

vars == <<now, sets, hooks, receipts, book, testUntil, request, raised, dropped, deafUntil>>

Configurations == UNION {[N -> Tokens] : N \in SUBSET Hooks}

Init ==
  /\ now = 0 /\ sets = 0
  /\ hooks \in Configurations /\ \A m, n \in DOMAIN hooks : hooks[m] = hooks[n] => m = n
  /\ receipts = [n \in DOMAIN hooks |-> <<1, n>>]
  /\ book = [b \in Books |-> Receipt]
  /\ testUntil = << >>
  /\ request = [q \in Requests |-> [at |-> "free"]]
  /\ raised = [b \in Books |-> 0] /\ dropped = [n \in Hooks |-> {}]
  /\ deafUntil = [n \in Hooks |-> Never]

Elapse ==
  /\ now < Horizon /\ now' = now + 1
  /\ UNCHANGED <<sets, hooks, receipts, book, testUntil, request, raised, dropped, deafUntil>>

-----------------------------------------------------------------------------
\* Mutant: test mode is kept for a hook that is gone.
KeepTests(N) == testUntil

\* A hook that is gone loses its test mode.
TestsOf(N) == [n \in DOMAIN testUntil \cap N |-> testUntil[n]]

\* SetHooks.  A hook under the same name and token keeps its receipt.
SetHooks(next) ==
  /\ sets < MaxSets /\ sets' = sets + 1 /\ next # hooks
  /\ \A m, n \in DOMAIN next : next[m] = next[n] => m = n
  /\ hooks' = next
  /\ LET keeps(n) == n \in DOMAIN receipts \cap DOMAIN hooks /\ hooks[n] = next[n]
     IN  receipts' = [n \in DOMAIN next |-> IF keeps(n) THEN receipts[n] ELSE <<sets' + 1, n>>]
  /\ testUntil' = TestsOf(DOMAIN next)
  /\ deafUntil' = [n \in Hooks |-> IF n \in DOMAIN next THEN deafUntil[n] ELSE Never]
  /\ UNCHANGED <<now, book, request, raised, dropped>>

ArmTest(n, d) ==
  /\ n \in DOMAIN hooks
  /\ LET until == now + (IF d > MaxWindow THEN MaxWindow ELSE d)
     IN  /\ testUntil' = [m \in DOMAIN testUntil \cup {n} |-> IF m = n THEN until ELSE testUntil[m]]
         /\ deafUntil' = [deafUntil EXCEPT ![n] = until]
  /\ UNCHANGED <<now, sets, hooks, receipts, book, request, raised, dropped>>

DisarmTest(n) ==
  /\ n \in DOMAIN testUntil \cap DOMAIN hooks
  /\ testUntil' = [m \in DOMAIN testUntil \ {n} |-> testUntil[m]]
  /\ deafUntil' = [deafUntil EXCEPT ![n] = Never]
  /\ UNCHANGED <<now, sets, hooks, receipts, book, request, raised, dropped>>

-----------------------------------------------------------------------------
\* ServeHTTP.

\* match, and then the header: what did not match is answered 404 here.
Arrive(q, token, header) ==
  /\ request[q].at = "free"
  /\ \E n \in DOMAIN hooks :
       /\ hooks[n] = token
       /\ request' = [request EXCEPT ![q] =
            [at |-> IF header THEN "matched" ELSE "refused", hook |-> n]]
  /\ UNCHANGED <<now, sets, hooks, receipts, book, testUntil, raised, dropped, deafUntil>>

\* A hook that is gone meanwhile gets a receipt of its own.
BookFor(q) == IF request[q].hook \in DOMAIN receipts THEN receipts[request[q].hook] ELSE <<0, q>>
Booked(q) == [n \in DOMAIN receipts \cup {request[q].hook} |->
                IF n = request[q].hook THEN BookFor(q) ELSE receipts[n]]

Reject(q) ==
  /\ request[q].at = "refused"
  /\ receipts' = Booked(q)
  /\ book' = [book EXCEPT ![BookFor(q)].rejected = @ + 1]
  /\ request' = [request EXCEPT ![q] = [at |-> "over"]]
  /\ UNCHANGED <<now, sets, hooks, testUntil, raised, dropped, deafUntil>>

\* testArmedLocked.
Armed(n) == n \in DOMAIN testUntil /\ now < testUntil[n]

Record(q) ==
  /\ request[q].at = "matched"
  /\ LET n == request[q].hook
     IN  /\ request' = [request EXCEPT ![q] =
              [at |-> IF Armed(n) THEN "undo" ELSE "pass", hook |-> n, book |-> BookFor(q),
               was |-> book[BookFor(q)].lastAt, when |-> now]]
         /\ testUntil' = IF Armed(n) THEN testUntil
                         ELSE [m \in DOMAIN testUntil \ {n} |-> testUntil[m]]
  /\ receipts' = Booked(q)
  /\ book' = [book EXCEPT ![BookFor(q)].count = @ + 1, ![BookFor(q)].lastAt = now]
  /\ UNCHANGED <<now, sets, hooks, raised, dropped, deafUntil>>

\* Mutant: a test is counted apart, and with the rest.
DiscardCounted(q) ==
  /\ request[q].at = "undo"
  /\ book' = [book EXCEPT ![request[q].book].testCount = @ + 1]
  /\ dropped' = [dropped EXCEPT ![request[q].hook] = @ \cup {request[q].when}]
  /\ request' = [request EXCEPT ![q] = [at |-> "over"]]
  /\ UNCHANGED <<now, sets, hooks, receipts, testUntil, raised, deafUntil>>

\* In test mode: counted apart, and what was recorded as an arrival undone.
Discard(q) ==
  /\ request[q].at = "undo"
  /\ LET b == request[q].book
     IN  book' = [book EXCEPT ![b].testCount = @ + 1, ![b].count = @ - 1,
                              ![b].lastAt = request[q].was]
  /\ dropped' = [dropped EXCEPT ![request[q].hook] = @ \cup {request[q].when}]
  /\ request' = [request EXCEPT ![q] = [at |-> "over"]]
  /\ UNCHANGED <<now, sets, hooks, receipts, testUntil, raised, deafUntil>>

\* The answer is given, and the event passed on.
PassOn(q) ==
  /\ request[q].at = "pass"
  /\ raised' = [raised EXCEPT ![request[q].book] = @ + 1]
  /\ request' = [request EXCEPT ![q] = [at |-> "over"]]
  /\ UNCHANGED <<now, sets, hooks, receipts, book, testUntil, dropped, deafUntil>>

Serve(q) == Reject(q) \/ Record(q) \/ Discard(q) \/ PassOn(q)

Next ==
  \/ Elapse
  \/ \E next \in Configurations : SetHooks(next)
  \/ \E n \in Hooks : DisarmTest(n) \/ \E d \in {1, MaxWindow + 1} : ArmTest(n, d)
  \/ \E q \in Requests : Serve(q) \/ \E t \in Tokens, header \in BOOLEAN : Arrive(q, t, header)

Spec == Init /\ [][Next]_vars

-----------------------------------------------------------------------------
\* Properties.

TypeOK ==
  /\ now \in 0 .. Horizon /\ hooks \in Configurations
  /\ DOMAIN testUntil \subseteq Hooks /\ DOMAIN receipts \subseteq Hooks
  /\ \A b \in Books : book[b].count \in 0 .. Cardinality(Requests)

UnderWay(b, at) == {q \in Requests : request[q].at \in at /\ request[q].book = b}

\* What the checklist calls an alarm that arrived was passed on, whatever tests
\* and changes of the hooks came between: only requests still under way differ.
CountedIsRaised ==
  \A b \in Books : book[b].count = raised[b] + Cardinality(UnderWay(b, {"pass", "undo"}))

\* An alarm is thrown away only while somebody wants that hook deaf: not past
\* the longest test, and not because an earlier hook of the name was being tested.
DeafOnlyOnRequest ==
  [][\A n \in Hooks, q \in Requests :
       request[q].at = "matched" /\ request'[q].at = "undo" /\ request[q].hook = n
         => now < deafUntil[n]]_vars

\* A hook that received an alarm says when, and one that received none does not.
LastSeenIsReal ==
  \A b \in Books : UnderWay(b, {"pass", "undo"}) = {} =>
    (book[b].count > 0 <=> book[b].lastAt # Never)
=============================================================================
