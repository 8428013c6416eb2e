-------------------------- MODULE Watching_proofs ---------------------------
(***************************************************************************)
(* Theorems about what must not stop unnoticed, one section per part. Each *)
(* part has an invariant of its own, which its initial states satisfy and  *)
(* its steps keep; a theorem of Watching follows since a behaviour is of   *)
(* one part.                                                               *)
(***************************************************************************)
EXTENDS Watching, FiniteSetTheorems, SequenceTheorems, TLAPS

\* A behaviour stays with its subject, and its steps are the subject's.
LEMMA StepsOfSubject ==
  [Next]_vars =>
    /\ subject' = subject
    /\ subject = "ingest" => [Ingest!Next]_(Ingest!vars)
    /\ subject = "events" => [Events!Next]_(Events!vars)
    /\ subject = "doors" => [Doors!Next]_(Doors!vars)
    /\ subject = "log" => [Log!Next]_(Log!vars)
    /\ subject = "network" => [Network!Next]_(Network!vars)
    /\ subject = "watch" => [Watch!Next]_(Watch!vars)
    /\ subject = "protect" => [Protect!Next]_(Protect!vars)
    /\ subject = "update" => [Update!Next]_(Update!vars)
<1> SUFFICES ASSUME [Next]_vars
             PROVE  /\ subject' = subject
                    /\ subject = "ingest" => [Ingest!Next]_(Ingest!vars)
                    /\ subject = "events" => [Events!Next]_(Events!vars)
                    /\ subject = "doors" => [Doors!Next]_(Doors!vars)
                    /\ subject = "log" => [Log!Next]_(Log!vars)
                    /\ subject = "network" => [Network!Next]_(Network!vars)
                    /\ subject = "watch" => [Watch!Next]_(Watch!vars)
                    /\ subject = "protect" => [Protect!Next]_(Protect!vars)
                    /\ subject = "update" => [Update!Next]_(Update!vars)
  OBVIOUS
<1>1. CASE Next
  BY <1>1 DEF Next, IngestSteps, ProtectSteps, EventsSteps, DoorsSteps, LogSteps,
     NetworkSteps, WatchSteps, UpdateSteps
<1>2. CASE UNCHANGED vars
  <2>1. UNCHANGED <<subject, ingestVars, protectVars, eventsVars, doorsVars, logVars,
                    networkVars, watchVars, updateVars>>
    BY <1>2 DEF vars
  <2>2. UNCHANGED Ingest!vars
    BY <2>1 DEF ingestVars, Ingest!vars, Ingest!runnerVars
  <2>3. UNCHANGED Events!vars
    BY <2>1 DEF eventsVars, Events!vars
  <2>4. UNCHANGED Doors!vars
    BY <2>1 DEF doorsVars, Doors!vars, Doors!world, Doors!health
  <2>5. UNCHANGED Log!vars
    BY <2>1 DEF logVars, Log!vars, Log!log
  <2>6. UNCHANGED Network!vars
    BY <2>1 DEF networkVars, Network!vars, Network!console
  <2>7. UNCHANGED Watch!vars
    BY <2>1 DEF watchVars, Watch!vars, Watch!process, Watch!config, Watch!peer
  <2>8. UNCHANGED Protect!vars
    BY <2>1 DEF protectVars, Protect!vars, Protect!world, Protect!sockets, Protect!registry, Protect!sweeper
  <2>9. UNCHANGED Update!vars
    BY <2>1 DEF updateVars, Update!vars, Update!process, Update!files, Update!page, Update!counts
  <2> QED
    BY <2>1, <2>2, <2>3, <2>4, <2>5, <2>6, <2>7, <2>8, <2>9
<1> QED
  BY <1>1, <1>2

-----------------------------------------------------------------------------
(* The watch over paired products (PeerLiveness).                          *)

Visits ==
  [pc : {"none", "window", "lock", "close", "reply"}, reply : Windows \cup {0},
   window : Windows \cup {0}]

WatchTypes ==
  /\ paired \subseteq Peers /\ window \in [Peers -> Windows]
  /\ quiet \in [Peers -> Nat] /\ uptime \in Nat /\ told_watch \in [Peers -> Windows \cup {0}]
  /\ rate \in [Peers -> 1 .. SlowestBeat] /\ since \in [Peers -> Nat]
  /\ visit \in [Peers -> Visits]

\* A request in progress is of a paired peer, and was served as a contact by the
\* time it is to be answered; what it answers is the window the peer is held to,
\* unless that changed under it.
VisitOK(p) ==
  /\ visit[p].pc = "none" => visit[p] = Watch!NoVisit
  /\ visit[p].pc # "none" => p \in paired /\ visit[p].reply \in Windows
  /\ visit[p].pc = "window" /\ p \notin raced => visit[p].reply = window[p]
  /\ visit[p].pc = "lock" => visit[p].window \in Windows /\ (p \notin raced => visit[p].window = visit[p].reply)
  /\ visit[p].pc \in {"close", "reply"} =>
       /\ p \in heard \ raised /\ quiet[p] = 0
       /\ p \notin raced => told_watch[p] = visit[p].reply

\* A peer's own age of its last contact is the daemon's, or no less than the
\* daemon's uptime; it beats at least as often as the window it was told of asks.
ContactOK(p) ==
  /\ p \in heard => told_watch[p] \in Windows
  /\ p \in paired /\ p \notin raced =>
       /\ p \in heard => since[p] = quiet[p]
       /\ p \notin heard => uptime <= since[p]
       /\ p \in heard /\ visit[p].pc \notin {"close", "reply"} => rate[p] <= told_watch[p]
       /\ p \in raised => rate[p] < since[p]

WatchSafe == WatchTypes /\ \A p \in Peers : VisitOK(p) /\ ContactOK(p)

LEMMA WatchMax ==
  ASSUME NEW a \in Int, NEW b \in Int
  PROVE  Watch!Max({a, b}) \in {a, b} /\ a <= Watch!Max({a, b}) /\ b <= Watch!Max({a, b})
<1>1. \E x \in {a, b} : \A y \in {a, b} : x >= y
  <2>1. CASE a <= b
    BY <2>1
  <2>2. CASE b <= a
    BY <2>2
  <2> QED
    BY <2>1, <2>2
<1> QED
  BY <1>1 DEF Watch!Max

LEMMA MaxOfTwo ==
  ASSUME NEW a \in Nat, NEW b \in Nat, NEW m, m = Watch!Max({a, b})
  PROVE  m \in Nat /\ a <= m /\ b <= m
<1>1. /\ Watch!Max({a, b}) \in {a, b} /\ a <= Watch!Max({a, b})
      /\ b <= Watch!Max({a, b})
  BY WatchMax
<1> QED
  BY <1>1

LEMMA WatchMin ==
  ASSUME NEW a \in Int, NEW b \in Int
  PROVE  Watch!Min({a, b}) \in {a, b} /\ Watch!Min({a, b}) <= a /\ Watch!Min({a, b}) <= b
<1>1. \E x \in {a, b} : \A y \in {a, b} : x <= y
  <2>1. CASE a <= b
    BY <2>1
  <2>2. CASE b <= a
    BY <2>2
  <2> QED
    BY <2>1, <2>2
<1> QED
  BY <1>1 DEF Watch!Min

\* A peer is told to beat within its window, and never slower than any may.
LEMMA BeatWithinWindow ==
  ASSUME NEW w \in Windows
  PROVE  Watch!HeartbeatEvery(w) \in 1 .. SlowestBeat /\ Watch!HeartbeatEvery(w) <= w
<1> DEFINE third == w \div 3
           capped == Watch!Min({third, SlowestBeat})
<1>1. w \in Nat \ {0} /\ SlowestBeat \in Nat \ {0}
  BY WatchAssumption DEF WatchAssumption
<1>2. third \in Nat /\ third <= w
  BY <1>1
<1> HIDE DEF third
<1>3. capped \in Nat /\ capped <= w /\ capped <= SlowestBeat
  BY <1>1, <1>2, WatchMin
<1> HIDE DEF capped
<1>4. Watch!Max({1, capped}) \in {1, capped} /\ 1 <= Watch!Max({1, capped})
  BY <1>3, WatchMax
<1> QED
  BY <1>1, <1>3, <1>4 DEF Watch!HeartbeatEvery, capped, third

\* Whoever is found silent has let its own rate pass.
LEMMA SilentIsLate ==
  ASSUME WatchSafe, NEW p \in paired, Watch!Quiet(p) > Watch!EffectiveWindow(p), p \notin raced
  PROVE  rate[p] < since[p]
<1>1. /\ p \in Peers /\ rate[p] \in 1 .. SlowestBeat /\ since[p] \in Nat /\ uptime \in Nat
      /\ quiet[p] \in Nat /\ window[p] \in Nat /\ SlowestBeat \in Nat
  BY WatchAssumption DEF WatchAssumption, WatchSafe, WatchTypes
<1>2. CASE p \in heard
  <2>1. told_watch[p] \in Windows /\ told_watch[p] \in Nat /\ told_watch[p] # 0
    BY <1>1, <1>2, WatchAssumption DEF WatchAssumption, WatchSafe, ContactOK
  <2>2. Watch!EffectiveWindow(p) = Watch!Max({window[p], told_watch[p]})
    BY <1>2 DEF Watch!EffectiveWindow
  <2>3. told_watch[p] <= Watch!EffectiveWindow(p) /\ Watch!EffectiveWindow(p) \in Nat
    BY <1>1, <2>1, <2>2, MaxOfTwo
  <2>4. told_watch[p] < quiet[p]
    <3>1. Watch!Quiet(p) = quiet[p]
      BY <1>2 DEF Watch!Quiet
    <3>2. quiet[p] > Watch!EffectiveWindow(p)
      BY <3>1
    <3> QED
      BY <1>1, <2>1, <2>3, <3>2
  <2>5. visit[p].pc \notin {"close", "reply"}
    BY <1>1, <2>1, <2>4 DEF WatchSafe, VisitOK
  <2>6. rate[p] <= told_watch[p] /\ since[p] = quiet[p]
    BY <1>1, <1>2, <2>5 DEF WatchSafe, ContactOK
  <2> QED
    BY <1>1, <2>1, <2>4, <2>6
<1>3. CASE p \notin heard
  <2>1. Watch!EffectiveWindow(p) = Watch!Max({window[p], SlowestBeat + 1})
    BY <1>3 DEF Watch!EffectiveWindow
  <2>2. SlowestBeat + 1 <= Watch!EffectiveWindow(p) /\ Watch!EffectiveWindow(p) \in Nat
    <3>1. SlowestBeat + 1 \in Nat
      BY <1>1
    <3> QED
      BY <1>1, <2>1, <3>1, MaxOfTwo
  <2>3. SlowestBeat + 1 < uptime
    <3>1. Watch!Quiet(p) = uptime
      BY <1>3 DEF Watch!Quiet
    <3>2. uptime > Watch!EffectiveWindow(p)
      BY <3>1
    <3> QED
      BY <1>1, <2>2, <3>2
  <2>4. uptime <= since[p]
    BY <1>1, <1>3 DEF WatchSafe, ContactOK
  <2> QED
    BY <1>1, <2>3, <2>4
<1> QED
  BY <1>2, <1>3

\* What the part's history starts from.
LEMMA WatchInit == Watch!Init => WatchSafe
<1> SUFFICES ASSUME Watch!Init
             PROVE  WatchSafe
  OBVIOUS
<1>1. 0 \in Nat /\ SlowestBeat \in 1 .. SlowestBeat
  BY WatchAssumption DEF WatchAssumption
<1>2. Watch!NoVisit \in Visits /\ Watch!NoVisit.pc = "none"
  BY DEF Watch!NoVisit, Visits
<1>3. WatchTypes
  BY <1>1, <1>2 DEF Watch!Init, WatchTypes
<1>4. ASSUME NEW p \in Peers
      PROVE  VisitOK(p) /\ ContactOK(p)
  <2>1. visit[p] = Watch!NoVisit /\ since[p] = 0 /\ heard = {} /\ raised = {} /\ uptime = 0
    BY DEF Watch!Init
  <2> QED
    BY <1>2, <2>1 DEF VisitOK, ContactOK
<1> QED
  BY <1>3, <1>4 DEF WatchSafe

\* Without a request in progress, and only then, a peer's visit is none.
LEMMA NoVisitIsNone ==
  ASSUME WatchSafe, NEW p \in Peers
  PROVE  visit[p] = Watch!NoVisit <=> visit[p].pc = "none"
BY DEF WatchSafe, VisitOK, Watch!NoVisit

\* A step that changes a single peer has only that one to be checked.
LEMMA OthersKeep ==
  ASSUME WatchSafe, NEW q \in Peers, paired' \ {q} = paired \ {q},
         heard' \ {q} = heard \ {q}, raised' \ {q} = raised \ {q}, raced' \ {q} = raced \ {q},
         uptime' = uptime, WatchTypes',
         \A p \in Peers \ {q} : /\ window'[p] = window[p] /\ quiet'[p] = quiet[p]
                                /\ told_watch'[p] = told_watch[p] /\ rate'[p] = rate[p]
                                /\ since'[p] = since[p] /\ visit'[p] = visit[p],
         VisitOK(q)', ContactOK(q)'
  PROVE  WatchSafe'
<1>1. ASSUME NEW p \in Peers \ {q}
      PROVE  VisitOK(p)' /\ ContactOK(p)'
  <2>1. VisitOK(p) /\ ContactOK(p)
    BY DEF WatchSafe
  <2>2. /\ p \in paired' <=> p \in paired
        /\ p \in heard' <=> p \in heard
        /\ p \in raised' <=> p \in raised
        /\ p \in raced' <=> p \in raced
    OBVIOUS
  <2>3. VisitOK(p)'
    BY <2>1, <2>2 DEF VisitOK, Watch!NoVisit
  <2>4. ContactOK(p)'
    BY <2>1, <2>2 DEF ContactOK
  <2> QED
    BY <2>3, <2>4
<1> QED
  BY <1>1 DEF WatchSafe

LEMMA ResolveSafe == ASSUME WatchSafe, NEW q \in Peers, Watch!Resolve(q) PROVE WatchSafe'
<1>1. /\ q \in paired /\ visit[q] = Watch!NoVisit
      /\ visit' = [visit EXCEPT ![q] = [pc |-> "window", reply |-> window[q], window |-> 0]]
      /\ UNCHANGED <<heard, quiet, uptime, told_watch, raised, paired, window, rate, since, raced>>
  BY DEF Watch!Resolve, Watch!process, Watch!config, Watch!peer
<1>2. window[q] \in Windows /\ visit \in [Peers -> Visits]
  BY DEF WatchSafe, WatchTypes
<1>3. [pc |-> "window", reply |-> window[q], window |-> 0] \in Visits
  BY <1>2 DEF Visits
<1>4. WatchTypes'
  BY <1>1, <1>2, <1>3 DEF WatchSafe, WatchTypes
<1>5. visit'[q] = [pc |-> "window", reply |-> window[q], window |-> 0]
  BY <1>1, <1>2
<1>6. VisitOK(q)'
  BY <1>1, <1>2, <1>5 DEF VisitOK
<1>7. visit[q].pc = "none"
  BY <1>1 DEF Watch!NoVisit
<1>8. ContactOK(q)'
  BY <1>1, <1>5, <1>7 DEF WatchSafe, ContactOK
<1> QED
  BY <1>1, <1>2, <1>4, <1>6, <1>8, OthersKeep

LEMMA ReadWindowSafe == ASSUME WatchSafe, NEW q \in Peers, Watch!ReadWindow(q) PROVE WatchSafe'
<1>1. /\ visit[q].pc = "window"
      /\ visit' = [visit EXCEPT ![q].pc = "lock", ![q].window = window[q]]
      /\ UNCHANGED <<heard, quiet, uptime, told_watch, raised, paired, window, rate, since, raced>>
  BY DEF Watch!ReadWindow, Watch!process, Watch!config, Watch!peer
<1>2. window[q] \in Windows /\ visit \in [Peers -> Visits] /\ VisitOK(q) /\ ContactOK(q)
  BY DEF WatchSafe, WatchTypes
<1>3. PICK v : v = [[visit[q] EXCEPT !.pc = "lock"] EXCEPT !.window = window[q]]
  OBVIOUS
<1>4. v = [pc |-> "lock", reply |-> visit[q].reply, window |-> window[q]]
  BY <1>2, <1>3 DEF Visits
<1>5. v \in Visits
  BY <1>2, <1>4 DEF Visits
<1>6. visit' = [visit EXCEPT ![q] = v]
  BY <1>1, <1>2, <1>3
<1>7. WatchTypes'
  BY ZenonT(60), <1>1, <1>2, <1>5, <1>6 DEF WatchSafe, WatchTypes
<1>8. visit'[q] = v
  BY <1>2, <1>6
<1>9. VisitOK(q)'
  BY <1>1, <1>2, <1>4, <1>8 DEF VisitOK
<1>10. ContactOK(q)'
  BY <1>1, <1>2, <1>4, <1>8 DEF ContactOK
<1> QED
  BY <1>1, <1>2, <1>6, <1>7, <1>9, <1>10, OthersKeep

LEMMA ContactSafe == ASSUME WatchSafe, NEW q \in Peers, Watch!Contact(q) PROVE WatchSafe'
<1> DEFINE pc == IF q \in raised THEN "close" ELSE "reply"
<1>1. /\ visit[q].pc = "lock" /\ heard' = heard \cup {q} /\ raised' = raised \ {q}
      /\ quiet' = [quiet EXCEPT ![q] = 0]
      /\ told_watch' = [told_watch EXCEPT ![q] = visit[q].window]
      /\ since' = [since EXCEPT ![q] = 0]
      /\ visit' = [visit EXCEPT ![q].pc = pc]
      /\ UNCHANGED <<uptime, paired, window, rate, raced>>
  BY DEF Watch!Contact, Watch!Step, Watch!config
<1>2. /\ visit \in [Peers -> Visits] /\ VisitOK(q) /\ ContactOK(q)
      /\ quiet \in [Peers -> Nat] /\ since \in [Peers -> Nat]
      /\ told_watch \in [Peers -> Windows \cup {0}]
  BY DEF WatchSafe, WatchTypes
<1>3. pc \in {"close", "reply"}
  OBVIOUS
<1> HIDE DEF pc
<1>4. PICK v : v = [visit[q] EXCEPT !.pc = pc]
  OBVIOUS
<1>5. v = [pc |-> pc, reply |-> visit[q].reply, window |-> visit[q].window]
  BY <1>2, <1>4 DEF Visits
<1>6. v \in Visits
  BY <1>2, <1>3, <1>5 DEF Visits
<1>7. visit' = [visit EXCEPT ![q] = v]
  BY <1>1, <1>4
<1>8. visit[q].window \in Windows
  BY <1>1, <1>2 DEF VisitOK
<1>9. WatchTypes'
  BY <1>1, <1>2, <1>6, <1>7, <1>8 DEF WatchSafe, WatchTypes
<1>10. visit'[q] = v /\ quiet'[q] = 0 /\ since'[q] = 0 /\ told_watch'[q] = visit[q].window
  BY <1>1, <1>2, <1>7
<1>11. VisitOK(q)'
  BY <1>1, <1>2, <1>3, <1>5, <1>10 DEF VisitOK
<1>12. ContactOK(q)'
  BY <1>1, <1>3, <1>5, <1>8, <1>10 DEF ContactOK
<1> QED
  BY <1>1, <1>2, <1>7, <1>9, <1>11, <1>12, OthersKeep

LEMMA CloseSafe == ASSUME WatchSafe, NEW q \in Peers, Watch!Close(q) PROVE WatchSafe'
<1>1. /\ visit[q].pc = "close" /\ visit' = [visit EXCEPT ![q].pc = "reply"]
      /\ UNCHANGED <<heard, quiet, uptime, told_watch, raised, paired, window, rate, since, raced>>
  BY DEF Watch!Close, Watch!Step, Watch!process, Watch!config, Watch!peer
<1>2. visit \in [Peers -> Visits] /\ VisitOK(q) /\ ContactOK(q)
  BY DEF WatchSafe, WatchTypes
<1>3. PICK v : v = [visit[q] EXCEPT !.pc = "reply"]
  OBVIOUS
<1>4. v = [pc |-> "reply", reply |-> visit[q].reply, window |-> visit[q].window]
  BY <1>2, <1>3 DEF Visits
<1>5. v \in Visits
  BY <1>2, <1>4 DEF Visits
<1>6. visit' = [visit EXCEPT ![q] = v]
  BY <1>1, <1>3
<1>7. WatchTypes'
  BY <1>1, <1>2, <1>5, <1>6 DEF WatchSafe, WatchTypes
<1>8. visit'[q] = v
  BY <1>2, <1>6
<1>9. VisitOK(q)'
  BY <1>1, <1>2, <1>4, <1>8 DEF VisitOK
<1>10. ContactOK(q)'
  BY <1>1, <1>2, <1>4, <1>8 DEF ContactOK
<1> QED
  BY <1>1, <1>2, <1>6, <1>7, <1>9, <1>10, OthersKeep

LEMMA ReplySafe == ASSUME WatchSafe, NEW q \in Peers, Watch!Reply(q) PROVE WatchSafe'
<1>1. /\ visit[q].pc = "reply" /\ visit' = [visit EXCEPT ![q] = Watch!NoVisit]
      /\ rate' = [rate EXCEPT ![q] = Watch!HeartbeatEvery(visit[q].reply)]
      /\ UNCHANGED <<heard, quiet, uptime, told_watch, raised, paired, window, since, raced>>
  BY DEF Watch!Reply, Watch!process, Watch!config
<1>2. /\ visit \in [Peers -> Visits] /\ VisitOK(q) /\ ContactOK(q)
      /\ rate \in [Peers -> 1 .. SlowestBeat]
  BY DEF WatchSafe, WatchTypes
<1>3. visit[q].reply \in Windows
  BY <1>1, <1>2 DEF VisitOK
<1>4. /\ Watch!HeartbeatEvery(visit[q].reply) \in 1 .. SlowestBeat
      /\ Watch!HeartbeatEvery(visit[q].reply) <= visit[q].reply
  BY <1>3, BeatWithinWindow
<1>5. Watch!NoVisit \in Visits /\ Watch!NoVisit.pc = "none"
  BY DEF Watch!NoVisit, Visits
<1>6. WatchTypes'
  BY <1>1, <1>2, <1>4, <1>5 DEF WatchSafe, WatchTypes
<1>7. visit'[q] = Watch!NoVisit /\ rate'[q] = Watch!HeartbeatEvery(visit[q].reply)
  BY <1>1, <1>2
<1>8. VisitOK(q)'
  BY <1>5, <1>7 DEF VisitOK, Watch!NoVisit
<1>9. ContactOK(q)'
  BY <1>1, <1>2, <1>4, <1>7 DEF VisitOK, ContactOK
<1> QED
  BY <1>1, <1>2, <1>6, <1>8, <1>9, OthersKeep

LEMMA CheckSafe == ASSUME WatchSafe, Watch!Check PROVE WatchSafe'
<1> DEFINE late == {p \in paired \ raised : Watch!Quiet(p) > Watch!EffectiveWindow(p)}
           former == raised \ paired
<1>1. /\ raised' = (raised \cup late) \ former /\ heard' = heard \ former
      /\ UNCHANGED <<quiet, uptime, told_watch, paired, window, rate, since, visit, raced>>
  BY DEF Watch!Check, Watch!config, Watch!peer
<1>2. WatchTypes'
  BY <1>1 DEF WatchSafe, WatchTypes
<1>3. ASSUME NEW p \in Peers
      PROVE  VisitOK(p)' /\ ContactOK(p)'
  <2>1. VisitOK(p) /\ ContactOK(p)
    BY DEF WatchSafe
  <2>2. p \in late /\ p \notin raced => rate[p] < since[p]
    BY SilentIsLate
  <2>3. p \in paired => (p \in heard' <=> p \in heard) /\ (p \in raised' <=> p \in raised \cup late)
    BY <1>1
  <2>4. p \in heard' => p \in heard
    BY <1>1
  <2>5. p \in late => visit[p].pc \notin {"close", "reply"}
    <3>1. SUFFICES ASSUME p \in late, visit[p].pc \in {"close", "reply"}
                   PROVE  FALSE
      OBVIOUS
    <3>2. p \in heard /\ quiet[p] = 0
      BY <2>1, <3>1 DEF VisitOK
    <3>3. told_watch[p] \in Windows /\ told_watch[p] \in Nat /\ window[p] \in Nat
      BY <2>1, <3>2, WatchAssumption DEF ContactOK, WatchAssumption, WatchSafe, WatchTypes
    <3>4. Watch!EffectiveWindow(p) = Watch!Max({window[p], told_watch[p]})
      BY <3>2 DEF Watch!EffectiveWindow
    <3>5. Watch!EffectiveWindow(p) \in Nat
      BY <3>3, <3>4, MaxOfTwo
    <3>6. Watch!Quiet(p) = 0
      BY <3>2 DEF Watch!Quiet
    <3>7. 0 > Watch!EffectiveWindow(p)
      BY <3>1, <3>6
    <3> QED
      BY <3>5, <3>7
  <2> HIDE DEF late, former
  <2>6. VisitOK(p)'
    BY <1>1, <2>1, <2>3, <2>5 DEF VisitOK, Watch!NoVisit
  <2>7. ContactOK(p)'
    BY <1>1, <2>1, <2>2, <2>3, <2>4 DEF ContactOK
  <2> QED
    BY <2>6, <2>7
<1> QED
  BY <1>2, <1>3 DEF WatchSafe

\* Ages grow together.
LEMMA TickSafe == ASSUME WatchSafe, Watch!Tick PROVE WatchSafe'
<1>1. /\ \A p \in Peers : visit[p] = Watch!NoVisit
      /\ quiet' = [p \in Peers |-> Watch!Older(quiet[p])] /\ uptime' = Watch!Older(uptime)
      /\ since' = [p \in Peers |-> Watch!Older(since[p])]
      /\ UNCHANGED <<heard, told_watch, raised, paired, window, rate, visit, raced>>
  BY DEF Watch!Tick, Watch!config
<1>2. ASSUME NEW a \in Nat, NEW b \in Nat, a <= b
      PROVE  Watch!Older(a) \in Nat /\ Watch!Older(a) <= Watch!Older(b) /\ a <= Watch!Older(a)
  BY <1>2, WatchAssumption DEF Watch!Older, WatchAssumption
<1>3. quiet \in [Peers -> Nat] /\ uptime \in Nat /\ since \in [Peers -> Nat]
  BY DEF WatchSafe, WatchTypes
<1>4. \A a \in Nat : Watch!Older(a) \in Nat
  BY <1>2
<1>5. quiet' \in [Peers -> Nat] /\ uptime' \in Nat /\ since' \in [Peers -> Nat]
  BY <1>1, <1>3, <1>4
<1>6. WatchTypes'
  BY <1>1, <1>5 DEF WatchSafe, WatchTypes
<1>7. ASSUME NEW p \in Peers
      PROVE  VisitOK(p)' /\ ContactOK(p)'
  <2>1. VisitOK(p) /\ ContactOK(p) /\ visit[p].pc = "none"
    BY <1>1 DEF WatchSafe, Watch!NoVisit
  <2>2. /\ quiet'[p] = Watch!Older(quiet[p]) /\ since'[p] = Watch!Older(since[p])
        /\ uptime' = Watch!Older(uptime)
    BY <1>1
  <2>3. VisitOK(p)'
    BY <1>1, <2>1 DEF VisitOK, Watch!NoVisit
  <2>4. uptime <= since[p] => uptime' <= since'[p]
    BY <1>2, <1>3, <2>2
  <2>5. rate[p] < since[p] => rate[p] < since'[p]
    <3>1. since[p] <= since'[p] /\ rate[p] \in Int /\ since[p] \in Int /\ since'[p] \in Int
      BY <1>2, <1>3, <1>5, <2>2 DEF WatchSafe, WatchTypes
    <3> QED
      BY <3>1
  <2>6. ContactOK(p)'
    BY <1>1, <2>1, <2>2, <2>4, <2>5 DEF ContactOK
  <2> QED
    BY <2>3, <2>6
<1> QED
  BY <1>6, <1>7 DEF WatchSafe

\* Steps that leave alone what the invariant speaks of.
LEMMA WatchUntouched ==
  ASSUME WatchSafe,
         UNCHANGED <<heard, quiet, uptime, told_watch, raised, paired, window, rate, since,
                     visit, raced>>
  PROVE  WatchSafe'
BY DEF WatchSafe, WatchTypes, VisitOK, ContactOK, Watch!NoVisit

LEMMA ChangeWindowSafe == ASSUME WatchSafe, NEW q \in Peers, Watch!ChangeWindow(q) PROVE WatchSafe'
<1>1. PICK w \in Windows \ {window[q]} : window' = [window EXCEPT ![q] = w]
  BY DEF Watch!ChangeWindow
<1>2. /\ raced' = IF visit[q] = Watch!NoVisit THEN raced ELSE raced \cup {q}
      /\ UNCHANGED <<heard, quiet, uptime, told_watch, raised, paired, rate, since, visit>>
  BY DEF Watch!ChangeWindow, Watch!process, Watch!peer
<1>3. WatchTypes'
  BY <1>1, <1>2 DEF WatchSafe, WatchTypes
<1>4. VisitOK(q) /\ ContactOK(q) /\ (visit[q] = Watch!NoVisit <=> visit[q].pc = "none")
  BY NoVisitIsNone DEF WatchSafe
<1>5. VisitOK(q)'
  BY <1>2, <1>4 DEF VisitOK, Watch!NoVisit
<1>6. ContactOK(q)'
  BY <1>2, <1>4 DEF ContactOK
<1>7. \A p \in Peers \ {q} : window'[p] = window[p]
  BY <1>1 DEF WatchSafe, WatchTypes
<1> QED
  BY <1>2, <1>3, <1>5, <1>6, <1>7, OthersKeep

LEMMA UnpairSafe == ASSUME WatchSafe, NEW q \in Peers, Watch!Unpair(q) PROVE WatchSafe'
<1>1. /\ visit[q] = Watch!NoVisit /\ paired' = paired \ {q}
      /\ UNCHANGED <<heard, quiet, uptime, told_watch, raised, window, rate, since, visit, raced>>
  BY DEF Watch!Unpair, Watch!process, Watch!peer
<1>2. WatchTypes'
  BY <1>1 DEF WatchSafe, WatchTypes
<1>3. VisitOK(q) /\ ContactOK(q) /\ visit[q].pc = "none"
  BY <1>1 DEF WatchSafe, Watch!NoVisit
<1>4. VisitOK(q)'
  BY <1>1, <1>3 DEF VisitOK, Watch!NoVisit
<1>5. ContactOK(q)'
  BY <1>1, <1>3 DEF ContactOK
<1> QED
  BY <1>1, <1>2, <1>4, <1>5, OthersKeep

LEMMA PairSafe == ASSUME WatchSafe, NEW q \in Peers, Watch!Pair(q) PROVE WatchSafe'
<1>1. /\ q \notin paired /\ paired' = paired \cup {q} /\ raced' = raced \cup {q}
      /\ rate' = [rate EXCEPT ![q] = SlowestBeat] /\ since' = [since EXCEPT ![q] = 0]
      /\ UNCHANGED <<heard, quiet, uptime, told_watch, raised, window, visit>>
  BY DEF Watch!Pair, Watch!process
<1>2. SlowestBeat \in 1 .. SlowestBeat /\ 0 \in Nat
  BY WatchAssumption DEF WatchAssumption
<1>3. WatchTypes'
  BY <1>1, <1>2 DEF WatchSafe, WatchTypes
<1>4. VisitOK(q) /\ ContactOK(q)
  BY DEF WatchSafe
<1>5. VisitOK(q)'
  BY <1>1, <1>4 DEF VisitOK, Watch!NoVisit
<1>6. ContactOK(q)'
  BY <1>1, <1>4 DEF ContactOK
<1>7. \A p \in Peers \ {q} : rate'[p] = rate[p] /\ since'[p] = since[p]
  BY <1>1 DEF WatchSafe, WatchTypes
<1> QED
  BY <1>1, <1>3, <1>5, <1>6, <1>7, OthersKeep

LEMMA RestartSafe == ASSUME WatchSafe, Watch!Restart PROVE WatchSafe'
<1>1. /\ heard' = {} /\ quiet' = [p \in Peers |-> 0] /\ uptime' = 0 /\ raised' = {} /\ raced' = {}
      /\ told_watch' = [p \in Peers |-> 0] /\ visit' = [p \in Peers |-> Watch!NoVisit]
      /\ UNCHANGED <<paired, window, rate, since>>
  BY DEF Watch!Restart, Watch!config, Watch!peer
<1>2. Watch!NoVisit \in Visits /\ Watch!NoVisit.pc = "none"
  BY DEF Watch!NoVisit, Visits
<1>3. WatchTypes'
  BY <1>1, <1>2 DEF WatchSafe, WatchTypes
<1>4. ASSUME NEW p \in Peers
      PROVE  VisitOK(p)' /\ ContactOK(p)'
  <2>1. visit'[p] = Watch!NoVisit /\ since'[p] \in Nat
    BY <1>1, <1>3 DEF WatchTypes
  <2>2. VisitOK(p)'
    BY <1>2, <2>1 DEF VisitOK, Watch!NoVisit
  <2>3. 0 <= since'[p]
    BY <2>1
  <2>4. ContactOK(p)'
    BY <1>1, <2>3 DEF ContactOK
  <2> QED
    BY <2>2, <2>4
<1> QED
  BY <1>3, <1>4 DEF WatchSafe

LEMMA WatchNext == WatchSafe /\ [Watch!Next]_(Watch!vars) => WatchSafe'
<1> SUFFICES ASSUME WatchSafe, [Watch!Next]_(Watch!vars)
             PROVE  WatchSafe'
  OBVIOUS
<1>1. CASE Watch!Check
  BY <1>1, CheckSafe
<1>2. CASE Watch!Raise \/ Watch!Unraise
  BY <1>2, WatchUntouched DEF Watch!Raise, Watch!Unraise, Watch!config, Watch!peer
<1>3. CASE Watch!Tick
  BY <1>3, TickSafe
<1>4. CASE Watch!Restart
  BY <1>4, RestartSafe
<1>5. ASSUME NEW q \in Peers, Watch!Request(q)
      PROVE  WatchSafe'
  BY <1>5, ResolveSafe, ReadWindowSafe, ContactSafe, CloseSafe, ReplySafe DEF Watch!Request
<1>6. ASSUME NEW q \in Peers, Watch!Die(q) \/ Watch!Wake(q)
      PROVE  WatchSafe'
  BY <1>6, WatchUntouched DEF Watch!Die, Watch!Wake, Watch!process, Watch!config
<1>7. ASSUME NEW q \in Peers, Watch!ChangeWindow(q) \/ Watch!Unpair(q) \/ Watch!Pair(q)
      PROVE  WatchSafe'
  BY <1>7, ChangeWindowSafe, UnpairSafe, PairSafe
<1>8. CASE UNCHANGED Watch!vars
  BY <1>8, WatchUntouched DEF Watch!vars, Watch!process, Watch!config, Watch!peer
<1> QED
  BY <1>1, <1>2, <1>3, <1>4, <1>5, <1>6, <1>7, <1>8 DEF Watch!Next

\* A peer that runs and keeps to the rate it was told is not reported silent,
\* through restarts and changes of its window, whatever the windows are.
THEOREM NotAccusedSafe == Spec => []NotAccused
<1> DEFINE Safe == subject = "watch" => WatchSafe
<1>1. Init => Safe
  BY WatchInit DEF Init
<1>2. Safe /\ [Next]_vars => Safe'
  BY StepsOfSubject, WatchNext
<1>3. Safe => NotAccused
  <2> SUFFICES ASSUME Safe, subject = "watch", NEW p \in raised \cap alive \cap paired,
                      since[p] <= rate[p], p \notin raced
               PROVE  FALSE
    BY DEF NotAccused, Watch!NotAccused
  <2>1. p \in Peers /\ since[p] \in Int /\ rate[p] \in Int
    BY DEF WatchSafe, WatchTypes
  <2>2. rate[p] < since[p]
    BY <2>1 DEF WatchSafe, ContactOK
  <2> QED
    BY <2>1, <2>2
<1> QED
  BY <1>1, <1>2, <1>3, PTL DEF Spec

-----------------------------------------------------------------------------
(* A door that stands open (AccessDoors).                                  *)

DoorStates ==
  [lock : {"locked", "unlocked", "unknown"}, position : {"open", "close", "unknown"},
   lastUnlockedAt : Int, openedAt : {Doors!Never} \cup Nat, settled : BOOLEAN, held : BOOLEAN,
   forced : BOOLEAN, remain : BOOLEAN]

DoorTypes ==
  /\ now_doors \in Nat /\ lock_doors \in {"locked", "unlocked"} /\ position \in {"open", "close"}
  /\ remain \in BOOLEAN /\ polled_doors \in Int /\ now_doors - polled_doors <= PositionEvery
  /\ state \subseteq DoorStates /\ \A c, d \in state : c = d
  /\ openSince \in {Doors!Never} \cup Nat

\* What is known of a door that is open: since when, that it is held once the
\* limit had passed by the last poll, and that what is held was reported.
DoorOK(d) ==
  /\ d.position = "open" => d.openedAt \in Nat /\ d.openedAt <= now_doors
  /\ d.position = "open" /\ polled_doors - d.openedAt >= HeldAfter => d.held
  /\ d.held => "held" \in told_doors

\* While the polls see the door open its state says so, since no later.
SeenOpen ==
  openSince # Doors!Never =>
    /\ openSince <= now_doors
    /\ \E d \in state : d.position = "open" /\ d.openedAt <= openSince

DoorsSafe == DoorTypes /\ (\A d \in state : DoorOK(d)) /\ SeenOpen

\* The door before a step: the one there is, or one nothing is known of.
LEMMA DoorBefore ==
  ASSUME DoorsSafe
  PROVE  /\ Doors!Door \in DoorStates
         /\ state = {} => Doors!Door = Doors!Fresh
         /\ state # {} => state = {Doors!Door}
         /\ \A d \in state : d = Doors!Door
         /\ DoorOK(Doors!Door)
<1>1. CASE state = {}
  <2>1. Doors!Door = Doors!Fresh
    BY <1>1 DEF Doors!Door
  <2>2. Doors!Fresh \in DoorStates
    BY DEF Doors!Fresh, DoorStates, Doors!Never
  <2>3. DoorOK(Doors!Fresh)
    BY DEF DoorOK, Doors!Fresh
  <2> QED
    BY <1>1, <2>1, <2>2, <2>3
<1>2. CASE state # {}
  <2>1. PICK d \in state : TRUE
    BY <1>2
  <2>2. state = {d}
    BY <2>1 DEF DoorsSafe, DoorTypes
  <2>3. Doors!Door = d
    BY <2>2 DEF Doors!Door
  <2> QED
    BY <1>2, <2>1, <2>2, <2>3 DEF DoorsSafe, DoorTypes
<1> QED
  BY <1>1, <1>2

\* The lock part of a door changes nothing else of it.
LEMMA LockPart ==
  ASSUME NEW d \in DoorStates, DoorTypes
  PROVE  /\ Doors!WithLock(d) \in DoorStates
         /\ Doors!WithLock(d).position = d.position
         /\ Doors!WithLock(d).openedAt = d.openedAt
         /\ Doors!WithLock(d).held = d.held
<1> DEFINE when == IF lock_doors = "unlocked" THEN now_doors ELSE d.lastUnlockedAt
<1>1. when \in Int /\ lock_doors \in {"locked", "unlocked", "unknown"}
  BY DEF DoorStates, DoorTypes
<1>2. Doors!WithLock(d) = [d EXCEPT !.lock = lock_doors, !.lastUnlockedAt = when]
  BY DEF Doors!WithLock
<1> HIDE DEF when
<1>3. Doors!WithLock(d) =
        [lock |-> lock_doors, position |-> d.position, lastUnlockedAt |-> when,
         openedAt |-> d.openedAt, settled |-> d.settled, held |-> d.held,
         forced |-> d.forced, remain |-> d.remain]
  BY <1>2 DEF DoorStates
<1> QED
  BY <1>1, <1>3 DEF DoorStates

\* The clock makes an open door held, and nothing else.
LEMMA ClockPart ==
  ASSUME NEW d \in DoorStates
  PROVE  /\ Doors!Tick(d) \in DoorStates
         /\ Doors!Tick(d).position = d.position
         /\ Doors!Tick(d).openedAt = d.openedAt
         /\ Doors!Tick(d).held <=> d.held \/ (d.position = "open" /\ Doors!Overdue(d))
<1> DEFINE held == d.held \/ (d.position = "open" /\ Doors!Overdue(d))
<1>1. held \in BOOLEAN
  BY DEF DoorStates
<1>2. Doors!Tick(d) = [d EXCEPT !.held = held]
  BY DEF Doors!Tick
<1> HIDE DEF held
<1>3. Doors!Tick(d) =
        [lock |-> d.lock, position |-> d.position, lastUnlockedAt |-> d.lastUnlockedAt,
         openedAt |-> d.openedAt, settled |-> d.settled, held |-> held,
         forced |-> d.forced, remain |-> d.remain]
  BY <1>2 DEF DoorStates
<1>4. /\ Doors!Tick(d) \in DoorStates /\ Doors!Tick(d).position = d.position
      /\ Doors!Tick(d).openedAt = d.openedAt
  BY <1>1, <1>3 DEF DoorStates
<1>5. Doors!Tick(d).held = held
  BY <1>3
<1> QED
  BY <1>4, <1>5 DEF held

\* A door that is seen closed is not held; one seen open for the first time is
\* open since now, and otherwise since when it was.
LEMMA EvaluatePart ==
  ASSUME NEW d \in DoorStates, d.position \in {"open", "close"}, NEW prev, DoorTypes
  PROVE  /\ Doors!Evaluate(d, prev) \in DoorStates
         /\ Doors!Evaluate(d, prev).position = d.position
         /\ d.position = "close" => ~Doors!Evaluate(d, prev).held
         /\ d.position = "open" =>
              Doors!Evaluate(d, prev).openedAt = IF prev # "open" THEN now_doors ELSE d.openedAt
<1>1. CASE d.position = "close"
  <2>1. Doors!Evaluate(d, prev) =
          [d EXCEPT !.settled = TRUE, !.openedAt = Doors!Never, !.forced = FALSE, !.held = FALSE]
    BY <1>1 DEF Doors!Evaluate
  <2>2. Doors!Evaluate(d, prev) =
          [lock |-> d.lock, position |-> d.position, lastUnlockedAt |-> d.lastUnlockedAt,
           openedAt |-> Doors!Never, settled |-> TRUE, held |-> FALSE,
           forced |-> FALSE, remain |-> d.remain]
    BY <2>1 DEF DoorStates
  <2> QED
    BY <1>1, <2>2 DEF DoorStates
<1>2. CASE d.position = "open"
  <2> DEFINE opens == prev # "open"
             o == IF opens THEN [d EXCEPT !.openedAt = now_doors] ELSE d
             authorised == d.lastUnlockedAt # Doors!Never /\ now_doors - d.lastUnlockedAt <= UnlockGrace
             forced == o.forced \/ (opens /\ d.settled /\ d.lock = "locked" /\ ~authorised)
             held == o.held \/ Doors!Overdue(o)
             opened == IF opens THEN now_doors ELSE d.openedAt
  <2>1. o = [lock |-> d.lock, position |-> d.position, lastUnlockedAt |-> d.lastUnlockedAt,
             openedAt |-> opened, settled |-> d.settled, held |-> d.held,
             forced |-> d.forced, remain |-> d.remain]
    BY DEF DoorStates
  <2>2. Doors!Evaluate(d, prev) = [o EXCEPT !.forced = forced, !.held = held]
    BY <1>2 DEF Doors!Evaluate
  <2>3. forced \in BOOLEAN /\ held \in BOOLEAN
    BY <2>1 DEF DoorStates
  <2>4. opened \in {Doors!Never} \cup Nat
    BY DEF DoorStates, DoorTypes
  <2> HIDE DEF o, forced, held
  <2>5. Doors!Evaluate(d, prev) =
          [lock |-> d.lock, position |-> d.position, lastUnlockedAt |-> d.lastUnlockedAt,
           openedAt |-> opened, settled |-> d.settled, held |-> held,
           forced |-> forced, remain |-> d.remain]
    BY <2>1, <2>2
  <2>6. Doors!Evaluate(d, prev) \in DoorStates
    BY <2>3, <2>4, <2>5 DEF DoorStates
  <2> QED
    BY <1>2, <2>5, <2>6
<1> QED
  BY <1>1, <1>2

\* What is derived of a door is reported when it begins.
LEMMA HeldIsTold ==
  ASSUME DoorsSafe, NEW d \in DoorStates, Doors!Tell(d), d.held
  PROVE  "held" \in told_doors'
<1>1. \A e \in DoorStates : "held" \in Doors!Derived(e) <=> e.held
  BY DEF Doors!Derived
<1>2. Doors!Door \in DoorStates /\ (Doors!Door.held => "held" \in told_doors)
  BY DoorBefore DEF DoorOK
<1>3. told_doors' = (told_doors \ (Doors!Derived(Doors!Door) \ Doors!Derived(d)))
                      \cup (Doors!Derived(d) \ Doors!Derived(Doors!Door))
  BY DEF Doors!Tell
<1> QED
  BY <1>1, <1>2, <1>3

\* After a poll, made now, a door the clock has run for is held in time.
LEMMA HeldInTime ==
  ASSUME DoorsSafe, NEW d \in DoorStates, NEW e, e = Doors!Tick(d),
         polled_doors' = now_doors, now_doors' = now_doors,
         d.position = "open" => d.openedAt \in Nat /\ d.openedAt <= now_doors,
         e.held => "held" \in told_doors'
  PROVE  DoorOK(e)'
<1>1. /\ e.position = d.position /\ e.openedAt = d.openedAt
      /\ e.held <=> d.held \/ (d.position = "open" /\ Doors!Overdue(d))
  BY ClockPart
<1>2. d.position = "open" /\ now_doors - d.openedAt >= HeldAfter => Doors!Overdue(d)
  BY DEF Doors!Overdue, Doors!Never
<1> QED
  BY <1>1, <1>2 DEF DoorOK

LEMMA DoorsInit == Doors!Init => DoorsSafe
<1> SUFFICES ASSUME Doors!Init
             PROVE  DoorsSafe
  OBVIOUS
<1>1. /\ now_doors = 0 /\ polled_doors = -PositionEvery /\ state = {} /\ remain = FALSE
      /\ lock_doors \in {"locked", "unlocked"} /\ position \in {"open", "close"}
      /\ openSince = Doors!Never
  BY DEF Doors!Init
<1>2. polled_doors \in Int /\ now_doors - polled_doors <= PositionEvery
  BY <1>1, DoorsAssumption DEF DoorsAssumption
<1>3. DoorTypes
  BY <1>1, <1>2 DEF DoorTypes
<1> QED
  BY <1>1, <1>3 DEF DoorsSafe, SeenOpen

\* Steps of the world, which leave the source's state alone.
LEMMA DoorsUntouched ==
  ASSUME DoorsSafe, UNCHANGED <<now_doors, polled_doors, state, told_doors, openSince>>,
         lock_doors' \in {"locked", "unlocked"}, position' \in {"open", "close"}, remain' \in BOOLEAN
  PROVE  DoorsSafe'
BY DEF DoorsSafe, DoorTypes, DoorOK, SeenOpen

LEMMA DoorsElapse == ASSUME DoorsSafe, Doors!Elapse PROVE DoorsSafe'
<1>1. /\ now_doors' = now_doors + 1 /\ now_doors - polled_doors < PositionEvery
      /\ UNCHANGED <<lock_doors, position, remain, polled_doors, state, told_doors, openSince>>
  BY DEF Doors!Elapse, Doors!world
<1>2. now_doors \in Nat /\ polled_doors \in Int /\ PositionEvery \in Nat
  BY DoorsAssumption DEF DoorsSafe, DoorTypes, DoorsAssumption
<1>3. DoorTypes'
  BY <1>1, <1>2 DEF DoorsSafe, DoorTypes
<1>4. ASSUME NEW d \in state
      PROVE  DoorOK(d)'
  <2>1. DoorOK(d)
    BY DEF DoorsSafe
  <2> QED
    BY <1>1, <1>2, <2>1 DEF DoorOK
<1>5. SeenOpen'
  <2>1. openSince # Doors!Never => openSince \in Nat
    BY DEF DoorsSafe, DoorTypes
  <2> QED
    BY <1>1, <1>2, <2>1 DEF DoorsSafe, SeenOpen
<1> QED
  BY <1>1, <1>3, <1>4, <1>5 DEF DoorsSafe

LEMMA DoorsFrame == ASSUME DoorsSafe, Doors!HandleFrame PROVE DoorsSafe'
<1>1. PICK known \in BOOLEAN : Doors!ObserveLock(known)
  BY DEF Doors!HandleFrame, DoorsSafe, DoorTypes
<1>2. UNCHANGED <<now_doors, lock_doors, position, remain, polled_doors, openSince>>
  BY DEF Doors!HandleFrame, Doors!world
<1>3. PICK d : d = Doors!Door
  OBVIOUS
<1>4. d \in DoorStates /\ DoorOK(d) /\ \A c \in state : c = d
  BY <1>3, DoorBefore DEF DoorOK
<1>5. PICK l : l = Doors!WithLock(d)
  OBVIOUS
<1>6. l \in DoorStates /\ l.position = d.position /\ l.openedAt = d.openedAt /\ l.held = d.held
  BY <1>4, <1>5, LockPart DEF DoorsSafe
<1>7. PICK e : e = [l EXCEPT !.remain = known]
  OBVIOUS
<1>8. e = [lock |-> l.lock, position |-> l.position, lastUnlockedAt |-> l.lastUnlockedAt,
           openedAt |-> l.openedAt, settled |-> l.settled, held |-> l.held,
           forced |-> l.forced, remain |-> known]
  BY <1>6, <1>7 DEF DoorStates
<1>9. e \in DoorStates
  BY <1>6, <1>8 DEF DoorStates
<1>10. state' = {e} /\ ("held" \in told_doors => "held" \in told_doors')
  BY <1>1, <1>3, <1>5, <1>7 DEF Doors!ObserveLock, Doors!NoteLock
<1>11. DoorTypes'
  BY <1>2, <1>9, <1>10 DEF DoorsSafe, DoorTypes
<1>12. DoorOK(e)'
  BY <1>2, <1>4, <1>6, <1>8, <1>10 DEF DoorOK
<1>13. SeenOpen'
  BY <1>2, <1>4, <1>6, <1>8, <1>10 DEF DoorsSafe, SeenOpen
<1> QED
  BY <1>10, <1>11, <1>12, <1>13 DEF DoorsSafe

LEMMA DoorsPoll == ASSUME DoorsSafe, Doors!Poll PROVE DoorsSafe'
<1>1. /\ UNCHANGED <<now_doors, lock_doors, position, remain>> /\ polled_doors' = now_doors
      /\ state' = {Doors!ObservePosition} /\ Doors!Tell(Doors!ObservePosition)
      /\ openSince' = IF position = "close" THEN Doors!Never
                      ELSE IF openSince = Doors!Never THEN now_doors ELSE openSince
  BY DEF Doors!Poll, Doors!Due, Doors!world
<1>2. PICK d : d = Doors!Door
  OBVIOUS
<1>3. d \in DoorStates /\ DoorOK(d) /\ \A c \in state : c = d
  BY <1>2, DoorBefore DEF DoorOK
<1>4. PICK l : l = Doors!WithLock(d)
  OBVIOUS
<1>5. l \in DoorStates /\ l.position = d.position /\ l.openedAt = d.openedAt /\ l.held = d.held
  BY <1>3, <1>4, LockPart DEF DoorsSafe
<1>6. PICK p : p = [l EXCEPT !.position = position]
  OBVIOUS
<1>7. p = [lock |-> l.lock, position |-> position, lastUnlockedAt |-> l.lastUnlockedAt,
           openedAt |-> l.openedAt, settled |-> l.settled, held |-> l.held,
           forced |-> l.forced, remain |-> l.remain]
  BY <1>5, <1>6 DEF DoorStates
<1>8. position \in {"open", "close"} /\ DoorTypes /\ now_doors \in Nat
  BY DEF DoorsSafe, DoorTypes
<1>9. p \in DoorStates /\ p.position = position /\ p.openedAt = d.openedAt
  BY <1>5, <1>7, <1>8 DEF DoorStates
<1>10. PICK v : v = Doors!Evaluate(p, d.position)
  OBVIOUS
<1>11. /\ v \in DoorStates /\ v.position = position
       /\ position = "close" => ~v.held
       /\ position = "open" => v.openedAt = IF d.position # "open" THEN now_doors ELSE d.openedAt
  BY <1>8, <1>9, <1>10, EvaluatePart
<1>12. PICK e : e = Doors!Tick(v)
  OBVIOUS
<1>13. e \in DoorStates /\ e.position = position /\ e.openedAt = v.openedAt
  BY <1>11, <1>12, ClockPart
<1>14. state' = {e} /\ Doors!Tell(e)
  BY <1>1, <1>2, <1>4, <1>6, <1>10, <1>12 DEF Doors!ObservePosition
<1>15. v.position = "open" => v.openedAt \in Nat /\ v.openedAt <= now_doors
  BY <1>3, <1>8, <1>11 DEF DoorOK
<1>16. DoorOK(e)'
  BY <1>1, <1>11, <1>12, <1>13, <1>14, <1>15, HeldInTime, HeldIsTold
<1>17. now_doors' - polled_doors' <= PositionEvery
  BY <1>1, <1>8, DoorsAssumption DEF DoorsAssumption
<1>18. openSince' \in {Doors!Never} \cup Nat
  BY <1>1, <1>8 DEF DoorTypes
<1>19. DoorTypes'
  BY <1>1, <1>8, <1>13, <1>14, <1>17, <1>18 DEF DoorTypes
<1>20. SeenOpen'
  <2>1. SUFFICES ASSUME openSince' # Doors!Never
                 PROVE  openSince' <= now_doors /\ e.position = "open" /\ e.openedAt <= openSince'
    BY <1>1, <1>14 DEF SeenOpen
  <2>2. position = "open"
    BY <1>1, <1>8, <2>1
  <2>3. CASE openSince = Doors!Never
    <3>1. openSince' = now_doors
      BY <1>1, <2>2, <2>3
    <3> QED
      BY <1>8, <1>11, <1>13, <1>15, <2>2, <3>1
  <2>4. CASE openSince # Doors!Never
    <3>1. openSince' = openSince
      BY <1>1, <2>2, <2>4
    <3>2. openSince <= now_doors /\ d.position = "open" /\ d.openedAt <= openSince
      BY <1>3, <2>4 DEF DoorsSafe, SeenOpen
    <3> QED
      BY <1>11, <1>13, <2>2, <3>1, <3>2
  <2> QED
    BY <2>3, <2>4
<1> QED
  BY <1>14, <1>16, <1>19, <1>20 DEF DoorsSafe

\* A poll that saw nothing leaves the door as it was, but for the clock.
LEMMA DoorsClockOnly ==
  ASSUME DoorsSafe, polled_doors' = now_doors, UNCHANGED <<now_doors, lock_doors, position, remain>>,
         \/ state' = {Doors!Tick(d) : d \in state}
         \/ state' = {} /\ openSince' = Doors!Never,
         state' = {} \/ Doors!Tell(Doors!Tick(Doors!Door)),
         openSince' \in {openSince, Doors!Never}
  PROVE  DoorsSafe'
<1>1. now_doors \in Nat /\ PositionEvery \in Nat
  BY DoorsAssumption DEF DoorsSafe, DoorTypes, DoorsAssumption
<1>2. CASE state' = {}
  <2>1. DoorTypes'
    BY <1>1, <1>2 DEF DoorsSafe, DoorTypes
  <2>2. openSince' = Doors!Never
    BY <1>2 DEF DoorsSafe, SeenOpen
  <2> QED
    BY <1>2, <2>1, <2>2 DEF DoorsSafe, SeenOpen
<1>3. CASE state' # {}
  <2>1. state # {} /\ state' = {Doors!Tick(d) : d \in state}
    BY <1>3
  <2>2. PICK d : d = Doors!Door
    OBVIOUS
  <2>3. d \in DoorStates /\ DoorOK(d) /\ state = {d}
    BY <2>1, <2>2, DoorBefore DEF DoorOK
  <2>4. PICK e : e = Doors!Tick(d)
    OBVIOUS
  <2>5. e \in DoorStates /\ e.position = d.position /\ e.openedAt = d.openedAt
    BY <2>3, <2>4, ClockPart
  <2>6. state' = {e} /\ Doors!Tell(e)
    BY <1>3, <2>1, <2>2, <2>3, <2>4
  <2>7. d.position = "open" => d.openedAt \in Nat /\ d.openedAt <= now_doors
    BY <2>3 DEF DoorOK
  <2>8. e.held => "held" \in told_doors'
    BY <2>5, <2>6, HeldIsTold
  <2>9. DoorOK(e)'
    BY <2>3, <2>4, <2>7, <2>8, HeldInTime
  <2>10. DoorTypes'
    BY <1>1, <2>5, <2>6 DEF DoorsSafe, DoorTypes
  <2>11. SeenOpen'
    BY <2>3, <2>5, <2>6 DEF DoorsSafe, SeenOpen
  <2> QED
    BY <2>6, <2>9, <2>10, <2>11 DEF DoorsSafe
<1> QED
  BY <1>2, <1>3

LEMMA DoorsPollUnlisted == ASSUME DoorsSafe, Doors!PollUnlisted PROVE DoorsSafe'
<1> DEFINE kept == {d \in state : d.forced \/ d.held \/ d.remain}
<1>1. /\ polled_doors' = now_doors /\ UNCHANGED <<now_doors, lock_doors, position, remain>>
      /\ openSince' = Doors!Never /\ state' = {Doors!Tick(d) : d \in kept}
      /\ state' = {} \/ Doors!Tell(Doors!Tick(Doors!Door))
  BY DEF Doors!PollUnlisted, Doors!Due, Doors!world
<1>2. kept = {} \/ kept = state
  BY DEF DoorsSafe, DoorTypes
<1> HIDE DEF kept
<1>3. state' = {} \/ state' = {Doors!Tick(d) : d \in state}
  BY <1>1, <1>2
<1> QED
  BY <1>1, <1>3, DoorsClockOnly

LEMMA DoorsPollFails == ASSUME DoorsSafe, Doors!PollFails PROVE DoorsSafe'
<1>1. /\ polled_doors' = now_doors
      /\ UNCHANGED <<now_doors, lock_doors, position, remain, openSince>>
      /\ state' = {Doors!Tick(d) : d \in state}
      /\ state = {} \/ Doors!Tell(Doors!Tick(Doors!Door))
  BY DEF Doors!PollFails, Doors!Due, Doors!world
<1>2. state = {} => state' = {}
  BY <1>1
<1> QED
  BY <1>1, <1>2, DoorsClockOnly

LEMMA DoorsNext == DoorsSafe /\ [Doors!Next]_(Doors!vars) => DoorsSafe'
<1> SUFFICES ASSUME DoorsSafe, [Doors!Next]_(Doors!vars)
             PROVE  DoorsSafe'
  OBVIOUS
<1>1. /\ lock_doors \in {"locked", "unlocked"} /\ position \in {"open", "close"}
      /\ remain \in BOOLEAN
  BY DEF DoorsSafe, DoorTypes
<1>2. CASE Doors!Elapse
  BY <1>2, DoorsElapse
<1>3. CASE Doors!TurnLock \/ Doors!SwitchMode \/ Doors!Swing \/ Doors!List
  BY <1>1, <1>3, DoorsUntouched DEF Doors!TurnLock, Doors!SwitchMode, Doors!Swing, Doors!List
<1>4. CASE Doors!DropSocket \/ Doors!Reconnect \/ Doors!HandleUnreadable
  BY <1>1, <1>4, DoorsUntouched
     DEF Doors!DropSocket, Doors!Reconnect, Doors!HandleUnreadable, Doors!world
<1>5. CASE Doors!HandleFrame
  BY <1>5, DoorsFrame
<1>6. CASE Doors!Poll \/ Doors!PollUnlisted \/ Doors!PollFails
  BY <1>6, DoorsPoll, DoorsPollUnlisted, DoorsPollFails
<1>7. CASE UNCHANGED Doors!vars
  BY <1>1, <1>7, DoorsUntouched DEF Doors!vars, Doors!world
<1> QED
  BY <1>2, <1>3, <1>4, <1>5, <1>6, <1>7 DEF Doors!Next

\* A door that stands open for the limit and a poll is reported, also when polls
\* fail or the socket drops meanwhile, whatever the limit and the rhythm are.
THEOREM HeldIsReportedSafe == Spec => []HeldIsReported
<1> DEFINE Safe == subject = "doors" => DoorsSafe
<1>1. Init => Safe
  BY DoorsInit DEF Init
<1>2. Safe /\ [Next]_vars => Safe'
  BY StepsOfSubject, DoorsNext
<1>3. Safe => HeldIsReported
  <2> SUFFICES ASSUME DoorsSafe, openSince # Doors!Never,
                      now_doors - openSince >= HeldAfter + PositionEvery
               PROVE  "held" \in told_doors
    BY DEF HeldIsReported, Doors!HeldIsReported
  <2>1. PICK d \in state : d.position = "open" /\ d.openedAt <= openSince
    BY DEF DoorsSafe, SeenOpen
  <2>2. DoorOK(d)
    BY DEF DoorsSafe
  <2>3. /\ now_doors \in Nat /\ polled_doors \in Int /\ now_doors - polled_doors <= PositionEvery
        /\ openSince \in Nat /\ HeldAfter \in Nat /\ PositionEvery \in Nat
    BY DoorsAssumption DEF DoorsAssumption, DoorsSafe, DoorTypes
  <2>4. polled_doors - d.openedAt >= HeldAfter
    BY <2>1, <2>2, <2>3 DEF DoorOK
  <2> QED
    BY <2>1, <2>2, <2>4 DEF DoorOK
<1> QED
  BY <1>1, <1>2, <1>3, PTL DEF Spec

-----------------------------------------------------------------------------
(* The events socket (ProtectEvents).                                      *)

\* The events whose end means that what they reported is over.
Lasting == {i \in Ids : event[i].type \in Events!DurationTypes \ Events!EndTypes}

\* Only such events are in the table, and what is alarmed was told.
EventsSafe == open_events \in Seq(Lasting) /\ alarmed \subseteq Events!Critical \cap told_events

\* What ends with an event, or is an end itself, is not critical.
LEMMA EndIsNotCritical ==
  ASSUME NEW t \in Events!DurationTypes \cup Events!EndTypes, NEW a
  PROVE  Events!Condition(t, a) \notin Events!Critical
<1>1. t # "sensorAlarm"
  BY DEF Events!DurationTypes, Events!EndTypes, Events!Motion, Events!Detection
<1>2. Events!Condition(t, a) = CHOOSE g \in Events!Groups : t \in g
  BY <1>1 DEF Events!Condition
<1>3. t \in Events!Motion \/ t \in Events!Detection \/ t \in Events!Single \/ t \in Events!Contact
        \/ t \in Events!Entry
  BY DEF Events!DurationTypes, Events!EndTypes, Events!Single, Events!Contact, Events!Entry
<1>4. \E g \in Events!Groups : t \in g
  BY <1>3 DEF Events!Groups
<1>5. t \in Events!Condition(t, a)
  BY <1>2, <1>4
<1>6. t \notin Events!Tamper /\ t \notin {"alarmHubSmoke"} /\ t \notin {"carbon-monoxide"}
        /\ t \notin {"alarmHubGlassBreak"}
  BY DEF Events!DurationTypes, Events!EndTypes, Events!Motion, Events!Detection, Events!Tamper
<1> QED
  BY <1>5, <1>6 DEF Events!Critical

\* A report is safe if it clears nothing critical.
LEMMA ReportSafe ==
  ASSUME NEW m, NEW c, Events!Report(m, c), c => m.condition \notin Events!Critical,
         alarmed \subseteq Events!Critical \cap told_events
  PROVE  alarmed' \subseteq Events!Critical \cap told_events'
<1>1. CASE c
  BY <1>1 DEF Events!Report
<1>2. CASE ~c
  BY <1>2 DEF Events!Report
<1> QED
  BY <1>1, <1>2

LEMMA MeaningOf ==
  ASSUME NEW i
  PROVE  /\ Events!Meaning(i).condition = Events!Condition(event[i].type, event[i].alarm)
         /\ Events!Meaning(i).clears <=> event[i].type \in Events!EndTypes
         /\ Events!Meaning(i).endClears <=> event[i].type \in Events!DurationTypes
BY DEF Events!Meaning, Events!Classify

LEMMA TypedSafe ==
  ASSUME EventsSafe, NEW i \in Ids, NEW ended \in BOOLEAN, Events!Typed(i, ended), event' = event
  PROVE  EventsSafe'
<1> DEFINE m == Events!Meaning(i)
           duration == m.endClears /\ ~m.clears
<1>1. Lasting' = Lasting
  BY DEF Lasting
<1>2. CASE event[i].type = Events!Unknown
  BY <1>1, <1>2 DEF EventsSafe, Events!Typed
<1>3. CASE event[i].type # Events!Unknown
  <2>1. /\ Events!Report(m, m.clears \/ (duration /\ ended))
        /\ IF duration /\ ~ended THEN Events!PutOpen(i) ELSE UNCHANGED open_events
    BY <1>3 DEF Events!Typed
  <2>2. m.clears \/ duration => m.condition \notin Events!Critical
    BY MeaningOf, EndIsNotCritical
  <2>3. duration => i \in Lasting
    BY MeaningOf DEF Lasting
  <2> HIDE DEF m
  <2>4. alarmed' \subseteq Events!Critical \cap told_events'
    BY <2>1, <2>2, ReportSafe DEF EventsSafe
  <2>5. ASSUME Events!PutOpen(i), i \in Lasting
        PROVE  open_events' \in Seq(Lasting)
    <3> DEFINE longer == IF Events!InTable(i) THEN open_events ELSE Append(open_events, i)
    <3>1. longer \in Seq(Lasting)
      BY <2>5, AppendProperties DEF EventsSafe
    <3>2. open_events' = IF Len(longer) > MaxOpen THEN Tail(longer) ELSE longer
      BY <2>5 DEF Events!PutOpen
    <3> HIDE DEF longer
    <3>3. Len(longer) > MaxOpen => longer # << >>
      BY <3>1, EventsAssumption, EmptySeq DEF EventsAssumption
    <3> QED
      BY <3>1, <3>2, <3>3, HeadTailProperties
  <2>6. open_events' \in Seq(Lasting)
    BY <2>1, <2>3, <2>5 DEF EventsSafe
  <2> QED
    BY <1>1, <2>4, <2>6 DEF EventsSafe
<1> QED
  BY <1>2, <1>3

LEMMA UntypedSafe ==
  ASSUME EventsSafe, NEW i \in Ids, Events!Untyped(i), event' = event
  PROVE  EventsSafe'
<1>1. Lasting' = Lasting
  BY DEF Lasting
<1>2. CASE ~Events!InTable(i)
  BY <1>1, <1>2 DEF EventsSafe, Events!Untyped
<1>3. CASE Events!InTable(i)
  <2>1. Events!Report(Events!Meaning(i), TRUE) /\ open_events' = Events!Without(i)
    BY <1>3 DEF Events!Untyped
  <2>2. PICK k \in 1 .. Len(open_events) : open_events[k] = i
    BY <1>3 DEF Events!InTable
  <2>3. i \in Lasting
    BY <2>2, ElementOfSeq DEF EventsSafe
  <2>4. Events!Meaning(i).condition \notin Events!Critical
    BY <2>3, MeaningOf, EndIsNotCritical DEF Lasting
  <2>5. alarmed' \subseteq Events!Critical \cap told_events'
    BY <2>1, <2>4, ReportSafe DEF EventsSafe
  <2> DEFINE at0 == CHOOSE j \in 1 .. Len(open_events) : open_events[j] = i
  <2>6. at0 \in 1 .. Len(open_events)
    BY <2>2
  <2>7. open_events' = SubSeq(open_events, 1, at0 - 1) \o SubSeq(open_events, at0 + 1, Len(open_events))
    BY <2>1 DEF Events!Without, Events!RemoveAt
  <2> HIDE DEF at0
  <2>8. SubSeq(open_events, 1, at0 - 1) \in Seq(Lasting)
    BY <2>6, SubSeqProperties DEF EventsSafe
  <2>9. SubSeq(open_events, at0 + 1, Len(open_events)) \in Seq(Lasting)
    BY <2>6, SubSeqProperties DEF EventsSafe
  <2>10. open_events' \in Seq(Lasting)
    BY <2>7, <2>8, <2>9, ConcatProperties
  <2> QED
    BY <1>1, <2>5, <2>10 DEF EventsSafe
<1> QED
  BY <1>2, <1>3

LEMMA EventsInit == Events!Init => EventsSafe
BY DEF Events!Init, EventsSafe

LEMMA EventsNext == EventsSafe /\ [Events!Next]_(Events!vars) => EventsSafe'
<1> SUFFICES ASSUME EventsSafe, [Events!Next]_(Events!vars)
             PROVE  EventsSafe'
  OBVIOUS
<1>1. ASSUME UNCHANGED <<event, open_events, told_events, alarmed>>
      PROVE  EventsSafe'
  BY <1>1 DEF EventsSafe, Lasting
<1>2. ASSUME NEW i \in Ids, Events!Start(i) \/ Events!End(i) \/ Events!Again(i)
      PROVE  EventsSafe'
  <2>1. event' = event /\ (Events!Typed(i, FALSE) \/ Events!Typed(i, TRUE) \/ Events!Untyped(i))
    BY <1>2 DEF Events!Start, Events!End, Events!Again
  <2> QED
    BY <2>1, TypedSafe, UntypedSafe
<1>3. ASSUME NEW i \in Ids, Events!Lose(i)
      PROVE  EventsSafe'
  BY <1>1, <1>3 DEF Events!Lose
<1>4. CASE UNCHANGED Events!vars
  BY <1>1, <1>4 DEF Events!vars
<1> QED
  BY <1>2, <1>3, <1>4 DEF Events!Next

\* An alarm is not cleared by the end of an event, of whatever events in whatever
\* order, and however small the table is.
THEOREM AlarmOutlastsItsEventSafe == Spec => []AlarmOutlastsItsEvent
<1> DEFINE Safe == subject = "events" => EventsSafe
<1>1. Init => Safe
  BY EventsInit DEF Init
<1>2. Safe /\ [Next]_vars => Safe'
  BY StepsOfSubject, EventsNext
<1>3. Safe => AlarmOutlastsItsEvent
  BY DEF AlarmOutlastsItsEvent, Events!AlarmOutlastsItsEvent, EventsSafe
<1> QED
  BY <1>1, <1>2, <1>3, PTL DEF Spec

-----------------------------------------------------------------------------
(* The devices of the network (NetworkDevices).                            *)

\* What is remembered of a device: a record, and an instant or never.
DeviceRecord(m) ==
  /\ m = [state |-> m.state, offlineSince |-> m.offlineSince, raised |-> m.raised]
  /\ m.offlineSince = Network!Never \/ (m.offlineSince \in Nat /\ m.offlineSince <= now_network)

\* A device that every reading found down is remembered as down, since no later.
KnownDown(d) ==
  downSince[d] # Network!Never =>
    /\ d \in DOMAIN by /\ by[d].state = "offline" /\ by[d].offlineSince # Network!Never
    /\ by[d].offlineSince <= downSince[d] /\ downSince[d] \in Nat /\ downSince[d] <= now_network

\* Between two polls, what was down for long enough at the last one was raised
\* by it, and what is raised was sent.
Settled(d) ==
  d \in DOMAIN by =>
    /\ by[d].state = "offline" /\ Network!LongDown(by[d], due - PollEvery_network) => by[d].raised
    /\ by[d].raised => d \in offline_network

NetworkSafe ==
  /\ now_network \in Nat /\ due \in Nat
  /\ IF poll = Network!Idle THEN now_network <= due /\ \A d \in Network!Devices : Settled(d)
                            ELSE now_network = due - PollEvery_network
  /\ downSince \in [Network!Devices -> Int]
  /\ \A d \in DOMAIN by : DeviceRecord(by[d])
  /\ \A d \in Network!Devices : KnownDown(d)

\* What one reading does to what is remembered.
LEMMA ApplyPart ==
  ASSUME NEW st, DeviceRecord(st), NEW r, now_network \in Nat, NEW m,
         m = Network!Apply(st, r, now_network)
  PROVE  /\ DeviceRecord(m)
         /\ r = "offline" =>
              /\ m.state = "offline" /\ m.offlineSince # Network!Never
              /\ m.offlineSince <= now_network
              /\ st.offlineSince # Network!Never => m.offlineSince = st.offlineSince
<1>1. CASE r = "online"
  BY <1>1 DEF Network!Apply, DeviceRecord
<1>2. CASE r = "offline"
  <2> DEFINE since1 == IF st.offlineSince = Network!Never THEN now_network ELSE st.offlineSince
             down == [st EXCEPT !.state = r, !.offlineSince = since1]
             rais == down.raised \/ Network!LongDown(down, now_network)
  <2>1. down = [state |-> "offline", offlineSince |-> since1, raised |-> st.raised]
    <3> HIDE DEF since1
    <3>1. st = [state |-> st.state, offlineSince |-> st.offlineSince, raised |-> st.raised]
      BY DEF DeviceRecord
    <3>2. DOMAIN st = {"state", "offlineSince", "raised"}
      BY <3>1
    <3>3. PICK x : x = [st EXCEPT !.state = r]
      OBVIOUS
    <3>4. x = [state |-> "offline", offlineSince |-> st.offlineSince, raised |-> st.raised]
      BY <1>2, <3>2, <3>3
    <3>5. down = [x EXCEPT !.offlineSince = since1]
      BY <3>3
    <3> HIDE DEF down
    <3> QED
      BY <3>4, <3>5
  <2>2. m = [down EXCEPT !.raised = rais]
    BY <1>2 DEF Network!Apply
  <2> HIDE DEF down, rais
  <2>3. m = [state |-> "offline", offlineSince |-> since1, raised |-> rais]
    BY <2>1, <2>2
  <2>4. since1 \in Nat /\ since1 <= now_network /\ since1 # Network!Never
    BY DEF DeviceRecord, Network!Never
  <2> QED
    BY <1>2, <2>3, <2>4 DEF DeviceRecord
<1>3. CASE r # "online" /\ r # "offline"
  <2>1. m = [st EXCEPT !.state = r]
    BY <1>3 DEF Network!Apply
  <2>2. m = [state |-> r, offlineSince |-> st.offlineSince, raised |-> st.raised]
    BY <2>1 DEF DeviceRecord
  <2> QED
    BY <1>3, <2>2 DEF DeviceRecord
<1> QED
  BY <1>1, <1>2, <1>3

\* What the clock alone does: only what is down for long becomes raised.
LEMMA TickPart ==
  ASSUME NEW mem, NEW d \in DOMAIN mem, DeviceRecord(mem[d]), NEW m,
         m = Network!Tick(mem, now_network)[d]
  PROVE  /\ DeviceRecord(m) /\ m.state = mem[d].state /\ m.offlineSince = mem[d].offlineSince
         /\ m.state = "offline" /\ Network!LongDown(m, now_network) => m.raised
<1> DEFINE rais == mem[d].raised
                     \/ (mem[d].state = "offline" /\ Network!LongDown(mem[d], now_network))
<1>1. m = [mem[d] EXCEPT !.raised = rais]
  BY DEF Network!Tick
<1> HIDE DEF rais
<1>2. m = [state |-> mem[d].state, offlineSince |-> mem[d].offlineSince, raised |-> rais]
  BY <1>1 DEF DeviceRecord
<1>3. Network!LongDown(m, now_network) <=> Network!LongDown(mem[d], now_network)
  BY <1>2 DEF Network!LongDown
<1>4. m.state = "offline" /\ Network!LongDown(m, now_network) => m.raised
  <2>1. SUFFICES ASSUME m.state = "offline", Network!LongDown(m, now_network)
                 PROVE  m.raised
    OBVIOUS
  <2>2. mem[d].state = "offline" /\ Network!LongDown(mem[d], now_network)
    BY <1>2, <1>3, <2>1
  <2>3. rais = TRUE
    BY <2>2 DEF rais
  <2>4. m.raised = TRUE
    BY <1>2, <2>3
  <2> QED
    BY <2>4
<1> QED
  BY <1>2, <1>4 DEF DeviceRecord

LEMMA NetworkInit == Network!Init => NetworkSafe
<1> SUFFICES ASSUME Network!Init
             PROVE  NetworkSafe
  OBVIOUS
<1>1. by = << >>
  BY Zenon DEF Network!Init
<1>2. DOMAIN by = {}
  BY <1>1
<1>3. /\ now_network = 0 /\ due = 0 /\ poll = Network!Idle
      /\ downSince = [d \in Network!Devices |-> Network!Never]
  BY DEF Network!Init
<1>4. downSince \in [Network!Devices -> Int]
  BY <1>3 DEF Network!Never
<1>5. \A d \in Network!Devices : KnownDown(d) /\ Settled(d)
  BY <1>2, <1>3 DEF KnownDown, Settled
<1> QED
  BY <1>2, <1>3, <1>4, <1>5 DEF NetworkSafe

\* Steps that change nothing the invariant speaks of.
LEMMA NetworkUntouched ==
  ASSUME NetworkSafe, UNCHANGED <<now_network, due, poll, by, offline_network, downSince>>
  PROVE  NetworkSafe'
BY DEF NetworkSafe, KnownDown, Settled, DeviceRecord, Network!LongDown

LEMMA NetworkElapse == ASSUME NetworkSafe, Network!Elapse PROVE NetworkSafe'
<1>1. /\ poll = Network!Idle /\ now_network < due /\ now_network' = now_network + 1
      /\ UNCHANGED <<due, poll, by, offline_network, downSince>>
  BY DEF Network!Elapse
<1>2. /\ now_network \in Nat /\ due \in Nat /\ downSince \in [Network!Devices -> Int]
      /\ \A d \in Network!Devices : Settled(d)
  BY <1>1 DEF NetworkSafe
<1>3. now_network' <= due'
  BY <1>1, <1>2
<1>4. \A d \in Network!Devices : Settled(d)'
  BY <1>1, <1>2 DEF Settled, Network!LongDown
<1>5. \A d \in DOMAIN by : DeviceRecord(by[d])'
  BY <1>1, <1>2 DEF NetworkSafe, DeviceRecord
<1>6. \A d \in Network!Devices : KnownDown(d)'
  BY <1>1, <1>2 DEF NetworkSafe, KnownDown
<1>7. now_network' \in Nat
  BY <1>1, <1>2
<1> QED
  BY <1>1, <1>2, <1>3, <1>4, <1>5, <1>6, <1>7 DEF NetworkSafe

LEMMA NetworkBegin == ASSUME NetworkSafe, Network!Begin PROVE NetworkSafe'
<1>1. /\ now_network = due /\ due' = now_network + PollEvery_network
      /\ poll' = [step |-> "sites"]
      /\ UNCHANGED <<now_network, by, offline_network, downSince>>
  BY DEF Network!Begin, Network!console
<1>2. due' \in Nat /\ now_network' = due' - PollEvery_network
  BY <1>1, NetworkAssumption DEF NetworkAssumption, NetworkSafe
<1>3. poll' # Network!Idle
  BY <1>1 DEF Network!Idle
<1> QED
  BY <1>1, <1>2, <1>3 DEF NetworkSafe, KnownDown, DeviceRecord

\* Steps of a poll under way that only read.
LEMMA NetworkReads ==
  ASSUME NetworkSafe, poll # Network!Idle, poll' # Network!Idle,
         UNCHANGED <<now_network, due, by, downSince>>
  PROVE  NetworkSafe'
BY DEF NetworkSafe, KnownDown, DeviceRecord

\* A poll that ends has run the clock over what it leaves.
LEMMA NetworkEnds ==
  ASSUME NetworkSafe, poll # Network!Idle, poll' = Network!Idle,
         UNCHANGED <<now_network, due>>,
         NEW mem, DOMAIN mem \subseteq DOMAIN by, \A d \in DOMAIN mem : mem[d] = by[d],
         by' = Network!Tick(mem, now_network), Network!RaisedIn(by') \subseteq offline_network',
         downSince' \in [Network!Devices -> Int],
         \A d \in Network!Devices : downSince'[d] \in {downSince[d], Network!Never},
         \A d \in Network!Devices : downSince'[d] # Network!Never => d \notin DOMAIN by \ DOMAIN mem
  PROVE  NetworkSafe'
<1>1. now_network \in Nat /\ due \in Nat /\ now_network = due - PollEvery_network
  BY DEF NetworkSafe
<1>2. DOMAIN by' = DOMAIN mem
  BY DEF Network!Tick
<1>3. ASSUME NEW d \in DOMAIN by'
      PROVE  /\ DeviceRecord(by'[d]) /\ by'[d].state = by[d].state
             /\ by'[d].offlineSince = by[d].offlineSince
             /\ by'[d].state = "offline" /\ Network!LongDown(by'[d], now_network) => by'[d].raised
  <2>1. d \in DOMAIN mem /\ mem[d] = by[d] /\ DeviceRecord(mem[d])
    BY <1>2 DEF NetworkSafe
  <2> QED
    BY <2>1, TickPart
<1>4. \A d \in DOMAIN by' : DeviceRecord(by[d])'
  BY <1>3 DEF DeviceRecord
<1>5. ASSUME NEW d \in Network!Devices
      PROVE  Settled(d)'
  <2>1. d \in DOMAIN by' /\ by'[d].raised => d \in offline_network'
    BY DEF Network!RaisedIn
  <2>2. (Network!LongDown(by[d], due - PollEvery_network))' =
          Network!LongDown(by'[d], now_network)
    BY <1>1 DEF Network!LongDown
  <2> QED
    BY <1>3, <2>1, <2>2 DEF Settled
<1>6. ASSUME NEW d \in Network!Devices
      PROVE  KnownDown(d)'
  <2>1. SUFFICES ASSUME downSince'[d] # Network!Never
                 PROVE  KnownDown(d)'
    BY DEF KnownDown
  <2>2. downSince'[d] = downSince[d] /\ downSince[d] # Network!Never /\ KnownDown(d)
    BY <2>1 DEF NetworkSafe
  <2>3. d \in DOMAIN by'
    BY <1>2, <2>1, <2>2 DEF KnownDown
  <2> QED
    BY <1>3, <2>2, <2>3 DEF KnownDown
<1>7. now_network' <= due'
  BY <1>1, NetworkAssumption DEF NetworkAssumption
<1> QED
  BY <1>1, <1>4, <1>5, <1>6, <1>7 DEF NetworkSafe

LEMMA NetworkSitesFail == ASSUME NetworkSafe, Network!SitesFail PROVE NetworkSafe'
<1>1. /\ poll.step = "sites" /\ by' = Network!Tick(by, now_network) /\ poll' = Network!Idle
      /\ offline_network' = offline_network \cup Network!RaisedIn(by')
      /\ UNCHANGED <<now_network, due, downSince>>
  BY DEF Network!SitesFail, Network!console
<1>2. poll # Network!Idle
  BY <1>1 DEF Network!Idle
<1>3. downSince \in [Network!Devices -> Int]
  BY DEF NetworkSafe
<1>4. PICK mem : mem = by
  OBVIOUS
<1> QED
  BY <1>1, <1>2, <1>3, <1>4, NetworkEnds

LEMMA NetworkEndPoll == ASSUME NetworkSafe, Network!EndPoll PROVE NetworkSafe'
<1>1. /\ poll.step = "site" /\ poll' = Network!Idle
      /\ by' = Network!Tick(Network!ForgetUnlisted, now_network)
      /\ offline_network' = Network!RaisedIn(by')
      /\ downSince' = [d \in Network!Devices |->
                         IF ~poll.failed /\ d \notin poll.present THEN Network!Never
                         ELSE downSince[d]]
      /\ UNCHANGED <<now_network, due>>
  BY DEF Network!EndPoll, Network!console
<1>2. poll # Network!Idle
  BY <1>1 DEF Network!Idle
<1>3. downSince \in [Network!Devices -> Int]
  BY DEF NetworkSafe
<1>4. PICK mem : mem = Network!ForgetUnlisted
  OBVIOUS
<1>5. /\ DOMAIN mem \subseteq DOMAIN by /\ \A d \in DOMAIN mem : mem[d] = by[d]
      /\ \A d \in DOMAIN by \ DOMAIN mem : ~poll.failed /\ d \notin poll.present
  <2>1. CASE poll.failed
    BY <1>4, <2>1 DEF Network!ForgetUnlisted
  <2>2. CASE ~poll.failed
    BY <1>4, <2>2 DEF Network!ForgetUnlisted, Network!Forget
  <2> QED
    BY <2>1, <2>2
<1>6. downSince' \in [Network!Devices -> Int]
  BY <1>1, <1>3 DEF Network!Never
<1>7. /\ \A d \in Network!Devices : downSince'[d] \in {downSince[d], Network!Never}
      /\ \A d \in Network!Devices :
           downSince'[d] # Network!Never => d \notin DOMAIN by \ DOMAIN mem
  BY <1>1, <1>5
<1> QED
  BY <1>1, <1>2, <1>4, <1>5, <1>6, <1>7, NetworkEnds

\* Once a site is read, each of its devices is remembered as it was read.
LEMMA NetworkSiteDone ==
  ASSUME NetworkSafe, NEW read, Network!SiteDone(read), poll # Network!Idle,
         UNCHANGED <<now_network, due>>
  PROVE  NetworkSafe'
<1>1. /\ by' = Network!Observe(read, now_network)
      /\ downSince' = [d \in Network!Devices |->
           IF d \notin DOMAIN read THEN downSince[d]
           ELSE IF read[d] = "offline"
                  THEN IF downSince[d] = Network!Never THEN now_network ELSE downSince[d]
                  ELSE Network!Never]
  BY DEF Network!SiteDone
<1>2. poll' # Network!Idle
  <2>1. PICK present, failing : poll' = Network!OnSite(poll.left, present, failing)
    BY DEF Network!SiteDone
  <2>2. poll'.step = "site"
    BY <2>1 DEF Network!OnSite
  <2> QED
    BY <2>2 DEF Network!Idle
<1>3. now_network \in Nat /\ downSince \in [Network!Devices -> Int]
  BY DEF NetworkSafe
<1>4. ASSUME NEW d \in DOMAIN by'
      PROVE  /\ DeviceRecord(by'[d])
             /\ d \notin DOMAIN read => d \in DOMAIN by /\ by'[d] = by[d]
             /\ d \in DOMAIN read /\ read[d] = "offline" =>
                  /\ by'[d].state = "offline" /\ by'[d].offlineSince # Network!Never
                  /\ by'[d].offlineSince <= now_network
                  /\ d \in DOMAIN by /\ by[d].offlineSince # Network!Never =>
                       by'[d].offlineSince = by[d].offlineSince
  <2>1. CASE d \notin DOMAIN read
    BY <1>1, <2>1 DEF Network!Observe, NetworkSafe
  <2>2. CASE d \in DOMAIN read
    <3>1. PICK st : st = Network!Remembered(d)
      OBVIOUS
    <3>2. DeviceRecord(st) /\ (d \in DOMAIN by => st = by[d])
      BY <1>3, <3>1 DEF Network!Remembered, Network!Fresh, NetworkSafe, DeviceRecord
    <3>3. PICK m : m = Network!Apply(st, read[d], now_network)
      OBVIOUS
    <3>4. by'[d] = m
      BY <1>1, <2>2, <3>1, <3>3 DEF Network!Observe
    <3> QED
      BY <1>3, <2>2, <3>2, <3>3, <3>4, ApplyPart
  <2> QED
    BY <2>1, <2>2
<1>5. \A d \in DOMAIN by' : DeviceRecord(by[d])'
  BY <1>4 DEF DeviceRecord
<1>6. DOMAIN by' = DOMAIN by \cup DOMAIN read
  BY <1>1 DEF Network!Observe
<1>7. ASSUME NEW d \in Network!Devices
      PROVE  KnownDown(d)'
  <2>1. KnownDown(d)
    BY DEF NetworkSafe
  <2>2. CASE d \notin DOMAIN read
    <3>1. downSince'[d] = downSince[d]
      BY <1>1, <2>2
    <3> QED
      BY <1>4, <1>6, <2>1, <2>2, <3>1 DEF KnownDown
  <2>3. CASE d \in DOMAIN read /\ read[d] = "offline"
    <3>1. downSince'[d] = IF downSince[d] = Network!Never THEN now_network ELSE downSince[d]
      BY <1>1, <2>3
    <3>2. d \in DOMAIN by'
      BY <1>6, <2>3
    <3> QED
      BY <1>3, <1>4, <2>1, <2>3, <3>1, <3>2 DEF KnownDown
  <2>4. CASE d \in DOMAIN read /\ read[d] # "offline"
    BY <1>1, <2>4 DEF KnownDown
  <2> QED
    BY <2>2, <2>3, <2>4
<1>8. downSince' \in [Network!Devices -> Int]
  BY <1>1, <1>3 DEF Network!Never
<1> QED
  BY <1>2, <1>5, <1>7, <1>8 DEF NetworkSafe

LEMMA NetworkPage == ASSUME NetworkSafe, Network!Page PROVE NetworkSafe'
<1>1. poll.step = "site" /\ UNCHANGED <<now_network, due>>
  BY DEF Network!Page, Network!console
<1>2. poll # Network!Idle
  BY <1>1 DEF Network!Idle
<1>3. \/ \E read : Network!SiteDone(read)
      \/ /\ \E offset, read : poll' = [poll EXCEPT !.page = @ + 1, !.offset = offset, !.read = read]
         /\ UNCHANGED <<by, downSince>>
  BY DEF Network!Page
<1>4. CASE \E read : Network!SiteDone(read)
  BY <1>1, <1>2, <1>4, NetworkSiteDone
<1>5. CASE /\ \E offset, read : poll' = [poll EXCEPT !.page = @ + 1, !.offset = offset, !.read = read]
           /\ UNCHANGED <<by, downSince>>
  <2>1. poll'.step = "site"
    BY <1>1, <1>5
  <2>2. poll' # Network!Idle
    BY <2>1 DEF Network!Idle
  <2> QED
    BY <1>1, <1>2, <1>5, <2>2, NetworkReads
<1> QED
  BY <1>3, <1>4, <1>5

LEMMA NetworkNext == NetworkSafe /\ [Network!Next]_(Network!vars) => NetworkSafe'
<1> SUFFICES ASSUME NetworkSafe, [Network!Next]_(Network!vars)
             PROVE  NetworkSafe'
  OBVIOUS
<1>1. CASE Network!Elapse \/ Network!Begin
  BY <1>1, NetworkElapse, NetworkBegin
<1>2. CASE Network!Change
  BY <1>2, NetworkUntouched DEF Network!Change
<1>3. CASE Network!SitesFail \/ Network!EndPoll \/ Network!Page
  BY <1>3, NetworkSitesFail, NetworkEndPoll, NetworkPage
<1>4. CASE Network!SitesRead \/ Network!SiteFails
  <2>1. /\ poll.step \in {"sites", "site"} /\ UNCHANGED <<now_network, due, by, downSince>>
        /\ \E left1, present, failing : poll' = Network!OnSite(left1, present, failing)
    BY <1>4 DEF Network!SitesRead, Network!SiteFails, Network!console
  <2>2. poll'.step = "site"
    BY <2>1 DEF Network!OnSite
  <2>3. poll # Network!Idle /\ poll' # Network!Idle
    BY <2>1, <2>2 DEF Network!Idle
  <2> QED
    BY <2>1, <2>3, NetworkReads
<1>5. CASE UNCHANGED Network!vars
  BY <1>5, NetworkUntouched DEF Network!vars, Network!console
<1> QED
  BY <1>1, <1>2, <1>3, <1>4, <1>5 DEF Network!Next

\* A device that every poll that read it found down is reported once that has
\* lasted, also when its site, or the console, stops answering.
THEOREM DownIsReportedSafe == Spec => []DownIsReported
<1> DEFINE Safe == subject = "network" => NetworkSafe
<1>1. Init => Safe
  BY NetworkInit DEF Init
<1>2. Safe /\ [Next]_vars => Safe'
  BY StepsOfSubject, NetworkNext
<1>3. Safe => DownIsReported
  <2> SUFFICES ASSUME NetworkSafe, poll = Network!Idle, NEW d \in Network!Devices,
                      downSince[d] # Network!Never,
                      now_network - downSince[d] >= DownFor + PollEvery_network
               PROVE  d \in offline_network
    BY DEF DownIsReported, Network!DownIsReported
  <2>1. /\ KnownDown(d) /\ Settled(d) /\ now_network \in Nat /\ due \in Nat /\ now_network <= due
        /\ PollEvery_network \in Nat /\ DownFor \in Nat
    BY NetworkAssumption DEF NetworkSafe, NetworkAssumption
  <2>2. /\ d \in DOMAIN by /\ by[d].state = "offline" /\ by[d].offlineSince # Network!Never
        /\ by[d].offlineSince <= downSince[d] /\ downSince[d] \in Nat
    BY <2>1 DEF KnownDown
  <2>3. by[d].offlineSince \in Nat
    BY <2>2 DEF NetworkSafe, DeviceRecord
  <2>4. due - PollEvery_network - by[d].offlineSince >= DownFor
    BY <2>1, <2>2, <2>3
  <2>5. Network!LongDown(by[d], due - PollEvery_network)
    BY <2>2, <2>4 DEF Network!LongDown
  <2> QED
    BY <2>1, <2>2, <2>5 DEF Settled
<1> QED
  BY <1>1, <1>2, <1>3, PTL DEF Spec

-----------------------------------------------------------------------------
(* The access log (AccessLog).                                             *)

LogTypes ==
  /\ now_log \in Nat /\ written \subseteq Rows
  /\ at \in [Rows -> Nat] /\ shown \in [Rows -> Nat]
  /\ seen_log \in [Rows -> {Log!Never} \cup Nat] /\ emitted \in [Rows -> Nat]
  /\ watermark \in {Log!Never} \cup Nat /\ watermark <= now_log /\ from \in Int
  /\ from # Log!Never => watermark # Log!Never

\* A row is shown in time, one that is remembered was emitted, and so was what
\* happened between the first window and the last, as far as it is surely shown.
RowOK(r) ==
  /\ shown[r] <= at[r] + Lag /\ at[r] <= now_log
  /\ Log!Alarming(r) /\ seen_log[r] # Log!Never => emitted[r] > 0
  /\ r \in written /\ Log!Alarming(r) /\ from # Log!Never
       /\ at[r] > from /\ at[r] < watermark - Lag => emitted[r] > 0

LogSafe == LogTypes /\ \A r \in Rows : RowOK(r)

LEMMA LogInit == Log!Init => LogSafe
<1> SUFFICES ASSUME Log!Init
             PROVE  LogSafe
  OBVIOUS
<1>1. LogTypes
  BY DEF Log!Init, LogTypes, Log!Never
<1>2. \A r \in Rows : RowOK(r)
  BY LogAssumption DEF Log!Init, LogAssumption, RowOK
<1> QED
  BY <1>1, <1>2 DEF LogSafe

LEMMA LogElapse == ASSUME LogSafe, Log!Elapse PROVE LogSafe'
<1>1. /\ now_log' = now_log + 1
      /\ UNCHANGED <<written, kind, at, shown, watermark, seen_log, emitted, from>>
  BY DEF Log!Elapse, Log!log
<1>2. LogTypes'
  BY <1>1 DEF LogSafe, LogTypes
<1>3. ASSUME NEW r \in Rows
      PROVE  RowOK(r)'
  <2>1. RowOK(r) /\ at[r] \in Nat /\ now_log \in Nat
    BY DEF LogSafe, LogTypes
  <2> QED
    BY <1>1, <2>1 DEF RowOK, Log!Alarming
<1> QED
  BY <1>2, <1>3 DEF LogSafe

LEMMA LogWrite == ASSUME LogSafe, NEW q \in Rows, Log!Write(q) PROVE LogSafe'
<1>1. PICK d \in 0 .. Lag : shown' = [shown EXCEPT ![q] = now_log + d]
  BY DEF Log!Write
<1>2. /\ q \notin written /\ written' = written \cup {q} /\ at' = [at EXCEPT ![q] = now_log]
      /\ UNCHANGED <<now_log, kind, watermark, seen_log, emitted, from>>
  BY DEF Log!Write
<1>3. Lag \in Nat /\ now_log \in Nat /\ d \in Nat /\ d <= Lag
  BY LogAssumption DEF LogAssumption, LogSafe, LogTypes
<1>4. LogTypes'
  BY <1>1, <1>2, <1>3 DEF LogSafe, LogTypes
<1>5. ASSUME NEW r \in Rows
      PROVE  RowOK(r)'
  <2>1. RowOK(r) /\ at \in [Rows -> Nat] /\ shown \in [Rows -> Nat]
    BY DEF LogSafe, LogTypes
  <2>2. CASE r = q
    <3>1. at'[r] = now_log /\ shown'[r] = now_log + d
      BY <1>1, <1>2, <2>1, <2>2
    <3>2. watermark <= now_log /\ watermark \in Int
      BY DEF LogSafe, LogTypes, Log!Never
    <3>3. ~(at'[r] < watermark - Lag)
      BY <1>3, <3>1, <3>2
    <3> QED
      BY <1>2, <1>3, <2>1, <3>1, <3>3 DEF RowOK, Log!Alarming
  <2>3. CASE r # q
    <3>1. at'[r] = at[r] /\ shown'[r] = shown[r] /\ (r \in written' <=> r \in written)
      BY <1>1, <1>2, <2>1, <2>3
    <3> QED
      BY <1>2, <2>1, <3>1 DEF RowOK, Log!Alarming
  <2> QED
    BY <2>2, <2>3
<1> QED
  BY <1>4, <1>5 DEF LogSafe

LEMMA LogRestart == ASSUME LogSafe, Log!Restart PROVE LogSafe'
<1>1. /\ watermark' = Log!Never /\ from' = Log!Never /\ seen_log' = [r \in Rows |-> Log!Never]
      /\ UNCHANGED <<now_log, written, kind, at, shown, emitted>>
  BY DEF Log!Restart, Log!log
<1>2. LogTypes'
  BY <1>1 DEF LogSafe, LogTypes, Log!Never
<1>3. ASSUME NEW r \in Rows
      PROVE  RowOK(r)'
  <2>1. RowOK(r) /\ seen_log'[r] = Log!Never
    BY <1>1 DEF LogSafe
  <2> QED
    BY <1>1, <2>1 DEF RowOK, Log!Alarming
<1> QED
  BY <1>2, <1>3 DEF LogSafe

\* A window holds every row that is certainly inside of it, since all there are
\* fit the pages that are read.
LEMMA WindowHolds ==
  ASSUME LogSafe, NEW topic, NEW S \in Log!Window(topic), NEW r \in written,
         Log!TopicOf(kind[r]) = topic, shown[r] <= now_log,
         at[r] > Log!Since, at[r] < now_log, Log!Since \in Int
  PROVE  r \in S
<1> DEFINE inside(x) == x \in written /\ Log!TopicOf(kind[x]) = topic /\ shown[x] <= now_log
           sure == {x \in Rows : inside(x) /\ at[x] > Log!Since /\ at[x] < now_log}
           may == {x \in Rows : inside(x) /\ at[x] >= Log!Since /\ at[x] <= now_log}
<1>1. S \in {T \in SUBSET may : IF Log!Cardinality(may) > PageRows
                                  THEN Log!Cardinality(T) = PageRows ELSE sure \subseteq T}
  BY DEF Log!Window
<1>2. r \in Rows /\ r \in sure
  BY DEF LogSafe, LogTypes
<1>3. Log!Cardinality(may) = Cardinality(may)
  BY DEF Log!Cardinality, Cardinality
<1>4. Cardinality(may) \in Nat /\ Cardinality(may) <= PageRows /\ PageRows \in Nat
  <2>1. may \subseteq Rows /\ IsFiniteSet(Rows)
    BY LogAssumption DEF LogAssumption
  <2> HIDE DEF may
  <2>2. IsFiniteSet(may) /\ Cardinality(may) <= Cardinality(Rows)
    BY <2>1, FS_Subset
  <2>3. Cardinality(may) \in Nat /\ Cardinality(Rows) \in Nat
    BY <2>1, <2>2, FS_CardinalityType
  <2> QED
    BY <2>2, <2>3, LogAssumption DEF LogAssumption
<1> HIDE DEF may, sure
<1>5. ~(Log!Cardinality(may) > PageRows)
  BY <1>3, <1>4
<1> QED
  BY <1>1, <1>2, <1>5

LEMMA LogPoll == ASSUME LogSafe, NEW failing \in SUBSET Log!Topics, Log!Poll(failing) PROVE LogSafe'
<1>1. PICK pages \in [Log!Topics -> SUBSET Rows] :
        /\ \A t \in Log!Topics : IF t \in failing THEN pages[t] = {} ELSE pages[t] \in Log!Window(t)
        /\ Log!Record(UNION {pages[t] : t \in Log!Topics}, failing = {})
  BY DEF Log!Poll
<1> DEFINE rows == UNION {pages[t] : t \in Log!Topics}
<1>2. /\ watermark' = IF failing = {} THEN now_log ELSE watermark
      /\ from' = IF from = Log!Never /\ failing = {} THEN Log!Since ELSE from
      /\ UNCHANGED <<now_log, written, kind, at, shown>>
  BY DEF Log!Poll, Log!Advance, Log!log
<1>3. /\ seen_log' = Log!Evict([r \in Rows |-> IF r \in rows /\ seen_log[r] = Log!Never
                                                 THEN now_log ELSE seen_log[r]])
      /\ emitted' = [r \in Rows |-> IF r \in rows /\ seen_log[r] = Log!Never /\ Log!Alarming(r)
                                      THEN emitted[r] + 1 ELSE emitted[r]]
  BY <1>1 DEF Log!Record
<1>4. LogTypes /\ now_log \in Nat /\ Lag \in Nat /\ Overlap \in Nat /\ Lag < Overlap
  BY LogAssumption DEF LogAssumption, LogSafe, LogTypes
<1>5. /\ Log!Since = IF watermark = Log!Never THEN now_log - Overlap ELSE watermark - Overlap
      /\ Log!Since \in Int
  BY <1>4 DEF Log!Since, LogTypes, Log!Never
<1>6. ASSUME NEW r \in Rows
      PROVE  /\ emitted'[r] \in Nat /\ emitted'[r] >= emitted[r]
             /\ r \in rows /\ seen_log[r] = Log!Never /\ Log!Alarming(r) => emitted'[r] > 0
             /\ seen_log'[r] \in {Log!Never} \cup Nat
             /\ seen_log'[r] # Log!Never => r \in rows \/ seen_log[r] # Log!Never
  <2>1. emitted[r] \in Nat /\ seen_log[r] \in {Log!Never} \cup Nat
    BY <1>4 DEF LogTypes
  <2>2. emitted'[r] = IF r \in rows /\ seen_log[r] = Log!Never /\ Log!Alarming(r)
                        THEN emitted[r] + 1 ELSE emitted[r]
    BY <1>3
  <2> DEFINE marked == IF r \in rows /\ seen_log[r] = Log!Never THEN now_log ELSE seen_log[r]
  <2>3. seen_log'[r] = IF marked < now_log - 2 * Overlap THEN Log!Never ELSE marked
    BY <1>3 DEF Log!Evict
  <2> HIDE DEF rows
  <2> QED
    BY <1>4, <2>1, <2>2, <2>3
<1>7. LogTypes'
  <2>1. emitted' \in [Rows -> Nat]
    <3>1. DOMAIN emitted' = Rows /\ emitted' = [r \in Rows |-> emitted'[r]]
      BY <1>3
    <3> QED
      BY <1>6, <3>1
  <2>2. seen_log' \in [Rows -> {Log!Never} \cup Nat]
    <3>1. seen_log' = [r \in Rows |-> seen_log'[r]]
      BY <1>3 DEF Log!Evict
    <3> QED
      BY <1>6, <3>1
  <2>3. watermark' \in {Log!Never} \cup Nat /\ watermark' <= now_log' /\ from' \in Int
    BY <1>2, <1>4, <1>5 DEF LogTypes
  <2>4. from' # Log!Never => watermark' # Log!Never
    BY <1>2, <1>4 DEF LogTypes, Log!Never
  <2> QED
    BY <1>2, <1>4, <2>1, <2>2, <2>3, <2>4 DEF LogTypes
<1>8. ASSUME NEW r \in Rows
      PROVE  RowOK(r)'
  <2>1. RowOK(r) /\ at[r] \in Nat /\ shown[r] \in Nat /\ emitted[r] \in Nat
    BY DEF LogSafe, LogTypes
  <2>2. Log!Alarming(r)' <=> Log!Alarming(r)
    BY <1>2 DEF Log!Alarming
  <2>3. Log!Alarming(r) /\ seen_log'[r] # Log!Never => emitted'[r] > 0
    BY <1>6, <2>1 DEF RowOK
  <2>4. ASSUME r \in written, Log!Alarming(r), from' # Log!Never, at[r] > from',
               at[r] < watermark' - Lag
        PROVE  emitted'[r] > 0
    <3>1. CASE failing # {}
      <4>1. watermark' = watermark /\ from' = from
        BY <1>2, <3>1
      <4>2. emitted[r] > 0
        BY <2>1, <2>4, <4>1 DEF RowOK
      <4> QED
        BY <1>6, <2>1, <4>2
    <3>2. CASE failing = {}
      <4>1. watermark' = now_log /\ at[r] < now_log - Lag
        BY <1>2, <2>4, <3>2
      <4>2. shown[r] <= now_log /\ at[r] < now_log
        BY <1>4, <2>1, <4>1 DEF RowOK
      <4>3. CASE at[r] > Log!Since
        <5>1. Log!TopicOf(kind[r]) \in Log!Topics
          BY DEF Log!TopicOf, Log!Topics
        <5>2. pages[Log!TopicOf(kind[r])] \in Log!Window(Log!TopicOf(kind[r]))
          BY <1>1, <3>2, <5>1
        <5>3. r \in pages[Log!TopicOf(kind[r])]
          BY <1>5, <2>4, <4>2, <4>3, <5>2, WindowHolds
        <5>4. r \in rows
          BY <5>1, <5>3
        <5>5. seen_log[r] # Log!Never => emitted[r] > 0
          BY <2>1, <2>4 DEF RowOK
        <5> QED
          BY <1>6, <2>1, <2>4, <5>4, <5>5
      <4>4. CASE ~(at[r] > Log!Since)
        <5>1. from # Log!Never /\ from' = from
          BY <1>2, <1>5, <2>4, <3>2, <4>4
        <5>2. watermark # Log!Never /\ watermark \in Nat /\ Log!Since = watermark - Overlap
          BY <1>4, <1>5, <5>1 DEF LogTypes
        <5>3. at[r] < watermark - Lag
          BY <1>4, <2>1, <4>4, <5>2
        <5>4. emitted[r] > 0
          BY <2>1, <2>4, <5>1, <5>3 DEF RowOK
        <5> QED
          BY <1>6, <2>1, <5>4
      <4> QED
        BY <4>3, <4>4
    <3> QED
      BY <3>1, <3>2
  <2> QED
    BY <1>2, <2>1, <2>2, <2>3, <2>4 DEF RowOK
<1> QED
  BY <1>7, <1>8 DEF LogSafe

LEMMA LogNext == LogSafe /\ [Log!Next]_(Log!vars) => LogSafe'
<1> SUFFICES ASSUME LogSafe, [Log!Next]_(Log!vars)
             PROVE  LogSafe'
  OBVIOUS
<1>1. CASE Log!Elapse \/ Log!Restart
  BY <1>1, LogElapse, LogRestart
<1>2. ASSUME NEW r \in Rows, Log!Write(r)
      PROVE  LogSafe'
  BY <1>2, LogWrite
<1>3. ASSUME NEW failing \in SUBSET Log!Topics, Log!Poll(failing)
      PROVE  LogSafe'
  BY <1>3, LogPoll
<1>4. CASE UNCHANGED Log!vars
  BY <1>4 DEF Log!vars, Log!log, LogSafe, LogTypes, RowOK, Log!Alarming
<1> QED
  BY <1>1, <1>2, <1>3, <1>4 DEF Log!Next

\* No row is skipped, though there is no cursor: topics may fail and rows come
\* late, as long as windows overlap by more than a row may be late and what a
\* window holds fits the pages that are read of it.
THEOREM NothingDroppedSafe == Spec => []NothingDropped
<1> DEFINE Safe == subject = "log" => LogSafe
<1>1. Init => Safe
  BY LogInit DEF Init
<1>2. Safe /\ [Next]_vars => Safe'
  BY StepsOfSubject, LogNext
<1>3. Safe => NothingDropped
  <2> SUFFICES ASSUME LogSafe, from # Log!Never, NEW r \in written, Log!Alarming(r),
                      at[r] > from, at[r] < watermark - Lag
               PROVE  emitted[r] > 0
    BY DEF NothingDropped, Log!NothingDropped
  <2>1. r \in Rows
    BY DEF LogSafe, LogTypes
  <2> QED
    BY <2>1 DEF LogSafe, RowOK
<1> QED
  BY <1>1, <1>2, <1>3, PTL DEF Spec

-----------------------------------------------------------------------------
(* The supervisor of the sources (IngestSupervisor).                       *)

\* The runners are numbered as they are made, and what is watched, cancelled or
\* pending is one of them.
IngestTypes ==
  /\ \E n \in Nat : Ingest!Made = 1 .. n
  /\ \A r \in Ingest!Made : src[r] \in Sources
  /\ running_ingest \cup silent \cup deadman.left \cup replace.removed \subseteq Ingest!Made
  /\ deadman.at = "report" => deadman.r \in Ingest!Made /\ (deadman.silent <=> deadman.r \in silent)
  /\ replace.at = "resolve" => replace.r \in Ingest!Made
  /\ deadman = [at |-> deadman.at, now |-> deadman.now, left |-> deadman.left,
                r |-> deadman.r, silent |-> deadman.silent]
  /\ replace = [at |-> replace.at, removed |-> replace.removed, started |-> replace.started,
                r |-> replace.r]

\* The runners the check has in hand, and those a Replace is settling.
InHand == deadman.left \cup (IF deadman.at = "report" THEN {deadman.r} ELSE {})
Settling == replace.removed \cup (IF replace.at = "resolve" THEN {replace.r} ELSE {})

\* A source has one runner that is watched, and one the check has in hand; where
\* the watched one is silent they are the same. No source whose removal is being
\* settled is watched.
OneRunner ==
  /\ \A q, r \in running_ingest : src[q] = src[r] => q = r
  /\ \A q, r \in deadman.left : src[q] = src[r] => q = r
  /\ \A r \in running_ingest \cap silent : \A q \in InHand : src[q] = src[r] => q = r
  /\ \A q \in Settling : \A r \in running_ingest : src[q] # src[r]

\* Where a Replace is about to resolve a name, whoever of that name was found
\* silent since it looked is being reported, or its report is known to be lost.
ReplaceLooked ==
  replace.at = "resolve" =>
    \A r \in (running_ingest \cap silent) \ fatal :
      Ingest!Name(r) = Ingest!Name(replace.r) =>
        Ingest!Name(r) \in lost \/ (deadman.at = "report" /\ deadman.r = r)

IngestSafe == IngestTypes /\ OneRunner /\ ReplaceLooked /\ Ingest!SilenceIsOpen

\* A function onto a set of the size of its domain is one to one.
LEMMA OntoIsOneToOne ==
  ASSUME NEW S, NEW T, IsFiniteSet(S), IsFiniteSet(T), Cardinality(S) = Cardinality(T),
         NEW f \in [S -> T], \A t \in T : \E s \in S : f[s] = t
  PROVE  \A x, y \in S : f[x] = f[y] => x = y
<1>1. f \in Surjection(S, T)
  BY DEF Surjection
<1>2. f \in Injection(S, T)
  BY <1>1, FS_SurjSameCardinalityImpliesInj
<1> QED
  BY <1>2 DEF Injection, IsInjective

LEMMA IngestCardinality == ASSUME NEW S PROVE Ingest!Cardinality(S) = Cardinality(S)
BY DEF Ingest!Cardinality, Cardinality

LEMMA IngestInit == Ingest!Init => IngestSafe
<1> SUFFICES ASSUME Ingest!Init
             PROVE  IngestSafe
  OBVIOUS
<1>1. PICK S \in SUBSET Sources :
        \E f \in [1 .. Cardinality(S) -> S] : (\A s \in S : \E r \in DOMAIN f : f[r] = s) /\ src = f
  BY IngestCardinality DEF Ingest!Init
<1>2. src \in [1 .. Cardinality(S) -> S] /\ \A s \in S : \E r \in 1 .. Cardinality(S) : src[r] = s
  BY <1>1
<1>3. IsFiniteSet(S) /\ Cardinality(S) \in Nat
  BY IngestAssumption, FS_Subset, FS_CardinalityType DEF IngestAssumption
<1>4. IsFiniteSet(1 .. Cardinality(S)) /\ Cardinality(1 .. Cardinality(S)) = Cardinality(S)
  <2>1. PICK n \in Nat : n = Cardinality(S)
    BY <1>3
  <2>2. IsFiniteSet(1 .. n) /\ Cardinality(1 .. n) = IF 1 > n THEN 0 ELSE n - 1 + 1
    BY FS_Interval
  <2>3. Cardinality(1 .. n) = n
    BY <2>2
  <2> QED
    BY <2>1, <2>2, <2>3
<1>5. Ingest!Made = 1 .. Cardinality(S)
  BY <1>2 DEF Ingest!Made
<1>6. \A q, r \in Ingest!Made : src[q] = src[r] => q = r
  BY SMTT(30), <1>2, <1>3, <1>4, <1>5, OntoIsOneToOne
<1>7. /\ running_ingest = Ingest!Made /\ silent = {}
      /\ replace = Ingest!NoReplace /\ deadman = Ingest!NoCheck
  BY DEF Ingest!Init
<1>8. IngestTypes
  BY <1>2, <1>3, <1>5, <1>7 DEF IngestTypes, Ingest!NoReplace, Ingest!NoCheck
<1>9. OneRunner
  BY <1>6, <1>7 DEF OneRunner, InHand, Settling, Ingest!NoReplace, Ingest!NoCheck
<1>10. Ingest!SilenceIsOpen /\ ReplaceLooked
  BY <1>7 DEF Ingest!SilenceIsOpen, ReplaceLooked
<1> QED
  BY <1>8, <1>9, <1>10 DEF IngestSafe

\* Steps that change nothing the invariant speaks of, but for what has failed
\* and what was opened.
LEMMA IngestUntouched ==
  ASSUME IngestSafe, UNCHANGED <<src, running_ingest, silent, deadman, replace>>,
         fatal \subseteq fatal', open_ingest \subseteq open_ingest', lost \subseteq lost'
  PROVE  IngestSafe'
<1>1. IngestTypes' /\ OneRunner'
  BY DEF IngestSafe, IngestTypes, OneRunner, InHand, Settling, Ingest!Made
<1>2. ReplaceLooked'
  BY DEF IngestSafe, ReplaceLooked, Ingest!Name
<1>3. Ingest!SilenceIsOpen'
  BY DEF IngestSafe, Ingest!SilenceIsOpen, Ingest!Name
<1> QED
  BY <1>1, <1>2, <1>3 DEF IngestSafe

LEMMA IngestCheck == ASSUME IngestSafe, Ingest!Check PROVE IngestSafe'
<1>1. /\ deadman' = [Ingest!NoCheck EXCEPT !.at = "each", !.now = clock, !.left = running_ingest]
      /\ deadman.at = "idle"
      /\ UNCHANGED <<src, running_ingest, silent, fatal, replace, open_ingest, lost>>
  BY DEF Ingest!Check, Ingest!runnerVars
<1>2. deadman' = [at |-> "each", now |-> clock, left |-> running_ingest, r |-> Ingest!Nobody,
                  silent |-> FALSE]
  BY <1>1 DEF Ingest!NoCheck
<1>3. IngestTypes'
  BY <1>1, <1>2 DEF IngestSafe, IngestTypes, Ingest!Made
<1>4. InHand' = running_ingest /\ Settling' = Settling
  BY <1>1, <1>2 DEF InHand, Settling
<1>5. OneRunner'
  BY <1>1, <1>2, <1>4 DEF IngestSafe, OneRunner
<1>6. Ingest!SilenceIsOpen'
  BY <1>1 DEF IngestSafe, Ingest!SilenceIsOpen, Ingest!Name
<1>7. ReplaceLooked'
  BY <1>1 DEF IngestSafe, ReplaceLooked, Ingest!Name
<1> QED
  BY <1>3, <1>5, <1>6, <1>7 DEF IngestSafe

LEMMA IngestJudge == ASSUME IngestSafe, NEW j, Ingest!Judge(j) PROVE IngestSafe'
<1>1. /\ deadman.at = "each" /\ j \in deadman.left
      /\ UNCHANGED <<src, running_ingest, fatal, replace, open_ingest, lost>>
  BY DEF Ingest!Judge
<1>2. \/ /\ deadman' = [deadman EXCEPT !.left = @ \ {j}]
         /\ silent \ {j} \subseteq silent' /\ silent' \subseteq silent
      \/ \E v \in BOOLEAN :
           /\ deadman' = [deadman EXCEPT !.left = @ \ {j}, !.at = "report", !.r = j, !.silent = v]
           /\ silent' = IF v THEN silent \cup {j} ELSE silent \ {j}
  <2> DEFINE quietly == deadman.now - lastAt[j] > LivenessOf[src[j]]
  <2>1. CASE LivenessOf[src[j]] = 0 \/ j \in fatal
    BY <2>1 DEF Ingest!Judge
  <2>2. CASE ~(LivenessOf[src[j]] = 0 \/ j \in fatal) /\ quietly = TRUE
    <3>1. /\ silent' = silent \cup {j}
          /\ deadman' = IF TRUE = (j \in silent) THEN [deadman EXCEPT !.left = @ \ {j}]
                        ELSE [deadman EXCEPT !.left = @ \ {j}, !.at = "report", !.r = j, !.silent = TRUE]
      BY <2>2 DEF Ingest!Judge
    <3> QED
      BY <3>1
  <2>3. CASE ~(LivenessOf[src[j]] = 0 \/ j \in fatal) /\ quietly = FALSE
    <3>1. /\ silent' = silent \ {j}
          /\ deadman' = IF FALSE = (j \in silent) THEN [deadman EXCEPT !.left = @ \ {j}]
                        ELSE [deadman EXCEPT !.left = @ \ {j}, !.at = "report", !.r = j, !.silent = FALSE]
      BY <2>3 DEF Ingest!Judge
    <3> QED
      BY <3>1
  <2>4. quietly \in BOOLEAN
    OBVIOUS
  <2> QED
    BY <2>1, <2>2, <2>3, <2>4
<1>3. deadman = [at |-> deadman.at, now |-> deadman.now, left |-> deadman.left,
                 r |-> deadman.r, silent |-> deadman.silent]
  BY DEF IngestSafe, IngestTypes
<1>4. DOMAIN deadman = {"at", "now", "left", "r", "silent"}
  BY <1>3
<1>5. ASSUME deadman' = [deadman EXCEPT !.left = @ \ {j}], silent' \subseteq silent,
             silent \ {j} \subseteq silent'
      PROVE  IngestSafe'
  <2>1. deadman' = [at |-> "each", now |-> deadman.now, left |-> deadman.left \ {j},
                    r |-> deadman.r, silent |-> deadman.silent]
    BY <1>1, <1>4, <1>5
  <2>2. IngestTypes'
    <3>1. /\ deadman'.at = "each" /\ deadman'.now = deadman.now
          /\ deadman'.left = deadman.left \ {j}
          /\ deadman'.r = deadman.r /\ deadman'.silent = deadman.silent
      BY <2>1
    <3>2. src' = src /\ running_ingest' = running_ingest /\ replace' = replace
      BY <1>1
    <3>3. (running_ingest \cup silent \cup deadman.left \cup replace.removed)' \subseteq Ingest!Made
      BY <1>5, <3>1, <3>2 DEF IngestSafe, IngestTypes
    <3>4. deadman' = [at |-> deadman'.at, now |-> deadman'.now, left |-> deadman'.left,
                      r |-> deadman'.r, silent |-> deadman'.silent]
      BY <2>1, <3>1
    <3> QED
      BY <3>1, <3>2, <3>3, <3>4 DEF IngestSafe, IngestTypes, Ingest!Made
  <2>3. InHand' \subseteq InHand /\ Settling' = Settling
    BY <1>1, <2>1 DEF InHand, Settling
  <2>4. OneRunner'
    BY <1>1, <1>5, <2>1, <2>3 DEF IngestSafe, OneRunner
  <2>5. Ingest!SilenceIsOpen'
    BY <1>1, <1>5 DEF IngestSafe, Ingest!SilenceIsOpen, Ingest!Name
  <2>6. ReplaceLooked'
    BY <1>1, <1>5 DEF IngestSafe, ReplaceLooked, Ingest!Name
  <2> QED
    BY <2>2, <2>4, <2>5, <2>6 DEF IngestSafe
<1>6. ASSUME NEW v \in BOOLEAN,
             deadman' = [deadman EXCEPT !.left = @ \ {j}, !.at = "report", !.r = j, !.silent = v],
             silent' = IF v THEN silent \cup {j} ELSE silent \ {j}
      PROVE  IngestSafe'
  <2>1. deadman' = [at |-> "report", now |-> deadman.now, left |-> deadman.left \ {j},
                    r |-> j, silent |-> v]
    <3>1. PICK w : w = [deadman EXCEPT !.left = @ \ {j}]
      OBVIOUS
    <3>2. w = [at |-> deadman.at, now |-> deadman.now, left |-> deadman.left \ {j},
               r |-> deadman.r, silent |-> deadman.silent]
      BY <1>4, <3>1
    <3>3. deadman' = [w EXCEPT !.at = "report", !.r = j, !.silent = v]
      BY <1>6, <3>1
    <3> QED
      BY <3>2, <3>3
  <2>2. IngestTypes'
    <3>1. /\ deadman'.at = "report" /\ deadman'.now = deadman.now
          /\ deadman'.left = deadman.left \ {j}
          /\ deadman'.r = j /\ deadman'.silent = v
      BY <2>1
    <3>2. src' = src /\ running_ingest' = running_ingest /\ replace' = replace /\ j \in Ingest!Made
      BY <1>1 DEF IngestSafe, IngestTypes
    <3>3. (running_ingest \cup silent \cup deadman.left \cup replace.removed)' \subseteq Ingest!Made
      BY <1>6, <3>1, <3>2 DEF IngestSafe, IngestTypes
    <3>4. deadman' = [at |-> deadman'.at, now |-> deadman'.now, left |-> deadman'.left,
                      r |-> deadman'.r, silent |-> deadman'.silent]
      BY <2>1, <3>1
    <3>5. v <=> j \in silent'
      BY <1>6
    <3> QED
      BY <3>1, <3>2, <3>3, <3>4, <3>5 DEF IngestSafe, IngestTypes, Ingest!Made
  <2>3. InHand' = deadman.left /\ Settling' = Settling /\ InHand = deadman.left
    BY <1>1, <2>1 DEF InHand, Settling
  <2>4. silent' \subseteq silent \cup {j}
    BY <1>6
  <2>5. OneRunner'
    BY <1>1, <2>1, <2>3, <2>4 DEF IngestSafe, OneRunner
  <2>6. Ingest!SilenceIsOpen'
    BY <1>1, <1>6, <2>1 DEF IngestSafe, Ingest!SilenceIsOpen, Ingest!Name
  <2>7. ReplaceLooked'
    BY <1>1, <1>6, <2>1 DEF IngestSafe, ReplaceLooked, Ingest!Name
  <2> QED
    BY <2>2, <2>5, <2>6, <2>7 DEF IngestSafe
<1> QED
  BY ZenonT(60), <1>2, <1>5, <1>6

\* The check goes on with the next runner, whether the report was made or failed.
LEMMA IngestTold ==
  ASSUME IngestSafe, deadman.at = "report", Ingest!Told,
         UNCHANGED <<src, running_ingest, silent, replace>>
  PROVE  IngestTypes' /\ OneRunner' /\ deadman'.at = "each"
<1>2. DOMAIN deadman = {"at", "now", "left", "r", "silent"}
  <2>1. deadman = [at |-> deadman.at, now |-> deadman.now, left |-> deadman.left,
                   r |-> deadman.r, silent |-> deadman.silent]
    BY DEF IngestSafe, IngestTypes
  <2> QED
    BY <2>1
<1>3. deadman' = [at |-> "each", now |-> deadman.now, left |-> deadman.left,
                  r |-> Ingest!Nobody, silent |-> FALSE]
  BY <1>2 DEF Ingest!Told
<1>4. IngestTypes'
  <2>1. /\ deadman'.left = deadman.left /\ deadman'.at # "report"
        /\ deadman' = [at |-> deadman'.at, now |-> deadman'.now, left |-> deadman'.left,
                       r |-> deadman'.r, silent |-> deadman'.silent]
    BY <1>3
  <2> QED
    BY <2>1 DEF IngestSafe, IngestTypes, Ingest!Made
<1>5. InHand' \subseteq InHand /\ Settling' = Settling
  BY <1>3 DEF InHand, Settling
<1>6. OneRunner'
  BY <1>3, <1>5 DEF IngestSafe, OneRunner
<1> QED
  BY <1>3, <1>4, <1>6

\* What is raised for one source is open for all of its name; what is resolved for
\* one is lost for the others, which are runners of other sources.
LEMMA IngestReport ==
  ASSUME IngestSafe, Ingest!Report \/ Ingest!ReportFails PROVE IngestSafe'
<1>1. /\ deadman.at = "report" /\ Ingest!Told
      /\ UNCHANGED <<src, running_ingest, silent, fatal, replace>>
  BY DEF Ingest!Report, Ingest!ReportFails, Ingest!runnerVars
<1>2. IngestTypes' /\ OneRunner' /\ deadman'.at = "each"
  BY <1>1, IngestTold
<1>3. deadman.silent <=> deadman.r \in silent
  BY <1>1 DEF IngestSafe, IngestTypes
<1>4. \A r : Ingest!Name(r)' = Ingest!Name(r)
  BY <1>1 DEF Ingest!Name
<1>5. ASSUME NEW r \in (running_ingest \cap silent) \ fatal
      PROVE  Ingest!Name(r) \in open_ingest' \cup lost'
  <2>1. Ingest!Name(r) \in open_ingest \cup lost \/ r = deadman.r
    BY DEF IngestSafe, Ingest!SilenceIsOpen
  <2>2. CASE deadman.silent /\ Ingest!Report
    BY <2>1, <2>2 DEF Ingest!Report
  <2>3. CASE ~deadman.silent /\ Ingest!Report
    <3>1. r # deadman.r /\ deadman.r \in InHand
      BY <1>1, <1>3, <2>3 DEF InHand
    <3>2. src[deadman.r] # src[r]
      BY <3>1 DEF IngestSafe, OneRunner
    <3>3. Ingest!Name(r) = Ingest!Name(deadman.r) => Ingest!SilentToo # {}
      BY <3>2 DEF Ingest!SilentToo
    <3>4. /\ open_ingest' = open_ingest \ {Ingest!Name(deadman.r)}
          /\ lost' = IF Ingest!SilentToo = {} THEN lost ELSE lost \cup {Ingest!Name(deadman.r)}
      BY <2>3 DEF Ingest!Report
    <3> QED
      BY <2>1, <3>1, <3>3, <3>4
  <2>4. CASE Ingest!ReportFails
    BY <1>3, <2>1, <2>4 DEF Ingest!ReportFails
  <2> QED
    BY <2>2, <2>3, <2>4
<1>6. Ingest!SilenceIsOpen'
  BY <1>1, <1>4, <1>5 DEF Ingest!SilenceIsOpen
<1>7. ASSUME replace.at = "resolve", NEW r \in (running_ingest \cap silent) \ fatal,
             Ingest!Name(r) = Ingest!Name(replace.r)
      PROVE  Ingest!Name(r) \in lost'
  <2>1. Ingest!Name(r) \in lost \/ r = deadman.r
    BY <1>7 DEF IngestSafe, ReplaceLooked
  <2>2. CASE deadman.silent /\ Ingest!Report
    <3>1. lost' = IF Ingest!ToBeResolved THEN lost \cup {Ingest!Name(deadman.r)}
                  ELSE lost \ {Ingest!Name(deadman.r)}
      BY <2>2 DEF Ingest!Report
    <3>2. Ingest!Name(r) = Ingest!Name(deadman.r) => Ingest!ToBeResolved
      BY <1>7 DEF Ingest!ToBeResolved
    <3> QED
      BY <2>1, <3>1, <3>2
  <2>3. CASE ~deadman.silent /\ Ingest!Report
    BY <1>3, <2>1, <2>3 DEF Ingest!Report
  <2>4. CASE Ingest!ReportFails
    BY <1>3, <2>1, <2>4 DEF Ingest!ReportFails
  <2> QED
    BY <2>2, <2>3, <2>4
<1>8. ReplaceLooked'
  BY <1>1, <1>4, <1>7 DEF ReplaceLooked
<1> QED
  BY <1>2, <1>6, <1>8 DEF IngestSafe

LEMMA IngestCheckEnds == ASSUME IngestSafe, Ingest!CheckEnds PROVE IngestSafe'
<1>1. /\ deadman.at = "each" /\ deadman' = Ingest!NoCheck
      /\ UNCHANGED <<src, running_ingest, silent, fatal, replace, open_ingest, lost>>
  BY DEF Ingest!CheckEnds, Ingest!runnerVars
<1>2. deadman'.left = {} /\ deadman'.at = "idle"
  BY <1>1 DEF Ingest!NoCheck
<1>3. IngestTypes'
  BY <1>1, <1>2 DEF IngestSafe, IngestTypes, Ingest!Made, Ingest!NoCheck
<1>4. InHand' = {} /\ Settling' = Settling
  BY <1>1, <1>2 DEF InHand, Settling
<1>5. OneRunner'
  BY <1>1, <1>2, <1>4 DEF IngestSafe, OneRunner
<1>6. Ingest!SilenceIsOpen'
  BY <1>1 DEF IngestSafe, Ingest!SilenceIsOpen, Ingest!Name
<1>7. ReplaceLooked'
  BY <1>1 DEF IngestSafe, ReplaceLooked, Ingest!Name
<1> QED
  BY <1>3, <1>5, <1>6, <1>7 DEF IngestSafe

\* Fresh runners are of sources no kept runner has, one each, and not yet silent.
LEMMA IngestReplaceSet == ASSUME IngestSafe, NEW S \in SUBSET Sources, Ingest!ReplaceSet(S) PROVE IngestSafe'
<1> DEFINE staying == {r \in running_ingest : src[r] \in S}
           fresh == S \ {src[r] : r \in staying}
           new == (Ingest!Cardinality(Ingest!Made) + 1)
                    .. (Ingest!Cardinality(Ingest!Made) + Ingest!Cardinality(fresh))
<1>1. /\ replace.at = "idle" /\ running_ingest' = staying \cup new
      /\ replace' = [Ingest!NoReplace EXCEPT !.at = "wait", !.removed = running_ingest \ staying,
                                             !.started = new]
      /\ UNCHANGED <<silent, fatal, deadman, open_ingest, lost>>
  BY DEF Ingest!ReplaceSet
<1>2. PICK f \in [new -> fresh] :
        /\ \A s \in fresh : \E r \in new : f[r] = s
        /\ src' = [r \in Ingest!Made \cup new |-> IF r \in new THEN f[r] ELSE src[r]]
  BY DEF Ingest!ReplaceSet
<1>3. PICK n \in Nat : Ingest!Made = 1 .. n
  BY DEF IngestSafe, IngestTypes
<1>4. IsFiniteSet(fresh)
  <2>1. IsFiniteSet(S)
    BY IngestAssumption, FS_Subset DEF IngestAssumption
  <2>2. fresh \subseteq S
    OBVIOUS
  <2> HIDE DEF fresh
  <2> QED
    BY <2>1, <2>2, FS_Subset
<1>5. PICK m \in Nat : m = Cardinality(fresh)
  <2> HIDE DEF fresh
  <2> QED
    BY <1>4, FS_CardinalityType
<1>6. new = (n + 1) .. (n + m)
  <2>1. IsFiniteSet(1 .. n) /\ Cardinality(1 .. n) = IF 1 > n THEN 0 ELSE n - 1 + 1
    BY FS_Interval
  <2>2. Ingest!Cardinality(Ingest!Made) = n
    BY <1>3, <2>1, IngestCardinality
  <2>3. Ingest!Cardinality(fresh) = m
    BY <1>5, IngestCardinality
  <2> QED
    BY <2>2, <2>3
<1>7. \A q, r \in new : f[q] = f[r] => q = r
  <2>1. IsFiniteSet(new) /\ Cardinality(new) = IF n + 1 > n + m THEN 0 ELSE n + m - (n + 1) + 1
    BY <1>6, FS_Interval
  <2>2. Cardinality(new) = Cardinality(fresh)
    BY <1>5, <2>1
  <2> HIDE DEF new, fresh
  <2> QED
    BY <1>2, <1>4, <2>1, <2>2, OntoIsOneToOne
<1> HIDE DEF new
<1>8. new \cap Ingest!Made = {} /\ Ingest!Made \cup new = 1 .. (n + m)
  BY <1>3, <1>6
<1>9. \A r \in new : f[r] \in S /\ f[r] \in Sources /\ \A q \in staying : src[q] # f[r]
  BY <1>2
<1>10. running_ingest \subseteq Ingest!Made /\ staying \subseteq running_ingest
  BY DEF IngestSafe, IngestTypes
<1>11. \A r \in running_ingest \ staying : src[r] \notin S
  OBVIOUS
<1>12. \A r \in staying : src[r] \in S
  OBVIOUS
<1> HIDE DEF fresh, new, staying
<1>13. /\ Ingest!Made' = Ingest!Made \cup new
       /\ \A r \in Ingest!Made : src'[r] = src[r]
       /\ \A r \in new : src'[r] = f[r]
  BY <1>2, <1>8 DEF Ingest!Made
<1>14. replace' = [at |-> "wait", removed |-> running_ingest \ staying, started |-> new,
                   r |-> Ingest!Nobody]
  BY <1>1 DEF Ingest!NoReplace
<1>15. IngestTypes'
  <2>1. Ingest!Made' = 1 .. (n + m) /\ n + m \in Nat
    BY <1>8, <1>13
  <2>2. \A r \in Ingest!Made' : src'[r] \in Sources
    BY <1>9, <1>13 DEF IngestSafe, IngestTypes
  <2>3. /\ running_ingest' \cup silent' \cup deadman'.left \cup replace'.removed \subseteq Ingest!Made'
        /\ deadman'.at = "report" => deadman'.r \in Ingest!Made'
    BY <1>1, <1>10, <1>13, <1>14 DEF IngestSafe, IngestTypes
  <2>4. /\ deadman' = deadman /\ silent' = silent
        /\ replace' = [at |-> replace'.at, removed |-> replace'.removed,
                       started |-> replace'.started, r |-> replace'.r]
        /\ replace'.at # "resolve"
    BY <1>1, <1>14
  <2> QED
    BY <2>1, <2>2, <2>3, <2>4 DEF IngestSafe, IngestTypes
<1>16. /\ InHand' = InHand /\ InHand \subseteq Ingest!Made
       /\ Settling' = running_ingest \ staying
  BY <1>1, <1>14 DEF InHand, Settling, IngestSafe, IngestTypes
<1>17. silent \subseteq Ingest!Made /\ deadman.left \subseteq Ingest!Made
  BY DEF IngestSafe, IngestTypes
<1>18. OneRunner'
  <2>1. \A q, r \in running_ingest' : src'[q] = src'[r] => q = r
    <3> SUFFICES ASSUME NEW q \in staying \cup new, NEW r \in staying \cup new, src'[q] = src'[r]
                 PROVE  q = r
      BY <1>1
    <3>1. CASE q \in staying /\ r \in staying
      BY <1>10, <1>13, <3>1 DEF IngestSafe, OneRunner
    <3>2. CASE q \in new /\ r \in new
      BY <1>7, <1>13, <3>2
    <3>3. CASE q \in new /\ r \in staying
      BY <1>9, <1>10, <1>13, <3>3
    <3>4. CASE q \in staying /\ r \in new
      BY <1>9, <1>10, <1>13, <3>4
    <3> QED
      BY <3>1, <3>2, <3>3, <3>4
  <2>2. \A q, r \in deadman'.left : src'[q] = src'[r] => q = r
    BY <1>1, <1>13, <1>17 DEF IngestSafe, OneRunner
  <2>3. \A r \in running_ingest' \cap silent' : \A q \in InHand' : src'[q] = src'[r] => q = r
    BY <1>1, <1>8, <1>10, <1>13, <1>16, <1>17 DEF IngestSafe, OneRunner
  <2>4. \A q \in Settling' : \A r \in running_ingest' : src'[q] # src'[r]
    BY <1>1, <1>9, <1>10, <1>11, <1>12, <1>13, <1>16
  <2> QED
    BY <2>1, <2>2, <2>3, <2>4 DEF OneRunner
<1>19. Ingest!SilenceIsOpen'
  <2> SUFFICES ASSUME NEW r \in (running_ingest' \cap silent') \ fatal'
               PROVE  \/ Ingest!Name(r)' \in open_ingest' \cup lost'
                      \/ deadman'.at = "report" /\ deadman'.r = r
    BY DEF Ingest!SilenceIsOpen
  <2>1. r \in running_ingest /\ r \in silent /\ r \notin fatal /\ r \in Ingest!Made
    BY <1>1, <1>8, <1>10, <1>17
  <2>2. Ingest!Name(r) \in open_ingest \cup lost \/ (deadman.at = "report" /\ deadman.r = r)
    BY <2>1 DEF IngestSafe, Ingest!SilenceIsOpen
  <2>3. Ingest!Name(r)' = Ingest!Name(r)
    BY <1>13, <2>1 DEF Ingest!Name
  <2> QED
    BY <1>1, <2>2, <2>3
<1>20. ReplaceLooked'
  BY <1>14 DEF ReplaceLooked
<1> QED
  BY <1>15, <1>18, <1>19, <1>20 DEF IngestSafe

\* The rest of a Replace.
LEMMA IngestReplacing == ASSUME IngestSafe, Ingest!Replacing PROVE IngestSafe'
<1>1. /\ UNCHANGED <<src, running_ingest, silent, fatal, deadman, lost>>
  BY DEF Ingest!Replacing, Ingest!ReplaceWaits, Ingest!Settle, Ingest!ResolveRemoved,
     Ingest!ReplaceStarts, Ingest!StartAll, Ingest!runnerVars
<1>2. DOMAIN replace = {"at", "removed", "started", "r"}
  <2>1. replace = [at |-> replace.at, removed |-> replace.removed, started |-> replace.started,
                   r |-> replace.r]
    BY DEF IngestSafe, IngestTypes
  <2> QED
    BY <2>1
<1>3. replace.removed \subseteq Ingest!Made
  BY DEF IngestSafe, IngestTypes
<1>4. /\ replace' = [at |-> replace'.at, removed |-> replace'.removed,
                     started |-> replace'.started, r |-> replace'.r]
      /\ replace'.removed \subseteq replace.removed
      /\ replace'.at = "resolve" => replace'.r \in replace.removed
  <2>1. CASE Ingest!ReplaceWaits
    <3>1. replace' = [replace EXCEPT !.at = "settle"]
      BY <2>1 DEF Ingest!ReplaceWaits
    <3>2. replace' = [at |-> "settle", removed |-> replace.removed,
                      started |-> replace.started, r |-> replace.r]
      BY <1>2, <3>1
    <3> QED
      BY <3>2
  <2>2. CASE \E d \in Ingest!Runners : Ingest!Settle(d)
    <3>1. PICK d : Ingest!Settle(d)
      BY <2>2
    <3>2. /\ replace.at = "settle" /\ d \in replace.removed
          /\ \/ replace' = [replace EXCEPT !.at = "resolve", !.r = d, !.removed = @ \ {d}]
             \/ replace' = [replace EXCEPT !.removed = @ \ {d}]
      BY <3>1 DEF Ingest!Settle
    <3>3. CASE replace' = [replace EXCEPT !.removed = @ \ {d}]
      <4>1. replace' = [at |-> "settle", removed |-> replace.removed \ {d},
                        started |-> replace.started, r |-> replace.r]
        BY <1>2, <3>2, <3>3
      <4> QED
        BY <4>1
    <3>4. CASE replace' = [replace EXCEPT !.at = "resolve", !.r = d, !.removed = @ \ {d}]
      <4>1. replace' = [at |-> "resolve", removed |-> replace.removed \ {d},
                        started |-> replace.started, r |-> d]
        BY <1>2, <3>4
      <4> QED
        BY <3>2, <4>1
    <3> QED
      BY <3>2, <3>3, <3>4
  <2>3. CASE Ingest!ResolveRemoved
    <3>1. replace' = [replace EXCEPT !.at = "settle", !.r = Ingest!Nobody]
      BY <2>3 DEF Ingest!ResolveRemoved
    <3>2. replace' = [at |-> "settle", removed |-> replace.removed,
                      started |-> replace.started, r |-> Ingest!Nobody]
      BY <1>2, <3>1
    <3> QED
      BY <3>2
  <2>4. CASE Ingest!ReplaceStarts
    BY <2>4 DEF Ingest!ReplaceStarts, Ingest!NoReplace
  <2> QED
    BY <2>1, <2>2, <2>3, <2>4 DEF Ingest!Replacing
<1>5. IngestTypes'
  BY <1>1, <1>3, <1>4 DEF IngestSafe, IngestTypes, Ingest!Made
<1>6. InHand' = InHand /\ Settling' \subseteq Settling
  BY <1>1, <1>4 DEF InHand, Settling
<1>7. OneRunner'
  BY <1>1, <1>6 DEF IngestSafe, OneRunner
<1>8. Ingest!SilenceIsOpen'
  <2>1. CASE open_ingest' = open_ingest
    BY <1>1, <2>1 DEF IngestSafe, Ingest!SilenceIsOpen, Ingest!Name
  <2>2. CASE Ingest!ResolveRemoved
    <3>1. replace.at = "resolve" /\ open_ingest \ {Ingest!Name(replace.r)} \subseteq open_ingest'
      BY <2>2 DEF Ingest!ResolveRemoved
    <3>2. ASSUME NEW r \in (running_ingest \cap silent) \ fatal
          PROVE  Ingest!Name(r) \in open_ingest' \cup lost \/ (deadman.at = "report" /\ deadman.r = r)
      BY <3>1 DEF IngestSafe, Ingest!SilenceIsOpen, ReplaceLooked
    <3> QED
      BY <1>1, <3>2 DEF Ingest!SilenceIsOpen, Ingest!Name
  <2> QED
    BY <2>1, <2>2 DEF Ingest!Replacing, Ingest!ReplaceWaits, Ingest!Settle, Ingest!ReplaceStarts
<1>9. ReplaceLooked'
  <2>1. CASE \E d \in Ingest!Runners : Ingest!Settle(d)
    <3>1. PICK d : Ingest!Settle(d)
      BY <2>1
    <3>2. CASE replace' = [replace EXCEPT !.removed = @ \ {d}]
      <4>1. replace'.at = "settle"
        BY <1>2, <3>1, <3>2 DEF Ingest!Settle
      <4> QED
        BY <4>1 DEF ReplaceLooked
    <3>3. CASE /\ ~Ingest!WatchedAndFaulted(Ingest!Name(d))
               /\ replace' = [replace EXCEPT !.at = "resolve", !.r = d, !.removed = @ \ {d}]
      <4>1. replace' = [at |-> "resolve", removed |-> replace.removed \ {d},
                        started |-> replace.started, r |-> d]
        BY <1>2, <3>3
      <4>2. \A r \in running_ingest \cap silent : Ingest!Name(r) # Ingest!Name(d)
        BY <3>3 DEF Ingest!WatchedAndFaulted, Ingest!Faulted
      <4> QED
        BY <1>1, <4>1, <4>2 DEF ReplaceLooked, Ingest!Name
    <3> QED
      BY <3>1, <3>2, <3>3 DEF Ingest!Settle
  <2>2. CASE Ingest!ReplaceWaits \/ Ingest!ResolveRemoved \/ Ingest!ReplaceStarts
    <3>1. replace'.at # "resolve"
      <4>1. CASE Ingest!ReplaceWaits
        BY <1>2, <4>1 DEF Ingest!ReplaceWaits
      <4>2. CASE Ingest!ResolveRemoved
        <5>1. replace' = [replace EXCEPT !.at = "settle", !.r = Ingest!Nobody]
          BY <4>2 DEF Ingest!ResolveRemoved
        <5> QED
          BY <1>2, <5>1
      <4>3. CASE Ingest!ReplaceStarts
        BY <4>3 DEF Ingest!ReplaceStarts, Ingest!NoReplace
      <4> QED
        BY <2>2, <4>1, <4>2, <4>3
    <3> QED
      BY <3>1 DEF ReplaceLooked
  <2> QED
    BY <2>1, <2>2 DEF Ingest!Replacing
<1> QED
  BY <1>5, <1>7, <1>8, <1>9 DEF IngestSafe

LEMMA IngestNext == IngestSafe /\ [Ingest!Next]_(Ingest!vars) => IngestSafe'
<1> SUFFICES ASSUME IngestSafe, [Ingest!Next]_(Ingest!vars)
             PROVE  IngestSafe'
  OBVIOUS
<1>1. CASE Ingest!Elapse \/ Ingest!Lifetime
  BY <1>1, IngestUntouched
     DEF Ingest!Elapse, Ingest!Lifetime, Ingest!Run, Ingest!Shutdown, Ingest!Stop,
         Ingest!RunReturns, Ingest!StartAll, Ingest!runnerVars
<1>2. CASE Ingest!Deadman
  BY <1>2, IngestCheck, IngestJudge, IngestReport, IngestCheckEnds DEF Ingest!Deadman
<1>3. CASE Ingest!Replacing
  BY <1>3, IngestReplacing
<1>4. ASSUME NEW r, Ingest!Routine(r)
      PROVE  IngestSafe'
  BY <1>4, IngestUntouched
     DEF Ingest!Routine, Ingest!Speak, Ingest!Return, Ingest!Restart, Ingest!Fail, Ingest!RaiseFatal
<1>5. ASSUME NEW S \in SUBSET Sources, Ingest!ReplaceSet(S)
      PROVE  IngestSafe'
  BY <1>5, IngestReplaceSet
<1>6. CASE UNCHANGED Ingest!vars
  BY <1>6, IngestUntouched DEF Ingest!vars, Ingest!runnerVars
<1> QED
  BY <1>1, <1>2, <1>3, <1>4, <1>5, <1>6 DEF Ingest!Next

\* A source that is silent has its incident open, but for the reports known to be
\* lost: for any sources, sharing names or not, through restarts of sources,
\* configurations that drop and bring back a source while the check has its old
\* runner in hand, and a Replace that resolves what it removed meanwhile.
THEOREM SilenceIsOpenSafe == Spec => []SilenceIsOpen
<1> DEFINE Safe == subject = "ingest" => IngestSafe
<1>1. Init => Safe
  BY IngestInit DEF Init
<1>2. Safe /\ [Next]_vars => Safe'
  BY StepsOfSubject, IngestNext
<1>3. Safe => SilenceIsOpen
  BY DEF SilenceIsOpen, IngestSafe
<1> QED
  BY <1>1, <1>2, <1>3, PTL DEF Spec

-----------------------------------------------------------------------------
(* Types, part by part. What the supervisor holds (IngestSupervisor).      *)

\* As many runners are made as the bound allows, and each is in a place of its own;
\* who failed or was told to go is one of them.
IngestRanges ==
  /\ clock \in 0 .. Horizon_ingest
  /\ phase_ingest \in {"new", "run", "stopping", "waiting", "returned"}
  /\ Ingest!Made \subseteq 1 .. MaxRunners
  /\ fatal \cup cancelled \cup replace.started \subseteq Ingest!Made
  /\ place \in [1 .. MaxRunners -> {"off", "up", "delay", "failed", "raise", "gone"}]
  /\ lastAt \in [1 .. MaxRunners -> 0 .. Horizon_ingest] /\ open_ingest \cup lost \subseteq Ingest!Names

LEMMA RunnerHasName ==
  ASSUME IngestTypes, NEW r \in Ingest!Made
  PROVE  Ingest!Name(r) \in Ingest!Names
BY DEF IngestTypes, Ingest!Name, Ingest!Names

LEMMA IngestRangesInit == Ingest!Init => IngestRanges
<1> SUFFICES ASSUME Ingest!Init PROVE IngestRanges
  OBVIOUS
<1>1. PICK S \in SUBSET Sources : \E f \in [1 .. Cardinality(S) -> S] : src = f
  BY IngestCardinality DEF Ingest!Init
<1>2. Ingest!Made = 1 .. Cardinality(S)
  BY <1>1 DEF Ingest!Made
<1>3. Cardinality(S) \in Nat /\ Cardinality(S) <= MaxRunners /\ MaxRunners \in Nat
  <2>1. Cardinality(S) \in Nat /\ Cardinality(S) <= Cardinality(Sources) /\ Cardinality(Sources) \in Nat
    BY IngestAssumption, FS_Subset, FS_CardinalityType DEF IngestAssumption
  <2> QED
    BY <2>1, IngestAssumption DEF IngestAssumption
<1>4. Ingest!Made \subseteq 1 .. MaxRunners
  BY <1>2, <1>3
<1>5. 0 \in 0 .. Horizon_ingest
  BY IngestAssumption DEF IngestAssumption
<1> QED
  BY <1>4, <1>5 DEF Ingest!Init, IngestRanges, Ingest!NoReplace, Ingest!Runners

\* Starting some runners leaves the others where they are.
LEMMA StartAllRanges ==
  ASSUME IngestRanges, NEW S, Ingest!StartAll(S)
  PROVE  place' \in [1 .. MaxRunners -> {"off", "up", "delay", "failed", "raise", "gone"}]
BY DEF IngestRanges, Ingest!StartAll, Ingest!Runners

LEMMA RoutineRanges ==
  ASSUME IngestTypes, IngestRanges, NEW r \in Ingest!Runners, Ingest!Routine(r)
  PROVE  IngestRanges'
<1>1. /\ UNCHANGED <<clock, phase_ingest, src, cancelled, replace, lost>>
      /\ r \in Ingest!Made
      /\ place' = place \/ \E where \in {"gone", "failed", "delay", "up", "raise"} : place' = [place EXCEPT ![r] = where]
      /\ lastAt' \in {lastAt, [lastAt EXCEPT ![r] = clock]}
      /\ fatal' \in {fatal, fatal \cup {r}}
      /\ open_ingest' \in {open_ingest, open_ingest \cup {Ingest!Name(r)}}
  <2>1. CASE Ingest!Speak(r)
    BY <2>1 DEF Ingest!Speak
  <2>2. CASE Ingest!Return(r)
    BY <2>2 DEF Ingest!Return
  <2>3. CASE Ingest!Restart(r)
    BY <2>3 DEF Ingest!Restart
  <2>4. CASE Ingest!Fail(r)
    BY <2>4 DEF Ingest!Fail
  <2>5. CASE Ingest!RaiseFatal(r)
    BY <2>5 DEF Ingest!RaiseFatal
  <2> QED
    BY <2>1, <2>2, <2>3, <2>4, <2>5 DEF Ingest!Routine
<1>2. Ingest!Name(r) \in Ingest!Names
  BY <1>1, RunnerHasName
<1>3. place' \in [1 .. MaxRunners -> {"off", "up", "delay", "failed", "raise", "gone"}]
  BY <1>1 DEF IngestRanges
<1>4. lastAt' \in [1 .. MaxRunners -> 0 .. Horizon_ingest]
  BY SMTT(30), <1>1 DEF IngestRanges
<1> QED
  BY <1>1, <1>2, <1>3, <1>4 DEF IngestRanges, Ingest!Made

LEMMA DeadmanRanges ==
  ASSUME IngestTypes, IngestRanges, Ingest!Deadman
  PROVE  IngestRanges'
<1>1. UNCHANGED <<clock, phase_ingest, src, cancelled, replace, place, lastAt, fatal>>
  BY ZenonT(60) DEF Ingest!Deadman, Ingest!Check, Ingest!Judge, Ingest!Report, Ingest!ReportFails,
     Ingest!CheckEnds, Ingest!runnerVars
<1>2. open_ingest' \cup lost' \subseteq Ingest!Names
  <2>1. CASE Ingest!Report \/ Ingest!ReportFails
    <3>1. Ingest!Name(deadman.r) \in Ingest!Names
      BY <2>1, RunnerHasName DEF Ingest!Report, Ingest!ReportFails, IngestTypes
    <3>2. /\ open_ingest' \subseteq open_ingest \cup {Ingest!Name(deadman.r)}
          /\ lost' \subseteq lost \cup {Ingest!Name(deadman.r)}
      BY <2>1 DEF Ingest!Report, Ingest!ReportFails
    <3> QED
      BY <3>1, <3>2 DEF IngestRanges
  <2>2. CASE UNCHANGED <<open_ingest, lost>>
    BY SMTT(30), <2>2 DEF IngestRanges
  <2> QED
    BY <2>1, <2>2 DEF Ingest!Deadman, Ingest!Check, Ingest!Judge, Ingest!CheckEnds
<1> QED
  BY SMTT(30), <1>1, <1>2 DEF IngestRanges, Ingest!Made

LEMMA ReplaceSetRanges ==
  ASSUME IngestTypes, IngestRanges, NEW S \in SUBSET Sources, Ingest!ReplaceSet(S)
  PROVE  IngestRanges'
<1>1. PICK kept, new : /\ new \subseteq Ingest!Runners
                       /\ \E f : src' = [r \in Ingest!Made \cup new |-> IF r \in new THEN f[r] ELSE src[r]]
                       /\ lastAt' = [r \in Ingest!Runners |-> IF r \in new THEN clock ELSE lastAt[r]]
                       /\ cancelled' = cancelled \cup {r \in running_ingest \ kept : place[r] # "off"}
                       /\ replace' = [Ingest!NoReplace EXCEPT !.at = "wait", !.removed = running_ingest \ kept, !.started = new]
                       /\ UNCHANGED <<clock, phase_ingest, place, fatal, open_ingest, lost>>
  BY ZenonT(60) DEF Ingest!ReplaceSet
<1>2. replace'.started = new /\ Ingest!Made' = Ingest!Made \cup new
  BY <1>1 DEF Ingest!NoReplace, Ingest!Made
<1>3. lastAt' \in [1 .. MaxRunners -> 0 .. Horizon_ingest]
  BY <1>1 DEF IngestRanges, Ingest!Runners
<1> QED
  BY SMTT(30), <1>1, <1>2, <1>3 DEF IngestTypes, IngestRanges, Ingest!Runners

LEMMA ReplacingRanges ==
  ASSUME IngestTypes, IngestRanges, Ingest!Replacing
  PROVE  IngestRanges'
<1>1. UNCHANGED <<clock, phase_ingest, src, cancelled, lastAt, fatal, lost>>
  BY DEF Ingest!Replacing, Ingest!ReplaceWaits, Ingest!Settle, Ingest!ResolveRemoved, Ingest!ReplaceStarts,
     Ingest!runnerVars
<1>2. CASE Ingest!ReplaceStarts
  <2>1. replace'.started = {} /\ open_ingest' = open_ingest
    BY <1>2 DEF Ingest!ReplaceStarts, Ingest!NoReplace
  <2>2. place' \in [1 .. MaxRunners -> {"off", "up", "delay", "failed", "raise", "gone"}]
    BY <1>2, StartAllRanges DEF Ingest!ReplaceStarts
  <2> QED
    BY <1>1, <2>1, <2>2 DEF IngestRanges, Ingest!Made
<1>3. CASE Ingest!ReplaceWaits \/ (\E r \in Ingest!Runners : Ingest!Settle(r)) \/ Ingest!ResolveRemoved
  <2>1. replace'.started = replace.started /\ place' = place
    BY <1>3 DEF Ingest!ReplaceWaits, Ingest!Settle, Ingest!ResolveRemoved, Ingest!runnerVars, IngestTypes
  <2>2. open_ingest' \subseteq open_ingest
    BY <1>3 DEF Ingest!ReplaceWaits, Ingest!Settle, Ingest!ResolveRemoved
  <2> QED
    BY <1>1, <2>1, <2>2 DEF IngestRanges, Ingest!Made
<1> QED
  BY <1>2, <1>3 DEF Ingest!Replacing

LEMMA IngestRangesNext ==
  IngestSafe /\ IngestRanges /\ [Ingest!Next]_(Ingest!vars) => IngestRanges'
<1> SUFFICES ASSUME IngestTypes, IngestRanges, [Ingest!Next]_(Ingest!vars)
             PROVE  IngestRanges'
  BY DEF IngestSafe
<1>1. CASE Ingest!Elapse
  <2>1. clock' \in 0 .. Horizon_ingest
    BY <1>1, IngestAssumption DEF IngestAssumption, IngestRanges, Ingest!Elapse
  <2> QED
    BY <1>1, <2>1 DEF Ingest!Elapse, Ingest!runnerVars, IngestRanges, Ingest!Made
<1>2. CASE Ingest!Run
  <2>1. place' \in [1 .. MaxRunners -> {"off", "up", "delay", "failed", "raise", "gone"}]
    BY <1>2, StartAllRanges DEF Ingest!Run
  <2> QED
    BY <1>2, <2>1 DEF Ingest!Run, IngestRanges, Ingest!Made
<1>3. CASE Ingest!Shutdown \/ Ingest!Stop \/ Ingest!RunReturns
  BY <1>3 DEF Ingest!Shutdown, Ingest!Stop, Ingest!RunReturns, Ingest!runnerVars, IngestRanges, Ingest!Made
<1>4. CASE UNCHANGED Ingest!vars
  BY <1>4 DEF Ingest!vars, Ingest!runnerVars, IngestRanges, Ingest!Made
<1> QED
  BY <1>1, <1>2, <1>3, <1>4, RoutineRanges, DeadmanRanges, ReplacingRanges, ReplaceSetRanges
     DEF Ingest!Next, Ingest!Lifetime

LEMMA IngestTyped == IngestSafe /\ IngestRanges => Ingest!TypeOK
BY DEF IngestSafe, IngestTypes, IngestRanges, Ingest!TypeOK, Ingest!Runners

-----------------------------------------------------------------------------
(* What the sockets and the sweep hold (ProtectSource).                    *)

\* What the sockets and the sweep have in hand is about devices, and in states that
\* the console has or that nothing is known of.
ProtectTypes ==
  /\ truth \in [Cameras -> Protect!States] /\ reg \in [Cameras -> Protect!States \cup {Absent}]
  /\ socket \in [Protect!Sockets -> {"dialling", "up", "waiting", "gone"}]
  /\ wire \in Seq(Cameras \X Protect!States)
  /\ saying \in [device : Cameras, clears : BOOLEAN] \cup {Absent}
  /\ requests \in 0 .. SweepRequests
  /\ offline_protect \subseteq Cameras /\ streamed \subseteq Cameras /\ upSince \subseteq Cameras
  /\ unheard \in [Protect!Sockets -> 0 .. MuteThreshold_protect] /\ muted \subseteq Protect!Sockets

SweepTypes ==
  /\ sweep = [at |-> sweep.at, left |-> sweep.left, got |-> sweep.got, failed |-> sweep.failed, todo |-> sweep.todo]
  /\ sweep.at \in {"idle", "debounce", "read", "hung", "emit"} /\ sweep.left \subseteq Cameras
  /\ DOMAIN sweep.got \subseteq Cameras /\ \A d \in DOMAIN sweep.got : sweep.got[d] \in Protect!States
  /\ sweep.todo \subseteq [device : Cameras, clears : BOOLEAN]

ProtectSafe == ProtectTypes /\ SweepTypes

LEMMA ProtectInit == Protect!Init => ProtectSafe
<1> SUFFICES ASSUME Protect!Init PROVE ProtectSafe
  OBVIOUS
<1>1. ProtectTypes
  BY ProtectAssumption DEF ProtectAssumption, Protect!Init, ProtectTypes, Protect!States, Protect!Sockets
<1>2. sweep = [at |-> "idle", left |-> {}, got |-> << >>, failed |-> FALSE, todo |-> {}]
  BY DEF Protect!Init, Protect!Asleep
<1>3. SweepTypes
  BY <1>2 DEF SweepTypes
<1> QED
  BY <1>1, <1>3 DEF ProtectSafe

LEMMA EmittedTypes ==
  ASSUME NEW d \in Cameras, NEW prev, NEW next
  PROVE  Protect!Emitted(d, prev, next) \subseteq [device : Cameras, clears : BOOLEAN]
<1>1. \A c \in BOOLEAN : [device |-> d, clears |-> c] \in [device : Cameras, clears : BOOLEAN]
  OBVIOUS
<1>2. Protect!Emitted(d, prev, next) \in {{[device |-> d, clears |-> FALSE]}, {[device |-> d, clears |-> TRUE]}, {}}
  BY DEF Protect!Emitted, Protect!Told
<1> QED
  BY <1>1, <1>2

LEMMA GhostTypes == ASSUME ProtectTypes, NEW r PROVE Protect!Ghost(r) \subseteq Cameras
BY DEF ProtectTypes, Protect!Ghost

LEMMA MergeTypes ==
  ASSUME ProtectTypes, NEW d \in Cameras, NEW s \in Protect!States
  PROVE  Protect!Merge(d, s) \in Protect!States \cup {Absent}
BY DEF ProtectTypes, Protect!Merge

LEMMA TellTypes ==
  ASSUME ProtectTypes, NEW e \in [device : Cameras, clears : BOOLEAN], Protect!Tell(e)
  PROVE  offline_protect' \subseteq Cameras
BY DEF ProtectTypes, Protect!Tell

LEMMA RequestSweepTypes ==
  ASSUME ProtectTypes, Protect!RequestSweep
  PROVE  requests' \in 0 .. SweepRequests
BY ProtectAssumption DEF ProtectAssumption, ProtectTypes, Protect!RequestSweep

LEMMA HearingTypes ==
  ASSUME ProtectTypes, NEW s \in Protect!Sockets, Protect!Recognised(s) \/ Protect!Unrecognised(s)
  PROVE  unheard' \in [Protect!Sockets -> 0 .. MuteThreshold_protect] /\ muted' \subseteq Protect!Sockets
<1>1. CASE Protect!Recognised(s)
  BY <1>1 DEF ProtectTypes, Protect!Recognised
<1>2. CASE Protect!Unrecognised(s)
  <2>1. PICK n : /\ n = (IF unheard[s] < MuteThreshold_protect THEN unheard[s] + 1 ELSE unheard[s])
                 /\ unheard' = [unheard EXCEPT ![s] = n] /\ muted' \subseteq muted \cup {s}
    BY <1>2 DEF Protect!Unrecognised
  <2>2. unheard[s] \in 0 .. MuteThreshold_protect
    BY DEF ProtectTypes
  <2>3. n \in 0 .. MuteThreshold_protect
    BY <2>1, <2>2, ProtectAssumption DEF ProtectAssumption
  <2> QED
    BY <2>1, <2>3 DEF ProtectTypes
<1> QED
  BY <1>1, <1>2

LEMMA ConsoleSteps ==
  ASSUME ProtectSafe, NEW d \in Cameras, NEW to_d \in Protect!States, Protect!Change(d, to_d)
  PROVE  ProtectSafe'
<1>1. /\ truth' = [truth EXCEPT ![d] = to_d]
      /\ wire' \in {wire, Append(wire, <<d, to_d>>)}
      /\ upSince' \subseteq upSince \cup {d}
      /\ UNCHANGED <<reg, socket, saying, requests, offline_protect, streamed, unheard, muted, sweep>>
  BY DEF Protect!Change, Protect!sockets, Protect!sweeper
<1>2. wire' \in Seq(Cameras \X Protect!States)
  <2>1. <<d, to_d>> \in Cameras \X Protect!States
    OBVIOUS
  <2>2. wire \in Seq(Cameras \X Protect!States)
    BY DEF ProtectSafe, ProtectTypes
  <2>3. Append(wire, <<d, to_d>>) \in Seq(Cameras \X Protect!States)
    BY <2>1, <2>2, AppendProperties
  <2> QED
    BY <1>1, <2>2, <2>3
<1>3. SweepTypes'
  BY <1>1 DEF ProtectSafe, SweepTypes
<1> QED
  BY <1>1, <1>2, <1>3 DEF ProtectSafe, ProtectTypes

LEMMA SocketSteps ==
  ASSUME ProtectSafe, NEW s \in Protect!Sockets,
         Protect!SocketStep(s) \/ Protect!Drop(s) \/ Protect!Mismatch(s) \/ Protect!HandleOther(s)
  PROVE  ProtectSafe'
<1>1. SweepTypes'
  <2>1. UNCHANGED sweep
    BY DEF Protect!SocketStep, Protect!Connect, Protect!Redial, Protect!Drop, Protect!Mismatch,
       Protect!HandleOther, Protect!sweeper
  <2> QED
    BY <2>1 DEF ProtectSafe, SweepTypes
<1>2. << >> \in Seq(Cameras \X Protect!States) /\ 0 \in 0 .. MuteThreshold_protect
  BY ProtectAssumption, EmptySeq DEF ProtectAssumption
<1>3. CASE Protect!Connect(s)
  <2>1. requests' \in 0 .. SweepRequests
    BY <1>3, RequestSweepTypes DEF Protect!Connect, ProtectSafe
  <2>2. /\ socket' = [socket EXCEPT ![s] = "up"] /\ unheard' = [unheard EXCEPT ![s] = 0]
        /\ wire' \in {wire, << >>}
        /\ UNCHANGED <<truth, reg, saying, offline_protect, streamed, upSince, muted>>
    BY <1>3 DEF Protect!Connect, Protect!world, Protect!registry
  <2> QED
    BY <1>1, <1>2, <2>1, <2>2 DEF ProtectSafe, ProtectTypes
<1>4. CASE Protect!Redial(s) \/ Protect!Drop(s) \/ Protect!Mismatch(s)
  <2>1. /\ socket' \in [Protect!Sockets -> {"dialling", "up", "waiting", "gone"}] /\ wire' \in {wire, << >>}
        /\ UNCHANGED <<truth, reg, saying, requests, offline_protect, streamed, upSince, unheard, muted>>
    BY <1>4 DEF Protect!Redial, Protect!Drop, Protect!Mismatch, Protect!world, Protect!registry,
       Protect!sweeper, ProtectSafe, ProtectTypes
  <2> QED
    BY <1>1, <1>2, <2>1 DEF ProtectSafe, ProtectTypes
<1>5. CASE Protect!HandleOther(s)
  <2>1. UNCHANGED <<truth, socket, wire, reg, streamed, upSince, saying, requests, offline_protect>>
    BY <1>5 DEF Protect!HandleOther, Protect!registry, Protect!sweeper
  <2>2. unheard' \in [Protect!Sockets -> 0 .. MuteThreshold_protect] /\ muted' \subseteq Protect!Sockets
    BY <1>5, HearingTypes DEF Protect!HandleOther, ProtectSafe
  <2> QED
    BY <1>1, <2>1, <2>2 DEF ProtectSafe, ProtectTypes
<1> QED
  BY <1>3, <1>4, <1>5 DEF Protect!SocketStep

LEMMA ReaderSteps == ASSUME ProtectSafe, Protect!Reader PROVE ProtectSafe'
<1>1. SweepTypes'
  <2>1. UNCHANGED sweep
    BY DEF Protect!Reader, Protect!HandleDevice, Protect!EmitState, Protect!sweeper
  <2> QED
    BY <2>1 DEF ProtectSafe, SweepTypes
<1>2. CASE Protect!HandleDevice
  <2>1. wire \in Seq(Cameras \X Protect!States) /\ wire # << >>
    BY <1>2 DEF Protect!HandleDevice, ProtectSafe, ProtectTypes
  <2>2. Head(wire) \in Cameras \X Protect!States /\ Tail(wire) \in Seq(Cameras \X Protect!States)
    BY <2>1, HeadTailProperties
  <2>3. PICK d, s : d = Head(wire)[1] /\ s = Head(wire)[2]
    OBVIOUS
  <2>4. d \in Cameras /\ s \in Protect!States
    BY <2>2, <2>3
  <2>5. PICK events : events = Protect!Emitted(d, reg[d], s)
    OBVIOUS
  <2>6. /\ reg' = [reg EXCEPT ![d] = Protect!Merge(d, s)] /\ streamed' \subseteq streamed \cup {d}
        /\ saying' = (IF events = {} THEN Absent ELSE CHOOSE e \in events : TRUE)
        /\ upSince' = Protect!Ghost(reg') /\ wire' = Tail(wire)
        /\ UNCHANGED <<truth, socket, requests, offline_protect>>
    BY <1>2, <2>3, <2>5 DEF Protect!HandleDevice, Protect!world, Protect!sweeper
  <2>7. events \subseteq [device : Cameras, clears : BOOLEAN]
    BY <2>4, <2>5, EmittedTypes
  <2>8. saying' \in [device : Cameras, clears : BOOLEAN] \cup {Absent}
    <3>1. CASE events = {}
      BY <2>6, <3>1
    <3>2. CASE events # {}
      <4>1. (CHOOSE e \in events : TRUE) \in events
        BY <3>2
      <4> QED
        BY <2>6, <2>7, <3>2, <4>1
    <3> QED
      BY <3>1, <3>2
  <2>9. upSince' \subseteq Cameras
    BY <2>6, GhostTypes DEF ProtectSafe
  <2>10. unheard' \in [Protect!Sockets -> 0 .. MuteThreshold_protect] /\ muted' \subseteq Protect!Sockets
    BY <1>2, HearingTypes DEF Protect!HandleDevice, Protect!Sockets, ProtectSafe
  <2>11. reg' \in [Cameras -> Protect!States \cup {Absent}]
    BY <2>4, <2>6, MergeTypes DEF ProtectSafe, ProtectTypes
  <2> QED
    BY <1>1, <2>2, <2>4, <2>6, <2>8, <2>9, <2>10, <2>11 DEF ProtectSafe, ProtectTypes
<1>3. CASE Protect!EmitState
  <2>1. /\ saying # Absent /\ Protect!Tell(saying) /\ saying' = Absent
        /\ UNCHANGED <<truth, reg, socket, wire, requests, streamed, upSince, unheard, muted>>
    BY <1>3 DEF Protect!EmitState, Protect!world, Protect!sockets, Protect!registry, Protect!sweeper
  <2>2. offline_protect' \subseteq Cameras
    BY <2>1, TellTypes DEF ProtectSafe, ProtectTypes
  <2> QED
    BY <1>1, <2>1, <2>2 DEF ProtectSafe, ProtectTypes
<1> QED
  BY <1>2, <1>3 DEF Protect!Reader

\* The sweep changes nothing of what the sockets hold.
SocketsKeep ==
  UNCHANGED <<truth, reg, socket, wire, saying, offline_protect, upSince, unheard, muted>>

\* A sweep is known by what its fields hold.
LEMMA SweepShape ==
  ASSUME NEW a \in {"idle", "debounce", "read", "hung", "emit"}, NEW l \in SUBSET Cameras, NEW g, NEW f,
         NEW t \in SUBSET [device : Cameras, clears : BOOLEAN],
         DOMAIN g \subseteq Cameras, \A d \in DOMAIN g : g[d] \in Protect!States,
         sweep' = [at |-> a, left |-> l, got |-> g, failed |-> f, todo |-> t]
  PROVE  SweepTypes'
BY DEF SweepTypes

LEMMA SweepBegins ==
  ASSUME ProtectSafe, Protect!SweepAsked \/ Protect!Debounced \/ Protect!SweepDue \/ Protect!SweepEnds
  PROVE  ProtectSafe'
<1>1. SocketsKeep /\ streamed' \in {streamed, {}}
  BY DEF SocketsKeep, Protect!SweepAsked, Protect!Debounced, Protect!SweepDue, Protect!SweepEnds, Protect!world,
     Protect!sockets, Protect!registry
<1>2. requests' \in 0 .. SweepRequests
  <2>1. requests' \in {0, requests} \/ (requests > 0 /\ requests' = requests - 1)
    BY DEF Protect!SweepAsked, Protect!Debounced, Protect!SweepDue, Protect!SweepEnds
  <2> QED
    BY <2>1, ProtectAssumption DEF ProtectAssumption, ProtectSafe, ProtectTypes
<1>3. ProtectTypes'
  BY <1>1, <1>2 DEF ProtectSafe, ProtectTypes, SocketsKeep
<1>4. CASE Protect!SweepAsked
  <2>1. sweep' = [sweep EXCEPT !.at = "debounce"]
    BY <1>4 DEF Protect!SweepAsked
  <2>2. sweep' = [at |-> "debounce", left |-> sweep.left, got |-> sweep.got, failed |-> sweep.failed,
                  todo |-> sweep.todo]
    BY <2>1 DEF ProtectSafe, SweepTypes
  <2> QED
    BY <1>3, <2>2, SweepShape DEF ProtectSafe, SweepTypes
<1>5. CASE Protect!Debounced \/ Protect!SweepDue
  <2>1. sweep' = [at |-> "read", left |-> Cameras, got |-> << >>, failed |-> FALSE, todo |-> {}]
    BY <1>5 DEF Protect!Debounced, Protect!SweepDue, Protect!Begun, Protect!Asleep
  <2> QED
    BY <1>3, <2>1 DEF ProtectSafe, SweepTypes
<1>6. CASE Protect!SweepEnds
  <2>1. sweep' = [at |-> "idle", left |-> {}, got |-> << >>, failed |-> FALSE, todo |-> {}]
    BY <1>6 DEF Protect!SweepEnds, Protect!Asleep
  <2> QED
    BY <1>3, <2>1 DEF ProtectSafe, SweepTypes
<1> QED
  BY <1>4, <1>5, <1>6

LEMMA SweepReads ==
  ASSUME ProtectSafe,
         \/ \E d \in Cameras : Protect!Read(d) \/ Protect!ReadFails(d)
         \/ Protect!ReadHangs \/ Protect!SweepTimesOut
  PROVE  ProtectSafe'
<1>1. SocketsKeep /\ UNCHANGED <<streamed, requests>>
  BY DEF SocketsKeep, Protect!Read, Protect!ReadFails, Protect!ReadHangs, Protect!SweepTimesOut, Protect!world,
     Protect!sockets, Protect!registry
<1>2. ProtectTypes'
  BY <1>1 DEF ProtectSafe, ProtectTypes, SocketsKeep
<1>3. ASSUME NEW d \in Cameras, Protect!Read(d)
      PROVE  SweepTypes'
  <2>1. PICK g : g = [x \in DOMAIN sweep.got \cup {d} |-> IF x = d THEN truth[d] ELSE sweep.got[x]]
    OBVIOUS
  <2>2. sweep.at = "read" /\ sweep' = [sweep EXCEPT !.left = sweep.left \ {d}, !.got = g]
    BY <1>3, <2>1 DEF Protect!Read
  <2>3. sweep' = [at |-> sweep.at, left |-> sweep.left \ {d}, got |-> g, failed |-> sweep.failed,
                  todo |-> sweep.todo]
    BY <2>2 DEF ProtectSafe, SweepTypes
  <2>4. DOMAIN g \subseteq Cameras /\ \A x \in DOMAIN g : g[x] \in Protect!States
    BY <2>1 DEF ProtectSafe, ProtectTypes, SweepTypes
  <2> QED
    BY SMTT(30), <2>3, <2>4, SweepShape DEF ProtectSafe, SweepTypes
<1>4. ASSUME NEW d \in Cameras, Protect!ReadFails(d)
      PROVE  SweepTypes'
  <2>1. sweep' = [sweep EXCEPT !.left = sweep.left \ {d}, !.failed = TRUE]
    BY <1>4 DEF Protect!ReadFails
  <2>2. sweep' = [at |-> sweep.at, left |-> sweep.left \ {d}, got |-> sweep.got, failed |-> TRUE,
                  todo |-> sweep.todo]
    BY <2>1 DEF ProtectSafe, SweepTypes
  <2> QED
    BY <2>2, SweepShape DEF ProtectSafe, SweepTypes
<1>5. CASE Protect!ReadHangs
  <2>1. sweep' = [sweep EXCEPT !.at = "hung"]
    BY <1>5 DEF Protect!ReadHangs
  <2>2. sweep' = [at |-> "hung", left |-> sweep.left, got |-> sweep.got, failed |-> sweep.failed,
                  todo |-> sweep.todo]
    BY <2>1 DEF ProtectSafe, SweepTypes
  <2> QED
    BY <1>2, <2>2, SweepShape DEF ProtectSafe, SweepTypes
<1>6. CASE Protect!SweepTimesOut
  <2>1. sweep' = [sweep EXCEPT !.at = "read", !.left = {}, !.failed = TRUE]
    BY <1>6 DEF Protect!SweepTimesOut
  <2>2. sweep' = [at |-> "read", left |-> {}, got |-> sweep.got, failed |-> TRUE, todo |-> sweep.todo]
    BY <2>1 DEF ProtectSafe, SweepTypes
  <2> QED
    BY <1>2, <2>2, SweepShape DEF ProtectSafe, SweepTypes
<1> QED
  BY SMTT(30), <1>2, <1>3, <1>4, <1>5, <1>6 DEF ProtectSafe

LEMMA SweepApplies == ASSUME ProtectSafe, Protect!Apply PROVE ProtectSafe'
<1> DEFINE news == DOMAIN sweep.got \ streamed
           said == UNION {Protect!Emitted(d, reg[d], sweep.got[d]) : d \in news}
<1>1. /\ reg' = [d \in Cameras |-> IF d \in news THEN Protect!Merge(d, sweep.got[d]) ELSE reg[d]]
      /\ sweep' = [sweep EXCEPT !.at = "emit", !.todo = said] /\ upSince' = Protect!Ghost(reg')
      /\ UNCHANGED <<truth, socket, wire, saying, offline_protect, unheard, muted, streamed, requests>>
  BY DEF Protect!Apply, Protect!ApplySweep, Protect!world, Protect!sockets
<1>2. news \subseteq Cameras /\ \A d \in news : sweep.got[d] \in Protect!States
  BY DEF ProtectSafe, SweepTypes
<1>3. said \subseteq [device : Cameras, clears : BOOLEAN]
  BY <1>2, EmittedTypes
<1> HIDE DEF news, said
<1>4. reg' \in [Cameras -> Protect!States \cup {Absent}]
  <2>1. ASSUME NEW d \in Cameras
        PROVE  (IF d \in news THEN Protect!Merge(d, sweep.got[d]) ELSE reg[d]) \in Protect!States \cup {Absent}
    BY <1>2, MergeTypes DEF ProtectSafe, ProtectTypes
  <2> QED
    BY <1>1, <2>1
<1>5. upSince' \subseteq Cameras
  BY <1>1, GhostTypes DEF ProtectSafe
<1>6. sweep' = [at |-> "emit", left |-> sweep.left, got |-> sweep.got, failed |-> sweep.failed, todo |-> said]
  BY <1>1 DEF ProtectSafe, SweepTypes
<1>7. SweepTypes'
  BY <1>3, <1>6 DEF ProtectSafe, SweepTypes
<1> QED
  BY <1>1, <1>4, <1>5, <1>7 DEF ProtectSafe, ProtectTypes

LEMMA SweepSays ==
  ASSUME ProtectSafe, NEW e \in [device : Cameras, clears : BOOLEAN], Protect!EmitTransition(e)
  PROVE  ProtectSafe'
<1>1. /\ Protect!Tell(e) /\ sweep' = [sweep EXCEPT !.todo = sweep.todo \ {e}]
      /\ UNCHANGED <<truth, reg, socket, wire, saying, requests, streamed, upSince, unheard, muted>>
  BY DEF Protect!EmitTransition, Protect!world, Protect!sockets, Protect!registry
<1>2. offline_protect' \subseteq Cameras
  BY <1>1, TellTypes DEF ProtectSafe
<1>3. sweep' = [at |-> sweep.at, left |-> sweep.left, got |-> sweep.got, failed |-> sweep.failed,
                todo |-> sweep.todo \ {e}]
  BY <1>1 DEF ProtectSafe, SweepTypes
<1>4. SweepTypes'
  BY <1>3 DEF ProtectSafe, SweepTypes
<1> QED
  BY <1>1, <1>2, <1>4 DEF ProtectSafe, ProtectTypes

LEMMA ProtectNext == ProtectSafe /\ [Protect!Next]_(Protect!vars) => ProtectSafe'
<1> SUFFICES ASSUME ProtectSafe, [Protect!Next]_(Protect!vars)
             PROVE  ProtectSafe'
  OBVIOUS
<1>1. CASE UNCHANGED Protect!vars
  BY <1>1 DEF Protect!vars, Protect!world, Protect!sockets, Protect!registry, Protect!sweeper,
     ProtectSafe, ProtectTypes, SweepTypes
<1>2. \A d \in Cameras, clears \in BOOLEAN : Protect!Told(d, clears) \in [device : Cameras, clears : BOOLEAN]
  BY DEF Protect!Told
<1>3. CASE Protect!Sweeper
  BY <1>2, <1>3, SweepBegins, SweepReads, SweepApplies, SweepSays DEF Protect!Sweeper
<1> QED
  BY <1>1, <1>3, ConsoleSteps, SocketSteps, ReaderSteps, SweepBegins, SweepReads DEF Protect!Next

LEMMA ProtectTyped == ProtectSafe => Protect!TypeOK
BY DEF ProtectSafe, ProtectTypes, SweepTypes, Protect!TypeOK

-----------------------------------------------------------------------------
(* The table of events in progress (ProtectEvents).                        *)

\* The table holds an event once, and no more than it may.
TableOK(q) ==
  /\ q \in Seq(Ids) /\ Len(q) <= MaxOpen
  /\ \A k, l \in 1 .. Len(q) : q[k] = q[l] => k = l

\* The oldest makes room.
LEMMA TailOnce ==
  ASSUME NEW q \in Seq(Ids), q # << >>, Len(q) <= MaxOpen + 1,
         \A k, l \in 1 .. Len(q) : q[k] = q[l] => k = l
  PROVE  TableOK(Tail(q))
<1>1. /\ Tail(q) \in Seq(Ids) /\ Len(Tail(q)) = Len(q) - 1
      /\ \A k \in 1 .. Len(Tail(q)) : Tail(q)[k] = q[k + 1]
  BY HeadTailProperties
<1>2. Len(q) \in Nat /\ MaxOpen \in Nat
  BY LenProperties, EventsAssumption DEF EventsAssumption
<1>3. ASSUME NEW k \in 1 .. Len(Tail(q)), NEW l \in 1 .. Len(Tail(q)), Tail(q)[k] = Tail(q)[l]
      PROVE  k = l
  <2>1. k + 1 \in 1 .. Len(q) /\ l + 1 \in 1 .. Len(q)
    BY <1>1, <1>2
  <2>2. q[k + 1] = q[l + 1]
    BY <1>1, <1>3
  <2>3. k + 1 = l + 1
    BY <2>1, <2>2
  <2> QED
    BY <1>1, <1>2, <2>3
<1>4. Len(Tail(q)) <= MaxOpen
  BY <1>1, <1>2
<1> QED
  BY <1>1, <1>3, <1>4 DEF TableOK

LEMMA PutOnce ==
  ASSUME TableOK(open_events), NEW i \in Ids, Events!PutOpen(i)
  PROVE  TableOK(open_events')
<1> DEFINE longer == IF Events!InTable(i) THEN open_events ELSE Append(open_events, i)
<1>1. open_events' = IF Len(longer) > MaxOpen THEN Tail(longer) ELSE longer
  BY DEF Events!PutOpen
<1>2. open_events \in Seq(Ids) /\ Len(open_events) \in Nat /\ MaxOpen \in Nat /\ Len(open_events) <= MaxOpen
  BY LenProperties, EventsAssumption DEF EventsAssumption, TableOK
<1>3. CASE Events!InTable(i)
  <2>1. open_events' = open_events
    BY <1>1, <1>2, <1>3
  <2> QED
    BY <2>1
<1>4. CASE ~Events!InTable(i)
  <2>1. PICK q : q = Append(open_events, i)
    OBVIOUS
  <2>2. /\ q \in Seq(Ids) /\ Len(q) = Len(open_events) + 1 /\ q[Len(open_events) + 1] = i
        /\ \A k \in 1 .. Len(open_events) : q[k] = open_events[k]
    BY <1>2, <2>1, AppendProperties
  <2>3. ASSUME NEW k \in 1 .. Len(q), NEW l \in 1 .. Len(q), q[k] = q[l]
        PROVE  k = l
    <3>1. \A j \in 1 .. Len(open_events) : open_events[j] # i
      BY <1>4 DEF Events!InTable
    <3>2. CASE k = Len(open_events) + 1
      <4>1. l \notin 1 .. Len(open_events)
        BY <2>2, <2>3, <3>1, <3>2
      <4> QED
        BY <1>2, <2>2, <3>2, <4>1
    <3>3. CASE l = Len(open_events) + 1
      <4>1. k \notin 1 .. Len(open_events)
        BY <2>2, <2>3, <3>1, <3>3
      <4> QED
        BY <1>2, <2>2, <3>3, <4>1
    <3>4. CASE k # Len(open_events) + 1 /\ l # Len(open_events) + 1
      <4>1. k \in 1 .. Len(open_events) /\ l \in 1 .. Len(open_events)
        BY <1>2, <2>2, <3>4
      <4>2. open_events[k] = open_events[l]
        BY <2>2, <2>3, <4>1
      <4> QED
        BY <4>1, <4>2 DEF TableOK
    <3> QED
      BY <3>2, <3>3, <3>4
  <2>4. longer = q
    BY <1>4, <2>1
  <2>5. CASE Len(q) > MaxOpen
    <3>1. q # << >> /\ Len(q) <= MaxOpen + 1
      BY <1>2, <2>2, EmptySeq
    <3> QED
      BY <1>1, <2>2, <2>3, <2>4, <2>5, <3>1, TailOnce
  <2>6. CASE ~(Len(q) > MaxOpen)
    <3>1. open_events' = q /\ Len(q) <= MaxOpen
      BY <1>1, <1>2, <2>2, <2>4, <2>6
    <3> QED
      BY <2>2, <2>3, <3>1 DEF TableOK
  <2> QED
    BY <2>5, <2>6
<1> QED
  BY <1>3, <1>4

\* What is left of a table without one of its events.
LEMMA WithoutOnce ==
  ASSUME TableOK(open_events), NEW i, Events!InTable(i), open_events' = Events!Without(i)
  PROVE  TableOK(open_events')
<1> DEFINE at0 == CHOOSE j \in 1 .. Len(open_events) : open_events[j] = i
<1>1. at0 \in 1 .. Len(open_events)
  BY DEF Events!InTable
<1>2. open_events' = SubSeq(open_events, 1, at0 - 1) \o SubSeq(open_events, at0 + 1, Len(open_events))
  BY DEF Events!Without, Events!RemoveAt
<1> HIDE DEF at0
<1>3. PICK n : n = Len(open_events)
  OBVIOUS
<1>4. n \in Nat /\ at0 \in 1 .. n /\ n <= MaxOpen /\ MaxOpen \in Nat /\ open_events \in Seq(Ids)
  BY <1>1, <1>3, LenProperties, EventsAssumption DEF EventsAssumption, TableOK
<1>5. PICK a : a = SubSeq(open_events, 1, at0 - 1)
  OBVIOUS
<1>6. PICK b : b = SubSeq(open_events, at0 + 1, n)
  OBVIOUS
<1>7. /\ a \in Seq(Ids) /\ Len(a) = at0 - 1 /\ \A k \in 1 .. at0 - 1 : a[k] = open_events[k]
  <2>1. /\ \A k \in 1 .. at0 - 1 : k \in 1 .. n
        /\ 1 \in Int /\ at0 - 1 \in Int /\ (1 <= at0 - 1 => 1 \in 1 .. n /\ at0 - 1 \in 1 .. n)
    BY <1>4
  <2>2. \A k \in 1 .. at0 - 1 : open_events[k] \in Ids
    BY <1>3, <1>4, <2>1, ElementOfSeq
  <2>3. /\ a \in Seq(Ids) /\ Len(a) = (IF 1 <= at0 - 1 THEN (at0 - 1) - 1 + 1 ELSE 0)
        /\ \A k \in 1 .. (at0 - 1) - 1 + 1 : a[k] = open_events[1 + k - 1]
    BY <1>3, <1>4, <1>5, <2>1, SubSeqProperties
  <2>4. \A k \in 1 .. at0 - 1 : 1 + k - 1 = k /\ k \in 1 .. (at0 - 1) - 1 + 1
    BY <1>4
  <2>5. Len(a) = at0 - 1
    BY <1>4, <2>3
  <2> QED
    BY <2>3, <2>4, <2>5
<1>8. /\ b \in Seq(Ids) /\ Len(b) = n - at0 /\ \A k \in 1 .. n - at0 : b[k] = open_events[at0 + k]
  <2>1. /\ at0 + 1 \in Int /\ n \in Int /\ (at0 + 1 <= n => at0 + 1 \in 1 .. n /\ n \in 1 .. n)
    BY <1>4
  <2>3. /\ b \in Seq(Ids) /\ Len(b) = (IF at0 + 1 <= n THEN n - (at0 + 1) + 1 ELSE 0)
        /\ \A k \in 1 .. n - (at0 + 1) + 1 : b[k] = open_events[at0 + 1 + k - 1]
    BY <1>3, <1>4, <1>6, <2>1, SubSeqProperties
  <2>4. \A k \in 1 .. n - at0 : at0 + 1 + k - 1 = at0 + k /\ k \in 1 .. n - (at0 + 1) + 1
    BY <1>4
  <2>5. Len(b) = n - at0
    BY <1>4, <2>3
  <2> QED
    BY <2>3, <2>4, <2>5
<1>9. open_events' = a \o b
  BY <1>2, <1>3, <1>5, <1>6
<1>10. /\ open_events' \in Seq(Ids) /\ Len(open_events') = Len(a) + Len(b)
       /\ \A k \in 1 .. Len(a) + Len(b) :
            (a \o b)[k] = IF k <= Len(a) THEN a[k] ELSE b[k - Len(a)]
  BY <1>7, <1>8, <1>9, ConcatProperties
<1>11. Len(open_events') = n - 1 /\ n - 1 <= MaxOpen
  BY SMTT(30), <1>4, <1>7, <1>8, <1>10
<1>12. ASSUME NEW k \in 1 .. n - 1
       PROVE  open_events'[k] = open_events[IF k < at0 THEN k ELSE k + 1]
  <2>1. k \in 1 .. Len(a) + Len(b) /\ Len(a) = at0 - 1
    BY <1>4, <1>7, <1>8
  <2>2. CASE k < at0
    <3>1. k <= Len(a) /\ k \in 1 .. at0 - 1
      BY <1>4, <2>1, <2>2
    <3> QED
      BY <1>7, <1>9, <1>10, <2>1, <2>2, <3>1
  <2>3. CASE ~(k < at0)
    <3>1. ~(k <= Len(a)) /\ k - Len(a) \in 1 .. n - at0 /\ at0 + (k - Len(a)) = k + 1
      BY <1>4, <2>1, <2>3
    <3>2. open_events'[k] = b[k - Len(a)]
      BY <1>9, <1>10, <2>1, <3>1
    <3> QED
      BY <1>8, <2>3, <3>1, <3>2
  <2> QED
    BY <2>2, <2>3
<1>13. ASSUME NEW k \in 1 .. n - 1, NEW l \in 1 .. n - 1, open_events'[k] = open_events'[l]
       PROVE  k = l
  <2>1. PICK x : x = IF k < at0 THEN k ELSE k + 1
    OBVIOUS
  <2>2. PICK y : y = IF l < at0 THEN l ELSE l + 1
    OBVIOUS
  <2>3. x \in 1 .. n /\ y \in 1 .. n
    BY <1>4, <2>1, <2>2
  <2>4. open_events[x] = open_events[y]
    BY <1>12, <1>13, <2>1, <2>2
  <2>5. x = y
    BY <1>3, <2>3, <2>4 DEF TableOK
  <2> QED
    BY <1>4, <2>1, <2>2, <2>5
<1> QED
  BY <1>10, <1>11, <1>13 DEF TableOK

LEMMA TableInit == Events!Init => TableOK(open_events)
BY EmptySeq, EventsAssumption DEF EventsAssumption, Events!Init, TableOK

LEMMA TableNext ==
  TableOK(open_events) /\ [Events!Next]_(Events!vars) => TableOK(open_events')
<1> SUFFICES ASSUME TableOK(open_events), [Events!Next]_(Events!vars)
             PROVE  TableOK(open_events')
  OBVIOUS
<1>1. CASE UNCHANGED open_events
  BY <1>1
<1>2. ASSUME NEW i \in Ids, NEW ended, Events!Typed(i, ended)
      PROVE  TableOK(open_events')
  BY <1>1, <1>2, PutOnce DEF Events!Typed
<1>3. ASSUME NEW i \in Ids, Events!Untyped(i)
      PROVE  TableOK(open_events')
  BY <1>1, <1>3, WithoutOnce DEF Events!Untyped
<1> QED
  BY <1>1, <1>2, <1>3
     DEF Events!Next, Events!vars, Events!Start, Events!End, Events!Again, Events!Lose

LEMMA EventsTyped == TableOK(open_events) => Events!TypeOK
BY DEF TableOK, Events!TypeOK

-----------------------------------------------------------------------------
(* What is told of the door (AccessDoors).                                 *)

\* Only conditions of the source's own are told, and each frame that could not be
\* read spent a fault.
DoorsRanges ==
  /\ now_doors \in 0 .. Horizon_doors /\ told_doors \subseteq {"forced", "held", "unlocked"}
  /\ faults \in 0 .. MaxFaults /\ unrecognised \in 0 .. faults

LEMMA DoorsRangesInit == Doors!Init => DoorsRanges
BY DoorsAssumption DEF DoorsAssumption, Doors!Init, DoorsRanges

LEMMA TellRanges ==
  ASSUME DoorsRanges, NEW d, Doors!Tell(d)
  PROVE  told_doors' \subseteq {"forced", "held", "unlocked"}
<1>1. \A e : Doors!Derived(e) \subseteq {"forced", "held"}
  BY DEF Doors!Derived
<1>2. told_doors' \subseteq told_doors \cup Doors!Derived(d)
  BY DEF Doors!Tell
<1> QED
  BY <1>1, <1>2 DEF DoorsRanges

LEMMA DoorsRangesNext == DoorsRanges /\ [Doors!Next]_(Doors!vars) => DoorsRanges'
<1> SUFFICES ASSUME DoorsRanges, [Doors!Next]_(Doors!vars)
             PROVE  DoorsRanges'
  OBVIOUS
<1>1. CASE Doors!Elapse
  <2>1. now_doors' \in 0 .. Horizon_doors
    BY <1>1, DoorsAssumption DEF DoorsAssumption, DoorsRanges, Doors!Elapse
  <2> QED
    BY <1>1, <2>1 DEF DoorsRanges, Doors!Elapse, Doors!health
<1>2. CASE Doors!TurnLock \/ Doors!SwitchMode \/ Doors!Swing \/ Doors!List \/ Doors!Reconnect
  BY <1>2 DEF DoorsRanges, Doors!TurnLock, Doors!SwitchMode, Doors!Swing, Doors!List, Doors!Reconnect,
              Doors!health, Doors!world
<1>3. CASE Doors!HandleFrame
  <2>1. /\ told_doors' \subseteq told_doors \cup {"unlocked"}
        /\ UNCHANGED <<now_doors, faults, unrecognised>>
    BY <1>3 DEF Doors!HandleFrame, Doors!ObserveLock
  <2> QED
    BY <2>1 DEF DoorsRanges
<1>4. CASE Doors!DropSocket \/ Doors!HandleUnreadable
  <2>1. /\ faults < MaxFaults /\ faults' = faults + 1 /\ unrecognised' \in {unrecognised, unrecognised + 1}
        /\ UNCHANGED <<now_doors, told_doors>>
    BY <1>4 DEF Doors!DropSocket, Doors!HandleUnreadable, Doors!health
  <2>2. faults \in Nat /\ MaxFaults \in Nat /\ unrecognised \in Nat /\ unrecognised <= faults
    BY DoorsAssumption DEF DoorsAssumption, DoorsRanges
  <2>3. faults' \in 0 .. MaxFaults /\ unrecognised' \in 0 .. faults'
    BY <2>1, <2>2
  <2> QED
    BY <2>1, <2>3 DEF DoorsRanges
<1>5. CASE Doors!Poll \/ Doors!PollUnlisted \/ Doors!PollFails
  <2>1. told_doors' = told_doors \/ \E d : Doors!Tell(d)
    BY <1>5 DEF Doors!Poll, Doors!PollUnlisted, Doors!PollFails
  <2>2. told_doors' \subseteq {"forced", "held", "unlocked"}
    BY <2>1, TellRanges DEF DoorsRanges
  <2>3. /\ UNCHANGED <<now_doors, unrecognised>>
        /\ faults' = faults \/ (faults < MaxFaults /\ faults' = faults + 1)
    BY <1>5 DEF Doors!Poll, Doors!PollUnlisted, Doors!PollFails, Doors!health
  <2>4. faults \in Nat /\ MaxFaults \in Nat /\ unrecognised \in Nat /\ unrecognised <= faults /\ faults <= MaxFaults
    BY DoorsAssumption DEF DoorsAssumption, DoorsRanges
  <2>5. faults' \in 0 .. MaxFaults /\ unrecognised' \in 0 .. faults'
    BY <2>3, <2>4
  <2> QED
    BY <2>2, <2>3, <2>5 DEF DoorsRanges
<1>6. CASE UNCHANGED Doors!vars
  BY <1>6 DEF Doors!vars, Doors!world, Doors!health, DoorsRanges
<1> QED
  BY <1>1, <1>2, <1>3, <1>4, <1>5, <1>6 DEF Doors!Next

\* There is one door: what is known of it is one state, or none.
LEMMA DoorsTyped == DoorsSafe /\ DoorsRanges => Doors!TypeOK
<1> SUFFICES ASSUME DoorsSafe, DoorsRanges
             PROVE  Doors!TypeOK
  OBVIOUS
<1>1. Doors!Cardinality(state) <= 1
  <2>1. Doors!Cardinality(state) = Cardinality(state)
    BY DEF Doors!Cardinality, Cardinality
  <2>2. CASE state = {}
    BY <2>1, <2>2, FS_EmptySet
  <2>3. CASE state # {}
    <3>1. PICK d \in state : state = {d}
      BY <2>3 DEF DoorsSafe, DoorTypes
    <3>2. Cardinality({d}) = 1
      BY FS_Singleton
    <3> QED
      BY <2>1, <3>1, <3>2
  <2> QED
    BY <2>2, <2>3
<1>2. unrecognised \in 0 .. MaxFaults
  BY DoorsAssumption DEF DoorsAssumption, DoorsRanges
<1> QED
  BY <1>1, <1>2 DEF DoorsRanges, Doors!TypeOK

-----------------------------------------------------------------------------
(* How often a row is emitted (AccessLog).                                 *)

\* A row is emitted at most once for each restart and each poll; polls are at
\* least an instant apart.
LogRanges ==
  /\ now_log \in 0 .. Horizon_log /\ restarts \in 0 .. MaxRestarts_log
  /\ polled_log = Log!Never \/ polled_log \in 0 .. now_log
  /\ from <= now_log
  /\ \A r \in Rows : emitted[r] <= restarts + (IF polled_log = Log!Never THEN now_log ELSE polled_log + 1)

LEMMA LogRangesInit == Log!Init => LogRanges
BY LogAssumption DEF LogAssumption, Log!Init, LogRanges, Log!Never

LEMMA LogRangesPoll ==
  ASSUME LogTypes, LogRanges, NEW failing \in SUBSET Log!Topics, Log!Poll(failing)
  PROVE  LogRanges'
<1>1. /\ now_log - polled_log >= PollEvery_log /\ polled_log' = now_log
      /\ from' \in {from, Log!Since} /\ UNCHANGED <<now_log, restarts>>
      /\ \A r \in Rows : emitted'[r] \in {emitted[r], emitted[r] + 1}
  BY DEF Log!Poll, Log!Record
<1>2. /\ now_log \in Nat /\ restarts \in Nat /\ watermark \in Int /\ watermark <= now_log /\ Overlap \in Nat
      /\ from \in Int /\ from <= now_log /\ PollEvery_log \in Nat /\ PollEvery_log >= 1
      /\ \A r \in Rows : emitted[r] \in Nat
  BY LogAssumption DEF LogAssumption, LogTypes, LogRanges, Log!Never
<1>3. from' <= now_log
  <2>1. Log!Since <= now_log
    BY <1>2 DEF Log!Since
  <2> QED
    BY <1>1, <1>2, <2>1
<1>4. now_log # Log!Never /\ now_log \in 0 .. now_log
  BY <1>2 DEF Log!Never
<1>5. ASSUME NEW r \in Rows PROVE emitted'[r] <= restarts + (now_log + 1)
  <2>1. emitted[r] + 1 <= restarts + (now_log + 1)
    <3>1. CASE polled_log = Log!Never
      BY <1>2, <3>1 DEF LogRanges
    <3>2. CASE polled_log # Log!Never
      <4>1. polled_log \in Nat /\ polled_log + 1 <= now_log
        BY <1>1, <1>2, <3>2 DEF LogRanges
      <4>2. emitted[r] <= restarts + (polled_log + 1)
        BY <3>2 DEF LogRanges
      <4> QED
        BY <1>2, <4>1, <4>2
    <3> QED
      BY <3>1, <3>2
  <2> QED
    BY <1>1, <1>2, <2>1
<1> QED
  BY <1>1, <1>3, <1>4, <1>5 DEF LogRanges

LEMMA LogRangesNext == LogSafe /\ LogRanges /\ [Log!Next]_(Log!vars) => LogRanges'
<1> SUFFICES ASSUME LogTypes, LogRanges, [Log!Next]_(Log!vars)
             PROVE  LogRanges'
  BY DEF LogSafe
<1>1. /\ now_log \in Nat /\ restarts \in Nat /\ Horizon_log \in Nat /\ MaxRestarts_log \in Nat
      /\ from \in Int /\ \A r \in Rows : emitted[r] \in Nat
  BY LogAssumption DEF LogAssumption, LogTypes, LogRanges
<1>2. CASE Log!Elapse
  <2>1. /\ now_log < Horizon_log /\ now_log' = now_log + 1 /\ UNCHANGED <<restarts, polled_log, emitted, from>>
    BY <1>2 DEF Log!Elapse
  <2>2. now_log' \in 0 .. Horizon_log /\ from <= now_log'
    BY <1>1, <2>1 DEF LogRanges
  <2>3. polled_log' = Log!Never \/ polled_log' \in 0 .. now_log'
    BY <1>1, <2>1 DEF LogRanges
  <2>4. ASSUME NEW r \in Rows
        PROVE  emitted[r] <= restarts + (IF polled_log = Log!Never THEN now_log' ELSE polled_log + 1)
    <3>1. CASE polled_log = Log!Never
      BY <1>1, <2>1, <3>1 DEF LogRanges
    <3>2. CASE polled_log # Log!Never
      BY <3>2 DEF LogRanges
    <3> QED
      BY <3>1, <3>2
  <2> QED
    BY <2>1, <2>2, <2>3, <2>4 DEF LogRanges
<1>3. CASE Log!Restart
  <2>1. /\ restarts < MaxRestarts_log /\ restarts' = restarts + 1 /\ polled_log' = Log!Never
        /\ from' = Log!Never /\ UNCHANGED <<now_log, emitted>>
    BY <1>3 DEF Log!Restart
  <2>2. restarts' \in 0 .. MaxRestarts_log /\ from' <= now_log
    BY <1>1, <2>1 DEF Log!Never
  <2>3. ASSUME NEW r \in Rows PROVE emitted[r] <= restarts' + now_log
    <3>1. CASE polled_log = Log!Never
      <4>1. emitted[r] <= restarts + now_log
        BY <3>1 DEF LogRanges
      <4> QED
        BY <1>1, <2>1, <4>1
    <3>2. CASE polled_log # Log!Never
      <4>1. emitted[r] <= restarts + (polled_log + 1) /\ polled_log \in Nat /\ polled_log <= now_log
        BY <1>1, <3>2 DEF LogRanges
      <4> QED
        BY <1>1, <2>1, <4>1
    <3> QED
      BY <3>1, <3>2
  <2> QED
    BY <2>1, <2>2, <2>3 DEF LogRanges
<1>4. ASSUME NEW r \in Rows, Log!Write(r) PROVE LogRanges'
  BY <1>4 DEF Log!Write, LogRanges
<1>5. CASE UNCHANGED Log!vars
  BY <1>5 DEF Log!vars, Log!log, LogRanges
<1> QED
  BY <1>2, <1>3, <1>4, <1>5, LogRangesPoll DEF Log!Next

LEMMA LogTyped == LogSafe /\ LogRanges => Log!TypeOK
<1> SUFFICES ASSUME LogTypes, LogRanges
             PROVE  Log!TypeOK
  BY DEF LogSafe
<1>1. ASSUME NEW r \in Rows PROVE emitted[r] \in 0 .. 1 + Horizon_log + MaxRestarts_log
  <2>1. /\ now_log \in Nat /\ now_log <= Horizon_log /\ restarts \in Nat /\ restarts <= MaxRestarts_log
        /\ Horizon_log \in Nat /\ MaxRestarts_log \in Nat /\ emitted[r] \in Nat
    BY LogAssumption DEF LogAssumption, LogTypes, LogRanges
  <2>2. CASE polled_log = Log!Never
    <3>1. emitted[r] <= restarts + now_log
      BY <2>2 DEF LogRanges
    <3> QED
      BY <2>1, <3>1
  <2>3. CASE polled_log # Log!Never
    <3>1. emitted[r] <= restarts + (polled_log + 1) /\ polled_log \in Nat /\ polled_log <= now_log
      BY <2>1, <2>3 DEF LogRanges
    <3> QED
      BY <2>1, <3>1
  <2> QED
    BY <2>2, <2>3
<1> QED
  BY <1>1 DEF LogTypes, LogRanges, Log!TypeOK

-----------------------------------------------------------------------------
(* What a poll has read (NetworkDevices).                                  *)

\* A poll goes from the sites to one site after another, reading devices; what is
\* remembered or sent is about devices.
PollShape ==
  \/ poll = Network!Idle
  \/ poll = [step |-> "sites"]
  \/ /\ poll = [step |-> "site", site |-> poll.site, left |-> poll.left, page |-> poll.page,
                offset |-> poll.offset, read |-> poll.read, present |-> poll.present, failed |-> poll.failed]
     /\ DOMAIN poll.read \subseteq Network!Devices

NetworkRanges ==
  /\ now_network \in 0 .. Horizon_network /\ status \in [Network!Devices -> Network!Readings]
  /\ listed_network \subseteq Network!Devices /\ DOMAIN by \subseteq Network!Devices
  /\ offline_network \subseteq Network!Devices
  /\ contact = Network!Never \/ contact \in 0 .. now_network
  /\ PollShape

LEMMA OnSiteShape ==
  ASSUME NEW left_, NEW present_, NEW failed_, poll' = Network!OnSite(left_, present_, failed_)
  PROVE  PollShape'
<1>1. PICK s, t : poll' = [step |-> "site", site |-> s, left |-> t, page |-> 0, offset |-> 0, read |-> << >>,
                           present |-> present_, failed |-> failed_]
  BY DEF Network!OnSite
<1>2. poll'.read = << >>
  BY <1>1
<1> QED
  BY <1>1, <1>2 DEF PollShape

LEMMA NetworkRangesInit == Network!Init => NetworkRanges
<1> SUFFICES ASSUME Network!Init PROVE NetworkRanges
  OBVIOUS
<1>1. by = << >>
  BY Zenon DEF Network!Init
<1>2. DOMAIN by = {}
  BY <1>1
<1>3. /\ now_network = 0 /\ poll = Network!Idle /\ contact = Network!Never /\ offline_network = {}
      /\ listed_network = Network!Devices
      /\ status \in [Network!Devices -> {"online", "offline"}]
  BY Zenon DEF Network!Init
<1>4. now_network \in 0 .. Horizon_network
  BY <1>3, NetworkAssumption DEF NetworkAssumption
<1> QED
  BY <1>2, <1>3, <1>4 DEF NetworkRanges, PollShape, Network!Readings

LEMMA RangesElapse == ASSUME NetworkRanges, Network!Elapse PROVE NetworkRanges'
<1>1. /\ now_network < Horizon_network /\ now_network' = now_network + 1
      /\ UNCHANGED <<status, listed_network, poll, by, contact, offline_network>>
  BY DEF Network!Elapse
<1>2. now_network \in Nat /\ Horizon_network \in Nat
  BY NetworkAssumption DEF NetworkAssumption, NetworkRanges
<1>3. now_network' \in 0 .. Horizon_network /\ (contact = Network!Never \/ contact \in 0 .. now_network')
  BY <1>1, <1>2 DEF NetworkRanges
<1> QED
  BY <1>1, <1>3 DEF NetworkRanges, PollShape

LEMMA RangesChange == ASSUME NetworkRanges, Network!Change PROVE NetworkRanges'
<1>1. UNCHANGED <<now_network, poll, by, contact, offline_network>>
  BY DEF Network!Change
<1>2. status' \in [Network!Devices -> Network!Readings] /\ listed_network' \subseteq Network!Devices
  BY DEF Network!Change, NetworkRanges
<1> QED
  BY <1>1, <1>2 DEF NetworkRanges, PollShape

\* The steps of a poll that take nothing of what it read.
LEMMA RangesPolls ==
  ASSUME NetworkRanges, Network!Begin \/ Network!SitesFail \/ Network!SitesRead \/ Network!SiteFails
  PROVE  NetworkRanges'
<1>1. UNCHANGED <<now_network, status, listed_network, contact>>
  BY DEF Network!Begin, Network!SitesFail, Network!SitesRead, Network!SiteFails, Network!console
<1>2. PollShape'
  <2>1. CASE Network!Begin
    BY <2>1 DEF Network!Begin, PollShape
  <2>2. CASE Network!SitesFail
    BY <2>2 DEF Network!SitesFail, PollShape
  <2>3. CASE Network!SitesRead
    BY <2>3, OnSiteShape DEF Network!SitesRead
  <2>4. CASE Network!SiteFails
    BY <2>4, OnSiteShape DEF Network!SiteFails
  <2> QED
    BY <2>1, <2>2, <2>3, <2>4
<1>3. DOMAIN by' = DOMAIN by /\ offline_network' \subseteq offline_network \cup DOMAIN by'
  <2>1. CASE Network!SitesFail
    BY <2>1 DEF Network!SitesFail, Network!Tick, Network!RaisedIn
  <2>2. CASE UNCHANGED <<by, offline_network>>
    BY <2>2
  <2> QED
    BY <2>1, <2>2 DEF Network!Begin, Network!SitesRead, Network!SiteFails
<1> QED
  BY <1>1, <1>2, <1>3 DEF NetworkRanges

LEMMA RangesPage == ASSUME NetworkRanges, Network!Page PROVE NetworkRanges'
<1>1. UNCHANGED <<now_network, status, listed_network, contact, offline_network>> /\ poll.step = "site"
  BY DEF Network!Page, Network!console
<1>2. DOMAIN poll.read \subseteq Network!Devices
      /\ poll = [step |-> "site", site |-> poll.site, left |-> poll.left, page |-> poll.page,
                 offset |-> poll.offset, read |-> poll.read, present |-> poll.present, failed |-> poll.failed]
  BY <1>1 DEF NetworkRanges, PollShape, Network!Idle
<1>3. PICK items : items = Network!PageOf(Network!ListOf(poll.site), poll.offset)
  OBVIOUS
<1>4. items \subseteq Network!Devices
  BY <1>3 DEF NetworkRanges, Network!PageOf, Network!ListOf
<1>5. PICK read : read = [d \in DOMAIN poll.read \cup items |-> IF d \in items THEN status[d] ELSE poll.read[d]]
  OBVIOUS
<1>6. DOMAIN read \subseteq Network!Devices
  BY <1>2, <1>4, <1>5
<1>7. \/ Network!SiteDone(read)
      \/ /\ UNCHANGED by
         /\ \E o : poll' = [poll EXCEPT !.page = poll.page + 1, !.offset = o, !.read = read]
  BY <1>3, <1>5 DEF Network!Page
<1>8. CASE Network!SiteDone(read)
  <2>1. DOMAIN by' = DOMAIN by \cup DOMAIN read
    BY <1>8 DEF Network!SiteDone, Network!Observe
  <2>2. PollShape'
    BY <1>8, OnSiteShape DEF Network!SiteDone
  <2> QED
    BY <1>1, <1>6, <2>1, <2>2 DEF NetworkRanges
<1>9. ASSUME UNCHANGED by, NEW o, poll' = [poll EXCEPT !.page = poll.page + 1, !.offset = o, !.read = read]
      PROVE  NetworkRanges'
  <2>1. PICK n : n = poll.page + 1
    OBVIOUS
  <2>2. poll' = [step |-> "site", site |-> poll.site, left |-> poll.left, page |-> n,
                 offset |-> o, read |-> read, present |-> poll.present, failed |-> poll.failed]
    <3>1. PICK a, b, c, d, e, f, g :
            poll = [step |-> "site", site |-> a, left |-> b, page |-> c, offset |-> d, read |-> e,
                    present |-> f, failed |-> g]
      BY <1>2
    <3>2. poll' = [[[poll EXCEPT !.page = n] EXCEPT !.offset = o] EXCEPT !.read = read]
      BY <1>9, <2>1
    <3>3. [poll EXCEPT !.page = n] =
            [step |-> "site", site |-> a, left |-> b, page |-> n, offset |-> d, read |-> e,
             present |-> f, failed |-> g]
      BY <3>1
    <3>4. poll' = [step |-> "site", site |-> a, left |-> b, page |-> n, offset |-> o, read |-> read,
                   present |-> f, failed |-> g]
      BY <3>2, <3>3
    <3> QED
      BY <3>1, <3>4
  <2>3. poll'.read = read
    BY <2>2
  <2>4. PollShape'
    BY <1>6, <2>2, <2>3 DEF PollShape
  <2> QED
    BY <1>1, <1>9, <2>4 DEF NetworkRanges
<1> QED
  BY <1>7, <1>8, <1>9

LEMMA RangesEndPoll == ASSUME NetworkRanges, Network!EndPoll PROVE NetworkRanges'
<1>1. /\ by' = Network!Tick(Network!ForgetUnlisted, now_network) /\ offline_network' = Network!RaisedIn(by')
      /\ contact' \in {contact, now_network} /\ poll' = Network!Idle
      /\ UNCHANGED <<now_network, status, listed_network>>
  BY DEF Network!EndPoll, Network!console
<1>2. DOMAIN by' \subseteq DOMAIN by
  <2>1. DOMAIN Network!ForgetUnlisted \subseteq DOMAIN by
    BY DEF Network!ForgetUnlisted, Network!Forget
  <2> QED
    BY <1>1, <2>1 DEF Network!Tick
<1>3. offline_network' \subseteq DOMAIN by'
  BY <1>1 DEF Network!RaisedIn
<1>4. contact' = Network!Never \/ contact' \in 0 .. now_network
  BY <1>1 DEF NetworkRanges
<1> QED
  BY <1>1, <1>2, <1>3, <1>4 DEF NetworkRanges, PollShape

LEMMA NetworkRangesNext == NetworkRanges /\ [Network!Next]_(Network!vars) => NetworkRanges'
<1>1. NetworkRanges /\ UNCHANGED Network!vars => NetworkRanges'
  BY DEF Network!vars, Network!console, NetworkRanges, PollShape
<1> QED
  BY <1>1, RangesElapse, RangesChange, RangesPolls, RangesPage, RangesEndPoll DEF Network!Next

LEMMA NetworkTyped == NetworkRanges => Network!TypeOK
BY DEF NetworkRanges, Network!TypeOK

-----------------------------------------------------------------------------
(* Ages, and what is yet to be said (PeerLiveness).                        *)

\* No age passes the bound, and what the check has yet to say of a peer is one thing.
WatchRanges ==
  /\ heard \subseteq Peers /\ raised \subseteq Peers /\ open_watch \subseteq Peers /\ alive \subseteq Peers
  /\ quiet \in [Peers -> 0 .. MaxAge] /\ since \in [Peers -> 0 .. MaxAge] /\ uptime \in 0 .. MaxAge
  /\ edges \subseteq [peer : Peers, up : BOOLEAN]
  /\ \A p \in Peers : ~([peer |-> p, up |-> TRUE] \in edges /\ [peer |-> p, up |-> FALSE] \in edges)

LEMMA WatchRangesInit == Watch!Init => WatchRanges
<1>1. 0 \in 0 .. MaxAge
  BY WatchAssumption DEF WatchAssumption
<1> QED
  BY <1>1 DEF Watch!Init, WatchRanges

LEMMA OlderInRange == ASSUME NEW age \in 0 .. MaxAge PROVE Watch!Older(age) \in 0 .. MaxAge
BY WatchAssumption DEF WatchAssumption, Watch!Older

\* Whom a check finds late is paired, and what it takes back is of peers that are not.
LEMMA CheckRanges == ASSUME WatchRanges, paired \subseteq Peers, Watch!Check PROVE WatchRanges'
<1> DEFINE late == {p \in paired \ raised : Watch!Quiet(p) > Watch!EffectiveWindow(p)}
           former == raised \ paired
<1>1. /\ edges' = {[peer |-> p, up |-> FALSE] : p \in late} \cup {[peer |-> p, up |-> TRUE] : p \in former}
      /\ raised' = (raised \cup late) \ former /\ heard' = heard \ former
      /\ UNCHANGED <<open_watch, alive, quiet, since, uptime>>
  BY DEF Watch!Check, Watch!peer
<1>2. late \subseteq paired /\ late \subseteq Peers /\ former \subseteq Peers /\ former \cap paired = {}
  BY DEF WatchRanges
<1> HIDE DEF late, former
<1>3. edges' \subseteq [peer : Peers, up : BOOLEAN]
  <2>1. \A p \in Peers, b \in BOOLEAN : [peer |-> p, up |-> b] \in [peer : Peers, up : BOOLEAN]
    OBVIOUS
  <2>2. /\ {[peer |-> p, up |-> FALSE] : p \in late} \subseteq [peer : Peers, up : BOOLEAN]
        /\ {[peer |-> p, up |-> TRUE] : p \in former} \subseteq [peer : Peers, up : BOOLEAN]
    BY <1>2, <2>1
  <2> QED
    BY <1>1, <2>2
<1>4. ASSUME NEW p \in Peers, [peer |-> p, up |-> TRUE] \in edges', [peer |-> p, up |-> FALSE] \in edges'
      PROVE  FALSE
  <2>1. p \in former
    <3>1. PICK e : e = [peer |-> p, up |-> TRUE]
      OBVIOUS
    <3>2. e.peer = p /\ e.up
      BY <3>1
    <3>3. e \in {[peer |-> q, up |-> FALSE] : q \in late} \cup {[peer |-> q, up |-> TRUE] : q \in former}
      BY <1>1, <1>4, <3>1
    <3>4. \A q : [peer |-> q, up |-> FALSE].up = FALSE /\ [peer |-> q, up |-> TRUE].peer = q
      OBVIOUS
    <3> QED
      BY <3>2, <3>3, <3>4
  <2>2. p \in late
    <3>1. PICK e : e = [peer |-> p, up |-> FALSE]
      OBVIOUS
    <3>2. e.peer = p /\ ~e.up
      BY <3>1
    <3>3. e \in {[peer |-> q, up |-> FALSE] : q \in late} \cup {[peer |-> q, up |-> TRUE] : q \in former}
      BY <1>1, <1>4, <3>1
    <3>4. \A q : [peer |-> q, up |-> TRUE].up = TRUE /\ [peer |-> q, up |-> FALSE].peer = q
      OBVIOUS
    <3> QED
      BY <3>2, <3>3, <3>4
  <2> QED
    BY <1>2, <2>1, <2>2
<1> QED
  BY <1>1, <1>2, <1>3, <1>4 DEF WatchRanges

LEMMA WatchRangesNext ==
  WatchSafe /\ WatchRanges /\ [Watch!Next]_(Watch!vars) => WatchRanges'
<1> SUFFICES ASSUME WatchSafe, WatchRanges, [Watch!Next]_(Watch!vars)
             PROVE  WatchRanges'
  OBVIOUS
<1>1. 0 \in 0 .. MaxAge /\ paired \subseteq Peers
  BY WatchAssumption DEF WatchAssumption, WatchSafe, WatchTypes
<1>2. CASE Watch!Check
  BY <1>1, <1>2, CheckRanges
<1>3. CASE Watch!Raise \/ Watch!Unraise
  <2>1. PICK e \in edges : edges' = edges \ {e} /\ open_watch' \in {open_watch \cup {e.peer}, open_watch \ {e.peer}}
    BY <1>3 DEF Watch!Raise, Watch!Unraise
  <2>2. e.peer \in Peers /\ UNCHANGED <<heard, raised, alive, quiet, since, uptime>>
    BY <1>3 DEF Watch!Raise, Watch!Unraise, Watch!peer, WatchRanges
  <2> QED
    BY <2>1, <2>2 DEF WatchRanges
<1>4. CASE Watch!Tick
  <2>1. /\ quiet' = [p \in Peers |-> Watch!Older(quiet[p])] /\ uptime' = Watch!Older(uptime)
        /\ since' = [p \in Peers |-> Watch!Older(since[p])]
        /\ UNCHANGED <<heard, raised, open_watch, alive, edges>>
    BY <1>4 DEF Watch!Tick
  <2>2. \A p \in Peers : quiet[p] \in 0 .. MaxAge /\ since[p] \in 0 .. MaxAge
    BY DEF WatchRanges
  <2>3. quiet' \in [Peers -> 0 .. MaxAge] /\ since' \in [Peers -> 0 .. MaxAge] /\ uptime' \in 0 .. MaxAge
    BY <2>1, <2>2, OlderInRange DEF WatchRanges
  <2> QED
    BY <2>1, <2>3 DEF WatchRanges
<1>5. CASE Watch!Restart
  BY <1>1, <1>5 DEF Watch!Restart, Watch!peer, WatchRanges
<1>6. ASSUME NEW p \in Peers, Watch!Request(p) PROVE WatchRanges'
  <2>1. /\ heard' \subseteq heard \cup {p} /\ raised' \subseteq raised /\ open_watch' \subseteq open_watch
        /\ quiet' \in {quiet, [quiet EXCEPT ![p] = 0]} /\ since' \in {since, [since EXCEPT ![p] = 0]}
        /\ UNCHANGED <<alive, uptime, edges>>
    BY <1>6 DEF Watch!Request, Watch!Resolve, Watch!ReadWindow, Watch!Contact, Watch!Close, Watch!Reply,
       Watch!process, Watch!config, Watch!peer
  <2> QED
    BY <1>1, <2>1 DEF WatchRanges
<1>7. ASSUME NEW p \in Peers,
             Watch!Die(p) \/ Watch!Wake(p) \/ Watch!ChangeWindow(p) \/ Watch!Unpair(p) \/ Watch!Pair(p)
      PROVE  WatchRanges'
  <2>1. /\ alive' \subseteq alive \cup {p} /\ since' \in {since, [since EXCEPT ![p] = 0]}
        /\ UNCHANGED <<heard, raised, open_watch, quiet, uptime, edges>>
    BY <1>7 DEF Watch!Die, Watch!Wake, Watch!ChangeWindow, Watch!Unpair, Watch!Pair,
       Watch!process, Watch!config, Watch!peer
  <2> QED
    BY <1>1, <2>1 DEF WatchRanges
<1>8. CASE UNCHANGED Watch!vars
  BY <1>8 DEF Watch!vars, Watch!process, Watch!config, Watch!peer, WatchRanges
<1> QED
  BY <1>2, <1>3, <1>4, <1>5, <1>6, <1>7, <1>8 DEF Watch!Next

LEMMA WatchTyped == WatchSafe /\ WatchRanges => Watch!TypeOK
<1> SUFFICES ASSUME WatchSafe, WatchRanges
             PROVE  Watch!TypeOK
  OBVIOUS
<1>1. \A p \in heard : told_watch[p] \in Windows
  BY DEF WatchSafe, ContactOK, WatchRanges
<1>2. {quiet[p] : p \in Peers} \cup {uptime} \subseteq 0 .. MaxAge
  BY DEF WatchRanges
<1> QED
  BY <1>1, <1>2 DEF WatchSafe, WatchTypes, WatchRanges, Watch!TypeOK

-----------------------------------------------------------------------------
(* Versions and the lock (SelfUpdate).                                     *)

\* The lock is the daemon's while there is one; what is found, asked for and put in
\* place is a version that was published, or none.
UpdateTypes ==
  /\ life \in {"down", "starting", "up", "stopping", "closing"}
  /\ lock_update \in {"free", "tool", "daemon"} /\ (lock_update = "daemon" <=> life # "down")
  /\ target \in 0 .. MaxVersion /\ backup \in 0 .. MaxVersion
  /\ published \in 1 .. MaxVersion /\ latest \in 0 .. published
  /\ request \in [Updates -> [at : {"idle", "fetch", "aside", "install", "restart"}, version : 0 .. MaxVersion]]

LEMMA UpdateTypesInit == Update!Init => UpdateTypes
BY UpdateAssumption DEF UpdateAssumption, Update!Init, UpdateTypes, Update!Idle, Update!None

\* A request that goes to another place keeps the version it is about.
LEMMA RequestMoves ==
  ASSUME UpdateTypes, NEW r \in Updates,
         NEW at_r \in {"idle", "fetch", "aside", "install", "restart"}, Update!To(r, at_r)
  PROVE  request' \in [Updates -> [at : {"idle", "fetch", "aside", "install", "restart"}, version : 0 .. MaxVersion]]
<1>1. PICK q : q = [request[r] EXCEPT !.at = at_r]
  OBVIOUS
<1>2. q \in [at : {"idle", "fetch", "aside", "install", "restart"}, version : 0 .. MaxVersion]
  BY <1>1 DEF UpdateTypes
<1>3. request' = [request EXCEPT ![r] = q]
  BY <1>1 DEF Update!To
<1> QED
  BY <1>2, <1>3 DEF UpdateTypes

LEMMA RequestRefused ==
  ASSUME UpdateTypes, NEW r \in Updates, Update!Refused(r)
  PROVE  request' \in [Updates -> [at : {"idle", "fetch", "aside", "install", "restart"}, version : 0 .. MaxVersion]]
BY UpdateAssumption DEF UpdateAssumption, UpdateTypes, Update!Refused, Update!Idle, Update!None

LEMMA UpdateLives ==
  ASSUME UpdateTypes,
         Update!Process \/ Update!StartFails \/ Update!HeartbeatDue \/ Update!Heartbeat \/ Update!Crash
           \/ Update!IsHeld \/ Update!Release
  PROVE  UpdateTypes'
<1>1. ASSUME NEW how, Update!Gone(how), UNCHANGED Update!files
      PROVE  UpdateTypes'
  BY <1>1, UpdateAssumption DEF UpdateAssumption, UpdateTypes, Update!Gone, Update!Idle, Update!None, Update!files
<1>2. CASE Update!StartFails
  BY <1>1, <1>2 DEF Update!StartFails
<1>3. CASE Update!Exit
  BY <1>1, <1>3 DEF Update!Exit
<1>4. CASE Update!Crash
  BY <1>1, <1>4 DEF Update!Crash
<1>5. CASE Update!Start \/ Update!Ready
  BY <1>5, UpdateAssumption
     DEF UpdateAssumption, UpdateTypes, Update!Start, Update!Ready, Update!files, Update!page, Update!None
<1>6. CASE Update!Cancel \/ Update!Finish \/ Update!HeartbeatDue \/ Update!Heartbeat
  BY <1>6 DEF UpdateTypes, Update!Cancel, Update!Finish, Update!HeartbeatDue, Update!Heartbeat,
              Update!files, Update!page
<1>7. CASE Update!IsHeld \/ Update!Release
  BY <1>7 DEF UpdateTypes, Update!IsHeld, Update!Release, Update!Held, Update!files, Update!page
<1> QED
  BY <1>2, <1>3, <1>4, <1>5, <1>6, <1>7 DEF Update!Process

LEMMA UpdateLooks ==
  ASSUME UpdateTypes, Update!Publish \/ Update!Check \/ Update!CheckFails \/ Update!CheckElsewhere
  PROVE  UpdateTypes'
<1>1. /\ UNCHANGED <<life, lock_update, target, backup, request>>
      /\ published' \in {published, published + 1} /\ published' <= MaxVersion
      /\ latest' \in {0, published, latest}
  BY UpdateAssumption DEF UpdateAssumption, UpdateTypes, Update!Publish, Update!Check, Update!CheckFails,
     Update!CheckElsewhere, Update!process, Update!files, Update!None
<1>2. published \in Nat /\ latest \in Nat /\ MaxVersion \in Nat /\ 1 <= published /\ latest <= published
  BY UpdateAssumption DEF UpdateAssumption, UpdateTypes
<1>3. published' \in 1 .. MaxVersion /\ latest' \in 0 .. published'
  BY <1>1, <1>2
<1> QED
  BY <1>1, <1>3 DEF UpdateTypes

LEMMA UpdateAsks ==
  ASSUME UpdateTypes, NEW r \in Updates,
         \/ Update!Apply(r) \/ Update!AskRestart(r) \/ Update!InstallFails(r) \/ Update!Update(r)
         \/ Update!Help(r)
  PROVE  UpdateTypes'
<1>1. published \in Nat /\ published <= MaxVersion /\ latest \in 0 .. MaxVersion
  BY UpdateAssumption DEF UpdateAssumption, UpdateTypes
<1>2. CASE Update!Apply(r)
  <2>1. [at |-> "fetch", version |-> latest]
          \in [at : {"idle", "fetch", "aside", "install", "restart"}, version : 0 .. MaxVersion]
    BY <1>1
  <2>2. request' = [request EXCEPT ![r] = [at |-> "fetch", version |-> latest]]
        /\ UNCHANGED <<life, lock_update, target, backup, published, latest>>
    BY <1>2 DEF Update!Apply, Update!process, Update!files, Update!page
  <2>3. request' \in [Updates -> [at : {"idle", "fetch", "aside", "install", "restart"}, version : 0 .. MaxVersion]]
    BY <2>1, <2>2 DEF UpdateTypes
  <2> QED
    BY <2>2, <2>3 DEF UpdateTypes
<1>3. CASE Update!AskRestart(r) \/ Update!Restart(r) \/ Update!Download(r)
  <2>1. UNCHANGED <<life, lock_update, target, backup, published, latest>>
    BY <1>3 DEF Update!AskRestart, Update!Restart, Update!Download, Update!process, Update!files, Update!page
  <2>2. Update!To(r, "restart") \/ Update!To(r, "aside") \/ Update!Refused(r)
    BY <1>3 DEF Update!AskRestart, Update!Restart, Update!Download
  <2>3. request' \in [Updates -> [at : {"idle", "fetch", "aside", "install", "restart"}, version : 0 .. MaxVersion]]
    BY <2>2, RequestMoves, RequestRefused
  <2> QED
    BY <2>1, <2>3 DEF UpdateTypes
<1>4. CASE Update!InstallFails(r) \/ Update!MoveAside(r) \/ Update!Install(r)
  <2>1. /\ UNCHANGED <<life, lock_update, published, latest>>
        /\ target' \in {target, backup, 0, request[r].version}
        /\ backup' \in {0, target, backup}
    BY <1>4 DEF Update!InstallFails, Update!MoveAside, Update!Install, Update!process, Update!page, Update!None
  <2>2. Update!To(r, "install") \/ Update!To(r, "restart") \/ Update!Refused(r)
    BY <1>4 DEF Update!InstallFails, Update!MoveAside, Update!Install
  <2>3. request' \in [Updates -> [at : {"idle", "fetch", "aside", "install", "restart"}, version : 0 .. MaxVersion]]
    BY <2>2, RequestMoves, RequestRefused
  <2>4. request[r].version \in 0 .. MaxVersion /\ 0 \in 0 .. MaxVersion
    BY UpdateAssumption DEF UpdateAssumption, UpdateTypes
  <2> QED
    BY <2>1, <2>3, <2>4 DEF UpdateTypes
<1>5. CASE Update!Help(r)
  BY <1>5 DEF Update!Help, Update!HelperStops, Update!HelperWaits, Update!HelperStarts, UpdateTypes,
     Update!process, Update!files, Update!page
<1> QED
  BY <1>2, <1>3, <1>4, <1>5 DEF Update!Update

LEMMA UpdateTypesNext == UpdateTypes /\ [Update!Next]_(Update!vars) => UpdateTypes'
<1>1. UpdateTypes /\ UNCHANGED Update!vars => UpdateTypes'
  BY DEF Update!vars, Update!process, Update!files, Update!page, Update!counts, UpdateTypes
<1> QED
  BY <1>1, UpdateLives, UpdateLooks, UpdateAsks DEF Update!Next

LEMMA UpdateTyped == UpdateTypes => Update!TypeOK
BY DEF UpdateTypes, Update!TypeOK

-----------------------------------------------------------------------------
\* Every part keeps its types: the counters and ages their bounds, what is pending
\* the parts it is about, and each record the fields its place in a step gives it.
THEOREM TypeSafe == Spec => []TypeOK
<1> DEFINE Safe ==
      /\ subject = "ingest" => IngestSafe /\ IngestRanges
      /\ subject = "protect" => ProtectSafe
      /\ subject = "events" => TableOK(open_events)
      /\ subject = "doors" => DoorsSafe /\ DoorsRanges
      /\ subject = "log" => LogSafe /\ LogRanges
      /\ subject = "network" => NetworkRanges
      /\ subject = "watch" => WatchSafe /\ WatchRanges
      /\ subject = "update" => UpdateTypes
<1>1. Init => Safe
  BY IngestInit, IngestRangesInit, ProtectInit, TableInit, DoorsInit, DoorsRangesInit, LogInit,
     LogRangesInit, NetworkRangesInit, WatchInit, WatchRangesInit, UpdateTypesInit DEF Init
<1>2. Safe /\ [Next]_vars => Safe'
  BY StepsOfSubject, IngestNext, IngestRangesNext, ProtectNext, TableNext, DoorsNext, DoorsRangesNext,
     LogNext, LogRangesNext, NetworkRangesNext, WatchNext, WatchRangesNext, UpdateTypesNext
<1>3. Safe => TypeOK
  BY IngestTyped, ProtectTyped, EventsTyped, DoorsTyped, LogTyped, NetworkTyped, WatchTyped, UpdateTyped
     DEF TypeOK
<1> QED
  BY <1>1, <1>2, <1>3, PTL DEF Spec
=============================================================================
