----------------------------- MODULE NetworkDevices --------------------------
(***************************************************************************)
(* network.Source: reachability out of a console that tells no events, by  *)
(* reading, every PollEvery, the sites and page after page the devices of  *)
(* each.  The console goes on changing between two requests of one poll.   *)
(***************************************************************************)
EXTENDS Integers, Sequences, FiniteSetsExt

CONSTANTS Sites,
          Home,        \* the site of each device 1 .. Len(Home): devices are listed in this order
          PageLimit, MaxPages, PollEvery, DownFor,
          MaxFails,    \* bound: requests that fail
          MaxChanges,  \* bound: changes on the console
          Horizon      \* bound: the last instant

Devices == DOMAIN Home
Readings == {"online", "offline", "transitional"}   \* "transitional" stands for unknown too
Never == -1000
Idle == [step |-> "idle"]

VARIABLES
  now, status, listed, changes, fails,  \* the console: each device's state, those it lists
  poll,       \* the poll under way: Idle, or how far it has come
  due,        \* the instant of the next tick
  by,         \* devices.by: what is remembered of the devices known
  contact,    \* health.LastPollAt
  offline,    \* the devices an offline event was sent for and no clearing one since
  downSince,  \* ghost: since when each reading of a device read it down
  upAt        \* ghost: when a poll last read it up

console == <<now, status, listed, changes>>
vars == <<console, fails, poll, due, by, contact, offline, downSince, upAt>>

Fresh == [state |-> "unknown", offlineSince |-> Never, raised |-> FALSE]

Init ==
  /\ now = 0 /\ status \in [Devices -> {"online", "offline"}] /\ listed = Devices
  /\ changes = 0 /\ fails = 0 /\ poll = Idle /\ due = 0 /\ by = << >> /\ contact = Never
  /\ offline = {} /\ downSince = [d \in Devices |-> Never] /\ upAt = downSince

Elapse ==
  /\ poll = Idle /\ now < due /\ now < Horizon /\ now' = now + 1
  /\ UNCHANGED <<status, listed, changes, fails, poll, due, by, contact, offline, downSince, upAt>>

Change ==
  /\ changes < MaxChanges /\ changes' = changes + 1
  /\ \/ \E d \in Devices, r \in Readings :
          r # status[d] /\ status' = [status EXCEPT ![d] = r] /\ UNCHANGED listed
     \/ \E d \in Devices :
          /\ listed' = (IF d \in listed THEN listed \ {d} ELSE listed \cup {d})
          /\ UNCHANGED status
  /\ UNCHANGED <<now, fails, poll, due, by, contact, offline, downSince, upAt>>

-----------------------------------------------------------------------------
\* devices: what one reading, or the clock alone, does to what is remembered.

LongDown(st, at) == st.offlineSince # Never /\ at - st.offlineSince >= DownFor

\* Mutant: a device read up keeps the clock of its last outage.
ApplyKeepsClock(st, r, at) ==
  LET s == [st EXCEPT !.state = r, !.offlineSince = IF r = "offline" /\ @ = Never THEN at ELSE @]
  IN  [s EXCEPT !.raised = r # "online" /\ (@ \/ (r = "offline" /\ LongDown(s, at)))]

\* applyLocked.
Apply(st, r, at) ==
  CASE r = "online"  -> [state |-> r, offlineSince |-> Never, raised |-> FALSE]
    [] r = "offline" ->
         LET down == [st EXCEPT !.state = r,
                                !.offlineSince = IF @ = Never THEN at ELSE @]
         IN  [down EXCEPT !.raised = @ \/ LongDown(down, at)]
    [] OTHER         -> [st EXCEPT !.state = r]

Remembered(d) == IF d \in DOMAIN by THEN by[d] ELSE Fresh

\* observe: the readings of one site.
Observe(read, at) == [d \in DOMAIN by \cup DOMAIN read |->
                        IF d \in DOMAIN read THEN Apply(Remembered(d), read[d], at) ELSE by[d]]

Tick(mem, at) == [d \in DOMAIN mem |->
                    [mem[d] EXCEPT !.raised = @ \/ (mem[d].state = "offline" /\ LongDown(mem[d], at))]]

\* forget: what was raised is kept, whatever the console lists.
Forget(mem, present) == [d \in {e \in DOMAIN mem : e \in present \/ mem[e].raised} |-> mem[d]]

RaisedIn(mem) == {d \in DOMAIN mem : mem[d].raised}

-----------------------------------------------------------------------------
\* poll.  Its transitions are kept until it ends, and sent then.

Begin ==
  /\ poll = Idle /\ now = due /\ due' = now + PollEvery
  /\ poll' = [step |-> "sites"]
  /\ UNCHANGED <<console, fails, by, contact, offline, downSince, upAt>>

\* listSites fails: only the clock is heard.
SitesFail ==
  /\ poll.step = "sites" /\ fails < MaxFails /\ fails' = fails + 1
  /\ by' = Tick(by, now) /\ offline' = offline \cup RaisedIn(by') /\ poll' = Idle
  /\ UNCHANGED <<console, due, contact, downSince, upAt>>

NextSite(left) == IF left = {} THEN [site |-> "none"] ELSE [site |-> CHOOSE s \in left : TRUE]
OnSite(left, present, failed) ==
  [step |-> "site", site |-> NextSite(left).site, left |-> left \ {NextSite(left).site},
   page |-> 0, offset |-> 0, read |-> << >>, present |-> present, failed |-> failed]

SitesRead ==
  /\ poll.step = "sites" /\ poll' = OnSite(Sites, {}, FALSE)
  /\ UNCHANGED <<console, fails, due, by, contact, offline, downSince, upAt>>

\* What the console lists of a site, now, and a page of it: its devices in order, from
\* an offset.
ListOf(s) == {d \in listed : Home[d] = s}
PageOf(all, offset) ==
  {d \in all : Cardinality({e \in all : e <= d}) \in offset + 1 .. offset + PageLimit}

\* The site has been read: observe, with all its pages said.
SiteDone(read) ==
  /\ by' = Observe(read, now)
  /\ downSince' = [d \in Devices |->
       IF d \notin DOMAIN read THEN downSince[d]
       ELSE CASE read[d] = "offline" -> IF downSince[d] = Never THEN now ELSE downSince[d]
              [] OTHER               -> Never]
  /\ upAt' = [d \in Devices |-> IF d \in DOMAIN read /\ read[d] = "online" THEN now ELSE upAt[d]]
  /\ poll' = OnSite(poll.left, poll.present \cup DOMAIN read, poll.failed)

\* decodePage: the total the answer names, or what it holds.
TotalCount(all, items) == Max({Cardinality(all), Cardinality(items)})

\* callPaged, one page: the last one is short, or reaches the total it names,
\* or is the last that may be asked for.
Page ==
  /\ poll.step = "site" /\ poll.site # "none"
  /\ LET all == ListOf(poll.site)
         items == PageOf(all, poll.offset)
         offset == poll.offset + Cardinality(items)
         read == [d \in DOMAIN poll.read \cup items |->
                    IF d \in items THEN status[d] ELSE poll.read[d]]
     IN  IF items = {} \/ offset >= TotalCount(all, items) \/ poll.page + 1 = MaxPages
           THEN SiteDone(read)
           ELSE /\ poll' = [poll EXCEPT !.page = @ + 1, !.offset = offset, !.read = read]
                /\ UNCHANGED <<by, downSince, upAt>>
  /\ UNCHANGED <<console, fails, due, contact, offline>>

\* listDevices fails on one page: nothing of that site is taken.
SiteFails ==
  /\ poll.step = "site" /\ poll.site # "none" /\ fails < MaxFails /\ fails' = fails + 1
  /\ poll' = OnSite(poll.left, poll.present, TRUE)
  /\ UNCHANGED <<console, due, by, contact, offline, downSince, upAt>>

\* Mutant: what a failed site did not list is forgotten with the rest.
ForgetAlways == Forget(by, poll.present)

ForgetUnlisted == IF poll.failed THEN by ELSE Forget(by, poll.present)

\* What is raised now was raised by this poll's readings or by its tick; what
\* was cleared in it is cleared.
EndPoll ==
  /\ poll.step = "site" /\ poll.site = "none"
  /\ by' = Tick(ForgetUnlisted, now)
  /\ offline' = RaisedIn(by')
  /\ contact' = IF poll.failed THEN contact ELSE now
  /\ downSince' = [d \in Devices |-> IF ~poll.failed /\ d \notin poll.present THEN Never
                                     ELSE downSince[d]]
  /\ poll' = Idle
  /\ UNCHANGED <<console, fails, due, upAt>>

Next == \/ Elapse \/ Change \/ Begin \/ SitesFail \/ SitesRead \/ Page \/ SiteFails \/ EndPoll

Spec == Init /\ [][Next]_vars

-----------------------------------------------------------------------------
\* Properties.

TypeOK ==
  /\ now \in 0 .. Horizon /\ status \in [Devices -> Readings] /\ listed \subseteq Devices
  /\ DOMAIN by \subseteq Devices /\ offline \subseteq Devices /\ contact \in {Never} \cup 0 .. now

\* A device the last poll that read it found down is reported once it has been
\* down for DownFor, also when its site, or the console, stopped answering.
DownIsReported ==
  poll = Idle => \A d \in Devices :
    downSince[d] # Never /\ now - downSince[d] >= DownFor + PollEvery => d \in offline

\* A device that is only bouncing is not reported: none is before DownFor has
\* gone by since a poll read it up.
BounceIsSilent == [][\A d \in offline' \ offline : now - upAt[d] > DownFor]_vars
=============================================================================
