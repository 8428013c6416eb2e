----------------------------- MODULE AccessDoors ----------------------------
(***************************************************************************)
(* access.Source on one door: lock frames on the notifications socket,     *)
(* position by polling, and the conditions Access does not report itself,  *)
(* a door forced and a door held open.  A frame is handled, and a due poll *)
(* made, before the clock moves on.                                        *)
(***************************************************************************)
EXTENDS Integers, FiniteSets

CONSTANTS HeldAfter, UnlockGrace, PositionEvery, MuteThreshold,
          UnknownModes,  \* whether the hub sends remain_unlock values nobody knows
          MaxFaults,     \* bound: socket drops, failed polls and unreadable frames
          MaxMoves,      \* bound: changes at the door
          Horizon        \* bound: the last instant

Never == -1000   \* the zero time: longer ago than anything

VARIABLES
  now,
  lock, position, remain, listed, \* the door, as the console has it
  moves, faults,
  socketUp,
  frame,      \* a lock frame is on the socket
  polled,     \* the instant of the last poll
  state,      \* doors.by, for this door: {} or one doorState
  told,       \* the conditions reported and not cleared since
  recognised, unrecognised, mute,
  unlockedAt, \* ghost: when the lock was last unlocked
  openSince,  \* ghost: since when each poll that was answered saw it open, or Never
  blind       \* ghost: a poll failed or the socket was down

world == <<lock, position, remain, listed, moves>>
health == <<recognised, unrecognised, mute>>
vars == <<now, world, faults, socketUp, frame, polled, state, told, health, unlockedAt,
          openSince, blind>>

Fresh == [lock |-> "unknown", position |-> "unknown", lastUnlockedAt |-> Never,
          openedAt |-> Never, settled |-> FALSE, held |-> FALSE, forced |-> FALSE,
          remain |-> FALSE]

\* getLocked.
Door == IF state = {} THEN Fresh ELSE CHOOSE d \in state : TRUE

Init ==
  /\ now = 0 /\ lock \in {"locked", "unlocked"} /\ position \in {"open", "close"}
  /\ remain = FALSE /\ listed = TRUE /\ moves = 0 /\ faults = 0
  /\ socketUp = TRUE /\ frame = TRUE /\ polled = -PositionEvery /\ state = {} /\ told = {}
  /\ recognised = FALSE /\ unrecognised = 0 /\ mute = FALSE
  /\ unlockedAt = (IF lock = "unlocked" THEN 0 ELSE Never) /\ openSince = Never /\ blind = FALSE

Elapse ==
  /\ now < Horizon /\ now - polled < PositionEvery /\ ~(frame /\ socketUp)
  /\ now' = now + 1
  /\ unlockedAt' = IF lock = "unlocked" THEN now' ELSE unlockedAt
  /\ UNCHANGED <<world, faults, socketUp, frame, polled, state, told, health, openSince, blind>>

-----------------------------------------------------------------------------
\* The door and the console.

Move == moves < MaxMoves /\ moves' = moves + 1

TurnLock ==
  /\ Move /\ ~frame
  /\ lock' = (IF lock = "locked" THEN "unlocked" ELSE "locked")
  /\ unlockedAt' = now /\ frame' = TRUE
  /\ UNCHANGED <<now, position, remain, listed, faults, socketUp, polled, state, told, health,
                 openSince, blind>>

SwitchMode ==
  /\ Move /\ ~frame /\ remain' = ~remain /\ frame' = TRUE
  /\ UNCHANGED <<now, lock, position, listed, faults, socketUp, polled, state, told, health,
                 unlockedAt, openSince, blind>>

Swing ==
  /\ Move /\ position' = (IF position = "open" THEN "close" ELSE "open")
  /\ UNCHANGED <<now, lock, remain, listed, faults, socketUp, frame, polled, state, told,
                 health, unlockedAt, openSince, blind>>

\* The door leaves the console's list, or is there again.
List ==
  /\ Move /\ listed' = ~listed
  /\ UNCHANGED <<now, lock, position, remain, faults, socketUp, frame, polled, state, told,
                 health, unlockedAt, openSince, blind>>

\* readSocket: what was not read when the socket drops is lost.
DropSocket ==
  /\ socketUp /\ faults < MaxFaults /\ faults' = faults + 1
  /\ socketUp' = FALSE /\ frame' = FALSE /\ blind' = TRUE
  /\ UNCHANGED <<now, world, polled, state, told, health, unlockedAt, openSince>>

\* runSocket: it comes back, and the next state sync tells how things are.
Reconnect ==
  /\ ~socketUp /\ socketUp' = TRUE /\ frame' = TRUE
  /\ UNCHANGED <<now, world, faults, polled, state, told, health, unlockedAt, openSince, blind>>

-----------------------------------------------------------------------------
\* handleFrame.

WithLock(d) == [d EXCEPT !.lock = lock,
                         !.lastUnlockedAt = IF lock = "unlocked" THEN now ELSE @]

\* Mutant: a lock frame only tells how the lock is now.
NoteLockOnly(d) == [d EXCEPT !.lock = lock]

\* observeLock: the lock part.
NoteLock(d) == WithLock(d)

\* observeLock.  A value of remain_unlock nobody knows is passed on as FALSE.
ObserveLock(held) ==
  LET d == [NoteLock(Door) EXCEPT !.remain = held]
  IN  /\ state' = {d}
      /\ told' = IF held = Door.remain THEN told
                 ELSE IF held THEN told \cup {"unlocked"} ELSE told \ {"unlocked"}

HandleFrame ==
  /\ socketUp /\ frame /\ frame' = FALSE
  /\ \/ ObserveLock(remain)
     \/ UnknownModes /\ ObserveLock(FALSE)
  /\ recognised' = TRUE
  /\ UNCHANGED <<now, world, faults, socketUp, polled, unrecognised, mute, unlockedAt,
                 openSince, blind>>

\* noteUnrecognised: counted over all connections, reported if nothing was ever
\* understood.  Keepalives and informational events are not even counted.
HandleUnreadable ==
  /\ socketUp /\ faults < MaxFaults /\ faults' = faults + 1
  /\ unrecognised' = unrecognised + 1
  /\ mute' = (mute \/ (~recognised /\ unrecognised' >= MuteThreshold))
  /\ UNCHANGED <<now, world, socketUp, frame, polled, state, told, recognised, unlockedAt,
                 openSince, blind>>

-----------------------------------------------------------------------------
\* sweepPositions.

Overdue(d) == d.openedAt # Never /\ now - d.openedAt >= HeldAfter

\* evaluateLocked: forced is decided when the door becomes open, never later.
Evaluate(d, prev) ==
  IF d.position = "close"
    THEN [d EXCEPT !.settled = TRUE, !.openedAt = Never, !.forced = FALSE, !.held = FALSE]
    ELSE LET opens == prev # "open"
             o == IF opens THEN [d EXCEPT !.openedAt = now] ELSE d
             authorised == d.lastUnlockedAt # Never /\ now - d.lastUnlockedAt <= UnlockGrace
         IN  [o EXCEPT !.forced = @ \/ (opens /\ d.settled /\ d.lock = "locked" /\ ~authorised),
                       !.held = @ \/ Overdue(o)]

\* tick: the clock alone makes a door held.
Tick(d) == [d EXCEPT !.held = @ \/ (d.position = "open" /\ Overdue(d))]

\* observePosition.
ObservePosition == Tick(Evaluate([WithLock(Door) EXCEPT !.position = position], Door.position))

\* What a poll tells, from what it found before and after.
Derived(d) == {c \in {"forced", "held"} : IF c = "forced" THEN d.forced ELSE d.held}
Tell(d) == told' = (told \ (Derived(Door) \ Derived(d))) \cup (Derived(d) \ Derived(Door))

Due == now - polled >= PositionEvery /\ polled' = now

Poll ==
  /\ Due /\ listed
  /\ state' = {ObservePosition} /\ Tell(ObservePosition)
  /\ openSince' = IF position = "close" THEN Never ELSE IF openSince = Never THEN now ELSE openSince
  /\ UNCHANGED <<now, world, faults, socketUp, frame, health, unlockedAt, blind>>

\* forget: what nothing was raised about is dropped when the list has it no more.
PollUnlisted ==
  /\ Due /\ ~listed
  /\ LET kept == {d \in state : d.forced \/ d.held \/ d.remain}
     IN  state' = {Tick(d) : d \in kept}
  /\ IF state' = {} THEN UNCHANGED told ELSE Tell(Tick(Door))
  /\ openSince' = Never
  /\ UNCHANGED <<now, world, faults, socketUp, frame, health, unlockedAt, blind>>

\* Mutant: a poll that failed ends there.
PollGivesUp ==
  /\ Due /\ faults < MaxFaults /\ faults' = faults + 1 /\ blind' = TRUE
  /\ UNCHANGED <<now, world, socketUp, frame, state, told, health, unlockedAt, openSince>>

\* A failed read is no evidence about a door; the clock still runs.
PollFails ==
  /\ Due /\ faults < MaxFaults /\ faults' = faults + 1 /\ blind' = TRUE
  /\ state' = {Tick(d) : d \in state}
  /\ IF state = {} THEN UNCHANGED told ELSE Tell(Tick(Door))
  /\ UNCHANGED <<now, world, socketUp, frame, health, unlockedAt, openSince>>

-----------------------------------------------------------------------------
Next == \/ Elapse \/ TurnLock \/ SwitchMode \/ Swing \/ List \/ DropSocket \/ Reconnect
        \/ HandleFrame \/ HandleUnreadable \/ Poll \/ PollUnlisted \/ PollFails

Spec == Init /\ [][Next]_vars

-----------------------------------------------------------------------------
\* Properties.

TypeOK ==
  /\ now \in 0 .. Horizon /\ told \subseteq {"forced", "held", "unlocked"}
  /\ Cardinality(state) <= 1 /\ unrecognised \in 0 .. MaxFaults

\* Nobody who came in through an unlocked door is reported as a burglar, though
\* the lock relocks between two polls.  The grace is short of one poll: a lock
\* is only seen unlocked by a frame that says so or by a poll, not when it relocks.
EntryIsNotForced ==
  [][~blind /\ "forced" \notin told /\ "forced" \in told' =>
       now - unlockedAt > UnlockGrace - PositionEvery]_vars

\* A door that stands open is reported in time, also when the console stops
\* answering meanwhile.
HeldIsReported ==
  openSince # Never /\ now - openSince >= HeldAfter + PositionEvery => "held" \in told

\* A door said to be set to remain unlocked is said not to be only if it is not:
\* a mode nobody knows is not guessed.
ModeNotGuessed == [][~("unlocked" \in told /\ "unlocked" \notin told' /\ remain)]_vars
=============================================================================
