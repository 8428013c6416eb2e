\* An event read again after a restart, of an interval before the restart.
SPECIFICATION Spec
CONSTANTS
  Subjects = {"activity"}
  Absent = Absent
  Parts <- LiveParts
  Requests = {"r1", "r2"}
  MaxChanges = 2
  MaxFailures_config = 1
  MaxCrashes_config = 1
  Conditions <- Channels
  HookLists <- Hooks
  Policies <- Ladders
  Windows = {"fine", "off, unknown zone", "empty"}
  Lengths = {0, 60, 1020}
  Links = {0, 90, 512, 513, 929, 930}
  Repeats = {0, 1}
  Kinds = {"ntfy", "pushover", "webhook", "voice", "email"}
  Numbers = 3
  Times = {0, 5, 20}
  Advised = {0, 12, 25, 900}
  Listens <- Addresses
  AckListens <- AckPages
  Urls <- Origins
  MaxEdits = 1
  MaxTaken = 1
  MaxLines = 2
  Keep = 1
  Limit = 3
  MaxEntries = 6
  MaxClock = 3
  MaxFaults = 1
  MaxCrashes_audit = 1
  MaxReads = 1
  Keys = {"a", "b"}
  Width = 2
  Retention_activity = 4
  MaxSkew = 0
  Offsets <- Late
  Jumps <- Never
  MaxEvents = 2
  MaxJumps = 1
  MaxBlind = 1
  MaxFailures_activity = 1
  MaxCrashes_activity = 1
  Horizon = 5
  Levels <- Stretches
  Retention_baseline = 5
  PerDay = 2
  MinPerDay = 1
  MinDays = 2
  MinSamples = 3
  MaxMissed = 1
\* The clock is bounded.
CHECK_DEADLOCK FALSE
INVARIANTS WrittenWasWatched
