\* A clear read before an acknowledgement and written after it.
SPECIFICATION Spec
CONSTANTS
  Ids <- TwoIds
  Keys = {k1}
  Severities = {2}
  Channels = {"ntfy", "email"}
  Handlers = {h1}
  People = {p1}
  Scheduler = scheduler
  Arrivals <- AlarmsAndClears
  Requests = {"link", "close"}
  PolicyFor <- HighOnly
  Momentary = {}
  QuietTimes <- NoTimes
  DeadChannels = {}
  Attempts = 2
  MaxOccurrences = 2
  Horizon = 5
  MaxCrashes = 0
  None = None
\* The clock is bounded, so a run of the model ends where the program's does not.
CHECK_DEADLOCK FALSE
INVARIANTS AckKept
