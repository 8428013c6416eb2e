\* Severity raised between the scan and the give-up commit.
SPECIFICATION Spec
CONSTANTS
  Ids <- TwoIds
  Keys = {k1}
  Severities = {2, 5}
  Channels = {"ntfy", "email"}
  Handlers = {h1}
  People = {}
  Scheduler = scheduler
  Arrivals <- RisingAlarms
  Requests = {"link", "close"}
  PolicyFor <- LowAndCritical
  Momentary = {}
  QuietTimes <- NoTimes
  DeadChannels = {}
  Attempts = 2
  MaxOccurrences = 2
  Horizon = 6
  MaxCrashes = 0
  None = None
\* The clock is bounded, so a run of the model ends where the program's does not.
CHECK_DEADLOCK FALSE
INVARIANTS CriticalNeverGivesUp
