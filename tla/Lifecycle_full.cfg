\* Alarms of two severities, faults and clears, two handlers, one person, a crash.
SPECIFICATION Spec
CONSTANTS
  Ids <- TwoIds
  Keys = {k1}
  Severities = {2, 5}
  Channels = {"ntfy", "email"}
  Handlers = {h1, h2}
  People = {p1}
  Scheduler = scheduler
  Arrivals <- Everything
  Requests = {"link", "close"}
  PolicyFor <- LowAndCritical
  Momentary = {k1}
  QuietTimes <- NoTimes
  DeadChannels = {}
  Attempts = 2
  MaxOccurrences = 2
  Horizon = 4
  MaxCrashes = 1
  None = None
SYMMETRY Symmetric
\* The clock is bounded, so a run of the model ends where the program's does not.
CHECK_DEADLOCK FALSE
INVARIANTS TypeOK OneLivePerKey AlertsWereDelivered GaveUpAfterTelling
