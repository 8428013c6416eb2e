\* Occurrences and faults of one key, which two handlers write by compare-and-swap, beside
\* alarms and clears of another, which they write plainly, against one person and the
\* scheduler.
SPECIFICATION Spec
CONSTANTS
  Ids <- TwoIds
  Keys = {"swapped", "plain"}
  Severities = {2}
  Channels = {"ntfy", "email"}
  Handlers = {h1, h2}
  People = {p1}
  Scheduler = scheduler
  Arrivals <- SwappedBesidePlain
  Requests = {"link", "web", "close"}
  PolicyFor <- LowOnly
  Momentary = {}
  QuietTimes <- NoTimes
  DeadChannels = {}
  Attempts = 2
  MaxOccurrences = 1
  Horizon = 4
  MaxCrashes = 0
  None = None
\* The clock is bounded, so a run of the model ends where the program's does not.
CHECK_DEADLOCK FALSE
SYMMETRY Symmetric
INVARIANTS DetailsBounded
PROPERTIES AnswersStand
