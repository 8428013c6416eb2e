\* Fairness: every open incident is told at last, though a crash, failing
\* deliveries, quiet hours and other writers come between, and though the channel
\* of the warning's first rung never takes a message.
SPECIFICATION FairSpec
CONSTANTS
  Ids <- TwoIds
  Keys = {k1}
  Severities = {2, 3}
  Channels = {"ntfy", "email"}
  Handlers = {h1}
  People = {p1}
  Scheduler = scheduler
  Arrivals <- RisingAlarmsAndClears
  Requests = {"link", "close"}
  PolicyFor <- MailBesidePush
  Momentary = {k1}
  QuietTimes <- EarlyQuiet
  DeadChannels = {"ntfy"}
  Attempts = 2
  MaxOccurrences = 2
  Horizon = 5
  MaxCrashes = 1
  None = None
\* The clock is bounded, so a run of the model ends where the program's does not.
CHECK_DEADLOCK FALSE
PROPERTIES EventuallyTold MomentaryTold
