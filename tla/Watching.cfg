\* The sources and their supervisor, the watch over paired products, and the
\* daemon through an update, under the fairness of their goroutines.
SPECIFICATION FairSpec
CONSTANTS
  Subjects = {"ingest", "protect", "events", "doors", "log", "network", "watch", "update"}
  Absent = Absent
  Sources = {"house", "yard"}
  ApplicationOf <- Applications
  LivenessOf <- Promises
  MaxRunners = 2
  Horizon_ingest = 2
  Cameras = {"c1"}
  MaxChanges_protect = 2
  MaxDrops = 1
  MaxNoise = 1
  SweepRequests = 2
  MuteThreshold_protect = 1
  Ids = {1, 2}
  MaxOpen = 1
  MaxRepeats = 1
  HeldAfter = 3
  UnlockGrace = 4
  PositionEvery = 2
  MuteThreshold_doors = 1
  MaxFaults = 1
  MaxMoves = 3
  Horizon_doors = 8
  Rows = {1}
  Lag = 1
  PollEvery_log = 1
  Overlap = 2
  PageRows = 1
  MaxFailures_log = 3
  MaxRestarts_log = 1
  Horizon_log = 8
  Sites = {"s1", "s2"}
  Home <- Homes
  PageLimit = 1
  MaxPages = 3
  PollEvery_network = 2
  DownFor = 3
  MaxFails = 1
  MaxChanges_network = 2
  Horizon_network = 7
  Peers = {"p"}
  Windows = {1, 6}
  SlowestBeat = 2
  MaxAge = 8
  MaxRestarts_watch = 1
  MaxChanges_watch = 3
  Updates = {"r1"}
  MaxVersion = 3
  MaxFailures_update = 1
  MaxCrashes = 1
  MaxAsked = 2
\* The clocks and the changes are bounded.
CHECK_DEADLOCK FALSE
INVARIANTS
  TypeOK
  SilenceIsOpen
  AlarmOutlastsItsEvent
  HeldIsReported
  NothingDropped
  DownIsReported
  NotAccused
PROPERTIES
  RegistryConverges
  DeadIsNoticed
  RestartReturns
