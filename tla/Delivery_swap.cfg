\* Alerts handed over one after another, with a short backlog, failures and a
\* configuration that replaces the set meanwhile.
SPECIFICATION FairSpec
CONSTANTS
  Channels = {"ntfy", "email"}
  Asks <- OneOrBoth
  Configured <- EmailRemoved
  Depth = 1
  Ladder <- OneRung
  MaxAlerts = 2
  Horizon = 1
  None = None
\* The alerts are bounded.
CHECK_DEADLOCK FALSE
INVARIANTS ClosedIsQuiet
PROPERTIES KeepsPromise CallsReturn SwapsEnd
