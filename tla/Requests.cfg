\* The events, the pairing and the requests of a product, signing in, the
\* acknowledgement link, the inbound hooks and the settings form.
SPECIFICATION Spec
CONSTANTS
  Subjects = {"link", "pairing", "signed", "web", "ack", "inbound", "form"}
  Absent = Absent
  \* PeerLink
  Hands = {s1, s2}
  Conditions = {"blind"}
  Demoting = {"blind"}
  Words = {TRUE, FALSE}
  SeenFor = 1
  MaxSeen = 1
  SilentAfter = 1
  ResumeAfter = 1
  Grace = 1
  MaxEvents = 2
  Horizon_link = 3
  MaxCrashes_link = 1
  \* Pairing
  Installs = {"s1", "door"}
  SlugOf <- Products
  FirstParty = {"sentry"}
  WordsOf <- Declared
  Earlier <- Before
  CodeTTL = 1
  MaxCodeAttempts = 2
  MaxRetired = 1
  Serial = FALSE
  MaxCodes = 1
  MaxAsked_pairing = 2
  MaxFailures = 1
  MaxCrashes_pairing = 1
  \* LinkRequests
  Handlers = {"h1"}
  Pages = {"o1", "o2"}
  Declarable = {"a", "b"}
  Foreign = {"x"}
  Window = 0
  MaxNonces = 1
  PerPeerRate = 1
  RateWindow = 1
  MaxListed = 2
  Skews = {0, 1}
  MaxSent = 2
  MaxPairings = 1
  MaxCrashes_signed = 0
  Horizon_signed = 1
  \* WebAccess
  SignIns = {"r1", "r2"}
  Peers = {"p", "q"}
  TTL = 1
  MaxAge = 2
  Free = 1
  BaseLockout = 1
  MaxLockout = 2
  ForgetAfter = 1
  MaxTracked = 1
  MaxPasswords = 2
  MaxTokens = 2
  MaxSessions = 1
  MaxCrashes_web = 1
  MaxAsked_web = 2
  Horizon_web = 2
  \* AckLink
  Taps = {"q1", "q2"}
  Sources = {"s1"}
  Kinds <- Asked
  Burst = 1
  Refill = 2
  MaxSources = 1
  Attempts = 2
  Writers = {"w1", "w2"}
  MaxWrites = 2
  MaxErrors = 1
  Horizon_ack = 2
  \* InboundReceiver
  Arrivals = {"q1", "q2"}
  Hooks = {"wan"}
  Tokens = {"t1", "t2"}
  MaxWindow = 2
  MaxSets = 2
  Horizon_inbound = 3
  \* SettingsForm
  Tabs = {"t1"}
  RowNames = {"A", "B"}
  HookNames = {"h"}
  Apps = {"protect"}
  Channels = {"ntfy", "pushover"}
  MaxTyped = 3
  MaxRows = 2
  MaxSaves = 3
SYMMETRY Symmetric
\* The clocks and what others may ask are bounded.
CHECK_DEADLOCK FALSE
INVARIANTS
  TypeOK
  AtMostOnce
  BlindNeverHolds
  OnePairingPerCode
  VocabularyWasAsked
  NotLockedOut
  AckedOnce
  CountedIsRaised
  SourcesUseTheirKeys
