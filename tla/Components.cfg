\* Small instances of eight components: room for the breaker to open, to fail and to
\* pass its probes and to be reset; two minutes of the store's index and more than its
\* retention; two concurrent callers of the registry, of the validator and of the
\* limiter.  Every part may stop: clocks, calls and inputs are bounded.
SPECIFICATION MCSpec
CONSTANTS

  FailureThreshold = 2
  HalfOpenMaxCalls = 2
  ResetTimeout = 2
  MaxCalls = 7
  MaxTime = 5

  Sources = {"a", "b"}
  MaxRetention = 3
  Minute = 2
  MaxLag = 1
  MaxEvents = 3
  MaxStoreTime = 8

  Callers = {h1, h2}
  NameVersions = {n1, n2}
  NoName = None
  MaxClock = 3

  Validations = {h1, h2}
  SchemaIDs = {1}
  Stored = {}
  Loose = Loose
  Strict = Strict
  Definitions = {Loose, Strict}
  Payloads = {"object"}
  Accepts <- MCAccepts
  CacheTTL = 1
  MaxValidatorTime = 3
  NoEntry = None

  Calls = {h1, h2}
  Keys = {1}
  Burst = 2
  Rate = 1
  StaleThreshold = 1
  MaxLimiterTime = 3

  MaxRetriesGiven <- MCMaxRetriesGiven
  InitialBackoffGiven = {0, 1, 3}
  MaxBackoffGiven = {0, 6, 15}
  HalvesGiven = {0, 1, 12}
  DefaultInitial = 2
  DefaultMax = 8
  MaxDuration = 15
  NoConfig = None

  Words = {"a", "c"}
  Entries = {"e"}
  Matching <- MCMatching
  None = None
  EventID = "a"
  CorrelationID = "c"
  Messages <- MCMessages
  Filters <- MCFilters

  Scripts = {"s1", "s2", "long"}
  TooLong = {"long"}
  Compilable <- MCCompilable
  ScriptResults <- MCScriptResults
  Null = Null
  Scalar = Scalar
  Absent = Absent
  Events <- MCEvents
  Panic = Panic
SYMMETRY Symmetry
CHECK_DEADLOCK FALSE
INVARIANTS ComponentsTypeOK CallbacksConserve
INVARIANTS RetainedUntilExpiry IndexCoversEvents IndexBounded QueriesExact PagesComplete
INVARIANTS DuplicatesBounded FreshKept VerdictCurrent
INVARIANTS RateBounded LimiterTracked RetrySound LiveAsReplayed TransformSound
PROPERTIES IsBreaker
