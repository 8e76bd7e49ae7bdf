\* A stream with a full and a partial batch beside a client of unary calls, and a replay
\* while events of two sources are stored, expire and are cleared.  Both may be over.
SPECIFICATION MCSpec
CONSTANTS
  UnaryClients = {u}
  StreamClients = {s}
  StreamBatchSize = 2
  MaxRequests = 3

  Sources = {a, b}
  MaxRetention = 3
  Minute = 2
  MaxLag = 0
  MaxEvents = 3
  MaxStoreTime = 6
  Replays = {r1}
  ReplayRequests <- MCReplayRequests
  BufferSize = 1
  BatchSize = 2
CHECK_DEADLOCK FALSE
INVARIANTS AckedDurable InvalidBatchLeavesNothing LogInOrder AcksInOrder ReplayFaithful
PROPERTIES IsLifecycle ReplayTerminates
