# A verification of the event streaming gateway

TLA+ models of the gateway's parts, model-checked with TLC on small instances,
and theorems about all of them proved with TLAPS for every value of the
constants.  Every definition is translated from the Go source under `src/`;
`PROJECT.json` maps each one to the lines it models.

Checking: `tlc -config <cfg> <module>` for a run (`PROJECT.json` names the module),
`tlapm <Proofs module>` for the proofs, each of which takes from half a minute to a
quarter of an hour.

## 1. The system

Clients talk gRPC to a gateway process; the gateway stores events in memory for
replay, publishes them to Kafka and streams them from Kafka to subscribers.

| Part | Source | State | Operations | Interacts with |
|---|---|---|---|---|
| Event ingestion | `event_service.go`, `event_handler.go` | per call: the batch and the loop index | `IngestEvent`, `IngestEventStream`, `IngestEventBatch`, `processBatch` | store, producer |
| Kafka producer | `kafka/producer.go` | two atomic counters, `circuitOpen` under an RWMutex, the reset timer | `Publish`, `PublishBatch`, `recordSuccess`, `recordFailure`, timer callback, `Close` | Kafka |
| Kafka consumer | `kafka/consumer.go` | `isRunning`, `ctx`, the reader and its offsets | `Subscribe`, `consumeMessages`, `Unsubscribe`, `Close` | Kafka, adapter |
| Subscriptions | `subscription_service.go`, `event_handler.go`, adapter in `main.go` | map of subscriptions, two channels per client | `Subscribe`, `forwardEvents`, `Unsubscribe`, `SubscribeEvents` | consumer, client |
| Process | `cmd/gateway/main.go` | how far `run` is, two Kafka clients, two servers in goroutines, the signal channel | start, signal, graceful stop, deferred closes | all |
| Event store | `replay/replay_store.go` | list, index by minute, time of the last cleanup | `Store` with cleanup, `Clear`, `Query`, `QueryWithPagination`, `Count`, `GetByID` | ingestion, replay |
| Replay | `replay_service.go`, `event_handler.go` | snapshot, loop index, channel | `ReplayEvents`, `streamReplayEvents` | store, client |
| Registries | `schema_service.go`, `consumer_service.go`, `repository/*.go` | two maps | `Register`, `Deregister`, reads | handlers |
| Rate limiter, interceptors | `ratelimiter/rate_limiter.go`, `grpc/server.go`, `auth/jwt.go` | two `sync.Map`s, token buckets | `Allow`, `Wait`, cleanup goroutine, `Stop` | every call |
| Circuit breaker package | `pkg/circuitbreaker` | the three states, two counters, the time of the last failure, under a mutex | `Execute`, `Reset`, `SetOnStateChange` | not imported by the gateway |
| Retry package | `pkg/retry` | per call: attempt and wait | `Do` | not imported by the gateway |
| Schema validator | `schema/validator.go` | two maps, schemas and times, under an RWMutex | `RegisterSchema`, `UnregisterSchema`, `GetSchema`, `Validate`, `ClearCache` | ingestion, schema service |
| Health checker | `health/health.go`, `gateway_handler.go` | map of checks | `RegisterCheck`, `CheckAll`, `GetCheckStatus`, `/health`, `/ready`, `GetHealth` | dependencies |
| Forms of an event | entities, `dto`, `converter.go`, JSON serializer | none | conversions, validation, filter | ingestion, producer, consumer, replay |
| Transformation engine | `transformer/engine.go` | three caches of compiled scripts | `Transform`, `ClearCache` | not called by the gateway |
| RBAC, config, logging, metrics, correlation | | none, or set at start | lookups and output | |

What makes it hard:

- counters of the breaker are updated outside the lock that guards the circuit,
  and a timer callback cannot be called back once it has started;
- one consumer, with one reader and one context field, serves all clients, and
  its messages cross two channels and two goroutines after they are committed;
- the process may crash or be told to stop at any point and resumes from
  offsets that are flushed in the background;
- a batch is stored and published event by event and may fail at each;
- the store keeps the same events in two structures that are cut at different
  granularities;
- check-then-act over repositories and over two maps that nothing updates
  together;
- the breaker package runs a function, which may panic, under its mutex, and its
  callbacks outside it in no particular order;
- the schema validator gives up its read lock between reading a schema and
  deleting it as expired;
- an event reaches clients in two copies, one of which went through JSON;
- the process can fail at every step of its start, and a signal can come before
  its servers listen.

`hazards` in `PROJECT.json` lists these at their lines with the properties that
watch them.

## 2. Modules

| Module | Models | Role of its state |
|---|---|---|
| `Producer` | `producer.go` | `pc`, `call`: where each goroutine is in `Publish`/`PublishBatch`; `failureCount`, `successCount` modulo a width; `circuitOpen`, `mu`; `timer` the current timer, `stale` callbacks of earlier timers still waiting for the lock; `closer` |
| `Subscription` | `consumer.go`, adapter and shutdown of `main.go`, `subscription_service.go`, `SubscribeEvents` | `log`, `committed`: Kafka; `next`, `acked`, `readerClosed`: the reader; `isRunning`, `owner`, `cancelled`, `gpc`: the consumer; `eventChan`, `fwd`, `held`, `out`: the way to the client |
| `Ingestion` | `event_service.go`, ingestion handlers | `pc`, `batch`, `idx`: the loops; `stored`, `log`, `acks`: what came of them |
| `Lifecycle` | what ingestion promises of an event | sets of events: `received`, `refused`, `stored`, `published`, `acknowledged` |
| `Slices` | the loops of `replay_store.go` that build a slice | none: two operators |
| `EventStore` | `replay_store.go`; extends `Slices` | `events`, `index`, `lastCleanup`, and the clock |
| `Replay` | `replay_service.go`, `ReplayEvents`; extends `EventStore` | `hpc` handler, `gpc` goroutine, `snapshot`, `out` channel |
| `Registry` | schema and consumer services over their repositories | `clock`, by which IDs are made; `schemas`, `consumers`; `pc` and `call` of each handler |
| `RateLimiter` | `rate_limiter.go` under the interceptor chain | `limiters`, `bucket`, `lastAccess`, the cleanup goroutine; history of calls let through, of cleanups that a call overlapped, and of limiters that one has left without an access time (`orphans`) |
| `CircuitBreaker` | `circuit_breaker.go` | the fields of the struct; `running`: an `Execute` holds the mutex; `outcomes`, `told`, `heardFrom`: history of calls and callbacks |
| `Breaker` | what `circuit_breaker.go` promises | `outcomes` of the calls since the last change of state in place of counters; `openedAt` |
| `SchemaValidator` | `validator.go` | `compiled`, `cache`: the maps; `request`: where each `Validate` is between its critical sections, and what it has read; `owed`, `current`: history of registrations |
| `Retry` | `retry.go` | `cfg` after the defaults, `attempt`, `wait`, `results`; durations have a width |
| `EventCodec` | event, filter, DTOs, converters, JSON serializer | none: functions |
| `EventPath` | one event through `EventCodec` | `message`, `stored`, `record`, `received`: the forms it has had |
| `Transformer` | `engine.go`; extends `EventCodec` | `caches`; `event`, `given`, `transformed`: the last call |
| `Health` | `health.go`, its endpoints, `GetHealth` | `checks`; `todo`, `overall` of each request; `up`: dependencies; history of what was up and down meanwhile |
| `Gateway` | `main.go` | `main`: where `run` is; `producer`, `consumer`; `grpc`, `http`: the server goroutines; requests under way; `subscription`: whether the consumer runs, on which its `Close` depends |
| `ProducerProofs`, `SubscriptionProofs`, `IngestionProofs`, `GatewayProofs`, `ReplayProofs`, `LimiterProofs`, `ResilienceProofs`, `ContentProofs` | | theorems about the modules they extend |
| `MC*` | | symmetry sets and values of constants for TLC |

`Replay` composes the store with its reader; `Subscription` composes consumer,
adapter, service, handler and process, because the interesting behaviours cross
all five; `Ingestion` uses the store and the producer through what its calls of
`Store` and `Publish` can return.  `CircuitBreaker` implements `Breaker`: the
mapping keeps `state` and `outcomes` and reads `openedAt` off `lastFailureTime`
while the breaker is open.  `outcomes` is a history variable that no guard reads.
`Ingestion` implements `Lifecycle`: the mapping reads the stages of the events off
the requests received, the store, the log and the responses.

`MCServices`, `MCEventService` and `MCComponents` are sums, not products: the
components in them share no state, so a behaviour is one of a single component, which
`part` names from the start, and a property speaks of the component it belongs to.
The others stay in a state in which fairness asks nothing of them: the process has
exited, the producer and the replay have not been called.

Grain: a critical section under a mutex is one step unless the code changes
atomics inside it that others read without the lock (`OkLock`/`OkReset`,
`FailLock`/`FailArm`, `ResetBegin`/`ResetEnd` are therefore two steps each); an
atomic operation, a channel operation, a `sync.Map` operation and a repository
call is one step each.

Abstractions: an event is an identity with a source and a timestamp; a message
is its position in the log; an error is a choice; contexts are Booleans; time is
a natural number.  In `EventCodec` a string is empty or a word, data is one of six
classes that JSON tells apart, and a pattern matches by a relation; what a schema
accepts and what a script compiles to are relations too.  kafka-go, Go's timers and
the token bucket of `x/time/rate` are not in `src/`; they are modelled by what
the code relies on and marked external in the map.  A write that kafka-go
reports as failed may have reached the log, so a retry may duplicate.

## 3. Runs

| Run | States | Shows |
|---|---|---|
| `services` | 737,253 | The process, the producer and the health checker, each on its own; see below. |
| `event_service` | 637,811 | Ingestion and replay, each on its own; see below. |
| `components` | 218,595 | Eight components, each on its own; see below. |
| `subscription_unsubscribe` | 1,518,140 | With `Unsubscribe` at any point: one consumer goroutine at a time and it reads its own context (`SingleConsumer`), a stream is a gapless prefix of the log (`DeliveredInOrder`), nothing in flight to a live client is lost or doubled (`NothingLostInFlight`). |
| `subscription_gateway` | 373,512 | With failed fetches, SIGTERM, crash and restart: commits never pass a message that was neither handed over nor given up (`CommittedHanded`), never move back (`CommitMonotone`), and a client whose consumer runs is served, unless a second failed fetch has blocked the consumer, and the consumer of one that goes is released (`StreamServed`). |
| `producer_stale_reset` | violation | A callback left over from an earlier opening closes a later one at once. |
| `subscription_stuck` | violation | A second failed fetch leaves a client that stays connected without events. |
| `subscription_at_least_once` | violation | A committed message can be lost with the stream or the process that held it. |
| `subscription_shutdown` | violation | SIGTERM leads to no shutdown while a subscriber stays. |
| `subscription_filter` | violation | A subscription gets events that its filter does not match. |
| `registrations_overwritten` | violation | A registration replaces another that read the same time. |
| `health_rpc` | violation | `GetHealth` reports unhealthy while `/health` answers 200. |

`services` checks, for

- the process, that no handler runs with a Kafka client whose `Close` was called
  (`ClosedUnused`), that the deferred `Close` of every client has run however `run`
  ends (`DeferredClosesRun`), that probes are cut off only by the deadline
  (`ProbesAnswered`), and that a signal at any time stops the process unless the
  handler of an RPC never returns (`SignalStops`);
- the producer, that a trip is never lost (`NoLostTrip`), an open circuit always has a
  reset under way unless `Close` stopped it (`OpenHasReset`), a goroutine writes at most
  `MaxRetries + 1` times into an open circuit (`OpenShedsLoad`), and the circuit closes
  again (`CircuitRecovers`);
- the health checker, that a report is true of each check at some moment of the
  request (`ReportSound`).

`event_service` checks, for

- ingestion, that a response means stored and in Kafka (`AckedDurable`), that the
  handlers implement the life of an event, which is received, stored, published and
  acknowledged in this order (`IsLifecycle`), that an invalid request leaves no trace of
  its batch (`InvalidBatchLeavesNothing`), and the order of events and of responses
  (`LogInOrder`, `AcksInOrder`);
- replay, that the client gets a prefix of the query's snapshot, each event once and
  within the range, the filter and the limit, and all of it when nothing fails
  (`ReplayFaithful`), and that the goroutine always ends (`ReplayTerminates`).

`components` checks, for

- the circuit breaker package, that its counters implement the abstract breaker
  over successes, failures, panics and resets (`IsBreaker`, which counts outcomes: a
  panic has none), and that callbacks add up to the state in whatever order they run
  (`CallbacksConserve`, which says nothing of that order);
- the event store, that nothing expires early (`RetainedUntilExpiry`), list and
  index agree (`IndexCoversEvents`), the index is bounded (`IndexBounded`), and
  queries and pages are exact (`QueriesExact`, `PagesComplete`);
- the registries, that only registrations which overlap can leave several schemas of
  one name and version, at most one per handler, whatever IDs they get
  (`DuplicatesBounded`);
- the schema validator, that a fresh schema is lost only to a `GetSchema` which had
  read an earlier one (`FreshKept`), and that data is accepted only by a schema that
  was current during the call (`VerdictCurrent`);
- the rate limiter, that the limit holds over creation and removal of limiters, up
  to one allowance per cleanup that a call overlapped (`RateBounded`), and that a
  limiter nobody uses has an access time by which the cleanup finds it, unless a call
  came between the removal of its two entries and none has come since
  (`LimiterTracked`);
- `Retry`, that `Do` returns what happened, calls the function at most once after a
  cancellation, never panics and never waits less than the first backoff when its
  settings are within the width of a duration, and never waits longer than the cap with
  its jitter (`RetrySound`);
- `EventPath`, that an event is the same to a subscriber and to a replay, but for
  its timestamp and the form of its data (`LiveAsReplayed`);
- `Transformer`, that only scripts that compiled are cached and that results are
  valid events with the right ID (`TransformSound`; the timestamp is not kept, see 6);

and the type invariants of the first five (`ComponentsTypeOK`).

Each property of a passing run has a mutant in `PROJECT.json`, a plausible bug
in a definition, under which the run fails.  The mutated forms stand before the
definitions they replace and are named in a comment.

### Bounds

- `services`:
  - process: two RPCs and two probes, so that one ends while another begins;
  - producer: two concurrent calls, one event, one retry.  The threshold is 1 so that
    openings by failure and closings by success both happen next to each other, and
    `MaxCount` 2 so that the counters wrap.  One stale callback (`MaxStale`) is enough
    for a reset of the wrong opening;
  - health: two checks and two reports, so that a report mixes results of different
    moments.
- `subscription_*`: two clients, the fewest that compete for the consumer;
  channels of capacity 1, so that every send can block; two messages, so that one
  can be in each channel; two failed fetches, of which the second blocks.  One client
  is enough for `subscription_stuck`.
- `event_service`:
  - ingestion: batches of 2 and 3 requests give a full and a partial batch;
  - replay, and the store in `components`: minute 2, retention 3, so that a cutoff
    falls inside a bucket; time for two retention periods; events of two sources, of
    which a filter admits one.  One replay, because replays share only the store, which
    they do not change.
- `components`, the others:
  - breaker: thresholds 2, so that a success can interrupt a run of failures and a
    failure a run of successes; seven calls and five units of time open it, close
    it through two probes and count failures again;
  - registry: two handlers, and three readings of the clock that calls may share;
  - validator: two callers, one ID (IDs share nothing) with two schemas, one of which
    accepts the data; time to live 1 of 3, so that a schema expires, is registered
    again and expires again;
  - rate limiter: one key (keys share nothing), burst 2, rate 1, time for two
    cleanups.  The assumption `(StaleThreshold + 1) * Rate >= Burst` says that a
    limiter which is removed as stale would be full; production values, minutes
    against a burst of seconds, satisfy it;
  - retry: settings below, at and above zero, a multiplier below one and one of 6,
    and durations up to 15, so that the second backoff overflows;
  - event path: every combination of empty and set fields, priorities in and out of
    range, filters missing, empty, matching, not matching and invalid;
  - transformer: three scripts, one too long, each of which compiles for some type.

`CHECK_DEADLOCK FALSE` is set where the environment may stop sending: no more
requests, messages or clock readings under the bounds, or a stopped process.

### Fairness

- `Producer`: weak fairness of leaving a critical section (no blocking call is
  made there), of an armed timer firing, and strong fairness of the callback
  getting the lock, which `sync.RWMutex` guarantees to a waiting writer.  Nothing
  is assumed of callers or of Kafka.
- `Subscription`: the goroutines and the shutdown sequence keep running, Kafka
  answers fetches, and a connected client reads.  Nothing is assumed of new or
  ending streams, commits, errors, signals or crashes.
- `Replay`: the handler and the goroutine are scheduled, the ticker ticks.
- `Gateway`: the main goroutine and those of the servers are scheduled, and the
  deadline passes.  Nothing is assumed of handlers, which need not return, of probes,
  signals or new requests.

## 4. Proofs

Every theorem holds for all values of the constants that satisfy the `ASSUME` of the
module it is about; TLC evaluates these assumptions for the values of the runs.  The
specifications with fairness are proved about as they are: safety does not use it.

Each proof of `[]P` goes by an inductive invariant, given below with the reason why `P`
alone is not inductive.  TLC checked the invariants on the instances of section 3 before
they were proved.

`ProducerProofs`, for any set of goroutines, any threshold, retry limit and
counter width (`ProducerAssumption`):

- `TypeCorrect`: `ProducerTypeOK` is inductive as it stands.
- `LostTripFree`: `[]NoLostTrip`.  Not inductive: a success that closes the
  circuit beside a count of failures over the threshold would break it.
  `CountersExclusive`, both counters are non-zero only while someone is between
  its two counter updates, excludes that: whoever closes on `successCount` has a
  count of failures that is zero, or about to be cleared, or about to be acted on.
- `ResetUnderWay`: `[]OpenHasReset`, inductive given the types.
- `LoadShed`: `[]OpenShedsLoad`.  Strengthened by `ShedBound`: the writes of a
  call in progress are bounded by its attempt number.

`IngestionProofs`, for any clients, batch size and number of requests
(`IngestionAssumption`):

- `TypeCorrect`: `IngestionTypeOK` with `BatchOK`, the shape of the batch in work.
- `AcknowledgedDurable`: `[]AckedDurable`, and `StoredBeforePublished`:
  `[]PublishedStored`, both from the inductive invariant `Durable`.  It adds
  `Progress`: the events before the index of the store loop are stored, then all
  of the batch is, and likewise for the publish loop.  Without it nothing
  connects a response to the loops that ran before it.
- `Implements`: `IngestionSpec => IsLifecycle`.  Beside `Durable` it needs `Admitted`: a batch
  that has come to the loops has no invalid request.
- `InvalidBatchNotStored`: `[]InvalidBatchLeavesNothing`, `LogOrdered`: `[]LogInOrder`,
  `AcknowledgedInOrder`: `[]AcksInOrder`, from `Ordered` beside the two (`OrderInvariant`):
  batches of a stream begin at multiples of `StreamBatchSize`, what is stored or in the log of a
  client comes before the index of its loop, and the responses are those of the requests
  before the batch.  The order of the log says nothing of what the next publish appends.

`SubscriptionProofs`, for any clients, messages, channel capacities and restarts,
with `Unsubscribe` and the steps of the process at once (`SubscriptionAssumption`):

- `ConsumersExclusive`: `[]SingleConsumer`, `CommitsHandedOver`:
  `[]CommittedHanded`, and `CommitsMonotone`: the action property `CommitMonotone`.
  All from `IInv`, which orders the reader's positions (`committed <= acked <= next`)
  and says that every accepted message up to `next` was handed over or given up, but
  for the last while its consumer is sending it.  `CommittedHanded` alone is not
  inductive: it says nothing of messages that are fetched and not yet committed.
- `StreamsInOrder`: `[]DeliveredInOrder`, `NothingLost`: `[]NothingLostInFlight`, from `DInv`:
  for each client the stream, the output channel, `forwardEvents`, the event channel and
  `sendEvent` hold, one after the other, the accepted messages from where its consumer
  started up to where it is.  It speaks of clients that are going away as well, whose
  path lists the messages up to the one at which it was cut.

`GatewayProofs`, for any RPCs, probes, checks and reports:

- `ClientsClosedUnused`: `[]ClosedUnused`, `DeferredClosed`: `[]DeferredClosesRun`,
  `ProbesOutlived`: `[]ProbesAnswered`, from `IInv` (`ProcessInvariant`): the program
  point of `run` says which clients are still to be closed, and once `GracefulStop` or
  `Shutdown` has returned no server can take another request, even one that has yet to
  listen.  Nothing is said of what `Close` of a client achieves: it may fail, and that of
  the consumer refuses when no subscription runs.
- `ReportsSound`: `HealthSpec => []ReportSound`, from `HealthInv`: the status so far goes by
  the checks that were run (`StatusSoFar`), and what a request has seen of a dependency
  includes what it is now.

`ReplayProofs`, for any retention, length of a minute, lag of events, number of replays,
requests and sizes of channel and batch (`EventStoreAssumption`, `ReplayAssumption`; an
event is younger than the retention period when it is stored):

- `RetainedToExpiry`: `[]RetainedUntilExpiry`, `IndexCovers`: `[]IndexCoversEvents`,
  `IndexStaysBounded`: `[]IndexBounded`, of the store, from `StoreInv`: list and index are in
  the order of storing, the index has every event of the list and only events since the
  last `Clear`, and the list has every one of these that was not expired at the last
  cleanup.  What a cleanup leaves follows from lemmas about `Filter` and about buckets.
- `QueriesAreExact`: `[]QueriesExact`.  Lemmas about `Concat` and `Filter` give the result of
  `queryByTime` for any number of minutes: what is in it, and its order.
- `PagesAreComplete`: `[]PagesComplete`: pages of any size make up the result, and no slice
  without duplicates is longer than one that has all its elements, by which `Count` is bounded.
- `TypeCorrect`: `[]TypeOK`, `ReplaysFaithful`: `[]ReplayFaithful`, of replays beside a store that
  changes, from `ReplayInv`: what was sent and, after it, what is in the channel is the
  beginning of the snapshot (`Streamed`), also after the handler has returned, and the
  snapshot has the order and the bounds that the query and the limit gave it.

`LimiterProofs`, for any keys, calls, burst, rate and threshold (`RateLimiterAssumption`: a
limiter that is stale would be full):

- `LimitersTracked`: `[]LimiterTracked`, from `LimiterInv`: a limiter in the map without an
  access time has a call that is about to record one, or is an orphan of a cleanup
  (`FreshUntilAccess`); a key is removed once per cleanup (`DoomedOnce`), and a call that
  has used it since it was found stale is known (`DoomedTouched`).
- `RatesBounded`: `[]RateBounded`, from `RateInv` beside `LimiterInv` (`RateInvariant`).  What a
  period has let through says nothing of what the next call may take, so `Budget` adds the
  tokens left in the limiters of the key that are in use (in the map or held by a call) and
  a burst for each that can still be created (`Spares`), and keeps the sum within the
  allowance; `Slots` bounds the number of these limiters by the overlaps and one.  A cleanup
  may delete a limiter for nothing only if it is full: `LastUsed` and `DoomedFull` say that
  one found stale is, until a call touches it, and the touch counts as an overlap.

`ResilienceProofs`, for any thresholds and timeout (`CircuitBreakerAssumption`) and any
settings of `Do` (`RetryAssumption`, which says of the powers in use that they are
numbers and grow with their base: the provers do not know `^`):

- `TypeCorrect`: `[]TypeOK`, and `Implements`: `Spec => IsBreaker`.  Both rest on
  `Counted`: in a closed breaker `consecutiveFailures` is the length of the run of
  failures at the end of `outcomes`, in a half-open one `successCount` is the
  number of outcomes.  Without it nothing says that the counter reaches the
  threshold when the outcomes do.
- `CallbacksAddUp`: `[]CallbacksConserve`, inductive given the types.
- `RetriesSound`: `RetrySpec => []RetrySound`, from `RetryIInv`, which relates the results so far
  to the attempt and to where `Do` is.  `BackoffBounded` and `BackoffWorks` say what
  `calculateBackoff` returns, for any settings and for workable ones.

`ContentProofs`, for any messages, strings, patterns, filters and scripts
(`EventPathAssumption`, `TransformerAssumption`), any handlers and names
(`RegistryAssumption`; readings of the clock may be equal), and any callers, IDs, schemas and
time to live (`SchemaValidatorAssumption`):

- `RoundTrip`: `Deserialize` gives back what `Serialize` was given of a valid event
  whose data is JSON, but for timestamp and form of the data.
- `CopiesShowTheSame`: `[]LiveAsReplayed`; `PathIInv` says that what is stored is a valid
  entity and that record and received copy were made from it.
- `TransformationsSound`: `[]TransformSound`, inductive as it stands.
- `OverlappingDuplicatesOnly`: `[]DuplicatesBounded`, from `RegistryIInv`
  (`RegistryInvariant`): the bound is inductive once the repository is known to be finite.
  A handler that passes the check finds no schema of the name, so that only handlers are
  counted, and a save makes at most one schema of one handler, whatever it replaces.
- `FreshSchemasKept` and `VerdictsCurrent`: `[]FreshKept` and `[]VerdictCurrent`.  `ValidatorIInv`
  relates what a call read under the read lock to the present (`Judging`): a call that
  will delete an expired schema read the registration that is owed, which then is
  expired as well.

Induction over data: the library states induction with an operator as a parameter, which
the provers cannot instantiate.  `ReplayProofs` and `LimiterProofs` use the least
counterexample instead (`Least`): a set of numbers that is not empty has a least one.  So
are proved what the recursive functions in `Slices` compute for any number of steps, that
there are not more elements than places for them (`Pigeonhole`), and how the sums of
`RateBounded` (`Total`) change with their terms.

Only model-checked:

- every liveness property (`CircuitRecovers`, `StreamServed`, `ReplayTerminates`,
  `SignalStops`): TLAPS reaches neither fairness nor `ENABLED`;
- `ComponentsTypeOK`, which only joins the type invariants of five components, each of
  which is part of an invariant above.

## 5. Not modelled

- RBAC: lookups in a table of roles.  `AddRolePermissions` and
  `RemoveRolePermissions` change it without a lock, but only tests call them.
- Configuration, logging, metrics and correlation: reading of the environment and
  output; nothing they do changes the state of another part.
- `GetLatest`, `GetStats` and `List` only read; `RateLimiter.Wait` has no caller.
- The `OffsetManager` (`CommitOffset` changes only a map in memory,
  `consumer.go:241`), several partitions and several gateway instances.
- `ProtobufSerializer`, a placeholder whose methods return errors; the conversions
  of schemas and consumers, which copy fields; domain events, which nothing
  publishes.
- Concurrent calls of the transformation engine: its caches have no lock, and
  nothing in the repository calls it from two goroutines.
- The nil serializers: `main.go` never calls `SetSerializer`, so `Publish` as
  wired would fail on a nil interface; the models describe producer and consumer
  with a serializer set, as the tests use them.
- A stream request without an event: the converter gives nil for it
  (`converter.go:21`), which the batch path takes for a request
  (`event_service.go:183`).  Requests are valid or invalid events.

## 6. What modelling brought up

The seven violated properties are recorded under `findings`.  Further observations
about the code, which no run is about:

- A second subscriber is refused by the consumer ("consumer is already running")
  but told nothing: the adapter calls `Subscribe` in a goroutine and returns nil
  (`main.go:408`).  Its stream stays silent.
- `Unsubscribe` of one subscription cancels whichever consumer runs and closes the
  shared reader.  `Close` of a consumer that is not running returns an error and leaves
  the reader open (`consumer.go:190`): after `GracefulStop` or a failed start, when no
  subscription runs, the reader is left to the end of the process.
- An event that cannot be serialized is left out of a published batch without an
  error (`producer.go:191`).
- `IngestEventStream` drops the requests it has collected when `Recv` fails; an
  error in the middle of a batch leaves a stored and published prefix that the
  client is told nothing of.
- `Count` excludes both ends of its range, `Query` includes them.  The bucket at
  the cutoff stays in the index, so `Query` can return an event that `GetByID` no
  longer finds; `IndexCoversEvents` and `IndexBounded` say how far this goes.
- A replay waits for its ticker without looking at the context
  (`replay_service.go:208`), so it outlives a cancellation by one tick.
- Two concurrent registrations of one schema name and version can both succeed
  (`schema_service.go:76`); `DuplicatesBounded` says how far this goes.
- A call that overlaps the cleanup of its key's limiter gains a fresh allowance;
  `RateBounded` without its factor `Overlaps(k) + 1` is violated.
- The server built in `main.go` does not install the rate limiter, and the
  interceptors use one key for all clients where `docs/Deployment.md:434` says
  "Requests per second per client".
- A panic in a half-open breaker of `pkg/circuitbreaker` is not counted, so more
  than `HalfOpenMaxCalls` calls (`circuit_breaker.go:46`) can run in that state;
  `IsBreaker` counts outcomes.
- The timestamp of an event is serialized (`serializer.go:28`) and never read: a
  subscriber sees the time of consumption, a replay that of ingestion.
- The callbacks of that package can arrive in another order than the changes.
- Retention is 24 hours in `main.go:104`, 168 in `docs/Deployment.md:462`.
- `/ready` "returns 200 if all dependencies are healthy" (`docs/Deployment.md:481`);
  the Kafka check returns nil without asking Kafka (`main.go:265`), so it always does.
- The 30 seconds of the stop begin before `GracefulStop`, which may use them up
  before the HTTP server is asked to stop.
- A batch gives all its events the correlation ID of its first request
  (`event_service.go:183`).
- The converters set no group ID (`converter.go:160`, `:196`), and an empty one makes no
  consumer (`entity/consumer.go:62`): `RegisterConsumer` over gRPC is always refused.
- Nothing fills the schema validator of `main.go`, so an event with a schema URL is
  refused; `Compile` is given the schema where it takes a location
  (`validator.go:42`).  A `GetSchema` that found an expired schema can delete the one
  registered in its place meanwhile; `FreshKept` makes that exception.
- `pkg/retry`: jitter is added after the cap, so a wait can exceed `MaxBackoff`, "the
  maximum duration to wait between retries" (`retry.go:19`), by nearly a half; jitter
  on a backoff below two nanoseconds, or on one that overflowed, panics.  `RetrySound`
  states the bound that `pkg/README.md:249` gives.
- The transformation engine says "Preserve original ID and timestamp"
  (`engine.go:209`) and keeps only the ID: the result is made by `NewEvent`, with the
  time of the call.  A script with the result `null` panics at
  the assignment after it.

## 7. Plan

Done: the modules above, with their runs, and the proofs of section 4.

Left: a composition of `Ingestion` with `Producer`, so that an open circuit and a failed
batch are seen together.
