------------------------------ MODULE EventStore ------------------------------
(***************************************************************************)
(* InMemoryEventStore (infrastructure/replay/replay_store.go): the list of *)
(* events, the index by minute, retention, and the queries.  Every method  *)
(* holds the store's lock throughout, so each is one step.                 *)
(*                                                                         *)
(* timeBuckets maps a minute to its events in the order they were stored;  *)
(* it is modelled by the sequence of all indexed events in that order, of  *)
(* which the entry of a minute is the subsequence.                         *)
(***************************************************************************)
EXTENDS Slices

CONSTANTS
  Sources,       \* what filters tell events apart by
  MaxRetention,  \* maxRetention
  Minute,        \* length of a time bucket, and the interval of cleanups
  MaxLag,        \* bound: age of an event when it is stored
  MaxEvents,     \* bound: events ever stored
  MaxStoreTime   \* bound: the clock

ASSUME EventStoreAssumption ==
  /\ {MaxRetention, Minute, MaxLag, MaxEvents, MaxStoreTime} \subseteq Nat
  /\ Minute > 0
  /\ MaxLag < MaxRetention
  /\ MaxRetention <= MaxStoreTime

VARIABLES
  storeNow, lastCleanup, events,
  index,     \* timeBuckets
  accepted,  \* history: all events stored, in order
  cleared    \* history: how many of them when Clear was last called

storeVars == <<storeNow, lastCleanup, events, index, accepted, cleared>>

Event == [id : 1 .. MaxEvents, ts : 0 .. MaxStoreTime, src : Sources]

StoreTypeOK ==
  /\ storeNow \in 0 .. MaxStoreTime
  /\ lastCleanup \in 0 .. storeNow
  /\ events \in Seq(Event)
  /\ index \in Seq(Event)
  /\ accepted \in Seq(Event)
  /\ cleared \in 0 .. Len(accepted)

\* The store is created at a time when nothing has expired yet.
StoreInit ==
  /\ storeNow = MaxRetention
  /\ lastCleanup = storeNow
  /\ events = <<>>
  /\ index = <<>>
  /\ accepted = <<>>
  /\ cleared = 0

Bucket(t) == t \div Minute

\* Mutant: retention is not applied.
CutoffNow == storeNow
\* The end of the retention period.
CutoffTime == storeNow - MaxRetention

\* Mutant: the bucket the cutoff is in is removed too.
KeptBucketStrict(e) == Bucket(e.ts) > Bucket(CutoffTime)
\* Mutant: the index is not cleaned.
KeptBucketAlways(e) == TRUE
\* cleanup keeps an event in the list, and a minute in the index.
KeptEvent(e)  == e.ts > CutoffTime
KeptBucket(e) == Bucket(e.ts) >= Bucket(CutoffTime)

\* Store, with the cleanup it runs when the last one is more than a minute ago.
Store(src, lag) ==
  LET e == [id |-> Len(accepted) + 1, ts |-> storeNow - lag, src |-> src]
      cleanup == storeNow - lastCleanup > Minute
  IN  /\ Len(accepted) < MaxEvents
      /\ accepted' = Append(accepted, e)
      /\ events' = LET es == Append(events, e)
                   IN  IF cleanup THEN Filter(es, {x \in Event : KeptEvent(x)}) ELSE es
      /\ index' = LET ix == Append(index, e)
                  IN  IF cleanup THEN Filter(ix, {x \in Event : KeptBucket(x)}) ELSE ix
      /\ lastCleanup' = IF cleanup THEN storeNow ELSE lastCleanup
      /\ UNCHANGED <<storeNow, cleared>>

Clear ==
  /\ events' = <<>>
  /\ index' = <<>>
  /\ cleared' = Len(accepted)
  /\ UNCHANGED <<storeNow, lastCleanup, accepted>>

StoreTick ==
  /\ storeNow < MaxStoreTime
  /\ storeNow' = storeNow + 1
  /\ UNCHANGED <<lastCleanup, events, index, accepted, cleared>>

StoreNext ==
  \/ \E src \in Sources, lag \in 0 .. MaxLag : Store(src, lag)
  \/ Clear
  \/ StoreTick

StoreSpec == StoreInit /\ [][StoreNext]_storeVars

-----------------------------------------------------------------------------
(* Queries.  q is a record of the range's start and end and of the filter,   *)
(* the set of sources it admits; the empty filter admits every event.        *)

Selected(q, e) == q.start <= e.ts /\ e.ts <= q.end /\ (q.filter = {} \/ e.src \in q.filter)

\* Mutant: the bucket the range ends in is not scanned.
ScannedButLast(q) == Bucket(q.end) - Bucket(q.start)
\* How many minutes a range query scans.
Scanned(q) == Bucket(q.end) - Bucket(q.start) + 1

\* queryByTime: minute by minute, within a minute in the order of the index.
QueryByTime(q) ==
  Concat([k \in 1 .. Scanned(q) |->
    Filter(index, {e \in Event : Bucket(e.ts) = Bucket(q.start) + k - 1 /\ Selected(q, e)})],
    Scanned(q))

\* Mutant: page numbers are taken to start at zero.
PageFromZero(q, size, number) ==
  LET all == QueryByTime(q)
      start == number * size
  IN  IF start >= Len(all) THEN <<>>
      ELSE SubSeq(all, start + 1, IF start + size > Len(all) THEN Len(all) ELSE start + size)
\* QueryWithPagination, whose pages are numbered from 1.
Page(q, size, number) ==
  LET all == QueryByTime(q)
      start == (number - 1) * size
  IN  IF start >= Len(all) THEN <<>>
      ELSE SubSeq(all, start + 1, IF start + size > Len(all) THEN Len(all) ELSE start + size)

\* GetByID: the event with an ID, as a set of at most one.
GetByID(id) == {e \in Range(events) : e.id = id}

\* Count, which takes both ends of the range as outside it.
Count(start, end) == Len(Filter(events, {e \in Event : start < e.ts /\ e.ts < end}))

-----------------------------------------------------------------------------
(* Properties *)

\* No event is lost before its time: whatever cleanups ran, an event within the
\* retention period is found by its ID.
RetainedUntilExpiry ==
  \A k \in cleared + 1 .. Len(accepted) :
    accepted[k].ts > storeNow - MaxRetention => GetByID(k) = {accepted[k]}

\* The list and the index agree: a query finds every event that GetByID finds, and
\* beyond those only events that the last cleanup expired.
IndexCoversEvents ==
  /\ Range(events) \subseteq Range(index)
  /\ \A e \in Range(index) \ Range(events) : e.ts <= lastCleanup - MaxRetention

\* The index does not grow without bound: what is older than the retention period at
\* the last cleanup is less than a minute older.
IndexBounded ==
  \A e \in Range(index) : e.ts > lastCleanup - MaxRetention - Minute

\* The queries that overlap the history of the store, without a filter or with one
\* that admits one source.
Queries == {q \in [start : 0 .. storeNow, end : 0 .. storeNow,
                   filter : {{}} \cup {{src} : src \in Sources}] : q.start <= q.end}

\* Range queries are exact, whatever was stored late or has expired: they return
\* the indexed events of the range, each once, by minute and within a minute in
\* the order they were stored.
QueriesExact ==
  \A q \in Queries :
    LET result == QueryByTime(q)
    IN  /\ Range(result) = {e \in Range(index) : Selected(q, e)}
        /\ \A j, k \in DOMAIN result : j < k =>
             \/ Bucket(result[j].ts) < Bucket(result[k].ts)
             \/ Bucket(result[j].ts) = Bucket(result[k].ts) /\ result[j].id < result[k].id

\* The pages of QueryWithPagination make up the result of the query, whatever their
\* size, and Count counts no event that the query does not return.
PagesComplete ==
  \A q \in {p \in Queries : p.filter = {} /\ p.end = storeNow} :
    /\ \A size \in 1 .. MaxEvents :
         QueryByTime(q) = Concat([n \in 1 .. MaxEvents |-> Page(q, size, n)], MaxEvents)
    /\ Count(q.start, q.end) <= Len(QueryByTime(q))

=============================================================================
