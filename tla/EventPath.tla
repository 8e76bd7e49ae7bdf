------------------------------ MODULE EventPath ------------------------------
(***************************************************************************)
(* One event on its two ways to a client: through Kafka to a subscription, *)
(* and through the event store to a replay.                                *)
(***************************************************************************)
EXTENDS EventCodec

CONSTANTS
  EventID,        \* what generateID returned for the event
  CorrelationID,  \* and what it returned for a request without a correlation ID
  Messages,       \* events as clients send them, without metadata or with
  Filters         \* filters as clients send them

\* Messages become requests whose fields have their types, and what stands for
\* nothing is no event.
ASSUME EventPathAssumption ==
  /\ {EventID, CorrelationID} \subseteq Words
  /\ \A m \in Messages : EventProtoToDTO(m) \in Fields /\ m.correlationID \in Strings
  /\ None \notin Messages \cup Entities

VARIABLES
  pathClock,
  message,  \* the event as its client sent it
  stored,   \* the entity in the event store
  record,   \* the record in Kafka
  received  \* the entity that the consumer made of the record

pathVars == <<pathClock, message, stored, record, received>>

PathInit ==
  /\ pathClock = 1
  /\ message = None
  /\ stored = None
  /\ record = None
  /\ received = None

\* validateAndEnrichEvent and Store: a request that makes no valid event, or whose
\* data does not conform to its schema, is refused and leaves nothing.
Enrich(m, correlationID) ==
  LET r == EventProtoToDTO(m)
      e == ToEntity(r, EventID, pathClock)
  IN  /\ e # None
      /\ message' = m
      /\ stored' = WithCorrelation(e, IF correlationID = "" THEN CorrelationID ELSE correlationID,
                                   r.causationID)
      /\ pathClock' = pathClock + 1
      /\ UNCHANGED <<record, received>>

IngestEvent(m) == Enrich(m, m.correlationID)

\* All events of a batch get the correlation ID of its first request.
IngestEventBatch(m, first) == Enrich(m, first)

\* Publish: an event whose data is not JSON stays out of Kafka.
Publish ==
  /\ stored # None /\ record = None
  /\ Serialize(stored) # None
  /\ record' = Serialize(stored)
  /\ UNCHANGED <<pathClock, message, stored, received>>

\* The consumer reads the record; one it cannot read is None for good.
Consume ==
  /\ record # None /\ received = None /\ pathClock = 2
  /\ received' = Deserialize(record, pathClock)
  /\ pathClock' = pathClock + 1
  /\ UNCHANGED <<message, stored, record>>

PathNext ==
  \/ /\ message = None
     /\ \E m \in Messages : IngestEvent(m) \/ \E first \in Strings : IngestEventBatch(m, first)
  \/ Publish
  \/ Consume

PathSpec == PathInit /\ [][PathNext]_pathVars

Consumed == pathClock = 3

\* What the client of a subscription gets of the event.  An invalid filter is
\* refused; a valid one is handed to the adapter of main.go, which drops it.
Subscribe(filter) == IF NewEventFilter(filter) = None THEN None ELSE EventEntityToProto(received)

\* What the client of a replay gets: Query does not ask an empty filter.
Replay(filter) ==
  IF NewEventFilter(filter) # None /\ (EmptyFilter(filter) \/ Matches(filter, stored))
  THEN EventEntityToProto(stored) ELSE None

-----------------------------------------------------------------------------
(* Properties *)

\* The two copies of an event are the same to a client: the record that was
\* published can be read back, every filter judges both copies alike, and whoever
\* gets the event by a replay gets it by a subscription, with nothing else than the
\* timestamp and the form of the data changed.
LiveAsReplayed ==
  Consumed =>
    /\ received # None
    /\ \A f \in Filters :
         LET live     == Subscribe(SubscribeRequestProtoToDTO(f))
             replayed == Replay(ReplayRequestProtoToDTO(f))
         IN  /\ Matches(SubscribeRequestProtoToDTO(f), received)
                  = Matches(ReplayRequestProtoToDTO(f), stored)
             /\ replayed # None =>
                  /\ live # None
                  /\ [live EXCEPT !.timestamp = stored.timestamp]
                       = [replayed EXCEPT !.data = Compact(@)]

\* "SubscribeEvents allows clients to subscribe to a stream of events matching
\* filters": what a subscription with a filter gets matches the filter.
SubscribedMatches ==
  Consumed =>
    \A f \in Filters :
      LET filter == SubscribeRequestProtoToDTO(f)
      IN  Subscribe(filter) # None => Matches(filter, received)

=============================================================================
