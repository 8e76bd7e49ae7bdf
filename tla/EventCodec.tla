------------------------------ MODULE EventCodec ------------------------------
(***************************************************************************)
(* What the forms of an event keep of it: the request and the message of   *)
(* the API, the entity, and the JSON record in Kafka; and the filter that  *)
(* subscriptions and replays apply to it.  Everything here is a function.  *)
(*                                                                         *)
(* A string is a word or empty.  Of the data, the models tell apart what   *)
(* JSON makes of it, and of a map of metadata its entries.                 *)
(***************************************************************************)
EXTENDS Integers

CONSTANTS
  Words,     \* non-empty strings
  Entries,   \* entries of metadata, no two with the same key
  Matching,  \* the pairs of a pattern and a string that it matches
  None       \* no value: nil and an error

Strings == Words \cup {""}

\* Empty, a JSON object in the form that Marshal gives it or in another (with white
\* space, or with <, > or & unescaped), the values null and string, and no JSON.
Data == {"", "object", "spaced", "null", "string", "text"}

PriorityMedium   == 2
PriorityCritical == 4

\* The fields that every form has.
Fields ==
  [source : Strings, type : Strings, subject : Strings, data : Data, dataContentType : Strings,
   schemaURL : Strings, metadata : SUBSET Entries, correlationID : Strings,
   causationID : Strings, partitionKey : Strings, priority : Int]

\* An entity, and the message made of it, has an ID and a timestamp as well.
Entities ==
  [id : Strings, source : Strings, type : Strings, subject : Strings, data : Data,
   dataContentType : Strings, schemaURL : Strings, metadata : SUBSET Entries,
   correlationID : Strings, causationID : Strings, partitionKey : Strings, priority : Int,
   timestamp : Int]

-----------------------------------------------------------------------------
(* entity.Event *)

Validate(e) ==
  /\ e.id # "" /\ e.source # "" /\ e.type # "" /\ e.data # "" /\ e.dataContentType # ""

\* The constructor sets the timestamp to the clock and defaults for the rest.
NewEvent(id, f, now) ==
  [id |-> id, source |-> f.source, type |-> f.type, subject |-> f.subject, data |-> f.data,
   dataContentType |-> f.dataContentType, schemaURL |-> "", metadata |-> {},
   correlationID |-> "", causationID |-> "", partitionKey |-> "",
   priority |-> PriorityMedium, timestamp |-> now]

\* The builder methods, each of which copies the event.
WithSchemaURL(e, url)     == [e EXCEPT !.schemaURL = url]
WithMetadata(e, m)        == [e EXCEPT !.metadata = @ \cup m]
WithCorrelation(e, c, d)  == [e EXCEPT !.correlationID = c, !.causationID = d]
WithPartitionKey(e, key)  == [e EXCEPT !.partitionKey = key]
WithPriority(e, p)        == [e EXCEPT !.priority = p]

-----------------------------------------------------------------------------
(* The request and the message of the API *)

\* eventProtoToDTO: a missing map of metadata becomes an empty one.
EventProtoToDTO(message) == [message EXCEPT !.metadata = IF @ = None THEN {} ELSE @]

\* The optional fields that ToEntity applies.
Optional(e, r) ==
  LET e1 == IF r.schemaURL # "" THEN WithSchemaURL(e, r.schemaURL) ELSE e
      e2 == IF r.metadata # {} THEN WithMetadata(e1, r.metadata) ELSE e1
      e3 == IF r.correlationID # "" \/ r.causationID # ""
            THEN WithCorrelation(e2, r.correlationID, r.causationID) ELSE e2
  IN  IF r.partitionKey # "" THEN WithPartitionKey(e3, r.partitionKey) ELSE e3

\* ToEntity: an invalid event is an error, a priority out of range is ignored.
ToEntity(r, id, now) ==
  LET e == NewEvent(id, r, now)
  IN  IF ~Validate(e) THEN None
      ELSE IF r.priority > 0 /\ r.priority <= PriorityCritical
           THEN WithPriority(Optional(e, r), r.priority)
           ELSE Optional(e, r)

PriorityDomainToProto(p) == IF p \in 1 .. PriorityCritical THEN p ELSE 0

EventEntityToProto(e) == [e EXCEPT !.priority = PriorityDomainToProto(@)]

-----------------------------------------------------------------------------
(* The record in Kafka *)

\* Raw data must be JSON; it is written compactly, with HTML escaped.
IsJSON(d)  == d \notin {"", "text"}
Compact(d) == IF d = "spaced" THEN "object" ELSE d

MarshalJSON(e) == [e EXCEPT !.data = Compact(@)]

Serialize(e) == IF IsJSON(e.data) THEN MarshalJSON(e) ELSE None

\* Mutant: the lowest priority is taken for none.
DeserializeAboveLow(r, now) ==
  LET e == NewEvent(r.id, r, now)
  IN  IF ~Validate(e) THEN None
      ELSE IF r.priority > 1 THEN WithPriority(Optional(e, r), r.priority)
                             ELSE Optional(e, r)

\* The record's timestamp is not read: the event gets that of its reading.
Deserialize(r, now) ==
  LET e == NewEvent(r.id, r, now)
  IN  IF ~Validate(e) THEN None
      ELSE IF r.priority > 0 THEN WithPriority(Optional(e, r), r.priority)
                             ELSE Optional(e, r)

-----------------------------------------------------------------------------
(* valueobject.EventFilter *)

\* What a request without a filter asks for.
NoFilter == [source |-> "", type |-> "", subject |-> "", metadata |-> {}, minPriority |-> 0]

SubscribeRequestProtoToDTO(f) ==
  IF f = None THEN NoFilter ELSE [f EXCEPT !.metadata = IF @ = None THEN {} ELSE @]

ReplayRequestProtoToDTO(f) ==
  IF f = None THEN NoFilter ELSE [f EXCEPT !.metadata = IF @ = None THEN {} ELSE @]

\* A pattern that is not a regular expression matches nothing: NewEventFilter
\* refuses it.
Compiles(pattern) == pattern = "" \/ \E s \in Strings : <<pattern, s>> \in Matching

NewEventFilter(f) ==
  IF Compiles(f.source) /\ Compiles(f.type) /\ Compiles(f.subject) THEN f ELSE None

MatchString(pattern, s) == pattern = "" \/ <<pattern, s>> \in Matching

Matches(f, e) ==
  /\ MatchString(f.source, e.source)
  /\ MatchString(f.type, e.type)
  /\ MatchString(f.subject, e.subject)
  /\ e.priority >= f.minPriority
  /\ f.metadata \subseteq e.metadata

EmptyFilter(f) ==
  f.source = "" /\ f.type = "" /\ f.subject = "" /\ f.metadata = {} /\ f.minPriority = 0

AddMetadataFilter(f, entry)    == [f EXCEPT !.metadata = @ \cup {entry}]
RemoveMetadataFilter(f, entry) == [f EXCEPT !.metadata = @ \ {entry}]

=============================================================================
