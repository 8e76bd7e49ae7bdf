---------------------------- MODULE ContentProofs ----------------------------
(***************************************************************************)
(* Proofs about events and about what they are registered, validated and   *)
(* transformed by.                                                         *)
(*                                                                         *)
(* The forms of an event: a record in Kafka keeps of an event all but its  *)
(* timestamp and the form of its data, so that a subscription and a replay *)
(* show the same event.  Transformations: a transformed event is valid and *)
(* keeps the ID that its script does not replace.                          *)
(*                                                                         *)
(* The registries, for any handlers, names and number of readings of the   *)
(* clock, equal or not: a name and version is registered more than once    *)
(* only by calls that overlap between the repository methods they make.    *)
(*                                                                         *)
(* The validator, for any callers, schemas and time to live: no fresh      *)
(* schema is lost but to a call of GetSchema that overlaps its             *)
(* registration, and no verdict goes by a schema of before the call.       *)
(***************************************************************************)
EXTENDS EventPath, Transformer, Registry, SchemaValidator, FiniteSetTheorems, TLAPS

-----------------------------------------------------------------------------
(* The optional fields *)

\* An event with the fields of r, of which the optional ones are given.
Applied(id, r, now, url, metadata, correlation, causation, key) ==
  [id |-> id, source |-> r.source, type |-> r.type, subject |-> r.subject, data |-> r.data,
   dataContentType |-> r.dataContentType, schemaURL |-> url, metadata |-> metadata,
   correlationID |-> correlation, causationID |-> causation, partitionKey |-> key,
   priority |-> PriorityMedium, timestamp |-> now]

Built(id, r, now) ==
  Applied(id, r, now, r.schemaURL, r.metadata, r.correlationID, r.causationID, r.partitionKey)

\* Whichever of the optional fields are set, the event gets all of them: a field
\* that is not applied has its default already.
LEMMA OptionalApplied ==
  ASSUME NEW r, NEW id, NEW now
  PROVE  Optional(NewEvent(id, r, now), r) = Built(id, r, now)
<1> DEFINE e  == Applied(id, r, now, "", {}, "", "", "")
           e1 == Applied(id, r, now, r.schemaURL, {}, "", "", "")
           e2 == Applied(id, r, now, r.schemaURL, r.metadata, "", "", "")
           e3 == Applied(id, r, now, r.schemaURL, r.metadata, r.correlationID, r.causationID, "")
<1>0. NewEvent(id, r, now) = e
  BY DEF NewEvent, Applied
<1>1. (IF r.schemaURL # "" THEN WithSchemaURL(e, r.schemaURL) ELSE e) = e1
  BY Zenon DEF WithSchemaURL, Applied
<1>2. (IF r.metadata # {} THEN WithMetadata(e1, r.metadata) ELSE e1) = e2
  BY Zenon DEF WithMetadata, Applied
<1>3. (IF r.correlationID # "" \/ r.causationID # ""
       THEN WithCorrelation(e2, r.correlationID, r.causationID) ELSE e2) = e3
  BY Zenon DEF WithCorrelation, Applied
<1>4. (IF r.partitionKey # "" THEN WithPartitionKey(e3, r.partitionKey) ELSE e3)
        = Built(id, r, now)
  BY Zenon DEF WithPartitionKey, Applied, Built
<1>5. QED BY <1>0, <1>1, <1>2, <1>3, <1>4, Zenon DEF Optional

-----------------------------------------------------------------------------
(* The record in Kafka *)

\* What a record gives back of an event.
Reread(e, now) ==
  [id |-> e.id, source |-> e.source, type |-> e.type, subject |-> e.subject,
   data |-> Compact(e.data), dataContentType |-> e.dataContentType, schemaURL |-> e.schemaURL,
   metadata |-> e.metadata, correlationID |-> e.correlationID, causationID |-> e.causationID,
   partitionKey |-> e.partitionKey, priority |-> e.priority, timestamp |-> now]

\* Deserialize gives back what Serialize was given, but for the timestamp and the
\* form of the data, of any valid event whose priority is set.
THEOREM RoundTrip ==
  ASSUME NEW e \in Entities, Validate(e), IsJSON(e.data), e.priority > 0, NEW now \in Int
  PROVE  Deserialize(Serialize(e), now) = Reread(e, now)
<1> DEFINE r == [e EXCEPT !.data = Compact(@)]
<1>1. Serialize(e) = r
  BY DEF Serialize, MarshalJSON
<1>2. Validate(NewEvent(r.id, r, now))
  BY Zenon DEF Validate, NewEvent, Compact, Entities
<1>3. Optional(NewEvent(r.id, r, now), r) = Built(r.id, r, now)
  BY OptionalApplied
<1>4. r.priority > 0
  BY DEF Entities
<1>5. WithPriority(Built(r.id, r, now), r.priority) = Reread(e, now)
  BY DEF WithPriority, Built, Applied, Reread, Entities
<1>6. QED BY <1>1, <1>2, <1>3, <1>4, <1>5 DEF Deserialize

-----------------------------------------------------------------------------
(* The ingested event *)

\* An event that can be told from an error, valid and with a known priority.
Sound(e) == e \in Entities /\ Validate(e) /\ e.priority \in 1 .. PriorityCritical

\* The event of a request with the priority p.
Raised(id, r, now, p) ==
  [id |-> id, source |-> r.source, type |-> r.type, subject |-> r.subject, data |-> r.data,
   dataContentType |-> r.dataContentType, schemaURL |-> r.schemaURL, metadata |-> r.metadata,
   correlationID |-> r.correlationID, causationID |-> r.causationID,
   partitionKey |-> r.partitionKey, priority |-> p, timestamp |-> now]

\* ToEntity makes a sound event or none, whatever the priority of the request.
LEMMA ToEntitySound ==
  ASSUME NEW r \in Fields, NEW id \in Strings, NEW now \in Int, ToEntity(r, id, now) # None
  PROVE  Sound(ToEntity(r, id, now))
<1> DEFINE e == NewEvent(id, r, now)
           b == Built(id, r, now)
<1>1. Validate(e) /\ Optional(e, r) = b
  BY OptionalApplied DEF ToEntity
<1>2. \A p \in 1 .. PriorityCritical : Sound(Raised(id, r, now, p))
  <2> TAKE p \in 1 .. PriorityCritical
  <2>1. Raised(id, r, now, p) \in Entities
    BY DEF Fields, Entities, Raised, PriorityCritical
  <2>2. Validate(Raised(id, r, now, p)) /\ Raised(id, r, now, p).priority = p
    BY <1>1, Zenon DEF Raised, Validate, NewEvent
  <2>3. QED BY <2>1, <2>2 DEF Sound
<1>3. b = Raised(id, r, now, PriorityMedium)
  BY DEF Built, Applied, Raised
<1>4. \A p : WithPriority(b, p) = Raised(id, r, now, p)
  BY DEF WithPriority, Built, Applied, Raised
<1>5. Sound(b)
  BY <1>2, <1>3 DEF PriorityMedium, PriorityCritical
<1>6. r.priority \in Int
  BY DEF Fields
<1>7. QED BY <1>1, <1>2, <1>4, <1>5, <1>6 DEF ToEntity, PriorityCritical

\* It stays sound with the correlation ID that validateAndEnrichEvent gives it.
LEMMA CorrelationSound ==
  ASSUME NEW e, Sound(e), NEW c \in Strings, NEW d \in Strings
  PROVE  Sound(WithCorrelation(e, c, d))
<1>1. e \in Entities
  BY DEF Sound
<1>2. WithCorrelation(e, c, d) \in Entities
  BY <1>1, Zenon DEF WithCorrelation, Entities
<1>3. Validate(WithCorrelation(e, c, d)) /\ WithCorrelation(e, c, d).priority = e.priority
  BY <1>1, Zenon DEF Sound, WithCorrelation, Validate, Entities
<1>4. QED BY <1>2, <1>3 DEF Sound

-----------------------------------------------------------------------------
(* The two copies *)

\* The inductive invariant: what is stored is sound, the record is made of what is
\* stored, and what was received was read from the record.
PathIInv ==
  /\ pathClock \in 1 .. 3
  /\ pathClock = 1 => message = None /\ stored = None /\ record = None /\ received = None
  /\ pathClock # 1 => message # None /\ Sound(stored)
  /\ record # None => pathClock # 1 /\ IsJSON(stored.data) /\ record = Serialize(stored)
  /\ pathClock = 3 => record # None /\ received = Deserialize(record, 2)

LEMMA EnrichInv ==
  ASSUME PathIInv, message = None, NEW m \in Messages, NEW c \in Strings,
         Enrich(m, c)
  PROVE  PathIInv'
<1> DEFINE r == EventProtoToDTO(m)
           e == ToEntity(r, EventID, pathClock)
           d == IF c = "" THEN CorrelationID ELSE c
<1>1. r \in Fields /\ EventID \in Strings /\ CorrelationID \in Strings /\ m # None
  BY EventPathAssumption, Zenon DEF Strings
<1>2. pathClock = 1 /\ record = None
  BY DEF PathIInv
<1>3. Sound(e)
  <2>1. e # None
    BY Zenon DEF Enrich
  <2> HIDE DEF r
  <2>2. pathClock \in Int
    BY <1>2
  <2>3. QED BY <1>1, <2>1, <2>2, ToEntitySound
<1>4. d \in Strings /\ r.causationID \in Strings
  BY <1>1, Zenon DEF Fields
<1>5. Sound(stored')
  <2> HIDE DEF e, d, r
  <2>1. Sound(WithCorrelation(e, d, r.causationID))
    BY <1>3, <1>4, CorrelationSound
  <2> QED BY <2>1, Zenon DEF Enrich, e, d, r
<1>6. pathClock' = 2 /\ message' # None /\ record' = None
  <2>1. pathClock' = pathClock + 1 /\ message' = m /\ record' = record
    BY Zenon DEF Enrich
  <2> HIDE DEF r
  <2>2. QED BY <1>1, <1>2, <2>1
<1>7. QED BY <1>5, <1>6 DEF PathIInv

LEMMA PathNextInv ==
  ASSUME PathIInv, [PathNext]_pathVars
  PROVE  PathIInv'
<1>1. ASSUME message = None, NEW m \in Messages, IngestEvent(m)
      PROVE  PathIInv'
  BY <1>1, EnrichInv, EventPathAssumption DEF IngestEvent
<1>2. ASSUME message = None, NEW m \in Messages, NEW first \in Strings,
             IngestEventBatch(m, first)
      PROVE  PathIInv'
  BY <1>2, EnrichInv DEF IngestEventBatch
<1>3. CASE Publish
  <2>1. pathClock = 2
    BY <1>3 DEF Publish, PathIInv
  <2>2. IsJSON(stored.data)
    BY <1>3 DEF Publish, Serialize
  <2>3. QED BY <1>3, <2>1, <2>2 DEF Publish, PathIInv
<1>4. CASE Consume
  BY <1>4 DEF Consume, PathIInv
<1>5. CASE UNCHANGED pathVars
  BY <1>5 DEF pathVars, PathIInv
<1>6. QED BY <1>1, <1>2, <1>3, <1>4, <1>5 DEF PathNext

\* What a subscription and a replay show of one event agrees once it was consumed.
LEMMA CopiesAgree ==
  ASSUME PathIInv
  PROVE  LiveAsReplayed
<1> SUFFICES ASSUME Consumed
             PROVE  /\ received # None
                    /\ \A f \in Filters :
                         LET live     == Subscribe(SubscribeRequestProtoToDTO(f))
                             replayed == Replay(ReplayRequestProtoToDTO(f))
                         IN  /\ Matches(SubscribeRequestProtoToDTO(f), received)
                                  = Matches(ReplayRequestProtoToDTO(f), stored)
                             /\ replayed # None =>
                                  /\ live # None
                                  /\ [live EXCEPT !.timestamp = stored.timestamp]
                                       = [replayed EXCEPT !.data = Compact(@)]
  BY DEF LiveAsReplayed
<1>1. /\ Sound(stored) /\ stored \in Entities
      /\ received = Reread(stored, 2)
  <2>1. Sound(stored) /\ IsJSON(stored.data) /\ received = Deserialize(Serialize(stored), 2)
    BY DEF PathIInv, Consumed
  <2>2. stored \in Entities /\ Validate(stored) /\ stored.priority > 0
    BY <2>1 DEF Sound, PriorityCritical
  <2>3. QED BY <2>1, <2>2, RoundTrip
<1>2. received \in Entities /\ received # None
  <2>1. Compact(stored.data) \in Data
    BY <1>1, Zenon DEF Entities, Compact, Data
  <2>2. received \in Entities
    BY <1>1, <2>1 DEF Reread, Entities
  <2>3. QED BY <2>2, EventPathAssumption
<1>3. \A f : Matches(f, received) = Matches(f, stored)
  BY <1>1 DEF Matches, Reread
<1>4. \A f : SubscribeRequestProtoToDTO(f) = ReplayRequestProtoToDTO(f)
  BY DEF SubscribeRequestProtoToDTO, ReplayRequestProtoToDTO
<1>5. EventEntityToProto(received) = received /\ EventEntityToProto(stored) = stored
  BY <1>1 DEF EventEntityToProto, PriorityDomainToProto, Sound, Reread, Entities
<1>6. [received EXCEPT !.timestamp = stored.timestamp] = [stored EXCEPT !.data = Compact(@)]
  BY <1>1 DEF Reread, Entities
<1>7. QED BY <1>2, <1>3, <1>4, <1>5, <1>6 DEF Subscribe, Replay

\* Of every event that is ingested, published and consumed, whatever its fields and
\* the filters, a subscription shows what a replay shows.
THEOREM CopiesShowTheSame ==
  PathSpec => []LiveAsReplayed
<1>1. PathInit => PathIInv
  BY DEF PathInit, PathIInv
<1>2. PathIInv /\ [PathNext]_pathVars => PathIInv'
  BY PathNextInv
<1>3. PathIInv => LiveAsReplayed
  BY CopiesAgree
<1>4. QED BY <1>1, <1>2, <1>3, PTL DEF PathSpec

-----------------------------------------------------------------------------
(* Transformations *)

\* The chain of builder calls sets all of the optional fields.
LEMMA FieldsApplied ==
  ASSUME NEW r, NEW id, NEW now
  PROVE  WithFields(NewEvent(id, r, now), r) = Built(id, r, now)
<1> DEFINE e  == Applied(id, r, now, "", {}, "", "", "")
           e1 == Applied(id, r, now, r.schemaURL, {}, "", "", "")
           e2 == Applied(id, r, now, r.schemaURL, r.metadata, "", "", "")
           e3 == Applied(id, r, now, r.schemaURL, r.metadata, r.correlationID, r.causationID, "")
<1>0. NewEvent(id, r, now) = e
  BY DEF NewEvent, Applied
<1>1. ASSUME NEW z, z = WithSchemaURL(e, r.schemaURL) PROVE z = e1
  BY <1>1, Zenon DEF WithSchemaURL, Applied
<1>2. ASSUME NEW z, z = WithMetadata(e1, r.metadata) PROVE z = e2
  BY <1>2, Zenon DEF WithMetadata, Applied
<1>3. ASSUME NEW z, z = WithCorrelation(e2, r.correlationID, r.causationID) PROVE z = e3
  BY <1>3, Zenon DEF WithCorrelation, Applied
<1>4. ASSUME NEW z, z = WithPartitionKey(e3, r.partitionKey) PROVE z = Built(id, r, now)
  BY <1>4, Zenon DEF WithPartitionKey, Applied, Built
<1>5. QED BY <1>0, <1>1, <1>2, <1>3, <1>4, Zenon DEF WithFields

\* It leaves alone what makes an event valid, and its ID.
LEMMA FieldsKeepValid ==
  ASSUME NEW id, NEW r, NEW now, Validate(NewEvent(id, r, now)), NEW p
  PROVE  LET e == WithPriority(WithFields(NewEvent(id, r, now), r), p)
         IN  Validate(e) /\ e.id = id
<1>1. WithPriority(Built(id, r, now), p) = Raised(id, r, now, p)
  BY DEF WithPriority, Built, Applied, Raised
<1>2. Validate(Raised(id, r, now, p)) /\ Raised(id, r, now, p).id = id
  BY Zenon DEF Raised, Validate, NewEvent
<1>3. QED BY <1>1, <1>2, FieldsApplied

\* An event that is made of a script's result is valid, and has the ID of the event
\* that was transformed unless the result has one.
LEMMA BuiltSound ==
  ASSUME NEW e, NEW result, BuildTransformedEvent(e, result) \notin {None, Panic}
  PROVE  /\ result \notin {Null, Scalar}
         /\ Validate(BuildTransformedEvent(e, result))
         /\ BuildTransformedEvent(e, result).id
              = IF result.id \in {Absent, ""} THEN e.id ELSE result.id
<1> DEFINE id    == IF result.id \in {Absent, ""} THEN e.id ELSE result.id
           built == NewEvent(id, result, e.timestamp + 1)
<1>1. /\ result \notin {Null, Scalar} /\ Validate(built)
      /\ BuildTransformedEvent(e, result)
           = WithPriority(WithFields(built, result), result.priority)
  BY Zenon DEF BuildTransformedEvent
<1>2. Validate(BuildTransformedEvent(e, result)) /\ BuildTransformedEvent(e, result).id = id
  <2> HIDE DEF id
  <2>1. QED BY <1>1, FieldsKeepValid
<1>3. QED BY <1>1, <1>2, Zenon

\* Whatever scripts compute, and however calls and ClearCache follow one another,
\* the caches hold only scripts that compiled, and a transformed event is valid
\* and has the ID of the event it was made from or the one the script gave it.
THEOREM TransformationsSound == TransformSpec => []TransformSound
<1>1. TransformInit => TransformSound
  BY DEF TransformInit, TransformSound
<1>2. TransformSound /\ [TransformNext]_transformVars => TransformSound'
  <2> SUFFICES ASSUME TransformSound, [TransformNext]_transformVars
               PROVE  TransformSound'
    OBVIOUS
  <2>1. ASSUME NEW type, NEW script, NEW e \in Events, NEW readable,
               Apply(type, script, e, readable), event' = e
        PROVE  TransformSound'
    <3>1. caches' \subseteq Compilable
      BY <2>1, Zenon DEF Apply, Compile, TransformSound
    <3>2. ASSUME NEW result \in ScriptResults \cup {Null, Scalar},
                 transformed' = BuildTransformedEvent(e, result),
                 given' = IF result \in ScriptResults THEN result.id ELSE Absent
          PROVE  TransformSound'
      BY <2>1, <3>1, <3>2, BuiltSound, Zenon DEF TransformSound
    <3>3. CASE transformed' = None
      BY <3>1, <3>3, Zenon DEF TransformSound
    <3>4. QED BY <2>1, <3>2, <3>3 DEF Apply
  <2>2. ASSUME NEW type, NEW script, NEW e \in Events, Transform(type, script, e)
        PROVE  TransformSound'
    <3>1. CASE type = "none" /\ transformed' = e /\ given' = Absent /\ UNCHANGED caches
      BY <2>2, <3>1, TransformerAssumption, Zenon DEF Transform, TransformSound
    <3>2. CASE transformed' = None /\ UNCHANGED caches
      BY <3>2, Zenon DEF TransformSound
    <3>3. QED
      BY <2>1, <2>2, <3>1, <3>2, Zenon DEF Transform, TransformJQ, TransformCEL, TransformTemplate
  <2>3. CASE ClearScripts
    BY <2>3, Zenon DEF ClearScripts, TransformSound
  <2>4. CASE UNCHANGED transformVars
    BY <2>4, Zenon DEF transformVars, TransformSound
  <2>5. QED BY <2>2, <2>3, <2>4 DEF TransformNext
<1>3. QED BY <1>1, <1>2, PTL DEF TransformSpec

-----------------------------------------------------------------------------
(* The registries *)

\* The inductive invariant: a repository is a finite map, and of no name and version
\* are there more schemas, saved or about to be, than handlers.
RegistryIInv == RegistryTypeOK /\ IsFiniteSet(schemas) /\ DuplicatesBounded

-----------------------------------------------------------------------------
\* The sets that are counted are finite, so that counting them is sound.
LEMMA Counted ==
  ASSUME IsFiniteSet(schemas), NEW nv
  PROVE  /\ IsFiniteSet(Cleared(nv)) /\ Cardinality(Cleared(nv)) \in Nat
         /\ Cardinality(Cleared(nv)) <= Cardinality(Callers)
         /\ IsFiniteSet(Copies(nv)) /\ Cardinality(Copies(nv)) \in Nat
         /\ Cardinality(Callers) \in Nat
<1>1. Cleared(nv) \subseteq Callers /\ Copies(nv) \subseteq schemas
  BY Zenon DEF Cleared, Copies
<1>2. QED
  BY <1>1, RegistryAssumption, FS_Subset, FS_CardinalityType

\* A step that clears no call and saves no schema adds to no count.
LEMMA NothingCleared ==
  ASSUME RegistryIInv, UNCHANGED schemas,
         \A c \in Callers : pc'[c] = "save" => pc[c] = "save" /\ call'[c] = call[c]
  PROVE  (IsFiniteSet(schemas) /\ DuplicatesBounded)'
<1>1. IsFiniteSet(schemas) /\ IsFiniteSet(schemas)'
  BY Zenon DEF RegistryIInv
<1>2. ASSUME NEW nv \in NameVersions
      PROVE  Cardinality(Cleared(nv)') + Cardinality(Copies(nv)') <= Cardinality(Callers)
  <2>1. Cleared(nv)' \subseteq Cleared(nv) /\ Copies(nv)' = Copies(nv)
    BY Zenon DEF Cleared, Copies
  <2>2. Cardinality(Cleared(nv)') \in Nat /\ Cardinality(Cleared(nv)') <= Cardinality(Cleared(nv))
    BY <1>1, <2>1, Counted, FS_Subset, FS_CardinalityType, Zenon
  <2>3. Cardinality(Cleared(nv)) + Cardinality(Copies(nv)) <= Cardinality(Callers)
    BY Zenon DEF RegistryIInv, DuplicatesBounded
  <2>4. QED BY <1>1, <2>1, <2>2, <2>3, Counted
<1>3. QED BY <1>1, <1>2, Zenon DEF DuplicatesBounded

\* Save keeps a repository a map from IDs.
LEMMA SaveReplaces ==
  ASSUME NEW r \in Repository, NEW s \in Registrations
  PROVE  Save(r, s) \in Repository
BY Zenon DEF Repository, Save

LEMMA BeginCallInv ==
  ASSUME RegistryIInv, NEW c \in Callers, NEW at \in {"check", "enroll", "delete"},
         NEW id \in IDs, NEW nv \in NameVersions, BeginCall(c, at, id, nv),
         clock' \in IDs, UNCHANGED <<schemas, consumers>>
  PROVE  RegistryIInv'
<1>1. [id |-> id, nv |-> nv] \in Registrations
  BY Zenon DEF Registrations
<1>2. RegistryTypeOK'
  BY <1>1, Zenon DEF RegistryIInv, RegistryTypeOK, BeginCall
<1>3. \A d \in Callers : pc'[d] = "save" => pc[d] = "save" /\ call'[d] = call[d]
  BY Zenon DEF RegistryIInv, RegistryTypeOK, BeginCall
<1>4. QED BY <1>2, <1>3, NothingCleared, Zenon DEF RegistryIInv

\* A call that returns, with consumers saved or deleted or with nothing done.
LEMMA ReturnCallInv ==
  ASSUME RegistryIInv, NEW c \in Callers, NEW from, ReturnCall(c, from),
         consumers' \in Repository, UNCHANGED <<clock, schemas>>
  PROVE  RegistryIInv'
<1>1. RegistryTypeOK'
  BY Zenon DEF RegistryIInv, RegistryTypeOK, ReturnCall
<1>2. \A d \in Callers : pc'[d] = "save" => pc[d] = "save" /\ call'[d] = call[d]
  BY Zenon DEF RegistryIInv, RegistryTypeOK, ReturnCall
<1>3. QED BY <1>1, <1>2, NothingCleared, Zenon DEF RegistryIInv

\* A call is cleared only when its name has no schema yet: then the calls that
\* are cleared are all that counts.
LEMMA CheckInv ==
  ASSUME RegistryIInv, NEW c \in Callers, CheckExisting(c)
  PROVE  RegistryIInv'
<1>1. UNCHANGED <<clock, schemas, consumers>>
  BY Zenon DEF CheckExisting
<1>2. CASE ReturnCall(c, "check")
  BY <1>1, <1>2, ReturnCallInv, Zenon DEF RegistryIInv, RegistryTypeOK
<1>3. CASE /\ pc[c] = "check" /\ pc' = [pc EXCEPT ![c] = "save"] /\ call' = call
           /\ \A s \in schemas : s.nv # call[c].nv
  <2>1. RegistryTypeOK'
    BY <1>1, <1>3, Zenon DEF RegistryIInv, RegistryTypeOK
  <2>2. IsFiniteSet(schemas) /\ IsFiniteSet(schemas)'
    BY <1>1, Zenon DEF RegistryIInv
  <2>3. ASSUME NEW nv \in NameVersions
        PROVE  Cardinality(Cleared(nv)') + Cardinality(Copies(nv)') <= Cardinality(Callers)
    <3>1. CASE nv = call[c].nv
      <4>1. Copies(nv)' = {}
        BY <1>1, <1>3, <3>1, Zenon DEF Copies
      <4>2. Cleared(nv)' \subseteq Callers
        BY Zenon DEF Cleared
      <4>3. Cardinality(Cleared(nv)') \in Nat /\ Cardinality(Cleared(nv)') <= Cardinality(Callers)
        BY <4>2, RegistryAssumption, FS_Subset, FS_CardinalityType, Zenon
      <4>4. QED BY <4>1, <4>3, FS_EmptySet
    <3>2. CASE nv # call[c].nv
      <4>1. Cleared(nv)' = Cleared(nv) /\ Copies(nv)' = Copies(nv)
        BY <1>1, <1>3, <3>2, Zenon DEF RegistryIInv, RegistryTypeOK, Cleared, Copies
      <4>2. QED BY <4>1, Zenon DEF RegistryIInv, DuplicatesBounded
    <3>3. QED BY <3>1, <3>2, Zenon
  <2>4. QED BY <2>1, <2>2, <2>3, Zenon DEF RegistryIInv, DuplicatesBounded
<1>4. QED BY <1>2, <1>3, Zenon DEF CheckExisting, GetByNameVersion

\* What is saved was counted while it was to be saved; the schema whose ID it has,
\* if there is one, is lost.
LEMMA SaveSchemaInv ==
  ASSUME RegistryIInv, NEW c \in Callers, SaveSchema(c)
  PROVE  RegistryIInv'
<1>1. /\ pc[c] = "save" /\ pc' = [pc EXCEPT ![c] = "idle"]
      /\ call' = [call EXCEPT ![c] = NoCall]
      /\ schemas' = Save(schemas, call[c])
      /\ UNCHANGED <<clock, consumers>>
  BY Zenon DEF SaveSchema, ReturnCall
<1>2. call[c] \in Registrations
  BY <1>1, Zenon DEF RegistryIInv, RegistryTypeOK
<1>3. schemas' \in Repository
  BY <1>1, <1>2, SaveReplaces, Zenon DEF RegistryIInv, RegistryTypeOK
<1>4. RegistryTypeOK'
  BY <1>1, <1>3, Zenon DEF RegistryIInv, RegistryTypeOK
<1>5. IsFiniteSet(schemas) /\ schemas' \subseteq schemas \cup {call[c]}
  BY <1>1, Zenon DEF RegistryIInv, Save
<1>6. IsFiniteSet(schemas')
  BY <1>5, FS_AddElement, FS_Subset, Zenon
<1>7. ASSUME NEW nv \in NameVersions
      PROVE  Cardinality(Cleared(nv)') + Cardinality(Copies(nv)') <= Cardinality(Callers)
  <2>1. Cardinality(Cleared(nv)) + Cardinality(Copies(nv)) <= Cardinality(Callers)
    BY Zenon DEF RegistryIInv, DuplicatesBounded
  <2>2. CASE nv = call[c].nv
    <3>1. Cleared(nv)' = Cleared(nv) \ {c} /\ c \in Cleared(nv)
      BY <1>1, <2>2, Zenon DEF RegistryIInv, RegistryTypeOK, Cleared
    <3>2. Copies(nv)' \subseteq Copies(nv) \cup {call[c]}
      BY <1>5, Zenon DEF Copies
    <3>3. Cardinality(Cleared(nv)') = Cardinality(Cleared(nv)) - 1
      BY <1>5, <3>1, Counted, FS_RemoveElement, Zenon
    <3>4. /\ IsFiniteSet(Copies(nv) \cup {call[c]})
          /\ \/ Cardinality(Copies(nv) \cup {call[c]}) = Cardinality(Copies(nv))
             \/ Cardinality(Copies(nv) \cup {call[c]}) = Cardinality(Copies(nv)) + 1
      BY <1>5, Counted, FS_AddElement, Zenon
    <3>5. /\ Cardinality(Copies(nv)') \in Nat
          /\ Cardinality(Copies(nv)') <= Cardinality(Copies(nv) \cup {call[c]})
      BY <3>2, <3>4, FS_Subset, FS_CardinalityType, Zenon
    <3>6. QED BY <1>5, <2>1, <3>3, <3>4, <3>5, Counted
  <2>3. CASE nv # call[c].nv
    <3>1. Cleared(nv)' = Cleared(nv)
      BY <1>1, <2>3, Zenon DEF RegistryIInv, RegistryTypeOK, Cleared
    <3>2. Copies(nv)' \subseteq Copies(nv)
      BY <1>5, <2>3, Zenon DEF Copies
    <3>3. Cardinality(Copies(nv)') \in Nat /\ Cardinality(Copies(nv)') <= Cardinality(Copies(nv))
      BY <1>5, <3>2, Counted, FS_Subset, FS_CardinalityType, Zenon
    <3>4. QED BY <1>5, <2>1, <3>1, <3>3, Counted
  <2>4. QED BY <2>2, <2>3, Zenon
<1>8. QED BY <1>4, <1>6, <1>7, Zenon DEF RegistryIInv, DuplicatesBounded

LEMMA RegistryNextInv ==
  ASSUME RegistryIInv, [RegistryNext]_registryVars
  PROVE  RegistryIInv'
<1>1. ASSUME NEW c \in Callers, NEW id \in IDs, NEW nv \in NameVersions,
             Register(c, id, nv) \/ RegisterConsumer(c, id, nv)
      PROVE  RegistryIInv'
  BY <1>1, BeginCallInv, Zenon DEF Register, RegisterConsumer, GenerateID
<1>2. ASSUME NEW c \in Callers, SaveConsumer(c)
      PROVE  RegistryIInv'
  <2>1. call[c] \in Registrations
    BY <1>2 DEF RegistryIInv, RegistryTypeOK, SaveConsumer, ReturnCall
  <2>2. consumers' \in Repository
    BY <1>2, <2>1, SaveReplaces, Zenon DEF RegistryIInv, RegistryTypeOK, SaveConsumer
  <2>3. QED BY <1>2, <2>2, ReturnCallInv, Zenon DEF SaveConsumer
<1>3. ASSUME NEW c \in Callers, Deregister(c)
      PROVE  RegistryIInv'
  <2>1. PICK s \in consumers : BeginCall(c, "delete", s.id, s.nv)
    BY <1>3, Zenon DEF Deregister
  <2>2. s.id \in IDs /\ s.nv \in NameVersions
    BY DEF RegistryIInv, RegistryTypeOK, Repository, Registrations
  <2>3. clock' \in IDs /\ UNCHANGED <<schemas, consumers>>
    BY <1>3, Zenon DEF Deregister, RegistryIInv, RegistryTypeOK
  <2>4. QED BY <2>1, <2>2, <2>3, BeginCallInv, Zenon
<1>4. ASSUME NEW c \in Callers, DeleteConsumer(c)
      PROVE  RegistryIInv'
  <2>1. consumers' \in Repository
    BY <1>4, Zenon DEF DeleteConsumer, RegistryIInv, RegistryTypeOK, Repository
  <2>2. QED BY <1>4, <2>1, ReturnCallInv, Zenon DEF DeleteConsumer
<1>5. CASE UNCHANGED registryVars
  BY <1>5, Zenon DEF registryVars, RegistryIInv, RegistryTypeOK, DuplicatesBounded, Cleared, Copies
<1>6. QED
  BY <1>1, <1>2, <1>3, <1>4, <1>5, CheckInv, SaveSchemaInv, Zenon DEF RegistryNext, RegistryStep

-----------------------------------------------------------------------------
(* Theorems *)

\* However calls of the services interleave and whatever IDs generateID repeats, a
\* repository is a map from IDs, and of no name and version are there more schemas
\* than handlers.
THEOREM RegistryInvariant ==
  RegistrySpec => []RegistryIInv
<1>1. RegistryInit => RegistryIInv
  <2>1. ASSUME RegistryInit, NEW nv \in NameVersions
        PROVE  Cleared(nv) = {} /\ Copies(nv) = {}
    BY <2>1, Zenon DEF RegistryInit, Cleared, Copies
  <2>2. Cardinality({}) = 0 /\ IsFiniteSet({}) /\ Cardinality(Callers) \in Nat
    BY RegistryAssumption, FS_EmptySet, FS_CardinalityType, Zenon
  <2>3. RegistryInit => DuplicatesBounded
    BY <2>1, <2>2 DEF DuplicatesBounded
  <2>4. RegistryInit => RegistryTypeOK
    BY RegistryAssumption DEF RegistryInit, RegistryTypeOK, Repository, IDs
  <2>5. QED BY <2>2, <2>3, <2>4, Zenon DEF RegistryInit, RegistryIInv
<1>2. RegistryIInv /\ [RegistryNext]_registryVars => RegistryIInv'
  BY RegistryNextInv, Zenon
<1>3. QED BY <1>1, <1>2, PTL DEF RegistrySpec

\* Only registrations that overlap leave several schemas of one name and version,
\* at most one per handler.
THEOREM OverlappingDuplicatesOnly ==
  RegistrySpec => []DuplicatesBounded
<1>1. RegistryIInv => DuplicatesBounded
  BY Zenon DEF RegistryIInv
<1>2. QED BY <1>1, RegistryInvariant, PTL

-----------------------------------------------------------------------------
(* The schema validator *)

\* The two maps have the same keys.
Paired == \A i \in SchemaIDs : compiled[i] = NoEntry <=> cache[i] = NoEntry

\* FreshKept, with the time of the registration.
Kept ==
  \A i \in SchemaIDs :
    owed[i] # NoEntry /\ ~Expired(owed[i].time) =>
      compiled[i] = owed[i].schema /\ cache[i] = owed[i].time

\* What a call has read: a registration that is the owed one while that is fresh,
\* and a schema that was current when it was read, or was out of date by then.
Judging ==
  \A c \in Validations :
    /\ request[c].at # "idle" => request[c].id \in SchemaIDs
    /\ request[c].at \in {"judge", "expire"} =>
         /\ request[c].time \in Times
         /\ LET o == owed[request[c].id]
            IN  o # NoEntry /\ ~Expired(o.time) => request[c].time = o.time
    /\ request[c].at = "judge" => Expired(request[c].time) \/ request[c].schema \in current[c]
    /\ request[c].at = "expire" => Expired(request[c].time)

\* The inductive invariant.
ValidatorIInv == ValidatorTypeOK /\ Paired /\ Kept /\ Judging /\ VerdictCurrent

-----------------------------------------------------------------------------
LEMMA ValidatorInitInv == ASSUME ValidatorInit PROVE ValidatorIInv
<1>1. ValidatorTypeOK
  BY SchemaValidatorAssumption DEF ValidatorInit, ValidatorTypeOK, Times, Idle, CallStates
<1>2. QED
  BY <1>1, Zenon DEF ValidatorInit, ValidatorIInv, Paired, Kept, Judging, VerdictCurrent, Idle

\* What a call may go by only grows until it is judged.
LEMMA HeldGrows ==
  ASSUME Observe, ValidatorTypeOK
  PROVE  /\ current' \in [Validations -> SUBSET Definitions]
         /\ \A c \in Validations :
              request'[c].at \notin {"idle", "invalid"} => current[c] \subseteq current'[c]
BY Zenon DEF Observe, ValidatorTypeOK

\* A verdict stands while its call does.
LEMMA VerdictStands ==
  ASSUME ValidatorIInv, Observe, NEW c \in Validations, request'[c] = request[c]
  PROVE  request'[c].at = "valid" => \E s \in current'[c] : <<s, request'[c].data>> \in Accepts
BY HeldGrows, Zenon DEF ValidatorIInv, VerdictCurrent

LEMMA TickInv == ASSUME ValidatorIInv, ValidatorTick PROVE ValidatorIInv'
<1> USE SchemaValidatorAssumption
<1>1. /\ validatorNow \in 0 .. MaxValidatorTime /\ validatorNow < MaxValidatorTime
      /\ validatorNow' = validatorNow + 1
      /\ UNCHANGED <<compiled, cache, request, owed>> /\ Observe
  BY Zenon DEF ValidatorTick, ValidatorIInv, ValidatorTypeOK, Times
<1>2. /\ current' \in [Validations -> SUBSET Definitions]
      /\ \A c \in Validations :
           request[c].at \notin {"idle", "invalid"} => current[c] \subseteq current'[c]
  BY <1>1, HeldGrows, Zenon DEF ValidatorIInv
<1>3. ValidatorTypeOK'
  BY <1>1, <1>2 DEF ValidatorIInv, ValidatorTypeOK, Times
<1>4. \A t \in Times : Expired(t) => Expired(t)'
  BY <1>1 DEF Expired, Times
<1>5. \A i \in SchemaIDs : owed[i] # NoEntry => owed[i].time \in Times
  BY Zenon DEF ValidatorIInv, ValidatorTypeOK
<1>6. (Paired /\ Kept)'
  BY <1>1, <1>4, <1>5, Zenon DEF ValidatorIInv, Paired, Kept
<1>7. Judging'
  BY <1>1, <1>2, <1>4, <1>5, Zenon DEF ValidatorIInv, Judging
<1>8. VerdictCurrent'
  BY <1>1, VerdictStands, Zenon DEF VerdictCurrent
<1>9. QED BY <1>3, <1>6, <1>7, <1>8, Zenon DEF ValidatorIInv

LEMMA RegisterSchemaInv ==
  ASSUME ValidatorIInv, NEW i \in SchemaIDs, NEW s \in Definitions,
         RegisterSchema(i, s)
  PROVE  ValidatorIInv'
<1> USE SchemaValidatorAssumption
<1>1. /\ compiled' = [compiled EXCEPT ![i] = s]
      /\ cache' = [cache EXCEPT ![i] = validatorNow]
      /\ owed' = [owed EXCEPT ![i] = IF BeingJudged(i) THEN NoEntry
                                     ELSE [schema |-> s, time |-> validatorNow]]
      /\ UNCHANGED <<validatorNow, request>> /\ Observe
  BY Zenon DEF RegisterSchema
<1>2. /\ current' \in [Validations -> SUBSET Definitions]
      /\ \A c \in Validations :
           request[c].at \notin {"idle", "invalid"} => current[c] \subseteq current'[c]
  BY <1>1, HeldGrows, Zenon DEF ValidatorIInv
<1>3. ValidatorTypeOK'
  BY <1>1, <1>2, Zenon DEF ValidatorIInv, ValidatorTypeOK
<1>4. \A t : Expired(t)' = Expired(t)
  BY <1>1, Zenon DEF Expired
<1>5. validatorNow # NoEntry
  BY Zenon DEF ValidatorIInv, ValidatorTypeOK
<1>6. Paired'
  BY <1>1, <1>5, Zenon DEF ValidatorIInv, ValidatorTypeOK, Paired
<1>7. Kept'
  BY <1>1, <1>4, Zenon DEF ValidatorIInv, ValidatorTypeOK, Kept
<1>8. Judging'
  <2> SUFFICES ASSUME NEW c \in Validations
               PROVE  /\ request[c].at # "idle" => request[c].id \in SchemaIDs
                      /\ request[c].at \in {"judge", "expire"} =>
                           /\ request[c].time \in Times
                           /\ (owed'[request[c].id] # NoEntry /\ ~Expired(owed'[request[c].id].time)) =>
                                request[c].time = owed'[request[c].id].time
                      /\ request[c].at = "judge" =>
                           Expired(request[c].time) \/ request[c].schema \in current'[c]
                      /\ request[c].at = "expire" => Expired(request[c].time)
    BY <1>1, <1>4, Zenon DEF Judging
  <2>1. request[c].at \in {"judge", "expire"} =>
          owed'[request[c].id] = IF request[c].id = i THEN NoEntry ELSE owed[request[c].id]
    BY <1>1, Zenon DEF ValidatorIInv, ValidatorTypeOK, Judging, BeingJudged
  <2>2. QED BY <1>2, <2>1, Zenon DEF ValidatorIInv, Judging
<1>9. VerdictCurrent'
  BY <1>1, VerdictStands, Zenon DEF VerdictCurrent
<1>10. QED BY <1>3, <1>6, <1>7, <1>8, <1>9, Zenon DEF ValidatorIInv

\* A step that deletes the schemas of some IDs, of which none has a fresh
\* registration to its name, and leaves the calls alone.
LEMMA DeleteInv ==
  ASSUME ValidatorIInv, Observe, UNCHANGED <<validatorNow, request>>,
         NEW D \in SUBSET SchemaIDs,
         compiled' = [i \in SchemaIDs |-> IF i \in D THEN NoEntry ELSE compiled[i]],
         cache' = [i \in SchemaIDs |-> IF i \in D THEN NoEntry ELSE cache[i]],
         owed' \in [SchemaIDs -> [schema : Definitions, time : Times] \cup {NoEntry}],
         \A i \in SchemaIDs : owed'[i] = owed[i] \/ owed'[i] = NoEntry,
         \A i \in D : owed'[i] = NoEntry \/ Expired(owed'[i].time)
  PROVE  ValidatorIInv'
<1>1. /\ current' \in [Validations -> SUBSET Definitions]
      /\ \A c \in Validations :
           request[c].at \notin {"idle", "invalid"} => current[c] \subseteq current'[c]
  BY HeldGrows, Zenon DEF ValidatorIInv
<1>2. ValidatorTypeOK'
  BY <1>1, Zenon DEF ValidatorIInv, ValidatorTypeOK
<1>3. \A t : Expired(t)' = Expired(t)
  BY Zenon DEF Expired
<1>4. (Paired /\ Kept)'
  BY <1>3, Zenon DEF ValidatorIInv, Paired, Kept
<1>5. Judging'
  BY <1>1, <1>3, Zenon DEF ValidatorIInv, Judging
<1>6. VerdictCurrent'
  BY VerdictStands, Zenon DEF VerdictCurrent
<1>7. QED BY <1>2, <1>4, <1>5, <1>6, Zenon DEF ValidatorIInv

LEMMA UnregisterInv ==
  ASSUME ValidatorIInv, NEW i \in SchemaIDs, UnregisterSchema(i)
  PROVE  ValidatorIInv'
<1>1. /\ compiled' = [j \in SchemaIDs |-> IF j \in {i} THEN NoEntry ELSE compiled[j]]
      /\ cache' = [j \in SchemaIDs |-> IF j \in {i} THEN NoEntry ELSE cache[j]]
      /\ owed' = [owed EXCEPT ![i] = NoEntry]
      /\ UNCHANGED <<validatorNow, request>> /\ Observe
  BY Zenon DEF UnregisterSchema, ValidatorIInv, ValidatorTypeOK
<1>2. owed' \in [SchemaIDs -> [schema : Definitions, time : Times] \cup {NoEntry}]
  BY <1>1, Zenon DEF ValidatorIInv, ValidatorTypeOK
<1>3. \A j \in SchemaIDs : owed'[j] = owed[j] \/ owed'[j] = NoEntry
  BY <1>1, Zenon DEF ValidatorIInv, ValidatorTypeOK
<1>4. owed'[i] = NoEntry
  BY <1>1, Zenon DEF ValidatorIInv, ValidatorTypeOK
<1>5. {i} \in SUBSET SchemaIDs /\ \A j \in {i} : owed'[j] = NoEntry \/ Expired(owed'[j].time)
  BY <1>4, Zenon
<1>6. QED BY <1>1, <1>2, <1>3, <1>5, DeleteInv, Zenon

LEMMA ClearInv == ASSUME ValidatorIInv, ClearCache PROVE ValidatorIInv'
<1> DEFINE D == {i \in SchemaIDs : cache[i] # NoEntry /\ Expired(cache[i])}
<1>1. /\ compiled' = [i \in SchemaIDs |-> IF i \in D THEN NoEntry ELSE compiled[i]]
      /\ cache' = [i \in SchemaIDs |-> IF i \in D THEN NoEntry ELSE cache[i]]
      /\ UNCHANGED <<validatorNow, request, owed>> /\ Observe
  BY Zenon DEF ClearCache
<1>2. owed' \in [SchemaIDs -> [schema : Definitions, time : Times] \cup {NoEntry}]
  BY <1>1, Zenon DEF ValidatorIInv, ValidatorTypeOK
<1>3. \A i \in D : owed[i] = NoEntry \/ Expired(owed[i].time)
  BY Zenon DEF ValidatorIInv, Kept
<1>4. D \in SUBSET SchemaIDs
  OBVIOUS
<1> HIDE DEF D
<1>5. QED BY <1>1, <1>2, <1>3, <1>4, DeleteInv, Zenon

-----------------------------------------------------------------------------
(* The steps of a call *)

\* A step of a call that leaves the maps alone keeps the invariant if what the call
\* has read afterwards is as it should be.
LEMMA CallInv ==
  ASSUME ValidatorIInv, Observe, UNCHANGED <<validatorNow, compiled, cache, owed>>,
         NEW c \in Validations, NEW r,
         request' = [request EXCEPT ![c] = r],
         r \in CallStates,
         r.at # "idle" => r.id \in SchemaIDs,
         r.at \in {"judge", "expire"} =>
           /\ r.time \in Times
           /\ owed[r.id] # NoEntry /\ ~Expired(owed[r.id].time) => r.time = owed[r.id].time,
         r.at = "judge" => Expired(r.time) \/ r.schema \in current'[c],
         r.at = "expire" => Expired(r.time),
         r.at = "valid" => \E s \in current'[c] : <<s, r.data>> \in Accepts
  PROVE  ValidatorIInv'
<1>1. /\ current' \in [Validations -> SUBSET Definitions]
      /\ \A d \in Validations :
           request'[d].at \notin {"idle", "invalid"} => current[d] \subseteq current'[d]
  BY HeldGrows, Zenon DEF ValidatorIInv
<1>2. request'[c] = r /\ \A d \in Validations \ {c} : request'[d] = request[d]
  BY Zenon DEF ValidatorIInv, ValidatorTypeOK
<1>3. ValidatorTypeOK'
  BY <1>1, Zenon DEF ValidatorIInv, ValidatorTypeOK
<1>4. \A t : Expired(t)' = Expired(t)
  BY Zenon DEF Expired
<1>5. (Paired /\ Kept)'
  BY <1>4, Zenon DEF ValidatorIInv, Paired, Kept
<1>6. Judging'
  <2>1. SUFFICES ASSUME NEW d \in Validations
                 PROVE  /\ request'[d].at # "idle" => request'[d].id \in SchemaIDs
                        /\ request'[d].at \in {"judge", "expire"} =>
                             /\ request'[d].time \in Times
                             /\ LET o == owed[request'[d].id]
                                IN  o # NoEntry /\ ~Expired(o.time) => request'[d].time = o.time
                        /\ request'[d].at = "judge" =>
                             Expired(request'[d].time) \/ request'[d].schema \in current'[d]
                        /\ request'[d].at = "expire" => Expired(request'[d].time)
    BY <1>4, Zenon DEF Judging
  <2>2. CASE d = c
    BY <1>2, <2>2, Zenon
  <2>3. CASE d # c
    <3>1. request'[d] = request[d]
      BY <1>2, <2>3, Zenon
    <3>2. request[d].at = "judge" => current[d] \subseteq current'[d]
      BY <1>1, <3>1, Zenon
    <3>3. QED BY <3>1, <3>2, Zenon DEF ValidatorIInv, Judging
  <2>4. QED BY <2>2, <2>3, Zenon
<1>7. VerdictCurrent'
  BY <1>2, VerdictStands, Zenon DEF VerdictCurrent
<1>8. QED BY <1>3, <1>5, <1>6, <1>7, Zenon DEF ValidatorIInv

LEMMA BeginInv ==
  ASSUME ValidatorIInv, NEW c \in Validations, NEW i \in SchemaIDs, NEW d \in Payloads,
         NEW at \in {"lookup", "invalid"}, BeginValidation(c, i, d, at)
  PROVE  ValidatorIInv'
<1> DEFINE r == [at |-> at, id |-> i, data |-> d, schema |-> NoEntry, time |-> NoEntry]
<1>1. /\ request' = [request EXCEPT ![c] = r]
      /\ UNCHANGED <<validatorNow, compiled, cache, owed>> /\ Observe
  BY Zenon DEF BeginValidation
<1>2. r \in CallStates
  BY Zenon DEF CallStates
<1>3. QED BY <1>1, <1>2, CallInv, Zenon

LEMMA LookupInv ==
  ASSUME ValidatorIInv, NEW c \in Validations, Lookup(c)
  PROVE  ValidatorIInv'
<1> DEFINE i == request[c].id
           r == [at |-> IF compiled[i] = NoEntry THEN "invalid" ELSE "judge", id |-> i,
                 data |-> request[c].data, schema |-> compiled[i], time |-> cache[i]]
<1>1. i \in SchemaIDs
  BY Zenon DEF Lookup, ValidatorIInv, Judging
<1>2. /\ request' = [request EXCEPT ![c] = r]
      /\ UNCHANGED <<validatorNow, compiled, cache, owed>> /\ Observe
  BY Zenon DEF Lookup
<1>3. /\ compiled[i] \in Definitions \cup {NoEntry} /\ cache[i] \in Times \cup {NoEntry}
      /\ request[c].data \in Payloads \cup {NoEntry}
      /\ compiled[i] # NoEntry => cache[i] \in Times
  BY <1>1, Zenon DEF ValidatorIInv, ValidatorTypeOK, CallStates, Paired
<1>4. owed[i] # NoEntry /\ ~Expired(owed[i].time) => cache[i] = owed[i].time
  BY <1>1, Zenon DEF ValidatorIInv, Kept
<1>5. compiled[i] # NoEntry => Expired(cache[i]) \/ compiled[i] \in current'[c]
  <2>1. request'[c] = r
    BY <1>2, Zenon DEF ValidatorIInv, ValidatorTypeOK
  <2>2. SUFFICES ASSUME compiled[i] # NoEntry, ~Expired(cache[i])
                 PROVE  compiled[i] \in current'[c]
    OBVIOUS
  <2>3. compiled[i] \in Definitions /\ validatorNow' - cache'[i] <= CacheTTL
    BY <1>2, <1>3, <2>2, SchemaValidatorAssumption DEF Expired, ValidatorIInv, ValidatorTypeOK, Times
  <2>4. request'[c].id = i /\ request'[c].at = "judge" /\ compiled'[i] = compiled[i]
    BY <1>2, <2>1, <2>2
  <2>5. current'[c] = current[c] \cup {s \in Definitions : /\ compiled'[i] = s
                                                   /\ validatorNow' - cache'[i] <= CacheTTL}
    BY <1>2, <2>4, Zenon DEF Observe
  <2>6. QED BY <2>3, <2>4, <2>5, Zenon
<1>6. r.at = "judge" => r.time \in Times /\ (Expired(r.time) \/ r.schema \in current'[c])
  BY <1>3, <1>5, Zenon
<1>7. /\ r \in CallStates
      /\ r.at \in {"judge", "invalid"} /\ r.id = i /\ r.time = cache[i]
  BY <1>1, <1>3, Zenon DEF CallStates
<1> HIDE DEF r
<1>8. QED BY <1>1, <1>2, <1>4, <1>6, <1>7, CallInv, Zenon

\* A verdict goes by the schema that was read, which is a current one unless it was
\* found to be out of date.
LEMMA JudgeInv ==
  ASSUME ValidatorIInv, NEW c \in Validations, Judge(c)
  PROVE  ValidatorIInv'
<1> DEFINE expired  == request[c].time # NoEntry /\ Expired(request[c].time)
           accepted == <<request[c].schema, request[c].data>> \in Accepts
           at == IF expired THEN "expire" ELSE IF accepted THEN "valid" ELSE "invalid"
           r  == [request[c] EXCEPT !.at = at]
<1>1. /\ request[c].at = "judge" /\ request' = [request EXCEPT ![c] = r]
      /\ UNCHANGED <<validatorNow, compiled, cache, owed>> /\ Observe
  BY Zenon DEF Judge
<1>2. /\ request[c].id \in SchemaIDs /\ request[c].time \in Times /\ request[c].time # NoEntry
      /\ owed[request[c].id] # NoEntry /\ ~Expired(owed[request[c].id].time) =>
           request[c].time = owed[request[c].id].time
      /\ Expired(request[c].time) \/ request[c].schema \in current[c]
  BY <1>1, SchemaValidatorAssumption, Zenon DEF ValidatorIInv, Judging
<1>3. at \in {"expire", "valid", "invalid"}
  OBVIOUS
<1>4. /\ r \in CallStates
      /\ r.at = at /\ r.id = request[c].id /\ r.time = request[c].time /\ r.data = request[c].data
  <2> HIDE DEF at
  <2>1. QED BY <1>3, Zenon DEF ValidatorIInv, ValidatorTypeOK, CallStates
<1>5. at = "expire" => Expired(request[c].time)
  OBVIOUS
<1>6. at = "valid" => \E s \in current'[c] : <<s, request[c].data>> \in Accepts
  <2> SUFFICES ASSUME at = "valid"
               PROVE  \E s \in current'[c] : <<s, request[c].data>> \in Accepts
    OBVIOUS
  <2>1. accepted /\ request[c].schema \in current[c]
    BY <1>2, Zenon
  <2>2. request'[c] = r
    BY <1>1, Zenon DEF ValidatorIInv, ValidatorTypeOK
  <2>3. current[c] \subseteq current'[c]
    BY <1>1, <1>4, <2>2, HeldGrows, Zenon DEF ValidatorIInv
  <2>4. QED BY <2>1, <2>3, Zenon
<1> HIDE DEF r, at
<1>7. QED BY <1>1, <1>2, <1>3, <1>4, <1>5, <1>6, CallInv, Zenon

LEMMA EndInv ==
  ASSUME ValidatorIInv, NEW c \in Validations, EndValidation(c)
  PROVE  ValidatorIInv'
<1>1. /\ request' = [request EXCEPT ![c] = Idle]
      /\ UNCHANGED <<validatorNow, compiled, cache, owed>> /\ Observe
  BY Zenon DEF EndValidation
<1>2. Idle \in CallStates /\ Idle.at = "idle"
  BY Zenon DEF Idle, CallStates
<1>3. QED BY <1>1, <1>2, CallInv, Zenon

\* The schema that is deleted is not a fresh one, or nothing is owed to it: a
\* registration that the call overlapped gave up its claim.
LEMMA ExpireInv ==
  ASSUME ValidatorIInv, NEW c \in Validations, Expire(c)
  PROVE  ValidatorIInv'
<1> DEFINE i == request[c].id
<1>1. /\ request[c].at = "expire"
      /\ compiled' = [compiled EXCEPT ![i] = NoEntry]
      /\ cache' = [cache EXCEPT ![i] = NoEntry]
      /\ request' = [request EXCEPT ![c].at = "invalid"]
      /\ UNCHANGED <<validatorNow, owed>> /\ Observe
  BY Zenon DEF Expire
<1>2. i \in SchemaIDs /\ (owed[i] = NoEntry \/ Expired(owed[i].time))
  BY <1>1, Zenon DEF ValidatorIInv, Judging
<1>3. /\ current' \in [Validations -> SUBSET Definitions]
      /\ \A d \in Validations :
           request'[d].at \notin {"idle", "invalid"} => current[d] \subseteq current'[d]
  BY <1>1, HeldGrows, Zenon DEF ValidatorIInv
<1>4. /\ request'[c].at = "invalid" /\ request'[c].id = i
      /\ \A d \in Validations \ {c} : request'[d] = request[d]
  BY <1>1, Zenon DEF ValidatorIInv, ValidatorTypeOK, CallStates
<1>5. ValidatorTypeOK'
  <2>1. [request[c] EXCEPT !.at = "invalid"] \in CallStates
    BY DEF ValidatorIInv, ValidatorTypeOK, CallStates
  <2>2. request' \in [Validations -> CallStates]
    BY <1>1, <2>1, Zenon DEF ValidatorIInv, ValidatorTypeOK
  <2>3. QED BY <1>1, <1>3, <2>2, Zenon DEF ValidatorIInv, ValidatorTypeOK
<1>6. \A t : Expired(t)' = Expired(t)
  BY <1>1, Zenon DEF Expired
<1>7. (Paired /\ Kept)'
  BY <1>1, <1>2, <1>6, Zenon DEF ValidatorIInv, ValidatorTypeOK, Paired, Kept
<1>8. Judging'
  BY <1>1, <1>2, <1>3, <1>4, <1>6 DEF ValidatorIInv, Judging
<1>9. VerdictCurrent'
  BY <1>1, <1>4, VerdictStands, Zenon DEF VerdictCurrent
<1>10. QED BY <1>5, <1>7, <1>8, <1>9, Zenon DEF ValidatorIInv

LEMMA ValidatorNextInv ==
  ASSUME ValidatorIInv, [ValidatorNext]_validatorVars
  PROVE  ValidatorIInv'
<1>1. ASSUME NEW c \in Validations, NEW i \in SchemaIDs, NEW d \in Payloads,
             ValidateSchema(c, i, d) \/ ServiceValidate(c, i, d)
      PROVE  ValidatorIInv'
  BY <1>1, BeginInv, Zenon DEF ValidateSchema, ServiceValidate
<1>2. CASE UNCHANGED validatorVars
  BY <1>2, Zenon DEF validatorVars, ValidatorIInv, ValidatorTypeOK, Paired, Kept, Judging,
                     VerdictCurrent, Expired
<1>3. QED
  BY <1>1, <1>2, TickInv, RegisterSchemaInv, UnregisterInv, ClearInv, LookupInv, JudgeInv,
     ExpireInv, EndInv, Zenon DEF ValidatorNext

-----------------------------------------------------------------------------
(* Theorems *)

\* The state of the validator keeps its type, the two maps their keys in common, and
\* what the calls have read stays tied to what is registered.
THEOREM ValidatorInvariant ==
  ValidatorSpec => []ValidatorIInv
<1>1. ValidatorInit => ValidatorIInv
  BY ValidatorInitInv, Zenon
<1>2. ValidatorIInv /\ [ValidatorNext]_validatorVars => ValidatorIInv'
  BY ValidatorNextInv, Zenon
<1>3. QED BY <1>1, <1>2, PTL DEF ValidatorSpec

\* GetSchema and ClearCache take no fresh schema away, but for a GetSchema that had
\* read an earlier registration.
THEOREM FreshSchemasKept ==
  ValidatorSpec => []FreshKept
<1>1. ValidatorIInv => FreshKept
  BY Zenon DEF ValidatorIInv, Kept, FreshKept
<1>2. QED BY <1>1, ValidatorInvariant, PTL

\* Validate accepts data only by a schema that was current during the call.
THEOREM VerdictsCurrent ==
  ValidatorSpec => []VerdictCurrent
<1>1. ValidatorIInv => VerdictCurrent
  BY Zenon DEF ValidatorIInv
<1>2. QED BY <1>1, ValidatorInvariant, PTL

=============================================================================
