----------------------------- MODULE Transformer -----------------------------
(***************************************************************************)
(* The transformation engine (internal/infrastructure/transformer): scripts*)
(* are compiled once and kept, and an event is built anew from what a      *)
(* script makes of it.  What a script computes is external: any result.    *)
(***************************************************************************)
EXTENDS EventCodec

CONSTANTS
  Scripts,        \* scripts
  TooLong,        \* those longer than maxScriptSize
  Compilable,     \* the pairs of a type and a script that compile
  ScriptResults,  \* JSON objects that scripts compute
  Null, Scalar,   \* JSON null, and a JSON value that is neither null nor an object
  Absent,         \* a field that an object does not have
  Events,         \* events to transform
  Panic           \* what a call that panics comes to

\* Events are made by NewEvent, which validates them.
ASSUME TransformerAssumption == \A e \in Events : Validate(e)

VARIABLES
  caches,      \* the pairs of a type and a script that are kept compiled
  event,       \* the event a call was made with
  given,       \* the ID that the script gave it
  transformed  \* the event it returned, None for an error, or a panic

transformVars == <<caches, event, given, transformed>>

\* The types with a cache; a transformation has one of these, none, or another.
Types == {"jq", "cel", "template"}

TransformInit ==
  /\ caches = {}
  /\ event = None
  /\ given = Absent
  /\ transformed = None

\* eventToMap marshals the event.
EventToMap(e) == IsJSON(e.data)

-----------------------------------------------------------------------------
\* The chain of builder calls, which sets a field also to nothing.
WithFields(e, r) ==
  WithPartitionKey(WithCorrelation(WithMetadata(WithSchemaURL(e, r.schemaURL), r.metadata),
                                   r.correlationID, r.causationID), r.partitionKey)

\* Mutant: an event without an ID gets a new one.
BuildTransformedEventNewID(e, result) ==
  IF result = Null THEN Panic
  ELSE IF result = Scalar THEN None
  ELSE LET id    == IF result.id \in {Absent, ""} THEN CHOOSE w \in Words : w # e.id ELSE result.id
           built == NewEvent(id, result, e.timestamp + 1)
       IN  IF ~result.wellTyped \/ ~Validate(built) THEN None
           ELSE WithPriority(WithFields(built, result), result.priority)

\* Null makes a nil map, and the assignment of the ID to it panics.  The fields of
\* an object replace those of the event, also the ones that it leaves out: only
\* the ID is kept.  The timestamp is kept in the map, and not read from it.
BuildTransformedEvent(e, result) ==
  IF result = Null THEN Panic
  ELSE IF result = Scalar THEN None
  ELSE LET id    == IF result.id \in {Absent, ""} THEN e.id ELSE result.id
           built == NewEvent(id, result, e.timestamp + 1)
       IN  IF ~result.wellTyped \/ ~Validate(built) THEN None
           ELSE WithPriority(WithFields(built, result), result.priority)

\* A script that is not kept yet is compiled, and kept if it compiles.
Compile(type, script) ==
  caches' = IF <<type, script>> \in Compilable THEN caches \cup {<<type, script>>} ELSE caches

\* A script is looked up or compiled, and run on what it can read; it can fail, and
\* a query of jq have no result.
Apply(type, script, e, readable) ==
  /\ Compile(type, script)
  /\ \/ /\ <<type, script>> \in caches' /\ readable
        /\ \E result \in ScriptResults \cup {Null, Scalar} :
              /\ transformed' = BuildTransformedEvent(e, result)
              /\ given' = IF result \in ScriptResults THEN result.id ELSE Absent
     \/ transformed' = None /\ given' = Absent

\* A template reads the fields of the event itself.
TransformJQ(script, e)       == Apply("jq", script, e, EventToMap(e))
TransformCEL(script, e)      == Apply("cel", script, e, EventToMap(e))
TransformTemplate(script, e) == Apply("template", script, e, TRUE)

Transform(type, script, e) ==
  /\ event' = e
  /\ \/ type = "none" /\ transformed' = e /\ given' = Absent /\ UNCHANGED caches
     \/ type # "none" /\ (script \in TooLong \/ type \notin Types)
        /\ transformed' = None /\ given' = Absent /\ UNCHANGED caches
     \/ /\ script \notin TooLong
        /\ \/ type = "jq" /\ TransformJQ(script, e)
           \/ type = "cel" /\ TransformCEL(script, e)
           \/ type = "template" /\ TransformTemplate(script, e)

ClearScripts == caches' = {} /\ UNCHANGED <<event, given, transformed>>

TransformNext ==
  \/ \E type \in Types \cup {"none", "unknown"}, script \in Scripts, e \in Events :
        Transform(type, script, e)
  \/ ClearScripts

TransformSpec == TransformInit /\ [][TransformNext]_transformVars

-----------------------------------------------------------------------------
(* Properties *)

\* However calls and ClearCache follow one another, only scripts that compiled are
\* kept, and a transformed event is valid and has the ID of the event it was made
\* from unless the script gave it another.
TransformSound ==
  /\ caches \subseteq Compilable
  /\ transformed \notin {None, Panic} =>
       /\ Validate(transformed)
       /\ transformed.id = IF given \in {Absent, ""} THEN event.id ELSE given

=============================================================================
