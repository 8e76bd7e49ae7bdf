---------------------------- MODULE SchemaValidator ----------------------------
(***************************************************************************)
(* The schema validator (internal/infrastructure/schema): schemas kept by  *)
(* ID for a time to live, under a lock that GetSchema gives up between     *)
(* reading a schema, judging its age and deleting it.  SchemaService and   *)
(* EventService call Validate from concurrent handlers.                    *)
(*                                                                         *)
(* Arguments that are refused before the lock is taken (an empty ID, a     *)
(* schema that does not compile) change nothing and have no step here.     *)
(***************************************************************************)
EXTENDS Integers

CONSTANTS
  Validations,       \* concurrent calls of Validate
  SchemaIDs,         \* schema IDs
  Stored,            \* those the schema repository holds
  Definitions,       \* schemas that compile
  Payloads,          \* the data of an event
  Accepts,           \* pairs of a schema and data that is JSON and conforms to it
  CacheTTL,          \* cacheTTL
  MaxValidatorTime,  \* bound: the clock
  NoEntry            \* no schema, no time

VARIABLES
  validatorNow,  \* time.Now
  compiled,      \* the compiled schema of an ID
  cache,         \* the time of its registration
  request,       \* where a call is, and what it has read
  owed,          \* history: the registration an ID is entitled to
  current        \* history: the schemas its ID had during a call

validatorVars == <<validatorNow, compiled, cache, request, owed, current>>

Times == 0 .. MaxValidatorTime

\* What the module takes for granted of its constants.
ASSUME SchemaValidatorAssumption ==
  /\ CacheTTL \in Nat
  /\ MaxValidatorTime \in Nat
  /\ NoEntry \notin Definitions \cup Times

Idle == [at |-> "idle", id |-> NoEntry, data |-> NoEntry, schema |-> NoEntry, time |-> NoEntry]

CallStates ==
  [at : {"idle", "lookup", "judge", "expire", "valid", "invalid"}, id : SchemaIDs \cup {NoEntry},
   data : Payloads \cup {NoEntry}, schema : Definitions \cup {NoEntry}, time : Times \cup {NoEntry}]

ValidatorTypeOK ==
  /\ validatorNow \in Times
  /\ compiled \in [SchemaIDs -> Definitions \cup {NoEntry}]
  /\ cache \in [SchemaIDs -> Times \cup {NoEntry}]
  /\ request \in [Validations -> CallStates]
  /\ owed \in [SchemaIDs -> [schema : Definitions, time : Times] \cup {NoEntry}]
  /\ current \in [Validations -> SUBSET Definitions]

ValidatorInit ==
  /\ validatorNow = 0
  /\ compiled = [i \in SchemaIDs |-> NoEntry]
  /\ cache = [i \in SchemaIDs |-> NoEntry]
  /\ request = [c \in Validations |-> Idle]
  /\ owed = [i \in SchemaIDs |-> NoEntry]
  /\ current = [c \in Validations |-> {}]

Expired(time) == validatorNow - time > CacheTTL

\* What every call under way may go by after the step: the unexpired schema of
\* its ID.
Observe ==
  current' = [c \in Validations |->
                IF request'[c].at \in {"idle", "invalid"} THEN {}
                ELSE current[c] \cup {s \in Definitions :
                                        /\ compiled'[request'[c].id] = s
                                        /\ validatorNow' - cache'[request'[c].id] <= CacheTTL}]

ValidatorTick ==
  /\ validatorNow < MaxValidatorTime
  /\ validatorNow' = validatorNow + 1
  /\ UNCHANGED <<compiled, cache, request, owed>>
  /\ Observe

-----------------------------------------------------------------------------
\* A call has read a registration of the ID and may yet delete it.
BeingJudged(i) == \E c \in Validations : request[c].id = i /\ request[c].at \in {"judge", "expire"}

\* Mutant: a schema that is registered again keeps the time of the first.
RegisterSchemaKeepsTime(i, s) ==
  /\ compiled' = [compiled EXCEPT ![i] = s]
  /\ cache' = [cache EXCEPT ![i] = IF @ = NoEntry THEN validatorNow ELSE @]
  /\ owed' = [owed EXCEPT ![i] = IF BeingJudged(i) THEN NoEntry
                                 ELSE [schema |-> s, time |-> validatorNow]]
  /\ UNCHANGED <<validatorNow, request>>
  /\ Observe

RegisterSchema(i, s) ==
  /\ compiled' = [compiled EXCEPT ![i] = s]
  /\ cache' = [cache EXCEPT ![i] = validatorNow]
  /\ owed' = [owed EXCEPT ![i] = IF BeingJudged(i) THEN NoEntry
                                 ELSE [schema |-> s, time |-> validatorNow]]
  /\ UNCHANGED <<validatorNow, request>>
  /\ Observe

UnregisterSchema(i) ==
  /\ compiled[i] # NoEntry
  /\ compiled' = [compiled EXCEPT ![i] = NoEntry]
  /\ cache' = [cache EXCEPT ![i] = NoEntry]
  /\ owed' = [owed EXCEPT ![i] = NoEntry]
  /\ UNCHANGED <<validatorNow, request>>
  /\ Observe

ClearCache ==
  LET expired == {i \in SchemaIDs : cache[i] # NoEntry /\ Expired(cache[i])}
  IN  /\ compiled' = [i \in SchemaIDs |-> IF i \in expired THEN NoEntry ELSE compiled[i]]
      /\ cache' = [i \in SchemaIDs |-> IF i \in expired THEN NoEntry ELSE cache[i]]
      /\ UNCHANGED <<validatorNow, request, owed>>
      /\ Observe

-----------------------------------------------------------------------------
(* Validate, with GetSchema in its steps *)

BeginValidation(c, i, d, at) ==
  /\ request[c].at = "idle"
  /\ request' = [request EXCEPT ![c] = [at |-> at, id |-> i, data |-> d, schema |-> NoEntry,
                                        time |-> NoEntry]]
  /\ UNCHANGED <<validatorNow, compiled, cache, owed>>
  /\ Observe

\* EventService asks the validator at once, SchemaService only about an ID that
\* its repository holds.
ValidateSchema(c, i, d) == BeginValidation(c, i, d, "lookup")
ServiceValidate(c, i, d) == BeginValidation(c, i, d, IF i \in Stored THEN "lookup" ELSE "invalid")

\* GetSchema reads both maps under the read lock.
Lookup(c) ==
  /\ request[c].at = "lookup"
  /\ LET i == request[c].id
     IN  request' = [request EXCEPT ![c] =
                    [at |-> IF compiled[i] = NoEntry THEN "invalid" ELSE "judge", id |-> i,
                     data |-> @.data, schema |-> compiled[i], time |-> cache[i]]]
  /\ UNCHANGED <<validatorNow, compiled, cache, owed>>
  /\ Observe

\* Mutant: the age of the schema is not looked at.
JudgeAnyAge(c) ==
  /\ request[c].at = "judge"
  /\ request' = [request EXCEPT ![c].at = IF <<request[c].schema, request[c].data>> \in Accepts
                                    THEN "valid" ELSE "invalid"]
  /\ UNCHANGED <<validatorNow, compiled, cache, owed>>
  /\ Observe

\* GetSchema looks at the age of what it read; Validate then parses and checks
\* the data, which reads nothing shared.
Judge(c) ==
  /\ request[c].at = "judge"
  /\ request' = [request EXCEPT ![c].at =
                IF request[c].time # NoEntry /\ Expired(request[c].time) THEN "expire"
                ELSE IF <<request[c].schema, request[c].data>> \in Accepts THEN "valid" ELSE "invalid"]
  /\ UNCHANGED <<validatorNow, compiled, cache, owed>>
  /\ Observe

\* The write lock is taken anew: what is deleted need not be what was read.
Expire(c) ==
  /\ request[c].at = "expire"
  /\ compiled' = [compiled EXCEPT ![request[c].id] = NoEntry]
  /\ cache' = [cache EXCEPT ![request[c].id] = NoEntry]
  /\ request' = [request EXCEPT ![c].at = "invalid"]
  /\ UNCHANGED <<validatorNow, owed>>
  /\ Observe

EndValidation(c) ==
  /\ request[c].at \in {"valid", "invalid"}
  /\ request' = [request EXCEPT ![c] = Idle]
  /\ UNCHANGED <<validatorNow, compiled, cache, owed>>
  /\ Observe

ValidatorNext ==
  \/ ValidatorTick
  \/ \E i \in SchemaIDs, s \in Definitions : RegisterSchema(i, s)
  \/ \E i \in SchemaIDs : UnregisterSchema(i)
  \/ ClearCache
  \/ \E c \in Validations, i \in SchemaIDs, d \in Payloads :
        ValidateSchema(c, i, d) \/ ServiceValidate(c, i, d)
  \/ \E c \in Validations : Lookup(c) \/ Judge(c) \/ Expire(c) \/ EndValidation(c)

ValidatorSpec == ValidatorInit /\ [][ValidatorNext]_validatorVars

-----------------------------------------------------------------------------
(* Properties *)

\* A registered schema is there until it is unregistered or its time to live is
\* over, whoever calls GetSchema or ClearCache, unless a call that had read an
\* earlier registration of the ID was still to judge it: GetSchema, having given
\* up the lock, then deletes the new one.
FreshKept ==
  \A i \in SchemaIDs : owed[i] # NoEntry /\ ~Expired(owed[i].time) => compiled[i] = owed[i].schema

\* Validate accepts data only by a schema that its ID had, unexpired, at some
\* moment of the call: not by one that was unregistered, replaced or out of date
\* before the call began.
VerdictCurrent ==
  \A c \in Validations :
    request[c].at = "valid" => \E s \in current[c] : <<s, request[c].data>> \in Accepts

=============================================================================
