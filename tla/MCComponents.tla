----------------------------- MODULE MCComponents -----------------------------
(***************************************************************************)
(* The components that keep state of their own and share none, for TLC.    *)
(* A behaviour is one of a single component, chosen at the start, while    *)
(* the others stay as they begin, so that the states are those of the      *)
(* components side by side.                                                *)
(***************************************************************************)
EXTENDS CircuitBreaker, EventStore, Registry, SchemaValidator, RateLimiter,
        Retry, EventPath, Transformer, TLC

CONSTANTS Loose, Strict   \* two schemas, of which an object conforms to one

VARIABLE part   \* the component

MCAccepts == {<<Loose, "object">>}

\* Settings below and at zero, a multiplier of a half, and durations so short that
\* a second backoff does not fit.
MCMaxRetriesGiven == {-1, 2}

\* Every combination of empty and set fields, priorities in and out of range, and
\* filters missing, empty, matching, not matching and invalid.
MCMatching == {<<"a.*", "a">>}

MCMessages ==
  [source : {"", "a"}, type : {"a"}, subject : {"", "a"},
   data : {"", "object", "spaced", "null", "string", "text"}, dataContentType : {"", "a"},
   schemaURL : {"", "a"}, metadata : {{}, {"e"}, None}, correlationID : {"", "a"},
   causationID : {"", "a"}, partitionKey : {"", "a"}, priority : {-1, 0, 1, 4, 5}]

MCFilters ==
  {None} \cup [source : {"", "a.*", "("}, type : {""}, subject : {"", "a.*"},
               minPriority : 0 .. 4, metadata : {{}, {"e"}, None}]

\* Scripts that compile for one type and not for another, and one that is too long.
MCCompilable == {<<"jq", "s1">>, <<"cel", "s2">>, <<"template", "s1">>}

MCScriptResults ==
  [id : {Absent, "", "c"}, source : {"", "a"}, type : {"a"}, subject : {""},
   data : {"", "object"}, dataContentType : {"a"}, schemaURL : {"", "a"},
   metadata : {{}}, correlationID : {""}, causationID : {"a"}, partitionKey : {""},
   priority : {0, 4}, wellTyped : BOOLEAN]

MCEvents ==
  [id : {"a"}, source : {"a"}, type : {"a"}, subject : {""}, data : {"object", "text"},
   dataContentType : {"a"}, schemaURL : {""}, metadata : {{}}, correlationID : {"a"},
   causationID : {""}, partitionKey : {""}, priority : {3}, timestamp : {1}]

-----------------------------------------------------------------------------
Parts ==
  {"breaker", "store", "registry", "validator", "limiter", "retry", "path",
   "transform"}

MCInit ==
  /\ part \in Parts
  /\ Init /\ StoreInit /\ RegistryInit /\ ValidatorInit
  /\ LimiterInit /\ RetryInit /\ PathInit /\ TransformInit

MCNext ==
  /\ UNCHANGED part
  /\ IF part = "breaker"   THEN Next          ELSE UNCHANGED vars
  /\ IF part = "store"     THEN StoreNext     ELSE UNCHANGED storeVars
  /\ IF part = "registry"  THEN RegistryNext  ELSE UNCHANGED registryVars
  /\ IF part = "validator" THEN ValidatorNext ELSE UNCHANGED validatorVars
  /\ IF part = "limiter"   THEN LimiterNext   ELSE UNCHANGED limiterVars
  /\ IF part = "retry"     THEN RetryNext     ELSE UNCHANGED retryVars
  /\ IF part = "path"      THEN PathNext      ELSE UNCHANGED pathVars
  /\ IF part = "transform" THEN TransformNext ELSE UNCHANGED transformVars

MCVars ==
  <<part, vars, storeVars, registryVars, validatorVars, limiterVars, retryVars,
    pathVars, transformVars>>

MCSpec == MCInit /\ [][MCNext]_MCVars

Symmetry == Permutations(Callers) \cup Permutations(NameVersions)

-----------------------------------------------------------------------------
(* Properties *)

\* The variables of the components have the values their modules say.
ComponentsTypeOK ==
  TypeOK /\ StoreTypeOK /\ RegistryTypeOK /\ ValidatorTypeOK /\ LimiterTypeOK

=============================================================================
