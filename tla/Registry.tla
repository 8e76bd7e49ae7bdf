------------------------------- MODULE Registry -------------------------------
(***************************************************************************)
(* The schema and the consumer registry: SchemaService and ConsumerService *)
(* over the in-memory repositories, called by concurrent handlers.  Each   *)
(* repository method holds its lock, so a call of a service is one step    *)
(* per repository method it calls.                                         *)
(*                                                                         *)
(* An ID is what generateID makes of the clock, and nothing else: calls    *)
(* that read the same time have the same ID.                               *)
(***************************************************************************)
EXTENDS Integers, FiniteSets

CONSTANTS
  Callers,       \* concurrent handlers
  NameVersions,  \* names, with versions, of schemas, and names of consumers
  NoName,        \* none of them
  MaxClock       \* bound: readings of the clock

\* What the module takes for granted of its constants.
ASSUME RegistryAssumption ==
  /\ IsFiniteSet(Callers)
  /\ NoName \notin NameVersions
  /\ MaxClock \in Nat \ {0}

VARIABLES
  clock, schemas, consumers, pc,
  call   \* the ID and the name that a call is about

registryVars == <<clock, schemas, consumers, pc, call>>

IDs           == 1 .. MaxClock
Registrations == [id : IDs, nv : NameVersions]

NoCall == [id |-> 0, nv |-> NoName]

\* A map of a repository holds one entity per ID.
Repository == {r \in SUBSET Registrations : \A s, t \in r : s.id = t.id => s = t}

RegistryTypeOK ==
  /\ clock \in IDs
  /\ schemas \in Repository
  /\ consumers \in Repository
  /\ pc \in [Callers -> {"idle", "check", "save", "enroll", "delete"}]
  /\ call \in [Callers -> Registrations \cup {NoCall}]
  /\ \A c \in Callers : pc[c] # "idle" => call[c] \in Registrations

RegistryInit ==
  /\ clock = 1
  /\ schemas = {}
  /\ consumers = {}
  /\ pc = [c \in Callers |-> "idle"]
  /\ call = [c \in Callers |-> NoCall]

BeginCall(c, at, id, nv) ==
  /\ pc[c] = "idle"
  /\ pc' = [pc EXCEPT ![c] = at]
  /\ call' = [call EXCEPT ![c] = [id |-> id, nv |-> nv]]

ReturnCall(c, from) ==
  /\ pc[c] = from
  /\ pc' = [pc EXCEPT ![c] = "idle"]
  /\ call' = [call EXCEPT ![c] = NoCall]

\* generateID reads the clock, which may have moved on since the last reading, or
\* may not have.
GenerateID(id) == id >= clock /\ clock' = id

\* Save replaces the entry of the ID.
Save(r, s) == {t \in r : t.id # s.id} \cup {s}

-----------------------------------------------------------------------------
(* SchemaService.Register *)

Register(c, id, nv) ==
  /\ GenerateID(id)
  /\ BeginCall(c, "check", id, nv)
  /\ UNCHANGED <<schemas, consumers>>

\* Mutant: a schema is looked up by its ID, which is new.
GetByNewID(c) == {s \in schemas : s.id = call[c].id}
\* GetByNameVersion of the schema that is being registered.
GetByNameVersion(c) == {s \in schemas : s.nv = call[c].nv}

\* The name and version are taken: the call is refused.  Otherwise it goes on to
\* save, with the repository unlocked in between.
CheckExisting(c) ==
  /\ \/ /\ GetByNameVersion(c) # {}
        /\ ReturnCall(c, "check")
     \/ /\ GetByNameVersion(c) = {}
        /\ pc[c] = "check"
        /\ pc' = [pc EXCEPT ![c] = "save"]
        /\ UNCHANGED call
  /\ UNCHANGED <<clock, schemas, consumers>>

SaveSchema(c) ==
  /\ ReturnCall(c, "save")
  /\ schemas' = Save(schemas, call[c])
  /\ UNCHANGED <<clock, consumers>>

-----------------------------------------------------------------------------
(* ConsumerService *)

\* Register up to the Save: the entity is created and activated.
RegisterConsumer(c, id, nv) ==
  /\ GenerateID(id)
  /\ BeginCall(c, "enroll", id, nv)
  /\ UNCHANGED <<schemas, consumers>>

SaveConsumer(c) ==
  /\ ReturnCall(c, "enroll")
  /\ consumers' = Save(consumers, call[c])
  /\ UNCHANGED <<clock, schemas>>

\* Deregister: Get, which fails for an unknown ID, then Delete of that ID, whatever
\* it holds by then.
Deregister(c) ==
  /\ \E s \in consumers : BeginCall(c, "delete", s.id, s.nv)
  /\ UNCHANGED <<clock, schemas, consumers>>

DeleteConsumer(c) ==
  /\ ReturnCall(c, "delete")
  /\ consumers' = {s \in consumers : s.id # call[c].id}
  /\ UNCHANGED <<clock, schemas>>

-----------------------------------------------------------------------------
RegistryStep(c) ==
  \/ \E id \in IDs, nv \in NameVersions : Register(c, id, nv) \/ RegisterConsumer(c, id, nv)
  \/ CheckExisting(c) \/ SaveSchema(c)
  \/ SaveConsumer(c) \/ Deregister(c) \/ DeleteConsumer(c)

RegistryNext == \E c \in Callers : RegistryStep(c)

RegistrySpec == RegistryInit /\ [][RegistryNext]_registryVars

-----------------------------------------------------------------------------
(* Properties *)

\* The registrations of a name and version that have passed the check, and the
\* schemas of that name and version.
Cleared(nv) == {c \in Callers : pc[c] = "save" /\ call[c].nv = nv}
Copies(nv)  == {s \in schemas : s.nv = nv}

\* Register checks that a name and version is new and saves it later, so that
\* handlers that check at the same time all save.  That is the only way to a second
\* schema of one name and version: with those still to be saved there are never more
\* of them than handlers, however often the name is registered afterwards and
\* whatever IDs it gets.
DuplicatesBounded ==
  \A nv \in NameVersions :
    Cardinality(Cleared(nv)) + Cardinality(Copies(nv)) <= Cardinality(Callers)

\* What is registered stays: no step takes a schema away, nor a consumer but by
\* the deregistration of its ID.
RegistrationsKept ==
  [][/\ schemas \subseteq schemas'
     /\ \A s \in consumers \ consumers' :
          \E c \in Callers : pc[c] = "delete" /\ call[c].id = s.id]_registryVars

=============================================================================
