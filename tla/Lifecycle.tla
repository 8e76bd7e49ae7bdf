------------------------------ MODULE Lifecycle ------------------------------
(***************************************************************************)
(* What ingestion promises of an event, without calls, batches and loops:  *)
(* it is received, then refused or stored, published once it is stored and *)
(* acknowledged once it is published, and no step is ever taken back.  An  *)
(* event may stay wherever an error left it.                               *)
(***************************************************************************)
CONSTANT Events

VARIABLES received, refused, stored, published, acknowledged

vars == <<received, refused, stored, published, acknowledged>>

Init ==
  /\ received = {} /\ refused = {}
  /\ stored = {} /\ published = {} /\ acknowledged = {}

Receive(e) ==
  /\ e \notin received
  /\ received' = received \cup {e}
  /\ refused' \in {refused, refused \cup {e}}
  /\ UNCHANGED <<stored, published, acknowledged>>

Store(e) ==
  /\ e \in received \ refused
  /\ stored' = stored \cup {e}
  /\ UNCHANGED <<received, refused, published, acknowledged>>

Publish(e) ==
  /\ e \in stored
  /\ published' = published \cup {e}
  /\ UNCHANGED <<received, refused, stored, acknowledged>>

Acknowledge(e) ==
  /\ e \in published
  /\ acknowledged' = acknowledged \cup {e}
  /\ UNCHANGED <<received, refused, stored, published>>

Next == \E e \in Events : Receive(e) \/ Store(e) \/ Publish(e) \/ Acknowledge(e)

Spec == Init /\ [][Next]_vars

=============================================================================
