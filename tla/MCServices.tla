----------------------------- MODULE MCServices -----------------------------
(***************************************************************************)
(* The gateway process, the producer and the health checker, for TLC.  A   *)
(* behaviour is one of a single part, chosen at the start, while the       *)
(* others stay as they begin.                                              *)
(***************************************************************************)
EXTENDS Gateway, Producer, Health

VARIABLE part   \* process, producer or health

\* Where the process is not looked at it is gone, so that nothing is due in it, and
\* before a call nothing is due in the producer: the fairness of one part asks
\* nothing of the behaviours of another.
MCInit ==
  /\ part \in {"process", "producer", "health"}
  /\ IF part = "process" THEN ProcessInit ELSE InitAt("exited")
  /\ ProducerInit
  /\ HealthInit

MCVars == <<part, processVars, producerVars, healthVars>>

MCNext ==
  /\ UNCHANGED part
  /\ IF part = "process"  THEN ProcessNext  ELSE UNCHANGED processVars
  /\ IF part = "producer" THEN ProducerNext ELSE UNCHANGED producerVars
  /\ IF part = "health"   THEN HealthNext   ELSE UNCHANGED healthVars

MCSpec == MCInit /\ [][MCNext]_MCVars /\ ProcessFairness /\ ProducerFairness

=============================================================================
