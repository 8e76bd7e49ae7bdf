--------------------------- MODULE MCEventService ---------------------------
(***************************************************************************)
(* Ingestion and replay, for TLC.  A behaviour is one of either, chosen at *)
(* the start, while the other stays as it begins.                          *)
(***************************************************************************)
EXTENDS Ingestion, Replay

VARIABLE part   \* ingestion or replay

Request(start, end, filter, limit) ==
  [start |-> start, end |-> end, filter |-> filter, limit |-> limit]

\* A range the wrong way round.
EmptyRange == Request(5, 4, {}, 0)

\* Everything; one source of two within the reach of retention, with a limit; and the
\* empty range.
MCReplayRequests ==
  { Request(0, MaxStoreTime, {}, 0),
    Request(4, 6, {CHOOSE s \in Sources : TRUE}, 1), EmptyRange }

-----------------------------------------------------------------------------
MCInit ==
  /\ part \in {"ingestion", "replay"}
  /\ IngestionInit
  /\ Init /\ (part # "replay" => \A r \in Replays : req[r] = EmptyRange)

MCVars == <<part, ingestionVars, vars>>

MCNext ==
  /\ UNCHANGED part
  /\ IF part = "ingestion" THEN IngestionNext ELSE UNCHANGED ingestionVars
  /\ IF part = "replay"    THEN Next          ELSE UNCHANGED vars

\* Before a call a replay has nothing to do, so the fairness asks nothing of ingestion.
MCSpec == MCInit /\ [][MCNext]_MCVars /\ Fairness

=============================================================================
