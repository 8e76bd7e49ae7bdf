-------------------------------- MODULE Replay --------------------------------
(***************************************************************************)
(* Event replay: the ReplayEvents handler (api/grpc/event_handler.go) and  *)
(* the goroutine streamReplayEvents (application/service/                  *)
(* replay_service.go) it reads from, over the event store, to which events *)
(* are added and from which they expire meanwhile.                         *)
(***************************************************************************)
EXTENDS EventStore

CONSTANTS
  Replays,         \* replay calls
  ReplayRequests,  \* records of start, end, filter and limit (0: none)
  BufferSize,      \* channelBufferSize
  BatchSize        \* batchSize: events between two waits for the ticker

ASSUME ReplayAssumption ==
  /\ \A q \in ReplayRequests : /\ {q.start, q.end, q.limit} \subseteq Nat
                               /\ q.filter \subseteq Sources
  /\ BufferSize \in Nat \ {0}
  /\ BatchSize \in Nat \ {0}

VARIABLES
  hpc,       \* where the handler is
  gpc,       \* where its goroutine is
  req,       \* the request
  snapshot,  \* the result of the query, limited
  i,         \* events streamed
  out,       \* the channel between them
  got,       \* events sent to the client
  canceled   \* the stream's context is done

replayVars == <<hpc, gpc, req, snapshot, i, out, got, canceled>>
vars == <<storeVars, replayVars>>

HandlerPcs   == {"idle", "recv", "ok", "failed"}
GoroutinePcs == {"none", "query", "check", "send", "ticker", "closed"}

TypeOK ==
  /\ StoreTypeOK
  /\ hpc \in [Replays -> HandlerPcs]
  /\ gpc \in [Replays -> GoroutinePcs]
  /\ req \in [Replays -> ReplayRequests]
  /\ snapshot \in [Replays -> Seq(Event)]
  /\ \A r \in Replays : i[r] \in 0 .. Len(snapshot[r])
  /\ out \in [Replays -> Seq(Event)]
  /\ \A r \in Replays : Len(out[r]) <= BufferSize
  /\ got \in [Replays -> Seq(Event)]
  /\ canceled \in [Replays -> BOOLEAN]

Init ==
  /\ StoreInit
  /\ hpc = [r \in Replays |-> "idle"]
  /\ gpc = [r \in Replays |-> "none"]
  /\ req \in [Replays -> ReplayRequests]
  /\ snapshot = [r \in Replays |-> <<>>]
  /\ i = [r \in Replays |-> 0]
  /\ out = [r \in Replays |-> <<>>]
  /\ got = [r \in Replays |-> <<>>]
  /\ canceled = [r \in Replays |-> FALSE]

\* The client, or its deadline, cancels the call.
Cancel(r) ==
  /\ hpc[r] = "recv"
  /\ ~canceled[r]
  /\ canceled' = [canceled EXCEPT ![r] = TRUE]
  /\ UNCHANGED <<storeVars, hpc, gpc, req, snapshot, i, out, got>>

-----------------------------------------------------------------------------
(* The handler *)

\* ReplayEvents refuses a range that ends before it starts, and otherwise starts
\* the goroutine.
ReplayEvents(r) ==
  /\ hpc[r] = "idle"
  /\ IF req[r].start > req[r].end
     THEN hpc' = [hpc EXCEPT ![r] = "failed"] /\ UNCHANGED gpc
     ELSE hpc' = [hpc EXCEPT ![r] = "recv"] /\ gpc' = [gpc EXCEPT ![r] = "query"]
  /\ UNCHANGED <<storeVars, req, snapshot, i, out, got, canceled>>

\* Returning from the handler ends the stream and so cancels its context.
Return(r, status) ==
  /\ hpc[r] = "recv"
  /\ hpc' = [hpc EXCEPT ![r] = status]
  /\ canceled' = [canceled EXCEPT ![r] = TRUE]
  /\ UNCHANGED <<storeVars, gpc, req, snapshot, i, got>>

\* An event is received from the channel and sent to the client.
StreamSend(r) ==
  /\ hpc[r] = "recv"
  /\ out[r] # <<>>
  /\ out' = [out EXCEPT ![r] = Tail(@)]
  /\ got' = [got EXCEPT ![r] = Append(@, Head(out[r]))]
  /\ UNCHANGED <<storeVars, hpc, gpc, req, snapshot, i, canceled>>

\* An event is received from the channel and cannot be sent.
StreamSendFail(r) ==
  /\ out[r] # <<>>
  /\ out' = [out EXCEPT ![r] = Tail(@)]
  /\ Return(r, "failed")

\* The channel is closed and empty: the replay is complete.
ChannelClosed(r) ==
  /\ gpc[r] = "closed"
  /\ out[r] = <<>>
  /\ Return(r, "ok")
  /\ UNCHANGED out

ContextDone(r) ==
  /\ canceled[r]
  /\ Return(r, "failed")
  /\ UNCHANGED out

-----------------------------------------------------------------------------
(* The goroutine streamReplayEvents *)

Goto(r, from, to) ==
  /\ gpc[r] = from
  /\ gpc' = [gpc EXCEPT ![r] = to]

\* Mutant: the limit is applied to one event more.
LimitedPast(q, result) ==
  IF q.limit > 0 /\ Len(result) > q.limit THEN SubSeq(result, 1, q.limit + 1) ELSE result
\* The limit of a request applied to the result of its query.
Limited(q, result) ==
  IF q.limit > 0 /\ Len(result) > q.limit THEN SubSeq(result, 1, q.limit) ELSE result

\* The loop over the snapshot at the top: the next event, or the deferred close.
AtLoop(n, result) == IF n < Len(result) THEN "check" ELSE "closed"

QueryEvents(r) ==
  LET result == Limited(req[r], QueryByTime(req[r]))
  IN  /\ Goto(r, "query", AtLoop(0, result))
      /\ snapshot' = [snapshot EXCEPT ![r] = result]
      /\ UNCHANGED <<storeVars, hpc, req, i, out, got, canceled>>

\* The test of the context before each event.
CheckContext(r) ==
  /\ Goto(r, "check", IF canceled[r] THEN "closed" ELSE "send")
  /\ UNCHANGED <<storeVars, hpc, req, snapshot, i, out, got, canceled>>

\* The select, when the channel has room: after each batch, wait for the ticker.
SendEvent(r) ==
  /\ Goto(r, "send", IF (i[r] + 1) % BatchSize = 0 /\ i[r] + 1 < Len(snapshot[r])
                     THEN "ticker" ELSE AtLoop(i[r] + 1, snapshot[r]))
  /\ Len(out[r]) < BufferSize
  /\ i' = [i EXCEPT ![r] = @ + 1]
  /\ out' = [out EXCEPT ![r] = Append(@, snapshot[r][i[r] + 1])]
  /\ UNCHANGED <<storeVars, hpc, req, snapshot, got, canceled>>

\* Mutant: the send does not select on the context.
SendCanceledNever(r) ==
  /\ FALSE
  /\ UNCHANGED vars

\* The select, when the context is done.
SendCanceled(r) ==
  /\ canceled[r]
  /\ Goto(r, "send", "closed")
  /\ UNCHANGED <<storeVars, hpc, req, snapshot, i, out, got, canceled>>

\* The ticker fires, whatever the context.
RateLimiterTick(r) ==
  /\ Goto(r, "ticker", AtLoop(i[r], snapshot[r]))
  /\ UNCHANGED <<storeVars, hpc, req, snapshot, i, out, got, canceled>>

-----------------------------------------------------------------------------
HandlerStep(r) ==
  \/ StreamSend(r) \/ StreamSendFail(r) \/ ChannelClosed(r) \/ ContextDone(r)

GoroutineStep(r) ==
  \/ QueryEvents(r) \/ CheckContext(r) \/ SendEvent(r) \/ SendCanceled(r) \/ RateLimiterTick(r)

Next ==
  \/ StoreNext /\ UNCHANGED replayVars
  \/ \E r \in Replays : Cancel(r) \/ ReplayEvents(r) \/ HandlerStep(r) \/ GoroutineStep(r)

\* A handler with something to do and its goroutine are scheduled; Send returns,
\* because the client reads or is gone.  Nothing makes a client call or cancel.
Fairness ==
  \A r \in Replays : WF_vars(HandlerStep(r)) /\ WF_vars(GoroutineStep(r))

Spec == Init /\ [][Next]_vars /\ Fairness

-----------------------------------------------------------------------------
(* Properties *)

\* What a client has received, followed by what is in the channel, is the beginning
\* of what the query returned; a replay that ends without an error, and that nobody
\* canceled, has delivered all of it, and no more than the limit.  Whatever was stored
\* or expired meanwhile, no event is sent twice or outside the range and the filter.
ReplayFaithful ==
  \A r \in Replays :
    /\ hpc[r] = "recv" => got[r] \o out[r] = SubSeq(snapshot[r], 1, i[r])
    /\ hpc[r] = "recv" /\ gpc[r] = "closed" /\ ~canceled[r] => i[r] = Len(snapshot[r])
    /\ req[r].limit > 0 => Len(got[r]) <= req[r].limit
    /\ \A n \in DOMAIN got[r] : Selected(req[r], got[r][n])
    /\ \A m, n \in DOMAIN got[r] : m < n => got[r][m] # got[r][n]

\* No goroutine is left behind: streamReplayEvents ends and closes its channel, also
\* when the client is gone and the channel is full.
ReplayTerminates ==
  \A r \in Replays : (gpc[r] = "query") ~> (gpc[r] = "closed")

=============================================================================
