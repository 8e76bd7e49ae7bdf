------------------------------ MODULE Ingestion ------------------------------
(***************************************************************************)
(* Event ingestion: the IngestEvent and IngestEventStream handlers         *)
(* (api/grpc/event_handler.go) over EventService                           *)
(* (application/service/event_service.go), for clients that make unary     *)
(* calls and clients that stream, all at once.                             *)
(*                                                                         *)
(* An event is the pair of its client and its number in that client's      *)
(* requests.  The event store is the set of stored events, the Kafka log   *)
(* the sequence of written ones: a Publish that fails may have written its *)
(* event, and the producer's retries may write an event twice.             *)
(***************************************************************************)
EXTENDS Integers, Sequences, Functions

CONSTANTS
  UnaryClients,    \* clients that call IngestEvent, one request at a time
  StreamClients,   \* clients with an IngestEventStream
  StreamBatchSize, \* batchSize of IngestEventStream
  MaxRequests      \* bound: requests of a client

Clients == UnaryClients \cup StreamClients

ASSUME IngestionAssumption ==
  /\ UnaryClients \cap StreamClients = {}
  /\ StreamBatchSize \in Nat \ {0}
  /\ MaxRequests \in Nat

VARIABLES
  pc,       \* where the handler is
  sent,     \* number of requests received from the client
  invalid,  \* those that ToEntity or the schema refuses
  batch,    \* first and last request of the batch in work (batchRequests)
  idx,      \* the loop index, as a request number
  closing,  \* the client has half-closed its stream
  acks,     \* responses sent
  stored, log

clientVars == <<sent, invalid, closing>>
ingestionVars == <<pc, clientVars, batch, idx, acks, stored, log>>

Requests == 1 .. MaxRequests
Events   == Clients \X Requests

PcValues == {"recv", "prepare", "store", "publish", "ack", "ended", "failed"}

IngestionTypeOK ==
  /\ pc \in [Clients -> PcValues]
  /\ sent \in [Clients -> 0 .. MaxRequests]
  /\ invalid \in [Clients -> SUBSET Requests]
  /\ batch \in [Clients -> [first : 1 .. MaxRequests + 1, last : 0 .. MaxRequests]]
  /\ idx \in [Clients -> 1 .. MaxRequests + 1]
  /\ closing \in [Clients -> BOOLEAN]
  /\ acks \in [Clients -> Seq(Requests)]
  /\ stored \in SUBSET Events
  /\ log \in Seq(Events)

IngestionInit ==
  /\ pc = [c \in Clients |-> "recv"]
  /\ sent = [c \in Clients |-> 0]
  /\ invalid = [c \in Clients |-> {}]
  /\ batch = [c \in Clients |-> [first |-> 1, last |-> 0]]
  /\ idx = [c \in Clients |-> 1]
  /\ closing = [c \in Clients |-> FALSE]
  /\ acks = [c \in Clients |-> <<>>]
  /\ stored = {}
  /\ log = <<>>

Move(c, from, to) ==
  /\ pc[c] = from
  /\ pc' = [pc EXCEPT ![c] = to]

\* The requests of the batch, and how many there are.
InBatch(c)   == batch[c].first .. batch[c].last
BatchLen(c)  == batch[c].last - batch[c].first + 1

\* Mutant: batchRequests is not reset after a batch.
NextBatchKept(c) == [first |-> batch[c].first, last |-> sent[c]]

\* The batch after the one in work: empty, starting at the next request.
NextBatch(c) == [first |-> sent[c] + 1, last |-> sent[c]]

\* An error: IngestEvent returns it to its caller, who may call again, and
\* IngestEventStream ends.
Fail(c, from) ==
  /\ Move(c, from, IF c \in UnaryClients THEN "recv" ELSE "failed")
  /\ batch' = [batch EXCEPT ![c] = NextBatch(c)]

-----------------------------------------------------------------------------
(* The handlers *)

\* A request arrives, valid or not.  A unary call is a batch of one; a stream
\* collects requests until the batch is full.
Recv(c) ==
  /\ sent[c] < MaxRequests
  /\ sent' = [sent EXCEPT ![c] = @ + 1]
  /\ \E bad \in BOOLEAN :
       invalid' = [invalid EXCEPT ![c] = IF bad THEN @ \cup {sent[c] + 1} ELSE @]
  /\ batch' = [batch EXCEPT ![c].last = sent[c] + 1]
  /\ Move(c, "recv", IF c \in UnaryClients \/ BatchLen(c) + 1 >= StreamBatchSize
                     THEN "prepare" ELSE "recv")
  /\ UNCHANGED <<idx, closing, acks, stored, log>>

\* io.EOF on a stream: what was collected is processed, then the stream ends.
RecvEOF(c) ==
  /\ c \in StreamClients
  /\ Move(c, "recv", IF BatchLen(c) > 0 THEN "prepare" ELSE "ended")
  /\ closing' = [closing EXCEPT ![c] = TRUE]
  /\ UNCHANGED <<sent, invalid, batch, idx, acks, stored, log>>

\* Any other error of Recv drops what was collected.
RecvFail(c) ==
  /\ c \in StreamClients
  /\ Fail(c, "recv")
  /\ UNCHANGED <<clientVars, idx, acks, stored, log>>

\* The responses: one to a unary call, one per event of a batch, in order.
\* After the last one the handler waits for the next request, or returns.
SendResponse(c) ==
  /\ pc[c] = "ack"
  /\ acks' = [acks EXCEPT ![c] = Append(@, idx[c])]
  /\ \/ /\ idx[c] < batch[c].last
        /\ idx' = [idx EXCEPT ![c] = @ + 1]
        /\ UNCHANGED <<pc, batch>>
     \/ /\ idx[c] = batch[c].last
        /\ pc' = [pc EXCEPT ![c] = IF closing[c] THEN "ended" ELSE "recv"]
        /\ batch' = [batch EXCEPT ![c] = NextBatch(c)]
        /\ UNCHANGED idx
  /\ UNCHANGED <<clientVars, stored, log>>

\* Mutant: a response that cannot be sent is skipped.
SendFailSkipped(c) ==
  /\ pc[c] = "ack"
  /\ idx[c] < batch[c].last
  /\ idx' = [idx EXCEPT ![c] = @ + 1]
  /\ UNCHANGED <<pc, batch, clientVars, acks, stored, log>>

SendFail(c) ==
  /\ Fail(c, "ack")
  /\ UNCHANGED <<clientVars, idx, acks, stored, log>>

-----------------------------------------------------------------------------
(* EventService *)

\* Mutant: only the first request of a batch is validated.
PrepareFirstOnly(c) ==
  /\ \/ /\ batch[c].first \notin invalid[c]
        /\ Move(c, "prepare", "store")
        /\ idx' = [idx EXCEPT ![c] = batch[c].first]
        /\ UNCHANGED batch
     \/ /\ batch[c].first \in invalid[c]
        /\ Fail(c, "prepare")
        /\ UNCHANGED idx
  /\ UNCHANGED <<clientVars, acks, stored, log>>

\* Validation and enrichment of every request before anything is stored:
\* validateAndEnrichEvent for one, prepareBatchEvents for a batch.
PrepareBatchEvents(c) ==
  /\ \/ /\ InBatch(c) \cap invalid[c] = {}
        /\ Move(c, "prepare", "store")
        /\ idx' = [idx EXCEPT ![c] = batch[c].first]
        /\ UNCHANGED batch
     \/ /\ InBatch(c) \cap invalid[c] # {}
        /\ Fail(c, "prepare")
        /\ UNCHANGED idx
  /\ UNCHANGED <<clientVars, acks, stored, log>>

\* The loop index after one event of a loop over the batch: the next event, or
\* the first one again in the loop that follows.
Advance(c, from, to) ==
  \/ /\ pc[c] = from
     /\ idx[c] < batch[c].last
     /\ idx' = [idx EXCEPT ![c] = @ + 1]
     /\ UNCHANGED pc
  \/ /\ idx[c] = batch[c].last
     /\ Move(c, from, to)
     /\ idx' = [idx EXCEPT ![c] = batch[c].first]

\* One Store of storeBatchEvents, or the Store of storeAndPublish.
StoreEvent(c) ==
  /\ Advance(c, "store", "publish")
  /\ stored' = stored \cup {<<c, idx[c]>>}
  /\ UNCHANGED <<clientVars, batch, acks, log>>

\* Mutant: a Store that fails is logged and the loop goes on.
StoreFailIgnored(c) ==
  /\ Advance(c, "store", "publish")
  /\ UNCHANGED <<clientVars, batch, acks, stored, log>>

\* The store refuses an event: those before it stay stored.
StoreFail(c) ==
  /\ Fail(c, "store")
  /\ UNCHANGED <<clientVars, idx, acks, stored, log>>

\* One Publish of publishBatchEvents, or of storeAndPublish, that returns nil:
\* the producer's attempts have written the event once, or more than once.
PublishEvent(c) ==
  /\ Advance(c, "publish", "ack")
  /\ \E writes \in {<<<<c, idx[c]>>>>, <<<<c, idx[c]>>, <<c, idx[c]>>>>} : log' = log \o writes
  /\ UNCHANGED <<clientVars, batch, acks, stored>>

\* Mutant: a Publish that fails is logged and the loop goes on.
PublishFailIgnored(c) ==
  /\ Advance(c, "publish", "ack")
  /\ UNCHANGED <<clientVars, batch, acks, stored, log>>

\* A Publish that returns an error (open circuit, exhausted retries, cancelled
\* context): the event is in the log or not; the events before it are.
PublishFail(c) ==
  /\ Fail(c, "publish")
  /\ \E writes \in {<<>>, <<<<c, idx[c]>>>>} : log' = log \o writes
  /\ UNCHANGED <<clientVars, idx, acks, stored>>

-----------------------------------------------------------------------------
Step(c) ==
  \/ Recv(c) \/ RecvEOF(c) \/ RecvFail(c) \/ SendResponse(c) \/ SendFail(c)
  \/ PrepareBatchEvents(c) \/ StoreEvent(c) \/ StoreFail(c)
  \/ PublishEvent(c) \/ PublishFail(c)

IngestionNext == \E c \in Clients : Step(c)

IngestionSpec == IngestionInit /\ [][IngestionNext]_ingestionVars

-----------------------------------------------------------------------------
(* Properties *)

\* What the handlers' state says of the life of the events.
Received     == {e \in Events : e[2] <= sent[e[1]]}
Refused      == {e \in Events : e[2] \in invalid[e[1]]}
Acknowledged == {e \in Events : e[2] \in Range(acks[e[1]])}

Abstract == INSTANCE Lifecycle WITH
  received <- Received, refused <- Refused, published <- Range(log),
  acknowledged <- Acknowledged

\* The handlers with their batches and loops implement the life of an event: each
\* step takes one event one stage on, from received over stored and published to
\* acknowledged, whichever calls fail; a refused event goes no further, and nothing
\* is undone.
IsLifecycle == Abstract!Spec

\* An acknowledged event is durable: a response for it was sent only after it was
\* stored for replay and written to Kafka.
AckedDurable ==
  \A c \in Clients : \A n \in Range(acks[c]) :
    <<c, n>> \in stored /\ <<c, n>> \in Range(log)

\* Kafka never runs ahead of the store: a subscriber sees no event that a
\* replay would miss, because EventService stores before it publishes.
PublishedStored == Range(log) \subseteq stored

\* The batch of a stream's request.
SameBatch(n) == {m \in Requests : (m - 1) \div StreamBatchSize = (n - 1) \div StreamBatchSize}

\* An invalid request leaves no trace of its batch: validation of all requests
\* comes before the first Store.
InvalidBatchLeavesNothing ==
  \A c \in StreamClients : \A n \in invalid[c] :
    ({c} \X SameBatch(n)) \cap stored = {}

\* A stream's batch is published only when all of it is stored, and in the order
\* of its requests; retries of the producer repeat an event only in place.
LogInOrder ==
  /\ \A i, j \in 1 .. Len(log) : i < j /\ log[i][1] = log[j][1] => log[i][2] <= log[j][2]
  /\ \A i \in 1 .. Len(log) : log[i][1] \in StreamClients =>
       \A m \in SameBatch(log[i][2]) : m <= sent[log[i][1]] => <<log[i][1], m>> \in stored

\* Responses on a stream match its requests one to one: the k-th response is
\* for the k-th request.
AcksInOrder ==
  \A c \in StreamClients : \A k \in 1 .. Len(acks[c]) : acks[c][k] = k

=============================================================================
