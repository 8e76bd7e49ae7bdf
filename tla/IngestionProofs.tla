--------------------------- MODULE IngestionProofs ---------------------------
(***************************************************************************)
(* Proofs about Ingestion: for any number of clients, any batch size and   *)
(* any number of requests, an acknowledged event is stored and published,  *)
(* nothing is published that was not stored, the handlers implement the    *)
(* life of an event that Lifecycle describes, a batch with an invalid      *)
(* request leaves no trace, and log and responses keep the requests' order.*)
(***************************************************************************)
EXTENDS Ingestion, SequenceTheorems, TLAPS

-----------------------------------------------------------------------------
(* What a write and a response add *)

\* The writes of a Publish, one or two of its event or none.
LEMMA RangeWrites ==
  ASSUME NEW S, NEW e \in S
  PROVE  /\ <<>> \in Seq(S) /\ Range(<<>>) = {}
         /\ <<e>> \in Seq(S) /\ Range(<<e>>) = {e}
         /\ <<e, e>> \in Seq(S) /\ Range(<<e, e>>) = {e}
<1>1. <<>> \in Seq(S) /\ Range(<<>>) = {}
  BY DEF Range
<1>2. <<e>> \in Seq(S) /\ Range(<<e>>) = {e}
  BY DEF Range
<1>3. <<e, e>> \in Seq(S) /\ Range(<<e, e>>) = {e}
  <2>1. DOMAIN <<e, e>> = {1, 2} /\ <<e, e>>[1] = e /\ <<e, e>>[2] = e
    OBVIOUS
  <2>2. QED BY <2>1 DEF Range
<1>4. QED BY <1>1, <1>2, <1>3, Zenon

\* A response adds its event to those acknowledged.
LEMMA RangeAppend ==
  ASSUME NEW S, NEW s \in Seq(S), NEW e \in S
  PROVE  Append(s, e) \in Seq(S) /\ Range(Append(s, e)) = Range(s) \cup {e}
<1>1. Append(s, e) = s \o <<e>>
  BY AppendIsConcat, Zenon
<1>2. <<e>> \in Seq(S) /\ Range(<<e>>) = {e}
  BY RangeWrites, Zenon
<1>3. Range(s \o <<e>>) = Range(s) \cup Range(<<e>>)
  <2>1. <<e>> \in Seq(S)
    BY <1>2, Zenon
  <2>2. QED BY ONLY s \in Seq(S), <2>1, RangeConcatenation
<1>4. Append(s, e) \in Seq(S)
  BY AppendProperties, Zenon
<1>5. QED BY <1>1, <1>2, <1>3, <1>4, Zenon

-----------------------------------------------------------------------------
(* Type correctness *)

Busy == {"store", "publish", "ack"}

\* The batch in work ends at the last request received, and a loop's index is
\* inside it.
BatchOK ==
  \A c \in Clients :
    /\ batch[c].last = sent[c]
    /\ batch[c].first <= sent[c] + 1
    /\ pc[c] = "prepare" => batch[c].first <= sent[c]
    /\ pc[c] \in Busy => idx[c] \in InBatch(c)

\* Abbreviation for the steps that give a batch up.
LEMMA FailFacts ==
  ASSUME IngestionTypeOK, BatchOK, NEW c \in Clients, NEW from \in PcValues, Fail(c, from)
  PROVE  /\ pc[c] = from
         /\ pc' \in [Clients -> PcValues]
         /\ pc'[c] \in {"recv", "failed"}
         /\ batch' \in [Clients -> [first : 1 .. MaxRequests + 1, last : 0 .. MaxRequests]]
         /\ batch'[c].first = sent[c] + 1 /\ batch'[c].last = sent[c]
         /\ \A d \in Clients \ {c} : pc'[d] = pc[d] /\ batch'[d] = batch[d]
<1>1. sent[c] \in 0 .. MaxRequests /\ MaxRequests \in Nat
  BY IngestionAssumption, Zenon DEF IngestionTypeOK
<1>2. NextBatch(c) \in [first : 1 .. MaxRequests + 1, last : 0 .. MaxRequests]
  BY <1>1 DEF NextBatch
<1>3. QED BY <1>1, <1>2, Zenon DEF Fail, Move, IngestionTypeOK, NextBatch, PcValues

\* Abbreviation for the steps that go on to a loop's next index, or leave it.
LEMMA AdvanceFacts ==
  ASSUME IngestionTypeOK, BatchOK, NEW c \in Clients, NEW from \in Busy, NEW to \in Busy,
         Advance(c, from, to)
  PROVE  /\ pc[c] = from
         /\ idx[c] \in InBatch(c) /\ idx[c] \in Requests
         /\ pc' \in [Clients -> PcValues]
         /\ idx' \in [Clients -> 1 .. MaxRequests + 1]
         /\ \/ pc'[c] = from /\ idx[c] < batch[c].last /\ idx'[c] = idx[c] + 1
            \/ pc'[c] = to /\ idx[c] = batch[c].last /\ idx'[c] = batch[c].first
         /\ \A d \in Clients \ {c} : pc'[d] = pc[d] /\ idx'[d] = idx[d]
<1>1. /\ batch[c].first \in 1 .. MaxRequests + 1 /\ batch[c].last \in 0 .. MaxRequests
      /\ idx[c] \in 1 .. MaxRequests + 1 /\ MaxRequests \in Nat
  BY IngestionAssumption, Zenon DEF IngestionTypeOK
<1>2. pc[c] = from
  BY Zenon DEF Advance, Move
<1>3. idx[c] \in InBatch(c)
  BY <1>2, Zenon DEF BatchOK
<1>4. idx[c] \in Requests
  BY <1>1, <1>3 DEF InBatch, Requests
<1>5. CASE idx[c] < batch[c].last /\ idx' = [idx EXCEPT ![c] = @ + 1] /\ UNCHANGED pc
  <2>1. idx[c] + 1 \in 1 .. MaxRequests + 1
    BY <1>1, <1>5
  <2>2. QED BY <1>2, <1>3, <1>4, <1>5, <2>1, Zenon DEF IngestionTypeOK
<1>6. CASE idx[c] = batch[c].last /\ Move(c, from, to) /\ idx' = [idx EXCEPT ![c] = batch[c].first]
  <2>1. to \in PcValues
    BY Zenon DEF Busy, PcValues
  <2>2. QED BY <1>1, <1>2, <1>3, <1>4, <1>6, <2>1, Zenon DEF IngestionTypeOK, Move
<1>7. QED BY <1>5, <1>6, Zenon DEF Advance


\* A step keeps the types and the batch in shape.
LEMMA TypeStep ==
  ASSUME IngestionTypeOK, BatchOK, [IngestionNext]_ingestionVars
  PROVE  IngestionTypeOK' /\ BatchOK'
<1> USE IngestionAssumption
<1>1. ASSUME NEW c \in Clients, Recv(c)
      PROVE  IngestionTypeOK' /\ BatchOK'
  <2>1. /\ sent[c] \in Nat /\ sent[c] + 1 \in Requests
        /\ batch[c] \in [first : 1 .. MaxRequests + 1, last : 0 .. MaxRequests]
        /\ pc[c] = "recv"
    BY <1>1 DEF IngestionTypeOK, Recv, Requests, Move
  <2>2. /\ pc' \in [Clients -> PcValues]
        /\ pc'[c] \in {"recv", "prepare"}
        /\ \A d \in Clients \ {c} : pc'[d] = pc[d]
    BY <1>1, <2>1, Zenon DEF IngestionTypeOK, Recv, Move, PcValues
  <2>3. /\ sent' \in [Clients -> 0 .. MaxRequests]
        /\ sent'[c] = sent[c] + 1
        /\ \A d \in Clients \ {c} : sent'[d] = sent[d]
    BY <1>1, <2>1 DEF IngestionTypeOK, Recv, Requests
  <2>4. invalid' \in [Clients -> SUBSET Requests]
    <3>1. PICK bad \in BOOLEAN :
            invalid' = [invalid EXCEPT ![c] = IF bad THEN @ \cup {sent[c] + 1} ELSE @]
      BY <1>1, Zenon DEF Recv
    <3>2. CASE bad
      BY <2>1, <3>1, <3>2, Zenon DEF IngestionTypeOK
    <3>3. CASE ~bad
      BY <2>1, <3>1, <3>3, Zenon DEF IngestionTypeOK
    <3>4. QED BY <3>2, <3>3, Zenon
  <2>5. batch' = [batch EXCEPT ![c] = [batch[c] EXCEPT !.last = sent[c] + 1]]
    BY <1>1, Zenon DEF Recv
  <2>6. [batch[c] EXCEPT !.last = sent[c] + 1] \in
          [first : 1 .. MaxRequests + 1, last : 0 .. MaxRequests]
    BY <2>1 DEF Requests
  <2>7. /\ batch' \in [Clients -> [first : 1 .. MaxRequests + 1, last : 0 .. MaxRequests]]
        /\ batch'[c].first = batch[c].first /\ batch'[c].last = sent[c] + 1
        /\ \A d \in Clients \ {c} : batch'[d] = batch[d]
    BY <2>1, <2>5, <2>6, Zenon DEF IngestionTypeOK
  <2>8. IngestionTypeOK'
    BY <1>1, <2>2, <2>3, <2>4, <2>7, Zenon DEF IngestionTypeOK, Recv
  <2>9. BatchOK'
    <3>1. idx' = idx
      BY <1>1, Zenon DEF Recv
    <3>2. batch[c].first <= sent[c] + 1 /\ batch[c].first \in Nat
      BY <2>1 DEF BatchOK
    <3>3. QED BY <2>1, <2>2, <2>3, <2>7, <3>1, <3>2 DEF BatchOK, Busy, InBatch
  <2>10. QED BY <2>8, <2>9, Zenon
<1>2. ASSUME NEW c \in Clients, RecvEOF(c)
      PROVE  IngestionTypeOK' /\ BatchOK'
  <2>1. IngestionTypeOK'
    BY <1>2, Zenon DEF IngestionTypeOK, RecvEOF, Move, PcValues
  <2>2. BatchLen(c) > 0 => batch[c].first <= sent[c]
    BY <1>2 DEF IngestionTypeOK, BatchOK, BatchLen
  <2>3. QED BY <1>2, <2>1, <2>2, Zenon DEF IngestionTypeOK, BatchOK, RecvEOF, Move, Busy, InBatch
<1>3. ASSUME NEW c \in Clients, NEW from \in PcValues, Fail(c, from),
             UNCHANGED <<clientVars, idx, acks, stored>>, log' \in Seq(Events)
      PROVE  IngestionTypeOK' /\ BatchOK'
  <2>1. IngestionTypeOK'
    BY <1>3, FailFacts, Zenon DEF IngestionTypeOK, clientVars
  <2>2. QED
    <3>1. ASSUME NEW d \in Clients
          PROVE  /\ batch'[d].last = sent'[d]
                 /\ batch'[d].first <= sent'[d] + 1
                 /\ pc'[d] = "prepare" => batch'[d].first <= sent'[d]
                 /\ pc'[d] \in Busy => idx'[d] \in batch'[d].first .. batch'[d].last
      <4>1. /\ pc'[c] \in {"recv", "failed"}
            /\ batch'[c].first = sent[c] + 1 /\ batch'[c].last = sent[c]
            /\ \A e \in Clients \ {c} : pc'[e] = pc[e] /\ batch'[e] = batch[e]
        BY <1>3, FailFacts, Zenon
      <4>2. sent' = sent /\ idx' = idx /\ sent[c] \in Nat
        BY <1>3 DEF clientVars, IngestionTypeOK
      <4>3. CASE d = c
        BY <4>1, <4>2, <4>3 DEF Busy
      <4>4. CASE d # c
        BY <4>1, <4>2, <4>4, Zenon DEF BatchOK, InBatch
      <4>5. QED BY <4>3, <4>4, Zenon
    <3>2. QED BY <2>1, <3>1, Zenon DEF BatchOK, InBatch
<1>4. ASSUME NEW c \in Clients, NEW from \in Busy, NEW to \in Busy, Advance(c, from, to),
             UNCHANGED <<clientVars, batch, acks>>,
             stored' \in SUBSET Events, log' \in Seq(Events)
      PROVE  IngestionTypeOK' /\ BatchOK'
  <2>1. IngestionTypeOK'
    BY <1>4, AdvanceFacts, Zenon DEF IngestionTypeOK, clientVars
  <2>2. /\ batch[c].first \in Nat /\ batch[c].last \in Nat /\ idx[c] \in Nat
        /\ idx[c] \in InBatch(c)
    <3>1. batch[c] \in [first : 1 .. MaxRequests + 1, last : 0 .. MaxRequests]
      BY Zenon DEF IngestionTypeOK
    <3>2. idx[c] \in 1 .. MaxRequests + 1
      BY Zenon DEF IngestionTypeOK
    <3>3. MaxRequests \in Nat
      BY IngestionAssumption, Zenon DEF IngestionAssumption
    <3>4. batch[c].first \in Nat /\ batch[c].last \in Nat /\ idx[c] \in Nat
      BY <3>1, <3>2, <3>3
    <3>5. idx[c] \in InBatch(c)
      BY <1>4, AdvanceFacts, Zenon
    <3>6. QED BY <3>4, <3>5, Zenon
  <2>3. idx'[c] \in batch[c].first .. batch[c].last
    BY <1>4, <2>2, AdvanceFacts DEF InBatch
  <2>4. pc'[c] \in Busy
    BY <1>4, AdvanceFacts, Zenon
  <2>5. pc'[c] # "prepare"
    BY <2>4, Zenon DEF Busy
  <2>6. \A d \in Clients \ {c} : pc'[d] = pc[d] /\ idx'[d] = idx[d]
    BY <1>4, AdvanceFacts, Zenon
  <2>7. sent' = sent /\ batch' = batch
    BY <1>4, Zenon DEF clientVars
  <2>8. QED BY <2>1, <2>3, <2>5, <2>6, <2>7 DEF BatchOK, InBatch
<1>5. ASSUME NEW c \in Clients, PrepareBatchEvents(c), InBatch(c) \cap invalid[c] = {},
             pc[c] = "prepare", pc' = [pc EXCEPT ![c] = "store"],
             idx' = [idx EXCEPT ![c] = batch[c].first],
             UNCHANGED <<clientVars, batch, acks, stored, log>>
      PROVE  IngestionTypeOK' /\ BatchOK'
  <2>1. batch[c].first \in 1 .. MaxRequests + 1 /\ batch[c].last \in Nat
    BY DEF IngestionTypeOK
  <2>2. IngestionTypeOK'
    BY <1>5, <2>1, Zenon DEF IngestionTypeOK, clientVars, PcValues
  <2>3. batch[c].first \in batch[c].first .. batch[c].last
    BY <1>5, <2>1 DEF BatchOK
  <2>4. QED BY <1>5, <2>1, <2>2, <2>3, Zenon DEF IngestionTypeOK, BatchOK, InBatch, Busy, clientVars
<1>6. ASSUME NEW c \in Clients, SendResponse(c)
      PROVE  IngestionTypeOK' /\ BatchOK'
  <2>1. /\ idx[c] \in InBatch(c) /\ sent[c] \in 0 .. MaxRequests
        /\ batch[c].first \in 1 .. MaxRequests + 1 /\ batch[c].last \in 0 .. MaxRequests
        /\ idx[c] \in Nat /\ pc[c] = "ack"
    BY <1>6 DEF SendResponse, BatchOK, IngestionTypeOK, Busy
  <2>2. idx[c] \in Requests
    BY <2>1 DEF InBatch, Requests
  <2>3. acks' \in [Clients -> Seq(Requests)]
    <3>1. acks[c] \in Seq(Requests)
      BY Zenon DEF IngestionTypeOK
    <3>2. Append(acks[c], idx[c]) \in Seq(Requests)
      BY <2>2, <3>1, AppendProperties, Zenon
    <3>3. QED BY <1>6, <3>2, Zenon DEF IngestionTypeOK, SendResponse
  <2>4. CASE idx[c] < batch[c].last /\ idx' = [idx EXCEPT ![c] = @ + 1] /\ UNCHANGED <<pc, batch>>
    <3>1. idx[c] + 1 \in 1 .. MaxRequests + 1 /\ idx[c] + 1 \in InBatch(c)
      BY <2>1, <2>4 DEF InBatch
    <3>2. IngestionTypeOK'
      BY <1>6, <2>3, <2>4, <3>1, Zenon DEF IngestionTypeOK, SendResponse, clientVars
    <3>3. QED BY <1>6, <2>4, <3>1, <3>2, Zenon DEF IngestionTypeOK, BatchOK, SendResponse, clientVars,
       InBatch
  <2>5. CASE /\ pc' = [pc EXCEPT ![c] = IF closing[c] THEN "ended" ELSE "recv"]
             /\ batch' = [batch EXCEPT ![c] = NextBatch(c)]
             /\ UNCHANGED idx
    <3>1. NextBatch(c) \in [first : 1 .. MaxRequests + 1, last : 0 .. MaxRequests]
      BY <2>1 DEF NextBatch
    <3>2. IngestionTypeOK'
      BY <1>6, <2>3, <2>5, <3>1, Zenon DEF IngestionTypeOK, SendResponse, clientVars, PcValues
    <3>3. sent' = sent /\ idx' = idx
      BY <1>6, <2>5, Zenon DEF SendResponse, clientVars
    <3>4. pc'[c] \notin Busy \cup {"prepare"}
      BY <2>5, Zenon DEF IngestionTypeOK, Busy
    <3>5. batch'[c].first = sent[c] + 1 /\ batch'[c].last = sent[c]
      BY <2>5, Zenon DEF IngestionTypeOK, NextBatch
    <3>6. \A d \in Clients \ {c} : pc'[d] = pc[d] /\ batch'[d] = batch[d]
      BY <2>5, Zenon DEF IngestionTypeOK
    <3>7. ASSUME NEW d \in Clients
          PROVE  /\ batch'[d].last = sent'[d]
                 /\ batch'[d].first <= sent'[d] + 1
                 /\ pc'[d] = "prepare" => batch'[d].first <= sent'[d]
                 /\ pc'[d] \in Busy => idx'[d] \in batch'[d].first .. batch'[d].last
      <4>1. CASE d = c
        BY <2>1, <3>3, <3>4, <3>5, <4>1
      <4>2. CASE d # c
        BY <3>3, <3>6, <4>2, Zenon DEF BatchOK, InBatch
      <4>3. QED BY <4>1, <4>2, Zenon
    <3>8. BatchOK'
      BY ONLY <3>7, Zenon DEF BatchOK, InBatch
    <3>9. QED BY ONLY <3>2, <3>8, Zenon
  <2>6. QED BY <1>6, <2>4, <2>5, Zenon DEF SendResponse
<1>7. ASSUME NEW c \in Clients, pc[c] \in Busy
      PROVE  <<c, idx[c]>> \in Events
  BY <1>7 DEF BatchOK, IngestionTypeOK, Busy, InBatch, Requests, Events
<1>8. ASSUME NEW c \in Clients, PrepareBatchEvents(c)
      PROVE  IngestionTypeOK' /\ BatchOK'
  <2>1. "prepare" \in PcValues
    BY Zenon DEF PcValues
  <2>2. CASE InBatch(c) \cap invalid[c] = {}
    BY <1>5, <1>8, <2>2, Zenon DEF PrepareBatchEvents, Move
  <2>3. CASE InBatch(c) \cap invalid[c] # {}
    BY <1>3, <1>8, <2>1, <2>3, Zenon DEF PrepareBatchEvents, IngestionTypeOK
  <2>4. QED BY <2>2, <2>3, Zenon
<1>9. ASSUME NEW c \in Clients, StoreEvent(c)
      PROVE  IngestionTypeOK' /\ BatchOK'
  <2>1. "store" \in Busy /\ "publish" \in Busy
    BY Zenon DEF Busy
  <2>2. pc[c] = "store"
    BY <1>9, Zenon DEF StoreEvent, Advance, Move
  <2>3. stored' \in SUBSET Events
    BY <1>7, <1>9, <2>1, <2>2, Zenon DEF StoreEvent, IngestionTypeOK
  <2>4. QED BY <1>4, <1>9, <2>1, <2>3, Zenon DEF StoreEvent, IngestionTypeOK
<1>10. ASSUME NEW c \in Clients, PublishEvent(c) \/ PublishFail(c)
       PROVE  log' \in Seq(Events)
  <2>1. pc[c] = "publish"
    BY <1>10, Zenon DEF PublishEvent, PublishFail, Advance, Fail, Move
  <2>2. <<c, idx[c]>> \in Events
    BY <1>7, <2>1, Zenon DEF Busy
  <2>3. PICK w \in {<<>>, <<<<c, idx[c]>>>>, <<<<c, idx[c]>>, <<c, idx[c]>>>>} : log' = log \o w
    BY <1>10, Zenon DEF PublishEvent, PublishFail
  <2>4. w \in Seq(Events) /\ log \in Seq(Events)
    <3>1. \A e \in Events : <<>> \in Seq(Events) /\ <<e>> \in Seq(Events) /\ <<e, e>> \in Seq(Events)
      BY RangeWrites, Zenon
    <3>2. QED BY <2>2, <2>3, <3>1, Zenon DEF IngestionTypeOK
  <2>5. QED BY <2>3, <2>4, ConcatProperties, Zenon
<1>11. ASSUME NEW c \in Clients, PublishEvent(c)
       PROVE  IngestionTypeOK' /\ BatchOK'
  <2>1. "ack" \in Busy /\ "publish" \in Busy
    BY Zenon DEF Busy
  <2>2. QED BY <1>4, <1>10, <1>11, <2>1, Zenon DEF PublishEvent, IngestionTypeOK
<1>12. ASSUME NEW c \in Clients,
              RecvFail(c) \/ SendFail(c) \/ StoreFail(c) \/ PublishFail(c)
       PROVE  IngestionTypeOK' /\ BatchOK'
  <2>1. {"recv", "ack", "store", "publish"} \subseteq PcValues
    BY Zenon DEF PcValues
  <2>2. log' \in Seq(Events)
    BY <1>10, <1>12, Zenon DEF RecvFail, SendFail, StoreFail, IngestionTypeOK
  <2>3. QED BY <1>3, <1>12, <2>1, <2>2, Zenon DEF RecvFail, SendFail, StoreFail, PublishFail
<1>13. CASE UNCHANGED ingestionVars
  BY <1>13, Zenon DEF ingestionVars, clientVars, IngestionTypeOK, BatchOK, InBatch
<1>14. QED
  BY <1>1, <1>2, <1>6, <1>8, <1>9, <1>11, <1>12, <1>13, Zenon DEF IngestionNext, Step

\* Every state of a behaviour is well typed.
THEOREM TypeCorrect == IngestionSpec => [](IngestionTypeOK /\ BatchOK)
<1>1. IngestionInit => IngestionTypeOK /\ BatchOK
  <2>1. ASSUME IngestionInit PROVE IngestionTypeOK
    <3>1. <<>> \in Seq(Requests) /\ <<>> \in Seq(Events)
      OBVIOUS
    <3>2. QED BY <2>1, <3>1, IngestionAssumption DEF IngestionInit, IngestionTypeOK, PcValues
  <2>2. ASSUME IngestionInit PROVE BatchOK
    BY <2>2 DEF IngestionInit, BatchOK, Busy
  <2>3. QED BY <2>1, <2>2, Zenon
<1>2. IngestionTypeOK /\ BatchOK /\ [IngestionNext]_ingestionVars => (IngestionTypeOK /\ BatchOK)'
  BY TypeStep, Zenon
<1>3. QED BY <1>1, <1>2, PTL DEF IngestionSpec

-----------------------------------------------------------------------------
(* Durability *)

\* How far EventService has come with the batch of a client: the events before
\* the index of its loop are stored, then all are; those before the index of the
\* second loop are published, then all are.
Progress(c) ==
  /\ pc[c] = "store" =>
       \A n \in Requests : batch[c].first <= n /\ n < idx[c] => <<c, n>> \in stored
  /\ pc[c] \in {"publish", "ack"} =>
       \A n \in InBatch(c) : <<c, n>> \in stored
  /\ pc[c] = "publish" =>
       \A n \in Requests : batch[c].first <= n /\ n < idx[c] => <<c, n>> \in Range(log)
  /\ pc[c] = "ack" =>
       \A n \in InBatch(c) : <<c, n>> \in Range(log)

\* The inductive invariant.
Durable ==
  /\ IngestionTypeOK
  /\ BatchOK
  /\ \A c \in Clients : Progress(c)
  /\ AckedDurable
  /\ PublishedStored

\* What a Publish adds to the log.
LEMMA PublishRange ==
  ASSUME IngestionTypeOK, BatchOK, NEW c \in Clients, PublishEvent(c) \/ PublishFail(c)
  PROVE  /\ pc[c] = "publish" /\ idx[c] \in InBatch(c)
         /\ Range(log) \subseteq Range(log')
         /\ Range(log') \subseteq Range(log) \cup {<<c, idx[c]>>}
         /\ PublishEvent(c) => <<c, idx[c]>> \in Range(log')
<1>1. pc[c] = "publish"
  BY Zenon DEF PublishEvent, PublishFail, Advance, Fail, Move
<1>2. idx[c] \in InBatch(c)
  BY <1>1, Zenon DEF BatchOK, Busy
<1>3. <<c, idx[c]>> \in Events
  BY <1>2, IngestionAssumption DEF IngestionTypeOK, InBatch, Requests, Events
<1>4. ASSUME NEW e \in Events, NEW w \in {<<>>, <<e>>, <<e, e>>}, log' = log \o w
      PROVE  /\ Range(log') = Range(log) \cup Range(w)
             /\ Range(w) \subseteq {e}
             /\ w # <<>> => Range(w) = {e}
  <2>1. /\ <<>> \in Seq(Events) /\ Range(<<>>) = {}
        /\ <<e>> \in Seq(Events) /\ Range(<<e>>) = {e}
        /\ <<e, e>> \in Seq(Events) /\ Range(<<e, e>>) = {e}
    BY RangeWrites, Zenon
  <2>2. w \in Seq(Events) /\ log \in Seq(Events)
    BY <2>1, Zenon DEF IngestionTypeOK
  <2>3. Range(log \o w) = Range(log) \cup Range(w)
    BY <2>2, RangeConcatenation
  <2>4. QED BY <1>4, <2>1, <2>3, Zenon
<1>5. PICK w \in {<<>>, <<<<c, idx[c]>>>>, <<<<c, idx[c]>>, <<c, idx[c]>>>>} :
        /\ log' = log \o w
        /\ PublishEvent(c) => w # <<>>
  <2>1. CASE PublishEvent(c)
    BY <2>1, Zenon DEF PublishEvent
  <2>2. CASE ~PublishEvent(c)
    BY <2>2, Zenon DEF PublishFail
  <2>3. QED BY <2>1, <2>2, Zenon
<1>6. /\ Range(log') = Range(log) \cup Range(w)
      /\ Range(w) \subseteq {<<c, idx[c]>>}
      /\ w # <<>> => Range(w) = {<<c, idx[c]>>}
  BY <1>3, <1>4, <1>5, Zenon
<1>7. QED BY <1>1, <1>2, <1>5, <1>6, Zenon

\* A step of one client leaves the others where they are and takes nothing out
\* of the store or the log.
LEMMA OthersKept ==
  ASSUME IngestionTypeOK, BatchOK, NEW c \in Clients, Step(c)
  PROVE  /\ stored \subseteq stored'
         /\ Range(log) \subseteq Range(log')
         /\ \A d \in Clients \ {c} : /\ pc'[d] = pc[d] /\ batch'[d] = batch[d]
                                     /\ idx'[d] = idx[d] /\ acks'[d] = acks[d]
<1>1. stored \subseteq stored'
  BY Zenon DEF Step, Recv, RecvEOF, RecvFail, SendResponse, SendFail, PrepareBatchEvents,
         StoreEvent, StoreFail, PublishEvent, PublishFail
<1>2. Range(log) \subseteq Range(log')
  <2>1. CASE PublishEvent(c) \/ PublishFail(c)
    BY <2>1, PublishRange, Zenon
  <2>2. CASE ~(PublishEvent(c) \/ PublishFail(c))
    <3>1. log' = log
      BY <2>2, Zenon DEF Step, Recv, RecvEOF, RecvFail, SendResponse, SendFail, PrepareBatchEvents,
                  StoreEvent, StoreFail
    <3>2. QED BY <3>1, Zenon
  <2>3. QED BY <2>1, <2>2, Zenon
<1>3. ASSUME NEW d \in Clients \ {c}
      PROVE  /\ pc'[d] = pc[d] /\ batch'[d] = batch[d]
             /\ idx'[d] = idx[d] /\ acks'[d] = acks[d]
  BY Zenon DEF Step, Recv, RecvEOF, RecvFail, SendResponse, SendFail, PrepareBatchEvents,
         StoreEvent, StoreFail, PublishEvent, PublishFail, Advance, Fail, Move, IngestionTypeOK
<1>4. QED BY <1>1, <1>2, <1>3, Zenon

\* The loops of EventService keep their bookkeeping.
LEMMA ProgressStep ==
  ASSUME Durable, NEW c \in Clients, Step(c)
  PROVE  \A d \in Clients : Progress(d)'
<1>1. IngestionTypeOK /\ BatchOK /\ Progress(c)
  BY Zenon DEF Durable
<1>2. /\ stored \subseteq stored' /\ Range(log) \subseteq Range(log')
      /\ \A d \in Clients \ {c} : pc'[d] = pc[d] /\ batch'[d] = batch[d] /\ idx'[d] = idx[d]
  BY <1>1, OthersKept, Zenon
<1>3. ASSUME NEW d \in Clients \ {c}
      PROVE  Progress(d)'
  BY <1>2, Zenon DEF Progress, InBatch, Durable
<1> SUFFICES Progress(c)'
  BY <1>3, Zenon
<1>4. /\ idx[c] \in Nat /\ batch[c].first \in Nat /\ batch[c].last \in Nat
      /\ batch[c].last <= MaxRequests /\ batch[c].first >= 1
      /\ pc[c] \in Busy => idx[c] \in InBatch(c)
  BY <1>1 DEF IngestionTypeOK, BatchOK
<1> InBatch(c) = {n \in Requests : batch[c].first <= n /\ n <= batch[c].last}
  <2>1. batch[c].first .. batch[c].last
          = {n \in 1 .. MaxRequests : batch[c].first <= n /\ n <= batch[c].last}
    BY ONLY <1>4, IngestionAssumption
  <2>2. QED BY ONLY <2>1, Zenon DEF InBatch, Requests
<1>5. CASE pc'[c] \notin Busy
  BY <1>5, Zenon DEF Progress, Busy
<1>6. CASE PrepareBatchEvents(c) /\ pc'[c] \in Busy
  <2>1. pc'[c] = "store" /\ idx'[c] = batch[c].first /\ batch' = batch
    BY <1>1, <1>6, Zenon DEF PrepareBatchEvents, Fail, Move, Busy, IngestionTypeOK
  <2>2. QED BY <1>4, <2>1 DEF Progress, Requests
<1>7. CASE StoreEvent(c)
  <2>1. /\ pc[c] = "store" /\ batch' = batch /\ <<c, idx[c]>> \in stored'
        /\ \/ pc'[c] = "store" /\ idx[c] < batch[c].last /\ idx'[c] = idx[c] + 1
           \/ pc'[c] = "publish" /\ idx[c] = batch[c].last /\ idx'[c] = batch[c].first
    BY <1>1, <1>7, AdvanceFacts, Zenon DEF StoreEvent, Busy
  <2>2. \A n \in Requests : batch[c].first <= n /\ n <= idx[c] => <<c, n>> \in stored'
    <3>1. \A n \in Requests : batch[c].first <= n /\ n < idx[c] => <<c, n>> \in stored
      BY <1>1, <2>1, Zenon DEF Progress
    <3>2. \A n \in Requests : n <= idx[c] => n < idx[c] \/ n = idx[c]
      BY <1>4 DEF Requests
    <3>3. QED BY <1>2, <2>1, <3>1, <3>2, Zenon
  <2>3. CASE pc'[c] = "store" /\ idx'[c] = idx[c] + 1
    <3>1. \A n \in Requests : n < idx'[c] => n <= idx[c]
      BY ONLY <1>4, <2>3, IngestionAssumption DEF Requests
    <3>2. QED BY <2>1, <2>2, <2>3, <3>1, Zenon DEF Progress
  <2>4. CASE pc'[c] = "publish" /\ idx[c] = batch[c].last /\ idx'[c] = batch[c].first
    <3>1. \A n \in InBatch(c) : <<c, n>> \in stored'
      BY <2>2, <2>4, Zenon
    <3>2. InBatch(c)' = InBatch(c)
      BY <2>1, Zenon DEF InBatch
    <3>3. ~ \E n \in Requests : batch[c].first <= n /\ n < batch[c].first
      BY ONLY <1>4, IngestionAssumption DEF Requests
    <3>4. QED BY <2>1, <2>4, <3>1, <3>2, <3>3, Zenon DEF Progress
  <2>5. QED BY <2>1, <2>3, <2>4, Zenon
<1>8. CASE PublishEvent(c)
  <2>1. /\ pc[c] = "publish" /\ batch' = batch
        /\ \/ pc'[c] = "publish" /\ idx[c] < batch[c].last /\ idx'[c] = idx[c] + 1
           \/ pc'[c] = "ack" /\ idx[c] = batch[c].last /\ idx'[c] = batch[c].first
    BY <1>1, <1>8, AdvanceFacts, Zenon DEF PublishEvent, Busy
  <2>2. <<c, idx[c]>> \in Range(log')
    BY <1>1, <1>8, PublishRange, Zenon
  <2>3. \A n \in InBatch(c) : <<c, n>> \in stored'
    BY <1>1, <1>2, <2>1, Zenon DEF Progress
  <2>4. \A n \in Requests : batch[c].first <= n /\ n <= idx[c] => <<c, n>> \in Range(log')
    <3>1. \A n \in Requests : batch[c].first <= n /\ n < idx[c] => <<c, n>> \in Range(log)
      BY <1>1, <2>1, Zenon DEF Progress
    <3>2. \A n \in Requests : n <= idx[c] => n < idx[c] \/ n = idx[c]
      BY <1>4 DEF Requests
    <3>3. QED BY <1>2, <2>2, <3>1, <3>2, Zenon
  <2>5. CASE pc'[c] = "publish" /\ idx'[c] = idx[c] + 1
    <3>1. InBatch(c)' = InBatch(c)
      BY <2>1, Zenon DEF InBatch
    <3>2. \A n \in Requests : n < idx'[c] => n <= idx[c]
      BY ONLY <1>4, <2>5, IngestionAssumption DEF Requests
    <3>3. QED BY <2>1, <2>3, <2>4, <2>5, <3>1, <3>2, Zenon DEF Progress
  <2>6. CASE pc'[c] = "ack" /\ idx[c] = batch[c].last
    <3>1. \A n \in InBatch(c) : <<c, n>> \in Range(log')
      BY <2>4, <2>6, Zenon
    <3>2. InBatch(c)' = InBatch(c)
      BY <2>1, Zenon DEF InBatch
    <3>3. QED BY <2>3, <2>6, <3>1, <3>2, Zenon DEF Progress
  <2>7. QED BY <2>1, <2>5, <2>6, Zenon
<1>9. CASE SendResponse(c) /\ pc'[c] \in Busy
  <2>1. pc[c] = "ack" /\ pc' = pc /\ batch' = batch /\ stored' = stored /\ log' = log
    BY <1>1, <1>9, Zenon DEF SendResponse, Busy, IngestionTypeOK
  <2>2. QED BY <1>1, <2>1, Zenon DEF Progress, InBatch
<1>10. ASSUME Recv(c) \/ RecvEOF(c) \/ RecvFail(c) \/ SendFail(c) \/ StoreFail(c) \/ PublishFail(c)
       PROVE  pc'[c] \notin Busy
  BY <1>1, <1>10, Zenon DEF Recv, RecvEOF, RecvFail, SendFail, StoreFail, PublishFail, Fail,
     Move, Busy, IngestionTypeOK
<1>11. QED BY <1>5, <1>6, <1>7, <1>8, <1>9, <1>10, Zenon DEF Step

\* Responses and writes keep the two properties.
LEMMA DurableStep ==
  ASSUME Durable, [IngestionNext]_ingestionVars
  PROVE  Durable'
<1>1. CASE UNCHANGED ingestionVars
  BY <1>1, Zenon DEF Durable, ingestionVars, clientVars, IngestionTypeOK, BatchOK, Progress, InBatch, AckedDurable,
     PublishedStored
<1>2. ASSUME NEW c \in Clients, Step(c)
      PROVE  Durable'
  <2>1. IngestionTypeOK /\ BatchOK /\ Progress(c) /\ AckedDurable /\ PublishedStored
    BY Zenon DEF Durable
  <2>2. IngestionTypeOK' /\ BatchOK'
    BY <1>2, <2>1, TypeStep, Zenon DEF IngestionNext
  <2>3. \A d \in Clients : Progress(d)'
    BY <1>2, ProgressStep, Zenon
  <2>4. /\ stored \subseteq stored' /\ Range(log) \subseteq Range(log')
        /\ \A d \in Clients \ {c} : acks'[d] = acks[d]
    BY <1>2, <2>1, OthersKept, Zenon
  <2>5. AckedDurable'
    <3>1. ASSUME NEW n \in Range(acks'[c])
          PROVE  <<c, n>> \in stored' /\ <<c, n>> \in Range(log')
      <4>1. CASE SendResponse(c)
        <5>1. /\ idx[c] \in InBatch(c) /\ pc[c] = "ack"
              /\ acks'[c] = Append(acks[c], idx[c])
          BY <2>1, <4>1, Zenon DEF SendResponse, BatchOK, Busy, IngestionTypeOK
        <5>2. acks[c] \in Seq(Requests) /\ idx[c] \in Requests
          <6>1. /\ acks[c] \in Seq(Requests) /\ batch[c].first \in 1 .. MaxRequests + 1
                /\ batch[c].last \in 0 .. MaxRequests
            BY <2>1, Zenon DEF IngestionTypeOK
          <6>2. QED BY ONLY <5>1, <6>1, IngestionAssumption DEF InBatch, Requests
        <5>3. Range(acks'[c]) = Range(acks[c]) \cup {idx[c]}
          BY <5>1, <5>2, RangeAppend
        <5>4. <<c, idx[c]>> \in stored /\ <<c, idx[c]>> \in Range(log)
          BY <2>1, <5>1, Zenon DEF Progress
        <5>5. QED BY <2>1, <2>4, <5>3, <5>4, Zenon DEF AckedDurable
      <4>2. CASE ~SendResponse(c)
        <5>1. acks' = acks
          BY <1>2, <4>2, Zenon DEF Step, Recv, RecvEOF, RecvFail, SendFail, PrepareBatchEvents,
                            StoreEvent, StoreFail, PublishEvent, PublishFail
        <5>2. QED BY <2>1, <2>4, <5>1, Zenon DEF AckedDurable
      <4>3. QED BY <4>1, <4>2, Zenon
    <3>2. ASSUME NEW d \in Clients \ {c}, NEW n \in Range(acks'[d])
          PROVE  <<d, n>> \in stored' /\ <<d, n>> \in Range(log')
      BY <2>1, <2>4, Zenon DEF AckedDurable
    <3>3. QED BY <3>1, <3>2, Zenon DEF AckedDurable
  <2>6. PublishedStored'
    <3>1. CASE PublishEvent(c) \/ PublishFail(c)
      <4>1. /\ pc[c] = "publish" /\ idx[c] \in InBatch(c)
            /\ Range(log') \subseteq Range(log) \cup {<<c, idx[c]>>}
        BY <2>1, <3>1, PublishRange, Zenon
      <4>2. <<c, idx[c]>> \in stored
        BY <2>1, <4>1, Zenon DEF Progress
      <4>3. QED BY <2>1, <2>4, <4>1, <4>2, Zenon DEF PublishedStored
    <3>2. CASE ~(PublishEvent(c) \/ PublishFail(c))
      <4>1. log' = log
        BY <1>2, <3>2, Zenon DEF Step, Recv, RecvEOF, RecvFail, SendResponse, SendFail,
                          PrepareBatchEvents, StoreEvent, StoreFail
      <4>2. QED BY <2>1, <2>4, <4>1, Zenon DEF PublishedStored
    <3>3. QED BY <3>1, <3>2, Zenon
  <2>7. QED BY <2>2, <2>3, <2>5, <2>6, Zenon DEF Durable
<1>3. QED BY <1>1, <1>2, Zenon DEF IngestionNext

\* Nothing is stored, published or acknowledged at the start.
LEMMA DurableInit == IngestionInit => Durable
<1> SUFFICES ASSUME IngestionInit PROVE Durable
  OBVIOUS
<1>1. IngestionTypeOK
  <2>1. <<>> \in Seq(Requests) /\ <<>> \in Seq(Events)
    OBVIOUS
  <2>2. QED BY <2>1, IngestionAssumption DEF IngestionInit, IngestionTypeOK, PcValues
<1>2. BatchOK
  BY DEF IngestionInit, BatchOK, Busy
<1>3. \A c \in Clients : Progress(c)
  BY Zenon DEF IngestionInit, Progress, Busy
<1>4. AckedDurable /\ PublishedStored
  <2>1. Range(<<>>) = {}
    BY DEF Range
  <2>2. QED BY <2>1, Zenon DEF IngestionInit, AckedDurable, PublishedStored
<1>5. QED BY <1>1, <1>2, <1>3, <1>4, Zenon DEF Durable

\* An acknowledged event is durable: whatever the interleaving, a response was
\* sent only for an event that is in the store and in Kafka.
THEOREM AcknowledgedDurable == IngestionSpec => []AckedDurable
<1>1. Durable /\ [IngestionNext]_ingestionVars => Durable'
  BY DurableStep, Zenon
<1>2. Durable => AckedDurable
  BY Zenon DEF Durable
<1>3. QED BY DurableInit, <1>1, <1>2, PTL DEF IngestionSpec

\* Kafka never runs ahead of the store: storeAndPublish and the two loops of
\* IngestEventBatch publish only what is stored.
THEOREM StoredBeforePublished == IngestionSpec => []PublishedStored
<1>1. Durable /\ [IngestionNext]_ingestionVars => Durable'
  BY DurableStep, Zenon
<1>2. Durable => PublishedStored
  BY Zenon DEF Durable
<1>3. QED BY DurableInit, <1>1, <1>2, PTL DEF IngestionSpec

-----------------------------------------------------------------------------
(* The life of an event *)

\* A batch whose events are stored, published or acknowledged has no invalid one.
Admitted == \A c \in Clients : pc[c] \in Busy => InBatch(c) \cap invalid[c] = {}

\* Validation comes first, and the batch does not change after it.
LEMMA AdmittedStep ==
  ASSUME IngestionTypeOK, BatchOK, Admitted, [IngestionNext]_ingestionVars
  PROVE  Admitted'
<1>1. CASE UNCHANGED ingestionVars
  BY <1>1, Zenon DEF Admitted, InBatch, ingestionVars, clientVars
<1>2. ASSUME NEW c \in Clients, Step(c)
      PROVE  Admitted'
  <2>1. ASSUME NEW d \in Clients \ {c}
        PROVE  pc'[d] = pc[d] /\ batch'[d] = batch[d] /\ invalid'[d] = invalid[d]
    <3>1. pc'[d] = pc[d] /\ batch'[d] = batch[d]
      BY <1>2, OthersKept, Zenon
    <3>2. invalid'[d] = invalid[d]
      BY <1>2, Zenon DEF Step, Recv, RecvEOF, RecvFail, SendResponse, SendFail, PrepareBatchEvents,
                  StoreEvent, StoreFail, PublishEvent, PublishFail, clientVars, IngestionTypeOK
    <3>3. QED BY <3>1, <3>2, Zenon
  <2>2. \/ pc'[c] \notin Busy
        \/ /\ pc[c] \in Busy \/ InBatch(c) \cap invalid[c] = {}
           /\ batch'[c] = batch[c] /\ invalid'[c] = invalid[c]
    <3>1. CASE Recv(c) \/ RecvEOF(c)
      BY <3>1, Zenon DEF Recv, RecvEOF, Move, Busy, IngestionTypeOK
    <3>2. CASE RecvFail(c) \/ SendFail(c) \/ StoreFail(c) \/ PublishFail(c)
      BY <3>2, Zenon DEF RecvFail, SendFail, StoreFail, PublishFail, Fail, Move, Busy, IngestionTypeOK
    <3>3. CASE PrepareBatchEvents(c)
      BY <3>3, Zenon DEF PrepareBatchEvents, Fail, Move, Busy, IngestionTypeOK, clientVars
    <3>4. CASE SendResponse(c)
      BY <3>4, Zenon DEF SendResponse, Busy, IngestionTypeOK, clientVars
    <3>5. CASE StoreEvent(c) \/ PublishEvent(c)
      BY <3>5, Zenon DEF StoreEvent, PublishEvent, Advance, Move, Busy, clientVars
    <3>6. QED BY <1>2, <3>1, <3>2, <3>3, <3>4, <3>5, Zenon DEF Step
  <2>3. QED BY <2>1, <2>2, Zenon DEF Admitted, InBatch
<1>3. QED BY <1>1, <1>2, Zenon DEF IngestionNext

\* The event that a loop over the batch has come to.
LEMMA CurrentEvent ==
  ASSUME IngestionTypeOK, BatchOK, NEW c \in Clients, pc[c] \in Busy
  PROVE  /\ idx[c] \in InBatch(c) /\ idx[c] \in Requests
         /\ <<c, idx[c]>> \in Received
<1>1. /\ batch[c].first \in 1 .. MaxRequests + 1 /\ batch[c].last \in 0 .. MaxRequests
      /\ batch[c].last = sent[c] /\ idx[c] \in InBatch(c)
  BY Zenon DEF IngestionTypeOK, BatchOK
<1>2. idx[c] \in Requests /\ idx[c] <= sent[c]
  BY ONLY <1>1, IngestionAssumption DEF InBatch, Requests
<1>3. QED BY <1>1, <1>2, Zenon DEF Received, Events

\* A request makes its event known.
LEMMA ReceiveStep ==
  ASSUME IngestionTypeOK, NEW c \in Clients, Recv(c)
  PROVE  Abstract!Receive(<<c, sent[c] + 1>>) /\ <<c, sent[c] + 1>> \in Events
<1> DEFINE e == <<c, sent[c] + 1>>
<1>1. /\ sent \in [Clients -> 0 .. MaxRequests] /\ sent[c] < MaxRequests /\ MaxRequests \in Nat
      /\ sent' = [sent EXCEPT ![c] = @ + 1]
      /\ UNCHANGED <<acks, stored, log>>
  BY IngestionAssumption, Zenon DEF Recv, IngestionTypeOK
<1>2. e \in Events
  BY <1>1 DEF Events, Requests
<1>3. e \notin Received
  BY <1>1 DEF Received
<1>4. Received' = Received \cup {e}
  <2>1. ASSUME NEW f \in Events
        PROVE  f[2] <= sent'[f[1]] <=> f[2] <= sent[f[1]] \/ f = e
    <3>1. PICK d \in Clients, n \in Requests : f = <<d, n>>
      BY DEF Events
    <3>2. CASE d = c
      BY <1>1, <3>1, <3>2 DEF Requests
    <3>3. CASE d # c
      BY <1>1, <3>1, <3>3, Zenon DEF Requests
    <3>4. QED BY <3>2, <3>3, Zenon
  <2>2. QED BY <1>2, <2>1, Zenon DEF Received
<1>5. Refused' \in {Refused, Refused \cup {e}}
  <2>1. invalid' = [invalid EXCEPT ![c] = @ \cup {sent[c] + 1}] \/ invalid' = invalid
    BY Zenon DEF Recv, IngestionTypeOK
  <2>2. CASE invalid' = invalid
    BY <2>2, Zenon DEF Refused
  <2>3. CASE invalid' = [invalid EXCEPT ![c] = @ \cup {sent[c] + 1}]
    <3>1. ASSUME NEW f \in Events
          PROVE  f[2] \in invalid'[f[1]] <=> f[2] \in invalid[f[1]] \/ f = e
      <4>1. PICK d \in Clients, n \in Requests : f = <<d, n>>
        BY DEF Events
      <4>2. CASE d = c
        BY <2>3, <4>1, <4>2, Zenon DEF IngestionTypeOK
      <4>3. CASE d # c
        BY <2>3, <4>1, <4>3, Zenon DEF IngestionTypeOK
      <4>4. QED BY <4>2, <4>3, Zenon
    <3>2. QED BY <1>2, <3>1, Zenon DEF Refused
  <2>4. QED BY <2>1, <2>2, <2>3, Zenon
<1>6. Acknowledged' = Acknowledged
  BY <1>1, Zenon DEF Acknowledged
<1>7. Range(log') = Range(log) /\ stored' = stored
  BY <1>1, Zenon
<1>8. QED BY <1>2, <1>3, <1>4, <1>5, <1>6, <1>7, Zenon DEF Abstract!Receive

\* A response acknowledges its event.
LEMMA AcknowledgeStep ==
  ASSUME Durable, NEW c \in Clients, SendResponse(c)
  PROVE  Abstract!Acknowledge(<<c, idx[c]>>) /\ <<c, idx[c]>> \in Events
<1> DEFINE e == <<c, idx[c]>>
<1>1. /\ IngestionTypeOK /\ BatchOK /\ Progress(c) /\ pc[c] = "ack"
      /\ UNCHANGED <<sent, invalid, stored, log>>
  BY Zenon DEF Durable, SendResponse, clientVars
<1>2. idx[c] \in InBatch(c) /\ idx[c] \in Requests /\ e \in Events
  BY <1>1, CurrentEvent, Zenon DEF Busy, Events
<1>3. e \in Range(log)
  BY <1>1, <1>2, Zenon DEF Progress
<1>4. /\ acks'[c] = Append(acks[c], idx[c]) /\ acks[c] \in Seq(Requests)
      /\ \A d \in Clients \ {c} : acks'[d] = acks[d]
  BY <1>1, Zenon DEF SendResponse, IngestionTypeOK
<1>5. Range(acks'[c]) = Range(acks[c]) \cup {idx[c]}
  BY <1>2, <1>4, RangeAppend
<1>6. Acknowledged' = Acknowledged \cup {e}
  <2>1. ASSUME NEW f \in Events
        PROVE  f[2] \in Range(acks'[f[1]]) <=> f[2] \in Range(acks[f[1]]) \/ f = e
    <3>1. PICK d \in Clients, n \in Requests : f = <<d, n>>
      BY DEF Events
    <3>2. CASE d = c
      BY <1>5, <3>1, <3>2, Zenon
    <3>3. CASE d # c
      BY <1>4, <3>1, <3>3, Zenon
    <3>4. QED BY <3>2, <3>3, Zenon
  <2>2. QED BY <1>2, <2>1, Zenon DEF Acknowledged
<1>7. Received' = Received /\ Refused' = Refused /\ Range(log') = Range(log) /\ stored' = stored
  BY <1>1, Zenon DEF Received, Refused
<1>8. QED BY <1>2, <1>3, <1>6, <1>7, Zenon DEF Abstract!Acknowledge

\* Every step of the handlers takes one event one stage on, or none.
LEMMA LifecycleStep ==
  ASSUME Durable, Admitted, [IngestionNext]_ingestionVars
  PROVE  [Abstract!Next]_(Abstract!vars)
<1>1. IngestionTypeOK /\ BatchOK /\ PublishedStored
  BY Zenon DEF Durable
<1>2. ASSUME UNCHANGED <<clientVars, acks, stored, log>> \/ UNCHANGED <<sent, invalid, acks, stored, log>>
      PROVE  UNCHANGED Abstract!vars
  BY <1>2, Zenon DEF Abstract!vars, Received, Refused, Acknowledged, clientVars
<1>3. CASE UNCHANGED ingestionVars
  BY <1>2, <1>3, Zenon DEF ingestionVars
<1>4. ASSUME NEW c \in Clients, Step(c)
      PROVE  Abstract!Next \/ UNCHANGED Abstract!vars
  <2>1. CASE Recv(c)
    BY <1>1, <2>1, ReceiveStep, Zenon DEF Abstract!Next
  <2>2. CASE SendResponse(c)
    BY <2>2, AcknowledgeStep, Zenon DEF Abstract!Next
  <2>3. CASE StoreEvent(c)
    <3>1. /\ pc[c] = "store" /\ stored' = stored \cup {<<c, idx[c]>>}
          /\ UNCHANGED <<sent, invalid, acks, log>>
      BY <2>3, Zenon DEF StoreEvent, Advance, Move, clientVars
    <3>2. /\ idx[c] \in InBatch(c) /\ idx[c] \in Requests /\ <<c, idx[c]>> \in Received
          /\ <<c, idx[c]>> \in Events
      BY <1>1, <3>1, CurrentEvent, Zenon DEF Busy, Events
    <3>3. <<c, idx[c]>> \notin Refused
      BY <3>1, <3>2, Zenon DEF Admitted, Busy, Refused
    <3>4. /\ Received' = Received /\ Refused' = Refused /\ Acknowledged' = Acknowledged
          /\ Range(log') = Range(log)
      BY <3>1, Zenon DEF Received, Refused, Acknowledged
    <3>5. Abstract!Store(<<c, idx[c]>>)
      BY <3>1, <3>2, <3>3, <3>4, Zenon DEF Abstract!Store
    <3>6. QED BY <3>2, <3>5, Zenon DEF Abstract!Next
  <2>4. CASE PublishEvent(c) \/ PublishFail(c)
    <3>1. /\ pc[c] = "publish" /\ idx[c] \in InBatch(c)
          /\ Range(log) \subseteq Range(log')
          /\ Range(log') \subseteq Range(log) \cup {<<c, idx[c]>>}
      BY <1>1, <2>4, PublishRange, Zenon
    <3>2. UNCHANGED <<sent, invalid, acks, stored>>
      BY <2>4, Zenon DEF PublishEvent, PublishFail, clientVars
    <3>3. /\ Received' = Received /\ Refused' = Refused /\ Acknowledged' = Acknowledged
          /\ stored' = stored
      BY <3>2, Zenon DEF Received, Refused, Acknowledged
    <3>4. <<c, idx[c]>> \in Events /\ <<c, idx[c]>> \in stored
      BY <1>1, <3>1, CurrentEvent, Zenon DEF Busy, Events, Durable, Progress
    <3>5. CASE Range(log') = Range(log)
      BY <3>3, <3>5, Zenon DEF Abstract!vars
    <3>6. CASE Range(log') # Range(log)
      <4>1. Range(log') = Range(log) \cup {<<c, idx[c]>>}
        BY <3>1, <3>6, Zenon
      <4>2. Abstract!Publish(<<c, idx[c]>>)
        BY <3>3, <3>4, <4>1, Zenon DEF Abstract!Publish
      <4>3. QED BY <3>4, <4>2, Zenon DEF Abstract!Next
    <3>7. QED BY <3>5, <3>6, Zenon
  <2>5. CASE RecvEOF(c) \/ RecvFail(c) \/ SendFail(c) \/ StoreFail(c) \/ PrepareBatchEvents(c)
    <3>1. UNCHANGED <<sent, invalid, acks, stored, log>>
      BY <2>5, Zenon DEF RecvEOF, RecvFail, SendFail, StoreFail, PrepareBatchEvents, clientVars
    <3>2. QED BY <1>2, <3>1, Zenon
  <2>6. QED BY <1>4, <2>1, <2>2, <2>3, <2>4, <2>5, Zenon DEF Step
<1>5. QED BY <1>3, <1>4, Zenon DEF IngestionNext

\* At the start no event is known.
LEMMA LifecycleInit == IngestionInit => Admitted /\ Abstract!Init
<1> SUFFICES ASSUME IngestionInit PROVE Admitted /\ Abstract!Init
  OBVIOUS
<1>1. Admitted
  BY Zenon DEF IngestionInit, Admitted, Busy
<1>2. Range(<<>>) = {}
  BY DEF Range
<1>3. \A e \in Events : e[1] \in Clients /\ e[2] \in Requests
  BY Zenon DEF Events
<1>4. Received = {}
  <2>1. \A e \in Events : sent[e[1]] = 0 /\ ~(e[2] <= 0)
    BY <1>3, IngestionAssumption DEF IngestionInit, Requests
  <2>2. QED BY <2>1, Zenon DEF Received
<1>5. Refused = {} /\ Acknowledged = {}
  BY <1>2, <1>3, Zenon DEF IngestionInit, Refused, Acknowledged
<1>6. QED BY <1>1, <1>2, <1>4, <1>5, Zenon DEF IngestionInit, Abstract!Init

\* Unary calls, streams, batches and loops implement the life of an event, for any
\* clients, batch size and number of requests: an event is stored only when it was
\* received and not refused, published only when stored and acknowledged only when
\* published, one event at a time.
THEOREM Implements == IngestionSpec => IsLifecycle
<1>1. Durable /\ Admitted /\ [IngestionNext]_ingestionVars => (Durable /\ Admitted)'
  BY DurableStep, AdmittedStep, Zenon DEF Durable
<1>2. Durable /\ Admitted /\ [IngestionNext]_ingestionVars => [Abstract!Next]_(Abstract!vars)
  BY LifecycleStep, Zenon
<1>3. QED BY DurableInit, LifecycleInit, <1>1, <1>2, PTL DEF IngestionSpec, IsLifecycle, Abstract!Spec

-----------------------------------------------------------------------------
(* Order *)

\* A stream's batches cut its requests into runs of StreamBatchSize: the batch in work
\* starts where a run starts, and only the last batch, the one collected when the
\* client half-closes, is short.
Aligned(c) ==
  c \in StreamClients =>
    /\ pc[c] \notin {"ended", "failed"} =>
         \E q \in Nat : batch[c].first = StreamBatchSize * q + 1
    /\ pc[c] = "recv" => ~closing[c] /\ BatchLen(c) < StreamBatchSize
    /\ pc[c] \in Busy \cup {"prepare"} => closing[c] \/ BatchLen(c) = StreamBatchSize

\* What is stored of a stream was received, together with no refused request of
\* its batch, and what is received next is of another batch.
StoredSound ==
  \A e \in stored : e[1] \in StreamClients =>
    /\ e[2] <= sent[e[1]]
    /\ pc[e[1]] = "recv" => e[2] < batch[e[1]].first
    /\ \A n \in SameBatch(e[2]) : n \notin invalid[e[1]]

\* What is published of a client comes before what its loop publishes next.
LoggedBefore ==
  \A e \in Range(log) :
    /\ e[2] <= sent[e[1]]
    /\ pc[e[1]] \in {"recv", "prepare", "store"} => e[2] < batch[e[1]].first
    /\ pc[e[1]] = "publish" => e[2] < idx[e[1]]

\* The events of a client are published in the order of its requests.
LogSorted ==
  \A i, j \in 1 .. Len(log) : i < j /\ log[i][1] = log[j][1] => log[i][2] <= log[j][2]

\* A stream's batch is stored as a whole before one of its events is published.
BatchStored ==
  \A e \in Range(log) : e[1] \in StreamClients =>
    \A m \in SameBatch(e[2]) : m <= sent[e[1]] => <<e[1], m>> \in stored

\* A stream that has not failed has answered every request before its batch, and
\* in its last loop those before the loop's index.
Answered(c) ==
  c \in StreamClients =>
    /\ pc[c] \in {"recv", "prepare", "store", "publish", "ended"} =>
         Len(acks[c]) = batch[c].first - 1
    /\ pc[c] = "ack" => Len(acks[c]) = idx[c] - 1

\* The invariant behind the order properties, beside Durable and Admitted.
Ordered ==
  /\ \A c \in Clients : /\ Aligned(c)
                        /\ Answered(c)
                        /\ \A n \in invalid[c] : n <= sent[c]
  /\ StoredSound
  /\ LoggedBefore
  /\ LogSorted
  /\ BatchStored
  /\ AcksInOrder

\* Requests before the start of a run of StreamBatchSize and requests from it on are of
\* different batches.
LEMMA BatchesApart ==
  ASSUME NEW q \in Nat, NEW m \in Requests, NEW n \in Requests,
         m < StreamBatchSize * q + 1, StreamBatchSize * q + 1 <= n
  PROVE  m \notin SameBatch(n) /\ n \notin SameBatch(m)
<1>1. StreamBatchSize \in Nat \ {0} /\ m - 1 \in Nat /\ n - 1 \in Nat
  BY IngestionAssumption DEF Requests
<1>2. StreamBatchSize * q \in Nat
  BY <1>1
<1>3. m - 1 < StreamBatchSize * q /\ n - 1 >= StreamBatchSize * q
  BY <1>1, <1>2 DEF Requests
<1>4. \A B \in Nat \ {0}, x \in Nat : x < B * q => x \div B < q
  OBVIOUS
<1>5. \A B \in Nat \ {0}, x \in Nat : x >= B * q => x \div B >= q
  OBVIOUS
<1>6. (m - 1) \div StreamBatchSize < q /\ (n - 1) \div StreamBatchSize >= q
  BY <1>1, <1>3, <1>4, <1>5, Zenon
<1>7. (m - 1) \div StreamBatchSize \in Int /\ (n - 1) \div StreamBatchSize \in Int
  BY <1>1
<1>8. (m - 1) \div StreamBatchSize # (n - 1) \div StreamBatchSize
  BY ONLY <1>6, <1>7, q \in Nat
<1>9. QED BY <1>8, Zenon DEF SameBatch

\* The numbers of a client's handler.
LEMMA Numbers ==
  ASSUME IngestionTypeOK, BatchOK, NEW c \in Clients
  PROVE  /\ sent[c] \in Nat /\ sent[c] <= MaxRequests /\ MaxRequests \in Nat
         /\ batch[c].first \in Nat /\ batch[c].first >= 1
         /\ batch[c].first <= sent[c] + 1 /\ batch[c].last = sent[c]
         /\ idx[c] \in Nat
         /\ pc[c] \in Busy => batch[c].first <= idx[c] /\ idx[c] <= sent[c]
         /\ pc[c] = "prepare" => batch[c].first <= sent[c]
         /\ BatchLen(c) = sent[c] + 1 - batch[c].first
<1>1. /\ sent[c] \in 0 .. MaxRequests /\ batch[c].first \in 1 .. MaxRequests + 1
      /\ idx[c] \in 1 .. MaxRequests + 1 /\ MaxRequests \in Nat
  BY IngestionAssumption, Zenon DEF IngestionTypeOK
<1>2. /\ batch[c].last = sent[c] /\ batch[c].first <= sent[c] + 1
      /\ pc[c] = "prepare" => batch[c].first <= sent[c]
      /\ pc[c] \in Busy => idx[c] \in InBatch(c)
  BY Zenon DEF BatchOK
<1>3. sent[c] \in Nat /\ batch[c].first \in Nat /\ idx[c] \in Nat
  BY ONLY <1>1
<1>4. idx[c] \in InBatch(c) => batch[c].first <= idx[c] /\ idx[c] <= sent[c]
  BY ONLY <1>2, <1>3 DEF InBatch
<1>5. BatchLen(c) = sent[c] + 1 - batch[c].first
  BY ONLY <1>2, <1>3 DEF BatchLen
<1>6. QED BY ONLY <1>1, <1>2, <1>3, <1>4, <1>5

\* What a step of a handler does, in terms of its own variables: it receives a
\* request, meets the end of the stream, gives the batch up, or goes on with it.
Receives(c) ==
  /\ pc[c] = "recv"
  /\ pc'[c] = IF c \in UnaryClients \/ BatchLen(c) + 1 >= StreamBatchSize THEN "prepare" ELSE "recv"
  /\ sent'[c] = sent[c] + 1
  /\ batch'[c].first = batch[c].first
  /\ invalid'[c] \subseteq invalid[c] \cup {sent[c] + 1}
  /\ UNCHANGED <<closing, acks, stored, log>>
Closes(c) ==
  /\ c \in StreamClients
  /\ pc[c] = "recv"
  /\ pc'[c] = IF BatchLen(c) > 0 THEN "prepare" ELSE "ended"
  /\ closing'[c] = TRUE
  /\ UNCHANGED <<sent, invalid, batch, idx, acks, stored, log>>
GivesUp(c) ==
  /\ pc'[c] = IF c \in UnaryClients THEN "recv" ELSE "failed"
  /\ batch'[c].first = sent[c] + 1
  /\ UNCHANGED <<clientVars, acks, stored>>
  /\ \/ log' = log
     \/ pc[c] = "publish" /\ log' = log \o <<<<c, idx[c]>>>>
Admits(c) ==
  /\ pc[c] = "prepare" /\ pc'[c] = "store"
  /\ UNCHANGED <<clientVars, batch, acks, stored, log>>
Stores(c) ==
  /\ pc[c] = "store"
  /\ \/ pc'[c] = "store"
     \/ pc'[c] = "publish" /\ idx'[c] = batch[c].first
  /\ stored' = stored \cup {<<c, idx[c]>>}
  /\ UNCHANGED <<clientVars, batch, acks, log>>
Publishes(c) ==
  /\ pc[c] = "publish"
  /\ \/ pc'[c] = "publish" /\ idx'[c] = idx[c] + 1
     \/ pc'[c] = "ack" /\ idx'[c] = batch[c].first
  /\ log' \in {log \o <<<<c, idx[c]>>>>, log \o <<<<c, idx[c]>>, <<c, idx[c]>>>>}
  /\ UNCHANGED <<clientVars, batch, acks, stored>>
Answers(c) ==
  /\ pc[c] = "ack"
  /\ acks'[c] = Append(acks[c], idx[c])
  /\ \/ pc'[c] = "ack" /\ idx'[c] = idx[c] + 1 /\ UNCHANGED batch
     \/ /\ idx[c] = sent[c]
        /\ pc'[c] = IF closing[c] THEN "ended" ELSE "recv"
        /\ batch'[c].first = sent[c] + 1
  /\ UNCHANGED <<clientVars, stored, log>>

\* Every step of a handler is of one of these kinds, and the other clients stay
\* where they are.
LEMMA StepKinds ==
  ASSUME IngestionTypeOK, BatchOK, NEW c \in Clients, Step(c)
  PROVE  /\ \A d \in Clients \ {c} :
              /\ pc'[d] = pc[d] /\ batch'[d] = batch[d] /\ idx'[d] = idx[d]
              /\ acks'[d] = acks[d] /\ sent'[d] = sent[d]
              /\ invalid'[d] = invalid[d] /\ closing'[d] = closing[d]
         /\ \/ Receives(c) \/ Closes(c) \/ GivesUp(c) \/ Admits(c)
            \/ Stores(c) \/ Publishes(c) \/ Answers(c)
<1>1. ASSUME NEW d \in Clients \ {c}
      PROVE  /\ pc'[d] = pc[d] /\ batch'[d] = batch[d] /\ idx'[d] = idx[d]
             /\ acks'[d] = acks[d] /\ sent'[d] = sent[d]
             /\ invalid'[d] = invalid[d] /\ closing'[d] = closing[d]
  <2>1. pc'[d] = pc[d] /\ batch'[d] = batch[d] /\ idx'[d] = idx[d] /\ acks'[d] = acks[d]
    BY OthersKept, Zenon
  <2>2. sent'[d] = sent[d] /\ invalid'[d] = invalid[d] /\ closing'[d] = closing[d]
    BY Zenon DEF Step, Recv, RecvEOF, RecvFail, SendResponse, SendFail, PrepareBatchEvents,
           StoreEvent, StoreFail, PublishEvent, PublishFail, clientVars, IngestionTypeOK
  <2>3. QED BY <2>1, <2>2, Zenon
<1>2. CASE Recv(c)
  <2>1. invalid'[c] \subseteq invalid[c] \cup {sent[c] + 1}
    BY <1>2, Zenon DEF Recv, IngestionTypeOK
  <2>2. sent'[c] = sent[c] + 1
    BY <1>2, Zenon DEF Recv, IngestionTypeOK
  <2>3. batch'[c].first = batch[c].first
    <3>1. batch' = [batch EXCEPT ![c] = [batch[c] EXCEPT !.last = sent[c] + 1]]
      BY <1>2, Zenon DEF Recv
    <3>2. batch[c] \in [first : 1 .. MaxRequests + 1, last : 0 .. MaxRequests]
      BY Zenon DEF IngestionTypeOK
    <3>3. QED BY <3>1, <3>2, Zenon DEF IngestionTypeOK
  <2>4. /\ pc[c] = "recv"
        /\ pc'[c] = IF c \in UnaryClients \/ BatchLen(c) + 1 >= StreamBatchSize
                    THEN "prepare" ELSE "recv"
    BY <1>2, Zenon DEF Recv, Move, IngestionTypeOK
  <2>5. UNCHANGED <<closing, acks, stored, log>>
    BY <1>2, Zenon DEF Recv
  <2>6. QED BY <1>1, <2>1, <2>2, <2>3, <2>4, <2>5, Zenon DEF Receives
<1>3. CASE RecvEOF(c)
  <2>1. Closes(c)
    BY <1>3, Zenon DEF RecvEOF, Closes, Move, IngestionTypeOK
  <2>2. QED BY <1>1, <2>1, Zenon
<1>4. ASSUME NEW from \in PcValues, Fail(c, from)
      PROVE  /\ pc[c] = from
             /\ pc'[c] = IF c \in UnaryClients THEN "recv" ELSE "failed"
             /\ batch'[c].first = sent[c] + 1
  BY <1>4, FailFacts, Zenon DEF Fail, Move, IngestionTypeOK
<1>5. CASE RecvFail(c) \/ SendFail(c) \/ StoreFail(c)
  <2>1. {"recv", "ack", "store"} \subseteq PcValues
    BY Zenon DEF PcValues
  <2>2. GivesUp(c)
    BY <1>4, <1>5, <2>1, Zenon DEF RecvFail, SendFail, StoreFail, GivesUp
  <2>3. QED BY <1>1, <2>2, Zenon
<1>6. CASE PublishFail(c)
  <2>1. "publish" \in PcValues
    BY Zenon DEF PcValues
  <2>2. log' = log \o <<>> \/ log' = log \o <<<<c, idx[c]>>>>
    BY <1>6, Zenon DEF PublishFail
  <2>3. log \o <<>> = log
    BY ConcatEmptySeq, Zenon DEF IngestionTypeOK
  <2>4. /\ pc[c] = "publish"
        /\ pc'[c] = IF c \in UnaryClients THEN "recv" ELSE "failed"
        /\ batch'[c].first = sent[c] + 1
    BY <1>4, <1>6, <2>1, Zenon DEF PublishFail
  <2>5. UNCHANGED <<clientVars, acks, stored>>
    BY <1>6, Zenon DEF PublishFail
  <2>6. QED BY <1>1, <2>2, <2>3, <2>4, <2>5, Zenon DEF GivesUp
<1>7. CASE PrepareBatchEvents(c)
  <2>1. CASE InBatch(c) \cap invalid[c] = {}
    <3>1. Admits(c)
      BY <1>7, <2>1, Zenon DEF PrepareBatchEvents, Admits, Move, IngestionTypeOK
    <3>2. QED BY <1>1, <3>1, Zenon
  <2>2. CASE InBatch(c) \cap invalid[c] # {}
    <3>1. "prepare" \in PcValues
      BY Zenon DEF PcValues
    <3>2. GivesUp(c)
      BY <1>4, <1>7, <2>2, <3>1, Zenon DEF PrepareBatchEvents, GivesUp
    <3>3. QED BY <1>1, <3>2, Zenon
  <2>3. QED BY <2>1, <2>2, Zenon
<1>8. CASE StoreEvent(c)
  <2>1. "store" \in Busy /\ "publish" \in Busy
    BY Zenon DEF Busy
  <2>2. Stores(c)
    BY <1>8, <2>1, AdvanceFacts, Zenon DEF StoreEvent, Stores
  <2>3. QED BY <1>1, <2>2, Zenon
<1>9. CASE PublishEvent(c)
  <2>1. "ack" \in Busy /\ "publish" \in Busy
    BY Zenon DEF Busy
  <2>2. Publishes(c)
    BY <1>9, <2>1, AdvanceFacts, Zenon DEF PublishEvent, Publishes
  <2>3. QED BY <1>1, <2>2, Zenon
<1>10. CASE SendResponse(c)
  <2>1. batch[c].last = sent[c]
    BY Zenon DEF BatchOK
  <2>2. batch' = [batch EXCEPT ![c] = NextBatch(c)] => batch'[c].first = sent[c] + 1
    BY DEF IngestionTypeOK, NextBatch
  <2>3. Answers(c)
    BY <1>10, <2>1, <2>2, Zenon DEF SendResponse, Answers, IngestionTypeOK
  <2>4. QED BY <1>1, <2>3, Zenon
<1>11. QED
  BY <1>2, <1>3, <1>5, <1>6, <1>7, <1>8, <1>9, <1>10, Zenon DEF Step

\* A batch starts where the one before it ended, a full batch later.
LEMMA AlignedStep ==
  ASSUME IngestionTypeOK, BatchOK, IngestionTypeOK', BatchOK', \A d \in Clients : Aligned(d),
         NEW c \in Clients, Step(c)
  PROVE  \A d \in Clients : Aligned(d)'
<1>1. ASSUME NEW d \in Clients \ {c}
      PROVE  Aligned(d)'
  <2>1. pc'[d] = pc[d] /\ batch'[d] = batch[d] /\ closing'[d] = closing[d]
    BY StepKinds, Zenon
  <2>2. QED BY <2>1, Zenon DEF Aligned, BatchLen
<1>2. ASSUME c \in StreamClients
      PROVE  Aligned(c)'
  <2>1. c \notin UnaryClients /\ StreamBatchSize \in Nat \ {0}
    BY <1>2, IngestionAssumption, Zenon
  <2>2. /\ sent[c] \in Nat /\ batch[c].first \in Nat /\ sent'[c] \in Nat
        /\ batch'[c].first \in Nat
        /\ BatchLen(c) = sent[c] + 1 - batch[c].first
        /\ BatchLen(c)' = sent'[c] + 1 - batch'[c].first
        /\ pc[c] = "prepare" => batch[c].first <= sent[c]
    <3>1. BatchLen(c)' = sent'[c] + 1 - batch'[c].first /\ sent'[c] \in Nat /\ batch'[c].first \in Nat
      <4>1. batch'[c].last = sent'[c]
        BY Zenon DEF BatchOK
      <4>2. sent'[c] \in 0 .. MaxRequests /\ batch'[c].first \in 1 .. MaxRequests + 1
        BY Zenon DEF IngestionTypeOK
      <4>3. QED BY ONLY <4>1, <4>2, IngestionAssumption DEF BatchLen
    <3>2. QED BY <3>1, Numbers, Zenon
  <2>3. CASE Receives(c)
    <3>1. /\ \E q \in Nat : batch'[c].first = StreamBatchSize * q + 1
          /\ ~closing'[c] /\ BatchLen(c) < StreamBatchSize
      BY <1>2, <2>3, Zenon DEF Aligned, Receives
    <3>2. BatchLen(c)' = BatchLen(c) + 1
      BY ONLY <2>2, <2>3 DEF Receives
    <3>3. CASE BatchLen(c) + 1 >= StreamBatchSize
      <4>1. pc'[c] = "prepare"
        BY <2>3, <3>3, Zenon DEF Receives
      <4>2. BatchLen(c)' = StreamBatchSize
        BY ONLY <2>1, <2>2, <3>1, <3>2, <3>3
      <4>3. QED BY <3>1, <4>1, <4>2, Zenon DEF Aligned
    <3>4. CASE ~(BatchLen(c) + 1 >= StreamBatchSize)
      <4>1. pc'[c] = "recv"
        BY <2>1, <2>3, <3>4, Zenon DEF Receives
      <4>2. BatchLen(c)' < StreamBatchSize
        BY ONLY <2>1, <2>2, <3>2, <3>4
      <4>3. QED BY <3>1, <4>1, <4>2, Zenon DEF Aligned, Busy
    <3>5. QED BY <3>3, <3>4, Zenon
  <2>4. CASE Closes(c)
    BY <1>2, <2>4, Zenon DEF Aligned, Closes, Busy
  <2>5. CASE GivesUp(c)
    BY <2>1, <2>5, Zenon DEF Aligned, GivesUp, Busy
  <2>6. CASE Admits(c) \/ Stores(c) \/ Publishes(c)
    <3>1. /\ pc[c] \in Busy \cup {"prepare"} /\ pc'[c] \in Busy
          /\ batch' = batch /\ closing' = closing
      BY <2>6, Zenon DEF Admits, Stores, Publishes, Busy, clientVars
    <3>2. pc[c] \notin {"ended", "failed", "recv"} /\ pc'[c] \notin {"ended", "failed", "recv"}
      BY <3>1, Zenon DEF Busy
    <3>3. QED BY <1>2, <3>1, <3>2, Zenon DEF Aligned, BatchLen
  <2>7. CASE Answers(c)
    <3>1. /\ pc[c] = "ack"
          /\ \E q \in Nat : batch[c].first = StreamBatchSize * q + 1
          /\ closing[c] \/ BatchLen(c) = StreamBatchSize
          /\ closing' = closing /\ sent' = sent
      BY <1>2, <2>7, Zenon DEF Aligned, Answers, Busy, clientVars
    <3>2. CASE pc'[c] = "ack" /\ batch' = batch
      BY <3>1, <3>2, Zenon DEF Aligned, BatchLen
    <3>3. CASE pc'[c] = "ended"
      BY <3>3, Zenon DEF Aligned, Busy
    <3>4. CASE ~closing[c] /\ pc'[c] = "recv" /\ batch'[c].first = sent[c] + 1
      <4>1. PICK q \in Nat : batch[c].first = StreamBatchSize * q + 1
        BY <3>1, Zenon
      <4>2. StreamBatchSize * (q + 1) = StreamBatchSize * q + StreamBatchSize /\ StreamBatchSize * q \in Nat
        BY <2>1
      <4>3. batch'[c].first = StreamBatchSize * (q + 1) + 1
        <5>1. /\ sent[c] \in Nat /\ StreamBatchSize \in Nat /\ sent[c] + 1 - batch[c].first = StreamBatchSize
              /\ batch'[c].first = sent[c] + 1
          BY <2>1, <2>2, <3>1, <3>4
        <5>2. QED BY ONLY <4>1, <4>2, <5>1
      <4>4. BatchLen(c)' < StreamBatchSize
        BY ONLY <2>1, <2>2, <3>1, <3>4
      <4>5. q + 1 \in Nat
        OBVIOUS
      <4>6. QED BY <3>1, <3>4, <4>3, <4>4, <4>5, Zenon DEF Aligned, Busy
    <3>5. QED BY <2>7, <3>2, <3>3, <3>4, Zenon DEF Answers
  <2>8. QED BY <2>3, <2>4, <2>5, <2>6, <2>7, StepKinds, Zenon
<1>3. Aligned(c)'
  BY <1>2, Zenon DEF Aligned
<1>4. QED BY <1>1, <1>3, Zenon

\* What a batch has stored keeps every refused request out of it.
LEMMA StoredStep ==
  ASSUME IngestionTypeOK, BatchOK, \A d \in Clients : Aligned(d), Admitted, StoredSound,
         \A d \in Clients : \A n \in invalid[d] : n <= sent[d],
         NEW c \in Clients, Step(c)
  PROVE  /\ StoredSound'
         /\ \A d \in Clients : \A n \in invalid'[d] : n <= sent'[d]
<1>1. /\ sent[c] \in Nat /\ batch[c].first \in Nat /\ batch[c].first >= 1
      /\ batch[c].first <= sent[c] + 1 /\ batch[c].last = sent[c] /\ idx[c] \in Nat
      /\ pc[c] \in Busy => batch[c].first <= idx[c] /\ idx[c] <= sent[c]
      /\ sent[c] <= MaxRequests /\ MaxRequests \in Nat
  BY Numbers, Zenon
<1>2. \A d \in Clients : invalid[d] \in SUBSET Requests /\ sent[d] \in Nat
  BY IngestionAssumption DEF IngestionTypeOK
<1>3. \A e \in Events : e[1] \in Clients /\ e[2] \in Requests
  BY Zenon DEF Events
<1>4. stored \subseteq Events
  BY Zenon DEF IngestionTypeOK
<1>5. \A n \in Requests : n \in Nat
  BY DEF Requests
<1>6. ASSUME NEW d \in Clients, NEW n \in invalid'[d]
      PROVE  n <= sent'[d]
  <2>1. CASE d # c
    BY <1>6, <2>1, StepKinds, Zenon
  <2>2. CASE d = c /\ Receives(c)
    <3>1. n <= sent[c] \/ n = sent[c] + 1
      BY <2>2, Zenon DEF Receives
    <3>2. n \in Nat
      <4>1. n \in invalid[c] \/ n = sent[c] + 1
        BY <2>2, Zenon DEF Receives
      <4>2. QED BY <1>1, <1>2, <1>5, <4>1
    <3>3. QED BY ONLY <1>1, <2>2, <3>1, <3>2 DEF Receives
  <2>3. CASE d = c /\ ~Receives(c)
    <3>1. invalid' = invalid /\ sent' = sent
      BY <2>3, StepKinds, Zenon DEF Closes, GivesUp, Admits, Stores, Publishes, Answers, clientVars
    <3>2. QED BY <3>1, Zenon
  <2>4. QED BY <2>1, <2>2, <2>3, Zenon
<1>7. ASSUME NEW e \in stored', e[1] \in StreamClients
      PROVE  /\ e[2] <= sent'[e[1]]
             /\ pc'[e[1]] = "recv" => e[2] < batch'[e[1]].first
             /\ \A n \in SameBatch(e[2]) : n \notin invalid'[e[1]]
  <2>1. CASE e[1] # c
    <3>1. e[1] \in Clients
      BY <1>7, Zenon DEF Clients
    <3>2. /\ pc'[e[1]] = pc[e[1]] /\ batch'[e[1]] = batch[e[1]]
          /\ sent'[e[1]] = sent[e[1]] /\ invalid'[e[1]] = invalid[e[1]]
      BY <2>1, <3>1, StepKinds
    <3>3. e \in stored
      <4>1. stored' = stored \/ stored' = stored \cup {<<c, idx[c]>>}
        BY StepKinds, Zenon DEF Receives, Closes, GivesUp, Admits, Stores, Publishes, Answers
      <4>2. QED BY <2>1, <4>1
    <3>4. QED BY <1>7, <3>2, <3>3, Zenon DEF StoredSound
  <2>2. CASE e[1] = c /\ e \in stored
    <3>1. /\ e[2] <= sent[c]
          /\ pc[c] = "recv" => e[2] < batch[c].first
          /\ \A n \in SameBatch(e[2]) : n \notin invalid[c]
      BY <1>7, <2>2, Zenon DEF StoredSound
    <3>2. e[2] \in Requests /\ e[2] \in Nat
      BY <1>3, <1>4, <1>5, <2>2, Zenon
    <3>3. CASE Receives(c)
      <4>1. e[2] < batch[c].first /\ sent[c] + 1 \in Nat
        BY <1>1, <3>1, <3>3 DEF Receives
      <4>2. PICK q \in Nat : batch[c].first = StreamBatchSize * q + 1
        BY <1>7, <2>2, <3>3, Zenon DEF Aligned, Receives
      <4>3. sent[c] + 1 \notin SameBatch(e[2])
        <5>1. CASE sent[c] + 1 \in Requests
          BY <1>1, <3>2, <4>1, <4>2, <5>1, BatchesApart, Zenon
        <5>2. CASE sent[c] + 1 \notin Requests
          BY <5>2, Zenon DEF SameBatch
        <5>3. QED BY <5>1, <5>2, Zenon
      <4>4. \A n \in SameBatch(e[2]) : n \notin invalid'[c]
        BY <3>1, <3>3, <4>3, Zenon DEF Receives
      <4>5. e[2] <= sent'[c] /\ e[2] < batch'[c].first
        BY ONLY <1>1, <3>1, <3>2, <3>3, <4>1 DEF Receives
      <4>6. QED BY <2>2, <4>4, <4>5, Zenon
    <3>4. CASE ~Receives(c)
      <4>1. invalid' = invalid /\ sent' = sent
        BY <3>4, StepKinds, Zenon DEF Closes, GivesUp, Admits, Stores, Publishes, Answers,
           clientVars
      <4>2. ASSUME pc'[c] = "recv" PROVE batch'[c].first = sent[c] + 1
        BY <3>4, <4>2, StepKinds, Zenon DEF Closes, GivesUp, Admits, Stores, Publishes, Answers
      <4>3. pc'[c] = "recv" => e[2] < batch'[c].first
        BY ONLY <1>1, <3>1, <3>2, <4>2
      <4>4. QED BY <2>2, <3>1, <4>1, <4>3, Zenon
    <3>5. QED BY <3>3, <3>4, Zenon
  <2>3. CASE e[1] = c /\ e \notin stored
    <3>1. Stores(c)
      BY <2>3, <1>7, StepKinds, Zenon DEF Receives, Closes, GivesUp, Admits, Publishes, Answers
    <3>2. e = <<c, idx[c]>> /\ e[2] = idx[c] /\ pc[c] = "store"
      BY <1>7, <2>3, <3>1 DEF Stores
    <3>3. pc[c] \in Busy /\ idx[c] \in Requests
      BY <1>1, <3>2 DEF Busy, Requests
    <3>4. sent' = sent /\ invalid' = invalid /\ pc'[c] # "recv"
      BY <3>1, Zenon DEF Stores, clientVars
    <3>5. PICK q \in Nat : batch[c].first = StreamBatchSize * q + 1
      BY <1>7, <2>3, <3>2, Zenon DEF Aligned
    <3>6. ASSUME NEW n \in SameBatch(idx[c]), n \in invalid[c]
          PROVE  FALSE
      <4>1. n \in Requests /\ n \in Nat /\ n <= sent[c]
        BY <1>5, <3>6, Zenon DEF SameBatch
      <4>2. batch[c].first <= n
        BY <1>1, <3>3, <3>5, <3>6, <4>1, BatchesApart
      <4>3. n \in InBatch(c)
        BY ONLY <1>1, <4>1, <4>2 DEF InBatch
      <4>4. QED BY <3>3, <3>6, <4>3, Zenon DEF Admitted
    <3>7. QED BY <1>1, <2>3, <3>2, <3>3, <3>4, <3>6, Zenon
  <2>4. QED BY <2>1, <2>2, <2>3, Zenon
<1>8. QED BY <1>6, <1>7, Zenon DEF StoredSound

\* A log stays in order when its next writes are of an event that comes after
\* those of its client.
LEMMA SortedWrites ==
  ASSUME NEW e \in Events, NEW w \in {<<>>, <<e>>, <<e, e>>}, log \in Seq(Events),
         LogSorted, \A f \in Range(log) : f[1] = e[1] => f[2] <= e[2],
         log' = log \o w
  PROVE  LogSorted'
<1>1. /\ <<>> \in Seq(Events) /\ <<e>> \in Seq(Events) /\ <<e, e>> \in Seq(Events)
  BY RangeWrites, Zenon
<1>2. w \in Seq(Events) /\ \A i \in 1 .. Len(w) : w[i] = e
  <2>1. CASE w = <<>>
    BY <1>1, <2>1
  <2>2. CASE w = <<e>>
    BY <1>1, <2>2
  <2>3. CASE w = <<e, e>>
    <3>1. Len(w) = 2 /\ w[1] = e /\ w[2] = e
      BY <2>3, Zenon
    <3>2. QED BY <1>1, <2>3, <3>1
  <2>4. QED BY <2>1, <2>2, <2>3, Zenon
<1>3. /\ Len(log') = Len(log) + Len(w) /\ Len(log) \in Nat /\ Len(w) \in Nat
      /\ \A i \in 1 .. Len(log') :
           log'[i] = IF i <= Len(log) THEN log[i] ELSE w[i - Len(log)]
  BY <1>2, ConcatProperties, LenProperties
<1>4. \A i \in 1 .. Len(log) : log[i] \in Range(log)
  BY LenProperties, Zenon DEF Range
<1>5. \A i \in 1 .. Len(log') :
        \/ i <= Len(log) /\ i \in 1 .. Len(log) /\ log'[i] = log[i]
        \/ i > Len(log) /\ log'[i] = e
  BY <1>2, <1>3
<1>6. e[2] \in Nat
  BY DEF Events, Requests
<1>7. ASSUME NEW i \in 1 .. Len(log'), NEW j \in 1 .. Len(log'), i < j,
             log'[i][1] = log'[j][1]
      PROVE  log'[i][2] <= log'[j][2]
  <2>1. CASE j <= Len(log)
    BY <1>3, <1>5, <1>7, <2>1 DEF LogSorted
  <2>2. CASE j > Len(log) /\ i <= Len(log)
    <3>1. log'[j] = e
      BY <1>3, <1>5, <2>2
    <3>2. log'[i] = log[i] /\ log[i] \in Range(log)
      BY <1>3, <1>4, <1>5, <2>2
    <3>3. QED BY <1>7, <3>1, <3>2, Zenon
  <2>3. CASE i > Len(log)
    <3>1. log'[i] = e /\ log'[j] = e
      BY <1>3, <1>5, <1>7, <2>3
    <3>2. QED BY <1>6, <3>1
  <2>4. QED BY <1>3, <2>1, <2>2, <2>3
<1>8. QED BY <1>7, Zenon DEF LogSorted

\* A Publish comes after the earlier ones of its client, and after the Stores of
\* its whole batch.
LEMMA LogStep ==
  ASSUME Durable, \A d \in Clients : Aligned(d), StoredSound,
         LoggedBefore, LogSorted, BatchStored, NEW c \in Clients, Step(c)
  PROVE  LoggedBefore' /\ LogSorted' /\ BatchStored'
<1>1. IngestionTypeOK /\ BatchOK /\ PublishedStored /\ Progress(c)
  BY Zenon DEF Durable
<1>2. /\ sent[c] \in Nat /\ batch[c].first \in Nat /\ batch[c].first >= 1
      /\ batch[c].first <= sent[c] + 1 /\ batch[c].last = sent[c] /\ idx[c] \in Nat
      /\ pc[c] \in Busy => batch[c].first <= idx[c] /\ idx[c] <= sent[c]
      /\ sent[c] <= MaxRequests /\ MaxRequests \in Nat
      /\ pc[c] = "prepare" => batch[c].first <= sent[c]
  BY <1>1, Numbers, Zenon
<1>3. log \in Seq(Events) /\ stored \subseteq Events
  BY <1>1, Zenon DEF IngestionTypeOK
<1>4. \A e \in Events : e[1] \in Clients /\ e[2] \in Requests /\ e[2] \in Nat
  BY DEF Events, Requests
<1>5. Range(log) \subseteq Events
  BY <1>1, <1>3, Zenon DEF PublishedStored
<1>6. /\ log' # log => pc[c] = "publish" /\ <<c, idx[c]>> \in Events
      /\ \E w \in {<<>>, <<<<c, idx[c]>>>>, <<<<c, idx[c]>>, <<c, idx[c]>>>>} : log' = log \o w
  <2>1. CASE log' = log
    <3>1. log \o <<>> = log
      BY <1>3, ConcatEmptySeq, Zenon
    <3>2. QED BY <2>1, <3>1, Zenon
  <2>2. CASE log' # log
    <3>1. pc[c] = "publish"
      BY <1>1, <2>2, StepKinds, Zenon DEF Receives, Closes, GivesUp, Admits, Stores, Publishes,
         Answers
    <3>2. <<c, idx[c]>> \in Events
      BY <1>2, <3>1 DEF Busy, Events, Requests
    <3>3. log' \in {log \o <<<<c, idx[c]>>>>, log \o <<<<c, idx[c]>>, <<c, idx[c]>>>>}
      BY <1>1, <2>2, StepKinds, Zenon DEF Receives, Closes, GivesUp, Admits, Stores, Publishes,
         Answers
    <3>4. QED BY <3>1, <3>2, <3>3, Zenon
  <2>3. QED BY <2>1, <2>2, Zenon
<1>7. /\ log' = log => Range(log') = Range(log)
      /\ Range(log') \subseteq Range(log) \cup {<<c, idx[c]>>}
  <2>1. CASE log' = log
    BY <2>1, Zenon
  <2>2. CASE log' # log
    <3>1. PICK w \in {<<>>, <<<<c, idx[c]>>>>, <<<<c, idx[c]>>, <<c, idx[c]>>>>} : log' = log \o w
      BY <1>6, Zenon
    <3>2. <<c, idx[c]>> \in Events
      BY <1>6, <2>2, Zenon
    <3>3. w \in Seq(Events) /\ Range(w) \subseteq {<<c, idx[c]>>}
      <4>1. ASSUME NEW e \in Events
            PROVE  /\ <<>> \in Seq(Events) /\ Range(<<>>) = {}
                   /\ <<e>> \in Seq(Events) /\ Range(<<e>>) = {e}
                   /\ <<e, e>> \in Seq(Events) /\ Range(<<e, e>>) = {e}
        BY RangeWrites, Zenon
      <4>2. QED BY <3>2, <4>1, Zenon
    <3>4. Range(log') = Range(log) \cup Range(w)
      BY <1>3, <3>1, <3>3, RangeConcatenation
    <3>5. QED BY <2>2, <3>3, <3>4, Zenon
  <2>3. QED BY <2>1, <2>2, Zenon
<1>8. LogSorted'
  <2>1. CASE log' = log
    BY <2>1, Zenon DEF LogSorted
  <2>2. CASE log' # log
    <3>1. pc[c] = "publish" /\ <<c, idx[c]>> \in Events
      BY <1>6, <2>2, Zenon
    <3>2. ASSUME NEW f \in Range(log), f[1] = c
          PROVE  f[2] <= idx[c]
      <4>1. f[2] < idx[c] /\ f[2] \in Nat
        BY <1>4, <1>5, <3>1, <3>2, Zenon DEF LoggedBefore
      <4>2. QED BY <1>2, <4>1
    <3>3. \A f \in Range(log) : f[1] = <<c, idx[c]>>[1] => f[2] <= <<c, idx[c]>>[2]
      BY <3>2, Zenon
    <3>4. QED BY <1>3, <1>6, <3>1, <3>3, SortedWrites, Zenon
  <2>3. QED BY <2>1, <2>2, Zenon
<1>9. LoggedBefore'
  <2> SUFFICES ASSUME NEW e \in Range(log')
               PROVE  /\ e[2] <= sent'[e[1]]
                      /\ pc'[e[1]] \in {"recv", "prepare", "store"} => e[2] < batch'[e[1]].first
                      /\ pc'[e[1]] = "publish" => e[2] < idx'[e[1]]
    BY Zenon DEF LoggedBefore
  <2>1. CASE e[1] # c
    <3>1. e \in Range(log)
      BY <1>7, <2>1
    <3>2. e[1] \in Clients
      BY <1>4, <1>5, <3>1, Zenon
    <3>3. /\ pc'[e[1]] = pc[e[1]] /\ batch'[e[1]] = batch[e[1]]
          /\ idx'[e[1]] = idx[e[1]] /\ sent'[e[1]] = sent[e[1]]
      BY <1>1, <2>1, <3>2, StepKinds
    <3>4. QED BY <3>1, <3>3, Zenon DEF LoggedBefore
  <2>2. CASE e[1] = c /\ e \in Range(log)
    <3>1. /\ e[2] <= sent[c] /\ e[2] \in Nat
          /\ pc[c] \in {"recv", "prepare", "store"} => e[2] < batch[c].first
          /\ pc[c] = "publish" => e[2] < idx[c]
      BY <1>4, <1>5, <2>2, Zenon DEF LoggedBefore
    <3>2. e[2] <= sent'[c]
      <4>1. sent'[c] = sent[c] \/ sent'[c] = sent[c] + 1
        BY <1>1, StepKinds, Zenon DEF Receives, Closes, GivesUp, Admits, Stores, Publishes,
           Answers, clientVars
      <4>2. QED BY ONLY <1>2, <3>1, <4>1
    <3>3. ASSUME pc'[c] \in {"recv", "prepare", "store"}
          PROVE  e[2] < batch'[c].first
      <4>1. \/ pc[c] \in {"recv", "prepare", "store"} /\ batch'[c].first = batch[c].first
            \/ batch'[c].first = sent[c] + 1
        BY <1>1, <3>3, StepKinds, Zenon DEF Receives, Closes, GivesUp, Admits, Stores, Publishes,
           Answers
      <4>2. CASE batch'[c].first = sent[c] + 1
        <5>1. sent[c] \in Nat /\ e[2] \in Nat /\ e[2] <= sent[c]
          BY <1>2, <3>1, Zenon
        <5>2. QED BY ONLY <4>2, <5>1
      <4>3. CASE pc[c] \in {"recv", "prepare", "store"} /\ batch'[c].first = batch[c].first
        BY <3>1, <4>3, Zenon
      <4>4. QED BY <4>1, <4>2, <4>3, Zenon
    <3>4. ASSUME pc'[c] = "publish"
          PROVE  e[2] < idx'[c]
      <4>1. \/ pc[c] = "store" /\ idx'[c] = batch[c].first
            \/ pc[c] = "publish" /\ idx'[c] = idx[c] + 1
        BY <1>1, <3>4, StepKinds, Zenon DEF Receives, Closes, GivesUp, Admits, Stores, Publishes,
           Answers
      <4>2. CASE pc[c] = "store" /\ idx'[c] = batch[c].first
        BY <3>1, <4>2, Zenon
      <4>3. CASE pc[c] = "publish" /\ idx'[c] = idx[c] + 1
        <5>1. idx[c] \in Nat /\ e[2] \in Nat /\ e[2] < idx[c]
          BY <1>2, <3>1, <4>3, Zenon
        <5>2. QED BY ONLY <4>3, <5>1
      <4>4. QED BY <4>1, <4>2, <4>3, Zenon
    <3>5. QED BY <2>2, <3>2, <3>3, <3>4, Zenon
  <2>3. CASE e[1] = c /\ e \notin Range(log)
    <3>1. e[2] = idx[c] /\ log' # log /\ pc[c] = "publish"
      BY <1>6, <1>7, <2>3
    <3>2. idx[c] <= sent[c]
      BY <1>2, <3>1, Zenon DEF Busy
    <3>3. sent'[c] = sent[c]
      BY <1>1, <3>1, StepKinds, Zenon DEF Receives, Closes, GivesUp, Admits, Stores, Publishes,
         Answers, clientVars
    <3>4. \/ pc'[c] = "publish" /\ idx'[c] = idx[c] + 1
          \/ pc'[c] \in {"ack", "failed"}
          \/ pc'[c] = "recv" /\ batch'[c].first = sent[c] + 1
      BY <1>1, <3>1, StepKinds, Zenon DEF Receives, Closes, GivesUp, Admits, Stores, Publishes,
         Answers
    <3>5. QED BY <1>2, <2>3, <3>1, <3>2, <3>3, <3>4
  <2>4. QED BY <2>1, <2>2, <2>3, Zenon
<1>10. BatchStored'
  <2> SUFFICES ASSUME NEW e \in Range(log'), e[1] \in StreamClients,
                      NEW m \in SameBatch(e[2]), m <= sent'[e[1]]
               PROVE  <<e[1], m>> \in stored'
    BY Zenon DEF BatchStored, SameBatch
  <2>0. stored \subseteq stored' /\ m \in Requests /\ m \in Nat
    <3>1. stored \subseteq stored'
      BY <1>1, OthersKept, Zenon
    <3>2. m \in Requests
      BY Zenon DEF SameBatch
    <3>3. QED BY <3>1, <3>2 DEF Requests
  <2>1. CASE e[1] # c
    <3>1. e \in Range(log)
      BY <1>7, <2>1
    <3>2. e[1] \in Clients
      BY Zenon DEF Clients
    <3>3. sent'[e[1]] = sent[e[1]]
      BY <1>1, <2>1, <3>2, StepKinds, Zenon
    <3>4. QED BY <2>0, <3>1, <3>3, Zenon DEF BatchStored
  <2>2. CASE e[1] = c /\ e \in Range(log)
    <3>1. e[2] \in Requests /\ e[2] \in Nat
      BY <1>4, <1>5, <2>2, Zenon
    <3>2. CASE Receives(c)
      <4>1. pc[c] = "recv" /\ sent'[c] = sent[c] + 1
        BY <3>2, Zenon DEF Receives
      <4>2. e[2] < batch[c].first
        BY <2>2, <4>1, Zenon DEF LoggedBefore
      <4>3. PICK q \in Nat : batch[c].first = StreamBatchSize * q + 1
        BY <2>2, <4>1, Zenon DEF Aligned
      <4>4. m < batch[c].first
        BY <1>2, <2>0, <3>1, <4>2, <4>3, BatchesApart
      <4>5. m <= sent[c]
        BY ONLY <1>2, <2>0, <4>4
      <4>6. QED BY <2>0, <2>2, <4>5, Zenon DEF BatchStored
    <3>3. CASE ~Receives(c)
      <4>1. sent' = sent
        BY <1>1, <3>3, StepKinds, Zenon DEF Closes, GivesUp, Admits, Stores, Publishes, Answers,
           clientVars
      <4>2. QED BY <2>0, <2>2, <4>1, Zenon DEF BatchStored
    <3>4. QED BY <3>2, <3>3, Zenon
  <2>3. CASE e[1] = c /\ e \notin Range(log)
    <3>1. e[2] = idx[c] /\ log' # log /\ pc[c] = "publish"
      BY <1>6, <1>7, <2>3
    <3>2. sent' = sent
      BY <1>1, <3>1, StepKinds, Zenon DEF Receives, Closes, GivesUp, Admits, Stores, Publishes,
         Answers, clientVars
    <3>3. PICK q \in Nat : batch[c].first = StreamBatchSize * q + 1
      BY <2>3, <3>1, Zenon DEF Aligned
    <3>4. idx[c] \in Requests /\ batch[c].first <= idx[c]
      BY <1>2, <3>1 DEF Busy, Requests
    <3>5. batch[c].first <= m
      BY <1>2, <2>0, <3>1, <3>3, <3>4, BatchesApart
    <3>6. m \in InBatch(c)
      <4>1. m <= sent[c]
        BY <2>3, <3>2, Zenon
      <4>2. QED BY ONLY <1>2, <2>0, <3>5, <4>1 DEF InBatch
    <3>7. QED BY <1>1, <2>0, <2>3, <3>1, <3>6, Zenon DEF Progress
  <2>4. QED BY <2>1, <2>2, <2>3, Zenon
<1>11. QED BY <1>8, <1>9, <1>10, Zenon

\* Each response on a stream is for the request after the one answered last.
LEMMA AnsweredStep ==
  ASSUME IngestionTypeOK, BatchOK, \A d \in Clients : Answered(d), AcksInOrder,
         NEW c \in Clients, Step(c)
  PROVE  (\A d \in Clients : Answered(d)') /\ AcksInOrder'
<1>1. ASSUME NEW d \in Clients \ {c}
      PROVE  /\ Answered(d)'
             /\ d \in StreamClients => \A k \in 1 .. Len(acks'[d]) : acks'[d][k] = k
  <2>1. pc'[d] = pc[d] /\ batch'[d] = batch[d] /\ idx'[d] = idx[d] /\ acks'[d] = acks[d]
    BY StepKinds, Zenon
  <2>2. QED BY <2>1, Zenon DEF Answered, AcksInOrder
<1>2. ASSUME c \in StreamClients
      PROVE  /\ Answered(c)'
             /\ \A k \in 1 .. Len(acks'[c]) : acks'[c][k] = k
  <2>1. /\ sent[c] \in Nat /\ batch[c].first \in Nat /\ idx[c] \in Nat
        /\ batch[c].first <= sent[c] + 1
        /\ acks[c] \in Seq(Requests) /\ Len(acks[c]) \in Nat
        /\ c \notin UnaryClients
    <3>1. acks[c] \in Seq(Requests)
      BY Zenon DEF IngestionTypeOK
    <3>2. QED BY <1>2, <3>1, Numbers, LenProperties, IngestionAssumption, Zenon
  <2>2. CASE Answers(c)
    <3>1. Len(acks[c]) = idx[c] - 1
      BY <1>2, <2>2, Zenon DEF Answered, Answers
    <3>2. /\ Len(acks'[c]) = Len(acks[c]) + 1
          /\ \A k \in 1 .. Len(acks[c]) : acks'[c][k] = acks[c][k]
          /\ acks'[c][Len(acks[c]) + 1] = idx[c]
      <4>1. acks'[c] = Append(acks[c], idx[c])
        BY <2>2, Zenon DEF Answers
      <4>2. idx[c] \in Requests
        BY <2>2, Numbers DEF Answers, Busy, Requests
      <4>3. QED BY ONLY <2>1, <4>1, <4>2, AppendProperties
    <3>3. \A k \in 1 .. Len(acks'[c]) : acks'[c][k] = k
      <4>1. \A k \in 1 .. Len(acks[c]) : acks[c][k] = k
        BY <1>2, Zenon DEF AcksInOrder
      <4>2. ASSUME NEW k \in 1 .. Len(acks'[c])
            PROVE  acks'[c][k] = k
        <5>1. k \in 1 .. Len(acks[c]) \/ k = Len(acks[c]) + 1
          BY ONLY <2>1, <3>2, k \in 1 .. Len(acks'[c])
        <5>2. Len(acks[c]) + 1 = idx[c]
          BY ONLY <2>1, <3>1
        <5>3. QED BY <3>2, <4>1, <5>1, <5>2, Zenon
      <4>3. QED BY <4>2, Zenon
    <3>4. CASE pc'[c] = "ack" /\ idx'[c] = idx[c] + 1
      <4>1. Len(acks'[c]) = idx'[c] - 1
        BY ONLY <2>1, <3>1, <3>2, <3>4
      <4>2. QED BY <3>3, <3>4, <4>1, Zenon DEF Answered
    <3>5. CASE pc'[c] # "ack" /\ batch'[c].first = sent[c] + 1 /\ idx[c] = sent[c]
      <4>1. Len(acks'[c]) = batch'[c].first - 1
        BY ONLY <2>1, <3>1, <3>2, <3>5
      <4>2. QED BY <3>3, <3>5, <4>1, Zenon DEF Answered
    <3>6. QED BY <2>2, <3>4, <3>5, Zenon DEF Answers
  <2>3. CASE ~Answers(c)
    <3>1. acks' = acks
      BY <2>3, StepKinds, Zenon DEF Receives, Closes, GivesUp, Admits, Stores, Publishes
    <3>2. \A k \in 1 .. Len(acks'[c]) : acks'[c][k] = k
      BY <1>2, <3>1, Zenon DEF AcksInOrder
    <3>3. \/ pc'[c] = "failed"
          \/ /\ pc[c] \in {"recv", "prepare", "store", "publish"}
             /\ batch'[c].first = batch[c].first
             /\ pc'[c] = "ack" => idx'[c] = batch[c].first
      BY <2>1, <2>3, StepKinds, Zenon DEF Receives, Closes, GivesUp, Admits, Stores, Publishes
    <3>4. Answered(c)'
      BY <1>2, <3>1, <3>3, Zenon DEF Answered
    <3>5. QED BY <3>2, <3>4, Zenon
  <2>4. QED BY <2>2, <2>3, Zenon
<1>3. Answered(c)'
  BY <1>2, Zenon DEF Answered
<1>4. AcksInOrder'
  BY <1>1, <1>2, Zenon DEF AcksInOrder, Clients
<1>5. QED BY <1>1, <1>3, <1>4, Zenon

\* A step keeps the invariant.
LEMMA OrderedStep ==
  ASSUME Durable, Admitted, Ordered, [IngestionNext]_ingestionVars
  PROVE  Ordered'
<1>1. CASE UNCHANGED ingestionVars
  BY <1>1, Zenon DEF Ordered, Aligned, Answered, BatchLen, StoredSound, LoggedBefore, LogSorted,
              BatchStored, AcksInOrder, ingestionVars, clientVars
<1>2. ASSUME NEW c \in Clients, Step(c)
      PROVE  Ordered'
  <2>1. IngestionTypeOK /\ BatchOK /\ IngestionTypeOK' /\ BatchOK'
    BY <1>2, TypeStep, Zenon DEF Durable, IngestionNext
  <2>2. /\ \A d \in Clients : Aligned(d)
        /\ \A d \in Clients : Answered(d)
        /\ \A d \in Clients : \A n \in invalid[d] : n <= sent[d]
        /\ StoredSound /\ LoggedBefore /\ LogSorted /\ BatchStored /\ AcksInOrder
    BY Zenon DEF Ordered
  <2>3. \A d \in Clients : Aligned(d)'
    BY <1>2, <2>1, <2>2, AlignedStep, Zenon
  <2>4. StoredSound' /\ \A d \in Clients : \A n \in invalid'[d] : n <= sent'[d]
    BY <1>2, <2>1, <2>2, StoredStep, Zenon
  <2>5. LoggedBefore' /\ LogSorted' /\ BatchStored'
    BY <1>2, <2>2, LogStep, Zenon
  <2>6. (\A d \in Clients : Answered(d)') /\ AcksInOrder'
    BY <1>2, <2>1, <2>2, AnsweredStep, Zenon
  <2>7. QED BY <2>3, <2>4, <2>5, <2>6, Zenon DEF Ordered
<1>3. QED BY <1>1, <1>2, Zenon DEF IngestionNext

\* At the start nothing is stored, published or answered.
LEMMA OrderedInit == IngestionInit => Ordered
<1> SUFFICES ASSUME IngestionInit PROVE Ordered
  OBVIOUS
<1>1. Range(log) = {} /\ Len(log) = 0
  BY DEF IngestionInit, Range
<1>2. ASSUME NEW c \in Clients
      PROVE  Aligned(c) /\ Answered(c) /\ \A n \in invalid[c] : n <= sent[c]
  <2>1. /\ pc[c] = "recv" /\ batch[c].first = 1 /\ batch[c].last = 0 /\ ~closing[c]
        /\ acks[c] = <<>> /\ invalid[c] = {}
    BY Zenon DEF IngestionInit
  <2>2. StreamBatchSize * 0 + 1 = 1 /\ BatchLen(c) = 0 /\ 0 < StreamBatchSize /\ 0 \in Nat
    BY <2>1, IngestionAssumption DEF BatchLen
  <2>3. Aligned(c)
    BY <2>1, <2>2, Zenon DEF Aligned, Busy
  <2>4. Answered(c)
    BY <2>1 DEF Answered
  <2>5. QED BY <2>1, <2>3, <2>4, Zenon
<1>3. StoredSound /\ LoggedBefore /\ LogSorted /\ BatchStored
  <2>1. stored = {}
    BY Zenon DEF IngestionInit
  <2>2. LogSorted
    BY ONLY <1>1 DEF LogSorted
  <2>3. QED BY ONLY <1>1, <2>1, <2>2, Zenon DEF StoredSound, LoggedBefore, BatchStored
<1>4. AcksInOrder
  BY DEF IngestionInit, AcksInOrder, Clients
<1>5. QED BY <1>2, <1>3, <1>4, Zenon DEF Ordered

\* The invariant of the order properties.
THEOREM OrderInvariant == IngestionSpec => [](Durable /\ Admitted /\ Ordered)
<1>1. Durable /\ Admitted /\ Ordered /\ [IngestionNext]_ingestionVars => (Durable /\ Admitted /\ Ordered)'
  BY DurableStep, AdmittedStep, OrderedStep, Zenon DEF Durable
<1>2. IngestionInit => Durable /\ Admitted /\ Ordered
  BY DurableInit, LifecycleInit, OrderedInit, Zenon
<1>3. QED BY <1>1, <1>2, PTL DEF IngestionSpec

\* An invalid request leaves no trace of its batch, for any batch size: a stream's
\* batches cut its requests into runs, and all of a run is validated before the
\* first of it is stored.
THEOREM InvalidBatchNotStored == IngestionSpec => []InvalidBatchLeavesNothing
<1>1. ASSUME Durable, Ordered
      PROVE  InvalidBatchLeavesNothing
  <2> SUFFICES ASSUME NEW c \in StreamClients, NEW n \in invalid[c],
                      NEW m \in SameBatch(n), <<c, m>> \in stored
               PROVE  FALSE
    BY DEF InvalidBatchLeavesNothing
  <2>1. n \in Requests
    BY <1>1, Zenon DEF Durable, IngestionTypeOK, Clients
  <2>2. n \in SameBatch(m)
    BY <2>1, Zenon DEF SameBatch
  <2>3. QED BY <1>1, <2>2, Zenon DEF Ordered, StoredSound
<1>2. QED BY <1>1, OrderInvariant, PTL

\* Each client's events are in Kafka in the order of its requests, repeated only in
\* place, and none of a stream's batch is there before all of it is stored.
THEOREM LogOrdered == IngestionSpec => []LogInOrder
<1>1. ASSUME Durable, Ordered
      PROVE  LogInOrder
  <2>1. \A i \in 1 .. Len(log) : log[i] \in Range(log)
    BY <1>1, LenProperties, Zenon DEF Range, Durable, IngestionTypeOK
  <2>2. LogSorted /\ BatchStored
    BY <1>1, Zenon DEF Ordered
  <2>3. \A i \in 1 .. Len(log) : log[i][1] \in StreamClients =>
          \A m \in SameBatch(log[i][2]) : m <= sent[log[i][1]] => <<log[i][1], m>> \in stored
    BY <2>1, <2>2, Zenon DEF BatchStored
  <2>4. QED BY <2>2, <2>3, Zenon DEF LogInOrder, LogSorted
<1>2. QED BY <1>1, OrderInvariant, PTL

\* The k-th response on a stream is for its k-th request, whatever fails.
THEOREM AcknowledgedInOrder == IngestionSpec => []AcksInOrder
<1>1. Ordered => AcksInOrder
  BY Zenon DEF Ordered
<1>2. QED BY <1>1, OrderInvariant, PTL

=============================================================================
