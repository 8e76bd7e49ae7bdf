-------------------------- MODULE ProducerProofs --------------------------
(***************************************************************************)
(* Proofs about the breaker of the Kafka producer, for any number of       *)
(* goroutines, any threshold, any counter width and any retry limit.       *)
(***************************************************************************)
EXTENDS Producer, TLAPS

\* Both counters are non-zero only while some recordSuccess or recordFailure is
\* between its two counter updates: whoever finishes clears the other counter.
CountersExclusive ==
  (failureCount # 0 /\ successCount # 0) =>
    \E p \in Publishers : pc[p] \in {"okStore", "failStore"}

\* The writes of a goroutine since the opening, while the circuit is open,
\* are bounded by the attempts of the call it is in.
ShedBound ==
  circuitOpen =>
    \A p \in Publishers :
      /\ writesOpen[p] <= MaxRetries + 1
      /\ pc[p] \in {"write", "backoff"} => writesOpen[p] <= call[p].attempt

-----------------------------------------------------------------------------

\* An atomic Add stays within the counter's width.
LEMMA IncCounts == ASSUME NEW n \in Counts PROVE Inc(n) \in Counts
BY ProducerAssumption DEF Inc, Counts

\* A goroutine outside a call has a well-typed (empty) call.
LEMMA NoCallType == NoCall \in PublishCalls
BY ProducerAssumption DEF NoCall, PublishCalls

\* NewProducer's producer is well typed.
LEMMA InitTypeOK == ProducerInit => ProducerTypeOK
<1>1. 0 \in Counts
  BY ProducerAssumption DEF Counts
<1>2. ProducerInit => /\ circuitOpen \in BOOLEAN /\ mu \in BOOLEAN
              /\ resetting \in BOOLEAN /\ writerClosed \in BOOLEAN
  BY Zenon DEF ProducerInit
<1>. QED
  BY <1>1, <1>2, NoCallType DEF ProducerInit, ProducerTypeOK, PcValues

\* A move of control that keeps to the program points keeps pc and call typed.
LEMMA GotoType ==
  ASSUME ProducerTypeOK, NEW p \in Publishers, NEW from, NEW to \in PcValues, Go(p, from, to)
  PROVE  pc' \in [Publishers -> PcValues] /\ call' \in [Publishers -> PublishCalls]
BY NoCallType DEF ProducerTypeOK, Go

\* What the steps of a goroutine do to the state's type.
LEMMA StepTypeOK ==
  ASSUME ProducerTypeOK, NEW p \in Publishers, Step(p)
  PROVE  ProducerTypeOK'
<1>. USE ProducerAssumption
<1>1. CASE Publish(p)
  <2>1. PICK e \in Events : \E good \in SUBSET {e} : Begin(p, good, "publish")
    BY <1>1 DEF Publish
  <2>2. PICK good \in SUBSET {e} : Begin(p, good, "publish")
    BY <2>1
  <2>3. [call[p] EXCEPT !.messages = good] \in PublishCalls
    BY DEF ProducerTypeOK, PublishCalls
  <2>. QED
    BY <2>2, <2>3 DEF Begin, ProducerTypeOK, PcValues, counterVars, timerVars, closeVars
<1>2. CASE PublishBatch(p)
  <2>1. PICK S \in SUBSET Events : \E good \in SUBSET S : Begin(p, good, "publishBatch")
    BY <1>2 DEF PublishBatch
  <2>2. PICK good \in SUBSET S : Begin(p, good, "publishBatch")
    BY <2>1
  <2>3. [call[p] EXCEPT !.messages = good] \in PublishCalls
    BY DEF ProducerTypeOK, PublishCalls
  <2>. QED
    BY <2>2, <2>3 DEF Begin, ProducerTypeOK, PcValues, counterVars, timerVars, closeVars
<1>3. CASE CheckCircuit(p)
  <2>1. \/ Go(p, "publish", "idle") \/ Go(p, "publish", "failAdd")
        \/ Go(p, "publish", "write") \/ Go(p, "publishBatch", "idle")
        \/ Go(p, "publishBatch", "write")
    BY <1>3 DEF CheckCircuit
  <2>2. pc' \in [Publishers -> PcValues] /\ call' \in [Publishers -> PublishCalls]
    BY <2>1, GotoType DEF PcValues
  <2>. QED
    BY <1>3, <2>2 DEF CheckCircuit, ProducerTypeOK, counterVars, timerVars, closeVars
<1>4. CASE WriteOk(p)
  BY <1>4, GotoType DEF WriteOk, ProducerTypeOK, PcValues, counterVars, timerVars, closeVars
<1>5. CASE WriteFail(p)
  <2>1. call[p] \in PublishCalls
    BY DEF ProducerTypeOK
  <2>2. call' \in [Publishers -> PublishCalls]
    <3>1. CASE call[p].attempt < MaxRetries /\ call' = [call EXCEPT ![p].attempt = @ + 1]
      <4>1. [call[p] EXCEPT !.attempt = @ + 1] \in PublishCalls
        BY <2>1, <3>1 DEF PublishCalls
      <4>. QED
        BY <3>1, <4>1 DEF ProducerTypeOK
    <3>2. CASE call' = call
      BY <3>2 DEF ProducerTypeOK
    <3>. QED
      BY <1>5, <3>1, <3>2 DEF WriteFail
  <2>3. pc' \in [Publishers -> PcValues] /\ writesOpen' \in [Publishers -> Nat]
    BY <1>5 DEF WriteFail, ProducerTypeOK, PcValues
  <2>. QED
    BY <1>5, <2>2, <2>3 DEF WriteFail, ProducerTypeOK, counterVars, timerVars, closeVars
<1>6. CASE Backoff(p)
  BY <1>6, GotoType DEF Backoff, ProducerTypeOK, PcValues, counterVars, timerVars, closeVars
<1>7. CASE OkAdd(p)
  BY <1>7, GotoType, IncCounts DEF OkAdd, ProducerTypeOK, PcValues, timerVars, closeVars
<1>8. CASE OkStore(p)
  BY <1>8, GotoType DEF OkStore, ProducerTypeOK, PcValues, Counts, timerVars, closeVars
<1>9. CASE OkCheck(p)
  BY <1>9, GotoType DEF OkCheck, ProducerTypeOK, PcValues, counterVars, timerVars, closeVars
<1>10. CASE OkLock(p)
  <2>1. mu' \in BOOLEAN /\ circuitOpen' \in BOOLEAN
    BY <1>10, Zenon DEF OkLock, ShouldClose, ProducerTypeOK
  <2>. QED
    BY <1>10, <2>1, GotoType DEF OkLock, ProducerTypeOK, PcValues, counterVars, timerVars, closeVars
<1>11. CASE OkReset(p)
  <2>1. mu' \in BOOLEAN
    BY <1>11, Zenon DEF OkReset
  <2>. QED
    BY <1>11, <2>1, GotoType DEF OkReset, ProducerTypeOK, PcValues, Counts, timerVars, closeVars
<1>12. CASE FailAdd(p)
  BY <1>12, GotoType, IncCounts DEF FailAdd, ProducerTypeOK, PcValues, timerVars, closeVars
<1>13. CASE FailStore(p)
  BY <1>13, GotoType DEF FailStore, ProducerTypeOK, PcValues, Counts, timerVars, closeVars
<1>14. CASE FailCheck(p)
  BY <1>14, GotoType DEF FailCheck, ProducerTypeOK, PcValues, counterVars, timerVars, closeVars
<1>15. CASE FailLock(p)
  <2>1. mu' \in BOOLEAN /\ circuitOpen' \in BOOLEAN
    BY <1>15, Zenon DEF FailLock, ShouldOpen, ProducerTypeOK
  <2>. QED
    BY <1>15, <2>1, GotoType DEF FailLock, ProducerTypeOK, PcValues, counterVars, timerVars, closeVars
<1>16. CASE FailArm(p)
  <2>1. mu' \in BOOLEAN
    BY <1>16, Zenon DEF FailArm
  <2>. QED
    BY <1>16, <2>1, GotoType DEF FailArm, ProducerTypeOK, PcValues, Counts, closeVars
<1>. QED
  BY <1>1, <1>2, <1>3, <1>4, <1>5, <1>6, <1>7, <1>8, <1>9, <1>10, <1>11, <1>12,
     <1>13, <1>14, <1>15, <1>16 DEF Step

\* Every step, of a goroutine, a timer or Close, keeps the types.
LEMMA NextTypeOK == ProducerTypeOK /\ [ProducerNext]_producerVars => ProducerTypeOK'
<1>. SUFFICES ASSUME ProducerTypeOK, [ProducerNext]_producerVars PROVE ProducerTypeOK'
  OBVIOUS
<1>. USE ProducerAssumption
<1>1. CASE \E p \in Publishers : Step(p)
  BY <1>1, StepTypeOK
<1>2. CASE TimerFire
  BY <1>2 DEF TimerFire, ProducerTypeOK, callVars, counterVars, closeVars
<1>3. CASE ResetBegin
  <2>1. mu' \in BOOLEAN /\ resetting' \in BOOLEAN /\ circuitOpen' \in BOOLEAN
    BY <1>3, Zenon DEF ResetBegin
  <2>. QED
    BY <1>3, <2>1 DEF ResetBegin, ProducerTypeOK, Counts, callVars, closeVars
<1>4. CASE ResetEnd
  <2>1. mu' \in BOOLEAN /\ resetting' \in BOOLEAN
    BY <1>4, Zenon DEF ResetEnd
  <2>. QED
    BY <1>4, <2>1 DEF ResetEnd, ProducerTypeOK, Counts, callVars, closeVars
<1>5. CASE CloseWriter
  BY <1>5, Zenon DEF CloseWriter, ProducerTypeOK, callVars, counterVars, timerVars
<1>6. CASE CloseStopTimer
  BY <1>6 DEF CloseStopTimer, ProducerTypeOK, callVars, counterVars
<1>7. CASE UNCHANGED producerVars
  BY <1>7 DEF producerVars, ProducerTypeOK, callVars, counterVars, timerVars, closeVars
<1>. QED
  BY <1>1, <1>2, <1>3, <1>4, <1>5, <1>6, <1>7 DEF ProducerNext

\* The state of the producer is always well-typed; in particular the atomic
\* counters stay within their width whatever the number of calls.
THEOREM TypeCorrect == ProducerSpec => []ProducerTypeOK
BY InitTypeOK, NextTypeOK, PTL DEF ProducerSpec

-----------------------------------------------------------------------------

\* A move of control moves one goroutine.
LEMMA GotoPc ==
  ASSUME ProducerTypeOK, NEW p \in Publishers, NEW from, NEW to, Go(p, from, to)
  PROVE  /\ pc[p] = from
         /\ pc'[p] = to
         /\ \A q \in Publishers : q # p => pc'[q] = pc[q] /\ call'[q] = call[q]
BY DEF ProducerTypeOK, Go

\* The counter discipline of recordSuccess and recordFailure.
LEMMA NextCountersExclusive ==
  ASSUME ProducerTypeOK, CountersExclusive, [ProducerNext]_producerVars
  PROVE  CountersExclusive'
<1>. USE ProducerAssumption
<1>1. ASSUME NEW p \in Publishers, Step(p) PROVE CountersExclusive'
  <2>1. CASE OkAdd(p)
    BY <2>1, GotoPc DEF OkAdd, CountersExclusive
  <2>2. CASE FailAdd(p)
    BY <2>2, GotoPc DEF FailAdd, CountersExclusive
  <2>3. CASE failureCount' = 0 \/ successCount' = 0
    BY <2>3 DEF CountersExclusive
  <2>4. CASE /\ UNCHANGED counterVars
             /\ pc[p] \notin {"okStore", "failStore"}
             /\ \A q \in Publishers : q # p => pc'[q] = pc[q]
    BY <2>4 DEF counterVars, CountersExclusive
  <2>5. Publish(p) \/ PublishBatch(p) \/ WriteFail(p) =>
          /\ UNCHANGED counterVars
          /\ pc[p] \notin {"okStore", "failStore"}
          /\ \A q \in Publishers : q # p => pc'[q] = pc[q]
    BY DEF Publish, PublishBatch, Begin, WriteFail, ProducerTypeOK
  <2>6. CheckCircuit(p) \/ Backoff(p) \/ WriteOk(p) \/ OkCheck(p) \/ OkLock(p) \/ FailCheck(p) \/ FailLock(p) =>
          /\ UNCHANGED counterVars
          /\ pc[p] \notin {"okStore", "failStore"}
          /\ \A q \in Publishers : q # p => pc'[q] = pc[q]
    BY GotoPc DEF CheckCircuit, WriteOk, Backoff, OkCheck, OkLock, FailCheck, FailLock
  <2>7. OkStore(p) \/ OkReset(p) \/ FailStore(p) \/ FailArm(p) =>
          failureCount' = 0 \/ successCount' = 0
    BY DEF OkStore, OkReset, FailStore, FailArm
  <2>. QED
    BY <1>1, <2>1, <2>2, <2>3, <2>4, <2>5, <2>6, <2>7 DEF Step
<1>2. CASE TimerFire
  BY <1>2 DEF TimerFire, CountersExclusive, callVars, counterVars
<1>3. CASE ResetBegin
  BY <1>3 DEF ResetBegin, CountersExclusive
<1>4. CASE ResetEnd
  BY <1>4 DEF ResetEnd, CountersExclusive
<1>5. CASE CloseWriter
  BY <1>5 DEF CloseWriter, CountersExclusive, callVars, counterVars
<1>6. CASE CloseStopTimer
  BY <1>6 DEF CloseStopTimer, CountersExclusive, callVars, counterVars
<1>7. CASE UNCHANGED producerVars
  BY <1>7 DEF producerVars, CountersExclusive, callVars, counterVars
<1>. QED
  BY <1>1, <1>2, <1>3, <1>4, <1>5, <1>6, <1>7 DEF ProducerNext

\* Opening is never missed: by the counter discipline, a success that closes the
\* circuit over Threshold counted failures has a goroutine about to clear or to
\* act on them next to it.
LEMMA NextNoLostTrip ==
  ASSUME ProducerTypeOK, CountersExclusive, NoLostTrip, [ProducerNext]_producerVars
  PROVE  NoLostTrip'
<1>. USE ProducerAssumption
<1>. DEFINE Mid == {"failStore", "failCheck", "failLock", "okStore"}
<1>0. NoLostTrip <=> (~circuitOpen /\ failureCount >= Threshold =>
                        \E q \in Publishers : pc[q] \in Mid)
  BY DEF NoLostTrip, Tripping, Clearing
<1>0a. NoLostTrip' <=> (~circuitOpen' /\ failureCount' >= Threshold =>
                         \E q \in Publishers : pc'[q] \in Mid)
  BY DEF NoLostTrip, Tripping, Clearing
<1>1. ASSUME NEW p \in Publishers, Step(p) PROVE NoLostTrip'
  <2>1. CASE FailAdd(p)
    BY <2>1, <1>0a, GotoPc DEF FailAdd
  <2>2. CASE FailStore(p)
    BY <2>2, <1>0a, GotoPc DEF FailStore
  <2>3. CASE FailCheck(p)
    BY <2>3, <1>0, <1>0a, GotoPc DEF FailCheck, ShouldOpen, counterVars
  <2>4. CASE FailLock(p)
    BY <2>4, <1>0, <1>0a, GotoPc, Zenon DEF FailLock, ShouldOpen, counterVars
  <2>5. CASE OkStore(p) \/ FailArm(p)
    BY <2>5, <1>0a DEF OkStore, FailArm
  <2>6. CASE OkLock(p)
    <3>1. pc[p] \notin Mid /\ \A q \in Publishers : q # p => pc'[q] = pc[q]
      BY <2>6, GotoPc DEF OkLock
    <3>2. CASE ShouldClose /\ failureCount >= Threshold
      <4>1. failureCount # 0 /\ successCount # 0
        BY <3>2 DEF ShouldClose, ProducerTypeOK, Counts
      <4>2. \E q \in Publishers : pc[q] \in {"okStore", "failStore"}
        BY <4>1 DEF CountersExclusive
      <4>. QED
        BY <3>1, <4>2, <1>0a
    <3>3. CASE ~ShouldClose
      BY <2>6, <3>1, <3>3, <1>0, <1>0a, Zenon DEF OkLock, counterVars
    <3>4. CASE ~(failureCount >= Threshold)
      BY <2>6, <3>4, <1>0a DEF OkLock, counterVars
    <3>. QED
      BY <3>2, <3>3, <3>4
  <2>7. CASE /\ UNCHANGED <<failureCount, circuitOpen>>
             /\ pc[p] \notin Mid
             /\ \A q \in Publishers : q # p => pc'[q] = pc[q]
    BY <2>7, <1>0, <1>0a
  <2>8. Publish(p) \/ PublishBatch(p) \/ WriteFail(p) =>
          /\ UNCHANGED <<failureCount, circuitOpen>>
          /\ pc[p] \notin Mid
          /\ \A q \in Publishers : q # p => pc'[q] = pc[q]
    BY DEF Publish, PublishBatch, Begin, WriteFail, ProducerTypeOK, counterVars
  <2>9. CheckCircuit(p) \/ Backoff(p) \/ WriteOk(p) \/ OkAdd(p) \/ OkCheck(p) \/ OkReset(p) =>
          /\ UNCHANGED <<failureCount, circuitOpen>>
          /\ pc[p] \notin Mid
          /\ \A q \in Publishers : q # p => pc'[q] = pc[q]
    BY GotoPc DEF CheckCircuit, WriteOk, Backoff, OkAdd, OkCheck, OkReset, counterVars
  <2>. QED
    BY <1>1, <2>1, <2>2, <2>3, <2>4, <2>5, <2>6, <2>7, <2>8, <2>9 DEF Step
<1>2. CASE ResetBegin
  BY <1>2, <1>0a DEF ResetBegin
<1>3. CASE TimerFire \/ ResetEnd \/ CloseWriter \/ CloseStopTimer \/ UNCHANGED producerVars
  <2>1. UNCHANGED <<pc, failureCount, circuitOpen>>
    BY <1>3 DEF TimerFire, ResetEnd, CloseWriter, CloseStopTimer, producerVars, callVars, counterVars
  <2>. QED
    BY <2>1, <1>0, <1>0a
<1>. QED
  BY <1>1, <1>2, <1>3 DEF ProducerNext

\* recordFailure never loses a trip, for any number of concurrent calls, any
\* threshold and any width of the counters: Threshold counted failures never
\* rest beside a closed circuit.
THEOREM LostTripFree == ProducerSpec => []NoLostTrip
<1>1. ProducerInit => CountersExclusive /\ NoLostTrip
  BY ProducerAssumption DEF ProducerInit, CountersExclusive, NoLostTrip
<1>. QED
  BY <1>1, TypeCorrect, NextCountersExclusive, NextNoLostTrip, PTL DEF ProducerSpec

-----------------------------------------------------------------------------

\* Opening arms a timer, and nothing but Close or the reset itself takes it away.
LEMMA NextOpenHasReset ==
  ASSUME ProducerTypeOK, OpenHasReset, [ProducerNext]_producerVars
  PROVE  OpenHasReset'
<1>1. ASSUME NEW p \in Publishers, Step(p) PROVE OpenHasReset'
  <2>1. CASE FailArm(p)
    BY <2>1 DEF FailArm, OpenHasReset
  <2>2. CASE FailLock(p)
    <3>1. UNCHANGED <<timer, stale, closer>>
      BY <2>2 DEF FailLock, timerVars, closeVars
    <3>2. CASE ShouldOpen
      <4>1. pc'[p] = "failArm"
        BY <2>2, <3>2, GotoPc DEF FailLock
      <4>. QED
        BY <4>1 DEF OpenHasReset
    <3>3. CASE ~ShouldOpen
      <4>1. /\ circuitOpen' => circuitOpen
            /\ pc[p] = "failLock" /\ \A q \in Publishers : q # p => pc'[q] = pc[q]
        BY <2>2, <3>3, GotoPc, Zenon DEF FailLock
      <4>. QED
        BY <3>1, <4>1 DEF OpenHasReset
    <3>. QED
      BY <3>2, <3>3
  <2>3. CASE OkLock(p)
    BY <2>3, GotoPc, Zenon DEF OkLock, ShouldClose, OpenHasReset, timerVars, closeVars
  <2>4. CASE /\ UNCHANGED <<circuitOpen, timer, stale, closer>>
             /\ pc[p] # "failArm"
             /\ \A q \in Publishers : q # p => pc'[q] = pc[q]
    BY <2>4 DEF OpenHasReset
  <2>5. Publish(p) \/ PublishBatch(p) \/ WriteFail(p) =>
          /\ UNCHANGED <<circuitOpen, timer, stale, closer>>
          /\ pc[p] # "failArm"
          /\ \A q \in Publishers : q # p => pc'[q] = pc[q]
    BY DEF Publish, PublishBatch, Begin, WriteFail, ProducerTypeOK, timerVars, closeVars
  <2>. DEFINE Kept == /\ UNCHANGED <<circuitOpen, timer, stale, closer>>
                      /\ pc[p] # "failArm"
                      /\ \A q \in Publishers : q # p => pc'[q] = pc[q]
  <2>6. CheckCircuit(p) => Kept
    BY GotoPc DEF CheckCircuit, timerVars, closeVars
  <2>7. Backoff(p) \/ WriteOk(p) => Kept
    BY GotoPc DEF Backoff, WriteOk, timerVars, closeVars
  <2>8. OkAdd(p) \/ OkStore(p) => Kept
    BY GotoPc DEF OkAdd, OkStore, timerVars, closeVars
  <2>9. OkCheck(p) \/ OkReset(p) => Kept
    BY GotoPc DEF OkCheck, OkReset, timerVars, closeVars
  <2>10. FailAdd(p) \/ FailStore(p) => Kept
    BY GotoPc DEF FailAdd, FailStore, timerVars, closeVars
  <2>11. FailCheck(p) => Kept
    BY GotoPc DEF FailCheck, timerVars, closeVars
  <2>. QED
    BY <1>1, <2>1, <2>2, <2>3, <2>4, <2>5, <2>6, <2>7, <2>8, <2>9, <2>10, <2>11
       DEF Step
<1>2. CASE ResetBegin
  BY <1>2 DEF ResetBegin, OpenHasReset
<1>3. CASE TimerFire
  BY <1>3 DEF TimerFire, OpenHasReset, callVars, closeVars
<1>4. CASE ResetEnd
  BY <1>4 DEF ResetEnd, OpenHasReset, callVars, closeVars
<1>5. CASE CloseWriter
  BY <1>5 DEF CloseWriter, OpenHasReset, callVars, timerVars
<1>6. CASE CloseStopTimer
  BY <1>6 DEF CloseStopTimer, OpenHasReset
<1>7. CASE UNCHANGED producerVars
  BY <1>7 DEF producerVars, OpenHasReset, callVars, timerVars, closeVars
<1>. QED
  BY <1>1, <1>2, <1>3, <1>4, <1>5, <1>6, <1>7 DEF ProducerNext

\* An open circuit always has its reset under way, unless Close stopped it.
THEOREM ResetUnderWay == ProducerSpec => []OpenHasReset
<1>1. ProducerInit => OpenHasReset
  BY DEF ProducerInit, OpenHasReset
<1>. QED
  BY <1>1, TypeCorrect, NextOpenHasReset, PTL DEF ProducerSpec

-----------------------------------------------------------------------------

\* Only the goroutines that were past the circuit check when the circuit opened
\* can write, and each write of theirs uses up an attempt.
LEMMA NextShedBound ==
  ASSUME ProducerTypeOK, ShedBound, [ProducerNext]_producerVars
  PROVE  ShedBound'
<1>. USE ProducerAssumption
<1>1. ASSUME NEW p \in Publishers, Step(p) PROVE ShedBound'
  <2>1. CASE Publish(p) \/ PublishBatch(p)
    BY <2>1, Zenon DEF Publish, PublishBatch, Begin, ShedBound, ProducerTypeOK
  <2>2. CASE CheckCircuit(p)
    <3>1. UNCHANGED <<circuitOpen, writesOpen>>
      BY <2>2 DEF CheckCircuit
    <3>2. circuitOpen => pc'[p] = "idle"
      BY <2>2, GotoPc DEF CheckCircuit
    <3>3. \A q \in Publishers : q # p => pc'[q] = pc[q] /\ call'[q] = call[q]
      BY <2>2, GotoPc DEF CheckCircuit
    <3>. QED
      BY <3>1, <3>2, <3>3 DEF ShedBound
  <2>3. CASE WriteOk(p)
    <3>1. \A q \in Publishers : q # p => /\ pc'[q] = pc[q] /\ call'[q] = call[q]
                                       /\ writesOpen'[q] = writesOpen[q]
      BY <2>3, GotoPc DEF WriteOk, ProducerTypeOK
    <3>2. pc[p] = "write" /\ pc'[p] = "okAdd" /\ call[p].attempt \in 0 .. MaxRetries
      BY <2>3, GotoPc DEF WriteOk, ProducerTypeOK, PublishCalls
    <3>3. circuitOpen' = circuitOpen /\ (circuitOpen => writesOpen'[p] = writesOpen[p] + 1)
      BY <2>3 DEF WriteOk, ProducerTypeOK
    <3>. QED
      BY <3>1, <3>2, <3>3 DEF ShedBound, ProducerTypeOK
  <2>4. CASE WriteFail(p)
    <3>1. \A q \in Publishers : q # p => /\ pc'[q] = pc[q] /\ call'[q] = call[q]
                                       /\ writesOpen'[q] = writesOpen[q]
      BY <2>4 DEF WriteFail, ProducerTypeOK
    <3>2. /\ pc[p] = "write" /\ call[p].attempt \in 0 .. MaxRetries
          /\ \/ pc'[p] = "backoff" /\ call'[p].attempt = call[p].attempt + 1
             \/ pc'[p] = "failAdd"
      BY <2>4 DEF WriteFail, ProducerTypeOK, PublishCalls
    <3>3. circuitOpen' = circuitOpen /\ (circuitOpen => writesOpen'[p] = writesOpen[p] + 1)
      BY <2>4 DEF WriteFail, ProducerTypeOK
    <3>. QED
      BY <3>1, <3>2, <3>3 DEF ShedBound, ProducerTypeOK
  <2>5. CASE Backoff(p)
    <3>1. /\ pc[p] = "backoff" /\ (pc'[p] = "idle" \/ call'[p] = call[p])
          /\ UNCHANGED <<circuitOpen, writesOpen>>
          /\ \A q \in Publishers : q # p => pc'[q] = pc[q] /\ call'[q] = call[q]
      BY <2>5, GotoPc DEF Backoff, Go, ProducerTypeOK
    <3>. QED
      BY <3>1 DEF ShedBound
  <2>6. CASE FailLock(p)
    <3>1. CASE ShouldOpen
      <4>1. \A q \in Publishers : writesOpen'[q] = 0
        BY <2>6, <3>1 DEF FailLock
      <4>2. call' \in [Publishers -> PublishCalls]
        BY StepTypeOK, <1>1 DEF ProducerTypeOK
      <4>3. \A q \in Publishers : call'[q].attempt >= 0
        BY <4>2 DEF PublishCalls
      <4>. QED
        BY <4>1, <4>3 DEF ShedBound
    <3>2. CASE ~ShouldOpen
      <4>1. /\ circuitOpen' => circuitOpen
            /\ UNCHANGED writesOpen
            /\ pc'[p] = "idle"
            /\ \A q \in Publishers : q # p => pc'[q] = pc[q] /\ call'[q] = call[q]
        BY <2>6, <3>2, GotoPc, Zenon DEF FailLock
      <4>. QED
        BY <4>1 DEF ShedBound
    <3>. QED
      BY <3>1, <3>2
  <2>7. CASE /\ circuitOpen' => circuitOpen
             /\ UNCHANGED writesOpen
             /\ pc'[p] \notin {"write", "backoff"}
             /\ \A q \in Publishers : q # p => pc'[q] = pc[q] /\ call'[q] = call[q]
    BY <2>7 DEF ShedBound
  <2>8. (OkAdd(p) \/ OkStore(p) \/ OkCheck(p) \/ OkReset(p) \/ FailAdd(p)
          \/ FailStore(p) \/ FailCheck(p) \/ FailArm(p)) =>
             /\ circuitOpen' => circuitOpen
             /\ UNCHANGED writesOpen
             /\ pc'[p] \notin {"write", "backoff"}
             /\ \A q \in Publishers : q # p => pc'[q] = pc[q] /\ call'[q] = call[q]
    BY GotoPc DEF OkAdd, OkStore, OkCheck, OkReset, FailAdd, FailStore, FailCheck, FailArm
  <2>9. CASE OkLock(p)
    <3>1. circuitOpen' => circuitOpen
      BY <2>9, Zenon DEF OkLock
    <3>2. /\ UNCHANGED writesOpen
          /\ pc'[p] \notin {"write", "backoff"}
          /\ \A q \in Publishers : q # p => pc'[q] = pc[q] /\ call'[q] = call[q]
      BY <2>9, GotoPc DEF OkLock
    <3>. QED
      BY <2>7, <3>1, <3>2
  <2>. QED
    BY <1>1, <2>1, <2>2, <2>3, <2>4, <2>5, <2>6, <2>7, <2>8, <2>9 DEF Step
<1>2. CASE ResetBegin
  BY <1>2 DEF ResetBegin, ShedBound
<1>3. CASE TimerFire \/ ResetEnd \/ CloseWriter \/ CloseStopTimer \/ UNCHANGED producerVars
  BY <1>3, Zenon DEF TimerFire, ResetEnd, CloseWriter, CloseStopTimer, producerVars, callVars, ShedBound
<1>. QED
  BY <1>1, <1>2, <1>3 DEF ProducerNext

\* An open circuit sheds load: no goroutine writes to Kafka more than
\* MaxRetries + 1 times before the circuit closes again.
THEOREM LoadShed == ProducerSpec => []OpenShedsLoad
<1>1. ProducerInit => ShedBound
  BY DEF ProducerInit, ShedBound
<1>2. ShedBound => OpenShedsLoad
  BY DEF ShedBound, OpenShedsLoad
<1>. QED
  BY <1>1, <1>2, TypeCorrect, NextShedBound, PTL DEF ProducerSpec

=============================================================================
