------------------------------ MODULE Producer ------------------------------
(***************************************************************************)
(* The Kafka producer of internal/infrastructure/kafka/producer.go: calls  *)
(* of Publish and PublishBatch running concurrently (one goroutine per     *)
(* gRPC request), the retry loop, and the breaker built from two atomic    *)
(* counters, a flag under an RWMutex and a time.AfterFunc reset timer.     *)
(*                                                                         *)
(* One step is one atomic operation on a counter or one critical section.  *)
(* A section under RLock reads only the flag and one counter, so it is one *)
(* step; a section under Lock is split where another goroutine can touch a *)
(* counter in the middle of it, since the counters are not under the lock. *)
(***************************************************************************)
EXTENDS Integers, FiniteSets

CONSTANTS
  Publishers,   \* goroutines that call Publish or PublishBatch
  Events,       \* the events a call can carry
  MaxRetries,   \* kp.maxRetries
  Threshold,    \* kp.circuitBreakerThreshold
  MaxCount,     \* largest value of an atomic.Int32 counter
  MaxStale      \* bound: superseded reset callbacks waiting for the lock

ASSUME ProducerAssumption ==
  /\ MaxRetries \in Nat
  /\ Threshold \in Nat \ {0}
  /\ MaxCount \in Nat
  /\ Threshold <= MaxCount
  /\ MaxStale \in Nat \ {0}

VARIABLES
  pc,            \* where each goroutine is in Publish / PublishBatch
  call,          \* its locals: the events of the call that serialize and the
                 \* retry loop's attempt
  failureCount, successCount, circuitOpen,
  mu,            \* kp.mu is write-locked
  timer,         \* kp.circuitBreakerResetTimer: nil, armed, its callback started,
                 \* or stopped (its callback ran or will not)
  stale,         \* callbacks of superseded timers, waiting for kp.mu
  resetting,     \* a reset callback is inside its critical section
  writerClosed,  \* kp.writer is closed
  closer,        \* where Close is
  writesOpen     \* history: writes of each goroutine since the last opening

callVars    == <<pc, call>>
counterVars == <<failureCount, successCount>>
timerVars   == <<timer, stale, resetting>>
closeVars   == <<writerClosed, closer>>
producerVars == <<callVars, counterVars, circuitOpen, mu, timerVars, closeVars, writesOpen>>

PcValues == {"idle", "publish", "publishBatch", "write", "backoff",
             "okAdd", "okStore", "okCheck", "okLock", "okReset",
             "failAdd", "failStore", "failCheck", "failLock", "failArm"}

PublishCalls == [messages : SUBSET Events, attempt : 0 .. MaxRetries]

NoCall == [messages |-> {}, attempt |-> 0]

Counts == (-MaxCount - 1) .. MaxCount

\* atomic.Int32.Add(1): wraps around at the width of the counter.
Inc(n) == IF n = MaxCount THEN -MaxCount - 1 ELSE n + 1

ProducerTypeOK ==
  /\ pc \in [Publishers -> PcValues]
  /\ call \in [Publishers -> PublishCalls]
  /\ failureCount \in Counts
  /\ successCount \in Counts
  /\ circuitOpen \in BOOLEAN
  /\ mu \in BOOLEAN
  /\ timer \in {"none", "armed", "fired", "stopped"}
  /\ stale \in Nat
  /\ resetting \in BOOLEAN
  /\ writerClosed \in BOOLEAN
  /\ closer \in {"open", "stopTimer", "done", "failed"}
  /\ writesOpen \in [Publishers -> Nat]

ProducerInit ==
  /\ pc = [p \in Publishers |-> "idle"]
  /\ call = [p \in Publishers |-> NoCall]
  /\ failureCount = 0
  /\ successCount = 0
  /\ circuitOpen = FALSE
  /\ mu = FALSE
  /\ timer = "none"
  /\ stale = 0
  /\ resetting = FALSE
  /\ writerClosed = FALSE
  /\ closer = "open"
  /\ writesOpen = [p \in Publishers |-> 0]

\* Control of p moves from one point to another; "idle" is the return of the
\* call, and its locals go with it.
Go(p, from, to) ==
  /\ pc[p] = from
  /\ pc' = [pc EXCEPT ![p] = to]
  /\ call' = [call EXCEPT ![p] = IF to = "idle" THEN NoCall ELSE @]

-----------------------------------------------------------------------------
(* Publish and PublishBatch *)

\* Entry of a call, of whose events the set good serializes.
Begin(p, good, to) ==
  /\ pc[p] = "idle"
  /\ pc' = [pc EXCEPT ![p] = to]
  /\ call' = [call EXCEPT ![p].messages = good]
  /\ UNCHANGED <<counterVars, circuitOpen, mu, timerVars, closeVars, writesOpen>>

\* Publish(event), with an event that is not nil.
Publish(p) ==
  \E e \in Events : \E good \in SUBSET {e} : Begin(p, good, "publish")

\* PublishBatch(events), with a slice that is not empty.
PublishBatch(p) ==
  \E S \in (SUBSET Events) \ {{}} : \E good \in SUBSET S : Begin(p, good, "publishBatch")

CheckCircuitIgnored(p) ==
  /\ ~mu
  /\ \/ Go(p, "publish", "write")
     \/ Go(p, "publishBatch", "write")
  /\ UNCHANGED <<counterVars, circuitOpen, mu, timerVars, closeVars, writesOpen>>

\* The circuit check under RLock, then serialization, which is local.  Publish
\* records a failure when its event does not serialize; PublishBatch skips such
\* events, and fails without recording anything when none is left.
CheckCircuit(p) ==
  /\ ~mu
  /\ \/ Go(p, "publish", IF circuitOpen THEN "idle"
                            ELSE IF call[p].messages = {} THEN "failAdd" ELSE "write")
     \/ Go(p, "publishBatch", IF circuitOpen \/ call[p].messages = {}
                                THEN "idle" ELSE "write")
  /\ UNCHANGED <<counterVars, circuitOpen, mu, timerVars, closeVars, writesOpen>>

\* A WriteMessages that succeeds: every message is acknowledged by all
\* replicas.  A closed writer fails every call.
WriteOk(p) ==
  /\ ~writerClosed
  /\ Go(p, "write", "okAdd")
  /\ writesOpen' = [writesOpen EXCEPT ![p] = IF circuitOpen THEN @ + 1 ELSE @]
  /\ UNCHANGED <<counterVars, circuitOpen, mu, timerVars, closeVars>>

\* A WriteMessages that fails, whatever part of the batch reached the log.  The
\* loop goes round again, or records one failure for the whole call after the
\* last attempt.
WriteFail(p) ==
  /\ pc[p] = "write"
  /\ \/ /\ call[p].attempt < MaxRetries
        /\ call' = [call EXCEPT ![p].attempt = @ + 1]
        /\ pc' = [pc EXCEPT ![p] = "backoff"]
     \/ /\ call[p].attempt = MaxRetries
        /\ pc' = [pc EXCEPT ![p] = "failAdd"]
        /\ UNCHANGED call
  /\ writesOpen' = [writesOpen EXCEPT ![p] = IF circuitOpen THEN @ + 1 ELSE @]
  /\ UNCHANGED <<counterVars, circuitOpen, mu, timerVars, closeVars>>

\* The select before a retry: the backoff elapses, or the caller's context is
\* done and the call returns without recording a failure.
Backoff(p) ==
  /\ \/ Go(p, "backoff", "write")
     \/ Go(p, "backoff", "idle")
  /\ UNCHANGED <<counterVars, circuitOpen, mu, timerVars, closeVars, writesOpen>>

-----------------------------------------------------------------------------
(* recordSuccess *)

OkAdd(p) ==
  /\ Go(p, "okAdd", "okStore")
  /\ successCount' = Inc(successCount)
  /\ UNCHANGED <<failureCount, circuitOpen, mu, timerVars, closeVars, writesOpen>>

OkStore(p) ==
  /\ Go(p, "okStore", "okCheck")
  /\ failureCount' = 0
  /\ UNCHANGED <<successCount, circuitOpen, mu, timerVars, closeVars, writesOpen>>

\* The condition of both checks of recordSuccess.
ShouldClose == circuitOpen /\ successCount >= Threshold

OkCheck(p) ==
  /\ ~mu
  /\ Go(p, "okCheck", IF ShouldClose THEN "okLock" ELSE "idle")
  /\ UNCHANGED <<counterVars, circuitOpen, mu, timerVars, closeVars, writesOpen>>

\* Lock and check again.  The reset timer is left running.
OkLock(p) ==
  /\ ~mu
  /\ Go(p, "okLock", IF ShouldClose THEN "okReset" ELSE "idle")
  /\ mu' = ShouldClose
  /\ circuitOpen' = (circuitOpen /\ ~ShouldClose)
  /\ UNCHANGED <<counterVars, timerVars, closeVars, writesOpen>>

OkReset(p) ==
  /\ Go(p, "okReset", "idle")
  /\ successCount' = 0
  /\ mu' = FALSE
  /\ UNCHANGED <<failureCount, circuitOpen, timerVars, closeVars, writesOpen>>

-----------------------------------------------------------------------------
(* recordFailure *)

FailAdd(p) ==
  /\ Go(p, "failAdd", "failStore")
  /\ failureCount' = Inc(failureCount)
  /\ UNCHANGED <<successCount, circuitOpen, mu, timerVars, closeVars, writesOpen>>

FailStore(p) ==
  /\ Go(p, "failStore", "failCheck")
  /\ successCount' = 0
  /\ UNCHANGED <<failureCount, circuitOpen, mu, timerVars, closeVars, writesOpen>>

ShouldOpenAfter == ~circuitOpen /\ failureCount > Threshold

\* The condition of both checks of recordFailure.
ShouldOpen == ~circuitOpen /\ failureCount >= Threshold

FailCheck(p) ==
  /\ ~mu
  /\ Go(p, "failCheck", IF ShouldOpen THEN "failLock" ELSE "idle")
  /\ UNCHANGED <<counterVars, circuitOpen, mu, timerVars, closeVars, writesOpen>>

\* Lock and check again; the opening starts the count of writes let through.
FailLock(p) ==
  /\ ~mu
  /\ Go(p, "failLock", IF ShouldOpen THEN "failArm" ELSE "idle")
  /\ mu' = ShouldOpen
  /\ circuitOpen' = (circuitOpen \/ ShouldOpen)
  /\ writesOpen' = IF ShouldOpen THEN [q \in Publishers |-> 0] ELSE writesOpen
  /\ UNCHANGED <<counterVars, timerVars, closeVars>>

FailArmOnce(p) ==
  /\ Go(p, "failArm", "idle")
  /\ failureCount' = 0
  /\ timer' = IF timer = "none" THEN "armed" ELSE timer
  /\ mu' = FALSE
  /\ UNCHANGED <<successCount, circuitOpen, stale, resetting, closeVars, writesOpen>>

\* Clear the failures, stop the previous timer and arm a new one.  Stop does
\* nothing to a timer whose callback already runs: that callback is now stale.
FailArm(p) ==
  /\ Go(p, "failArm", "idle")
  /\ failureCount' = 0
  /\ timer' = "armed"
  /\ stale' = IF timer = "fired" THEN stale + 1 ELSE stale
  /\ mu' = FALSE
  /\ UNCHANGED <<successCount, circuitOpen, resetting, closeVars, writesOpen>>

-----------------------------------------------------------------------------
(* The reset timer *)

\* The 30 seconds are over: the callback's goroutine starts.
TimerFire ==
  /\ timer = "armed"
  /\ stale < MaxStale
  /\ timer' = "fired"
  /\ UNCHANGED <<callVars, counterVars, circuitOpen, mu, stale, resetting, closeVars,
                 writesOpen>>

\* A callback, of the current timer or of a superseded one, takes the lock.
ResetBegin ==
  /\ ~mu
  /\ \/ timer = "fired" /\ timer' = "stopped" /\ UNCHANGED stale
     \/ stale > 0 /\ stale' = stale - 1 /\ UNCHANGED timer
  /\ mu' = TRUE
  /\ resetting' = TRUE
  /\ circuitOpen' = FALSE
  /\ failureCount' = 0
  /\ UNCHANGED <<callVars, successCount, closeVars, writesOpen>>

ResetEnd ==
  /\ resetting
  /\ resetting' = FALSE
  /\ successCount' = 0
  /\ mu' = FALSE
  /\ UNCHANGED <<callVars, failureCount, circuitOpen, timer, stale, closeVars, writesOpen>>

-----------------------------------------------------------------------------
(* Close *)

\* writer.Close: an error returns before the timer is stopped, and says
\* nothing about the writer's state.
CloseWriter ==
  /\ closer = "open"
  /\ \/ closer' = "stopTimer" /\ writerClosed' = TRUE
     \/ closer' = "failed" /\ writerClosed' \in BOOLEAN
  /\ UNCHANGED <<callVars, counterVars, circuitOpen, mu, timerVars, writesOpen>>

CloseStopTimer ==
  /\ closer = "stopTimer"
  /\ ~mu
  /\ closer' = "done"
  /\ timer' = IF timer = "armed" THEN "stopped" ELSE timer
  /\ UNCHANGED <<callVars, counterVars, circuitOpen, mu, stale, resetting, writerClosed,
                 writesOpen>>

-----------------------------------------------------------------------------
Step(p) ==
  \/ Publish(p) \/ PublishBatch(p) \/ CheckCircuit(p)
  \/ WriteOk(p) \/ WriteFail(p) \/ Backoff(p)
  \/ OkAdd(p) \/ OkStore(p) \/ OkCheck(p) \/ OkLock(p) \/ OkReset(p)
  \/ FailAdd(p) \/ FailStore(p) \/ FailCheck(p) \/ FailLock(p) \/ FailArm(p)

ProducerNext ==
  \/ \E p \in Publishers : Step(p)
  \/ TimerFire \/ ResetBegin \/ ResetEnd
  \/ CloseWriter \/ CloseStopTimer

\* A goroutine that holds the lock leaves its critical section (it makes no
\* blocking call there), the runtime fires an armed timer, and sync.RWMutex
\* hands the lock to a waiting writer in the end (its starvation guarantee).
\* Nothing is assumed of clients, of Kafka or of the publishers' progress.
ProducerFairness ==
  /\ \A p \in Publishers : WF_producerVars(OkReset(p)) /\ WF_producerVars(FailArm(p))
  /\ WF_producerVars(TimerFire)
  /\ SF_producerVars(ResetBegin)
  /\ WF_producerVars(ResetEnd)

ProducerSpec == ProducerInit /\ [][ProducerNext]_producerVars

ProducerFairSpec == ProducerSpec /\ ProducerFairness

-----------------------------------------------------------------------------
(* Properties *)

\* The goroutines inside recordFailure that have counted their failure and not
\* yet made the check under the lock.
Tripping == {p \in Publishers : pc[p] \in {"failStore", "failCheck", "failLock"}}

\* The goroutines inside recordSuccess that are about to clear failureCount.
Clearing == {p \in Publishers : pc[p] = "okStore"}

\* recordFailure never loses a trip: Threshold counted failures with the circuit
\* still closed are there only while some goroutine is on its way to open it
\* (or a success that is about to clear the count is in progress), whatever way
\* the unlocked counter updates of concurrent calls interleave.
NoLostTrip ==
  (~circuitOpen /\ failureCount >= Threshold) => (Tripping \cup Clearing # {})

\* An open circuit always has a way back: the reset timer of recordFailure is
\* armed, or a callback that will close the circuit is waiting for the lock, or
\* the goroutine that opened it is about to arm the timer.  Only Close, which
\* stops the timer, leaves a circuit open for good.
OpenHasReset ==
  circuitOpen => \/ timer \in {"armed", "fired"}
                 \/ stale > 0
                 \/ \E p \in Publishers : pc[p] = "failArm"
                 \/ closer = "done"

\* An open circuit sheds load: from the moment recordFailure opens it, each
\* goroutine gets at most the writes of the one call that Publish or
\* PublishBatch had already let through, MaxRetries + 1 of them.
OpenShedsLoad ==
  circuitOpen => \A p \in Publishers : writesOpen[p] <= MaxRetries + 1

\* The circuit does not stay open: the timer armed by recordFailure, or a
\* success, closes it again unless the producer is closed first.
CircuitRecovers == circuitOpen ~> (~circuitOpen \/ closer = "done")

\* What the comment in recordFailure says: the reset is scheduled after 30
\* seconds.  So the callback that closes an open circuit is that of the timer
\* armed by this opening, never one left over from an earlier opening.
ResetByOwnTimer == [][stale' < stale => ~circuitOpen]_producerVars

=============================================================================
