-------------------------- MODULE SubscriptionProofs --------------------------
(***************************************************************************)
(* Proofs about the shared consumer, for any clients, channel capacities,  *)
(* log and number of restarts, with callers of Unsubscribe and the stop of *)
(* the process at once: one consumer at a time, commits that never run     *)
(* ahead of the hand-over nor move back, and streams that lose, repeat and *)
(* reorder nothing.                                                        *)
(***************************************************************************)
EXTENDS Subscription, SequenceTheorems, TLAPS

\* The program points between Consumer.Subscribe and the clearing of isRunning.
Running == LoopPcs \cup {"exit"}

Control ==
  /\ gpc \in [Clients -> GPcs]
  /\ isRunning \in BOOLEAN
  /\ SingleConsumer

\* The reader's positions follow one another, and the message in work is the last
\* that was fetched, which is not acknowledged before it was sent.
Positions ==
  /\ log \in Seq(Kinds)
  /\ committed \in Nat /\ acked \in Nat /\ next \in Nat
  /\ committed <= acked /\ acked <= next /\ next <= Len(log)
  /\ msg \in [Clients -> Nat]
  /\ \A c \in Clients : gpc[c] \in {"send", "commit"} => msg[c] = next
  /\ \A c \in Clients : gpc[c] = "send" => acked < next

\* Every accepted message up to the last that was fetched was handed over or given
\* up, but for the last while it is being sent.
Settled ==
  \A o \in 1 .. next : log[o] \in Accepted =>
    \/ o \in handed \cup forfeited
    \/ o = next /\ \E c \in Clients : gpc[c] = "send"

\* The inductive invariant.
IInv == Control /\ Positions /\ Settled

reader == <<log, committed, next, acked, msg, handed, forfeited>>

-----------------------------------------------------------------------------
LEMMA InitInv == ASSUME Init PROVE IInv
<1>1. Control
  BY Zenon DEF Init, Control, SingleConsumer, Consuming, GPcs, LoopPcs
<1>2. Positions
  BY DEF Init, Positions
<1>3. QED BY <1>1, <1>2 DEF Init, IInv, Settled

\* The goroutines are where they were, and so are the messages.
LEMMA QuietInv ==
  ASSUME IInv, UNCHANGED <<gpc, isRunning, owner>>, UNCHANGED reader
  PROVE  IInv'
BY Zenon DEF IInv, Control, SingleConsumer, Consuming, Positions, Settled, reader

\* A goroutine moves within the loop of consumeMessages, or outside it.
LEMMA GotoControl ==
  ASSUME Control, NEW c \in Clients, NEW from, NEW to \in GPcs, Goto(c, from, to),
         from \in Running <=> to \in Running, UNCHANGED <<isRunning, owner>>
  PROVE  Control'
<1>1. gpc' \in [Clients -> GPcs]
  BY Zenon DEF Goto, Control
<1>2. gpc[c] = from /\ gpc'[c] = to /\ \A d \in Clients \ {c} : gpc'[d] = gpc[d]
  BY Zenon DEF Goto, Control
<1>3. Consuming' = Consuming
  BY <1>2, Zenon DEF Consuming, Running
<1>4. QED BY <1>1, <1>3, Zenon DEF Control, SingleConsumer

\* It does so with no message in its hands.
LEMMA MoveInv ==
  ASSUME IInv, NEW c \in Clients, NEW from, NEW to \in GPcs, Goto(c, from, to),
         from \in Running <=> to \in Running, {from, to} \cap {"send", "commit"} = {},
         UNCHANGED <<isRunning, owner>>, UNCHANGED reader
  PROVE  IInv'
<1>1. Control'
  BY GotoControl, Zenon DEF IInv
<1>2. /\ gpc[c] = from /\ gpc'[c] = to /\ \A d \in Clients \ {c} : gpc'[d] = gpc[d]
      /\ from \notin {"send", "commit"} /\ to \notin {"send", "commit"}
  BY Zenon DEF IInv, Control, Goto
<1>3. Positions'
  BY <1>2, Zenon DEF IInv, Positions, reader
<1>4. Settled'
  BY <1>2, Zenon DEF IInv, Settled, reader
<1>5. QED BY <1>1, <1>3, <1>4, Zenon DEF IInv

-----------------------------------------------------------------------------
(* Kafka *)

LEMMA ProduceInv == ASSUME IInv, Produce PROVE IInv'
<1>1. PICK k \in Kinds : log' = Append(log, k)
  BY Zenon DEF Produce
<1>2. /\ UNCHANGED <<committed, next, acked, msg, handed, forfeited>>
      /\ UNCHANGED <<gpc, isRunning, owner>>
  BY Zenon DEF Produce, readerVars, consumerVars, histVars
<1>3. /\ log' \in Seq(Kinds) /\ Len(log') = Len(log) + 1
      /\ \A o \in 1 .. next : log'[o] = log[o]
  BY <1>1 DEF IInv, Positions
<1>4. Control'
  BY <1>2, Zenon DEF IInv, Control, SingleConsumer, Consuming
<1>5. Positions'
  BY <1>2, <1>3 DEF IInv, Positions
<1>6. Settled'
  BY <1>2, <1>3, Zenon DEF IInv, Settled
<1>7. QED BY <1>4, <1>5, <1>6, Zenon DEF IInv

\* The offset that the broker gets is that which was acknowledged, or none.
LEMMA CommitInv ==
  ASSUME IInv, committed' \in {committed, acked},
         UNCHANGED <<log, next, acked, msg, handed, forfeited>>,
         UNCHANGED <<gpc, isRunning, owner>>
  PROVE  IInv'
<1>1. Control'
  BY Zenon DEF IInv, Control, SingleConsumer, Consuming
<1>2. Positions'
  BY DEF IInv, Positions
<1>3. Settled'
  BY Zenon DEF IInv, Settled
<1>4. QED BY <1>1, <1>2, <1>3, Zenon DEF IInv

-----------------------------------------------------------------------------
(* The goroutine of the consumer *)

LEMMA SubscribeInv ==
  ASSUME IInv, NEW c \in Clients, ConsumerSubscribe(c)
  PROVE  IInv'
<1>1. UNCHANGED reader
  BY Zenon DEF ConsumerSubscribe, kafkaVars, readerVars, reader
<1>2. CASE Goto(c, "subscribe", "rejected") /\ UNCHANGED <<isRunning, owner>>
  BY <1>1, <1>2, MoveInv, Zenon DEF GPcs, LoopPcs, Running
<1>3. CASE ~isRunning /\ Goto(c, "subscribe", "loop") /\ isRunning' = TRUE /\ owner' = c
  <2>1. /\ gpc' \in [Clients -> GPcs]
        /\ gpc[c] = "subscribe" /\ gpc'[c] = "loop" /\ \A d \in Clients \ {c} : gpc'[d] = gpc[d]
    BY <1>3, Zenon DEF IInv, Control, Goto, GPcs, LoopPcs
  <2>2. Consuming = {}
    BY <1>3, Zenon DEF IInv, Control, SingleConsumer
  <2>3. Consuming' = {c}
    BY <2>1, <2>2, Zenon DEF Consuming, LoopPcs
  <2>4. Control'
    BY <1>3, <2>1, <2>3, Zenon DEF Control, SingleConsumer
  <2>5. Positions' /\ Settled'
    BY <1>1, <2>1, Zenon DEF IInv, Positions, Settled, reader
  <2>6. QED BY <2>4, <2>5, Zenon DEF IInv
<1>4. QED BY <1>2, <1>3, Zenon DEF ConsumerSubscribe

\* The next message is fetched, by the only consumer.
LEMMA FetchInv ==
  ASSUME IInv, NEW c \in Clients, FetchOk(c)
  PROVE  IInv'
<1> DEFINE to == IF log[next + 1] \in Accepted THEN "send" ELSE "commit"
<1>1. /\ next < Len(log) /\ next' = next + 1 /\ msg' = [msg EXCEPT ![c] = next + 1]
      /\ Goto(c, "fetch", to)
      /\ UNCHANGED <<log, committed, acked, handed, forfeited>> /\ UNCHANGED <<isRunning, owner>>
  BY Zenon DEF FetchOk, kafkaVars, histVars
<1>2. to \in {"send", "commit"}
  OBVIOUS
<1>3. Control'
  <2> HIDE DEF to
  <2>1. QED BY <1>1, <1>2, GotoControl, Zenon DEF IInv, GPcs, LoopPcs, Running
<1>4. /\ gpc[c] = "fetch" /\ gpc'[c] = to
      /\ \A d \in Clients \ {c} : gpc'[d] = gpc[d] /\ gpc[d] \notin {"send", "commit"}
  <2>1. gpc[c] = "fetch" /\ gpc'[c] = to /\ \A d \in Clients \ {c} : gpc'[d] = gpc[d]
    BY <1>1, Zenon DEF IInv, Control, Goto
  <2>2. \A d \in Clients \ {c} : gpc[d] \notin {"send", "commit"}
    BY <2>1, Zenon DEF IInv, Control, SingleConsumer, Consuming, LoopPcs
  <2>3. QED BY <2>1, <2>2, Zenon
<1>5. Positions'
  <2>1. /\ committed \in Nat /\ acked \in Nat /\ next' \in Nat
        /\ committed <= acked /\ acked < next' /\ next' <= Len(log) /\ log \in Seq(Kinds)
    BY <1>1 DEF IInv, Positions
  <2>2. /\ msg' \in [Clients -> Nat] /\ msg'[c] = next'
    BY <1>1 DEF IInv, Positions
  <2>3. QED BY <1>1, <1>4, <2>1, <2>2 DEF Positions
<1>6. Settled'
  <2> SUFFICES ASSUME NEW o \in 1 .. next', log[o] \in Accepted
               PROVE  \/ o \in handed \cup forfeited
                      \/ o = next' /\ \E d \in Clients : gpc'[d] = "send"
    BY <1>1, Zenon DEF Settled
  <2>1. CASE o = next'
    BY <1>1, <1>4, <2>1, Zenon
  <2>2. CASE o # next'
    <3>1. o \in 1 .. next
      BY <1>1, <2>2 DEF IInv, Positions
    <3>2. \A d \in Clients : gpc[d] # "send"
      BY <1>4, Zenon
    <3>3. QED BY <3>1, <3>2, Zenon DEF IInv, Settled
  <2>3. QED BY <2>1, <2>2, Zenon
<1>7. QED BY <1>3, <1>5, <1>6, Zenon DEF IInv

\* The message is put in the event channel, or given up.
LEMMA SendInv ==
  ASSUME IInv, NEW c \in Clients, SendEvent(c)
  PROVE  IInv'
<1>1. UNCHANGED <<log, committed, next, acked>> /\ UNCHANGED <<isRunning, owner>>
  BY Zenon DEF SendEvent, kafkaVars, readerVars
<1>2. PICK to \in {"loop", "commit"} :
        /\ Goto(c, "send", to)
        /\ handed' \cup forfeited' = handed \cup forfeited \cup {msg[c]}
        /\ to = "commit" => msg' = msg
        /\ to = "loop" => msg' = [msg EXCEPT ![c] = 0]
  BY Zenon DEF SendEvent
<1>3. Control'
  BY <1>1, <1>2, GotoControl, Zenon DEF IInv, GPcs, LoopPcs, Running
<1>4. gpc[c] = "send" /\ gpc'[c] = to /\ \A d \in Clients \ {c} : gpc'[d] = gpc[d]
  BY <1>2, Zenon DEF IInv, Control, Goto
<1>5. msg[c] = next /\ msg' \in [Clients -> Nat] /\ \A d \in Clients \ {c} : msg'[d] = msg[d]
  BY <1>2, <1>4 DEF IInv, Positions
<1>6. to = "commit" => msg'[c] = next
  BY <1>2, <1>5, Zenon
<1>7. Positions'
  BY <1>1, <1>4, <1>5, <1>6, Zenon DEF IInv, Positions
<1>8. Settled'
  BY <1>1, <1>2, <1>5, Zenon DEF IInv, Settled
<1>9. QED BY <1>3, <1>7, <1>8, Zenon DEF IInv

\* The message in work is the last that was fetched, so the acknowledged position
\* moves on.
LEMMA CommitMessageInv ==
  ASSUME IInv, NEW c \in Clients, CommitMessage(c)
  PROVE  IInv'
<1>1. /\ UNCHANGED <<log, committed, next, handed, forfeited>> /\ UNCHANGED <<isRunning, owner>>
      /\ Goto(c, "commit", "loop") /\ acked' \in {acked, msg[c]}
      /\ msg' = [msg EXCEPT ![c] = 0]
  BY Zenon DEF CommitMessage, kafkaVars, histVars
<1>2. Control'
  BY <1>1, GotoControl, Zenon DEF IInv, GPcs, LoopPcs, Running
<1>3. gpc[c] = "commit" /\ gpc'[c] = "loop" /\ \A d \in Clients \ {c} : gpc'[d] = gpc[d]
  BY <1>1, Zenon DEF IInv, Control, Goto
<1>4. \A d \in Clients : gpc[d] # "send"
  BY <1>3, Zenon DEF IInv, Control, SingleConsumer, Consuming, LoopPcs
<1>5. /\ msg[c] = next /\ msg' \in [Clients -> Nat]
      /\ \A d \in Clients \ {c} : msg'[d] = msg[d]
  BY <1>1, <1>3, Zenon DEF IInv, Positions
<1>6. Positions'
  BY <1>1, <1>3, <1>4, <1>5 DEF IInv, Positions
<1>7. Settled'
  BY <1>1, <1>4, Zenon DEF IInv, Settled
<1>8. QED BY <1>2, <1>6, <1>7, Zenon DEF IInv

LEMMA ClearInv ==
  ASSUME IInv, NEW c \in Clients, ClearRunning(c)
  PROVE  IInv'
<1>1. Goto(c, "exit", "done") /\ isRunning' = FALSE /\ UNCHANGED owner /\ UNCHANGED reader
  BY Zenon DEF ClearRunning, kafkaVars, readerVars, histVars, reader
<1>2. /\ gpc' \in [Clients -> GPcs]
      /\ gpc[c] = "exit" /\ gpc'[c] = "done" /\ \A d \in Clients \ {c} : gpc'[d] = gpc[d]
  BY <1>1, Zenon DEF IInv, Control, Goto, GPcs
<1>3. Consuming \subseteq {c}
  BY <1>2, Zenon DEF IInv, Control, SingleConsumer, Consuming
<1>4. Consuming' = {}
  BY <1>2, <1>3, Zenon DEF Consuming, LoopPcs
<1>5. Control'
  BY <1>1, <1>2, <1>4, Zenon DEF Control, SingleConsumer
<1>6. Positions' /\ Settled'
  BY <1>1, <1>2, Zenon DEF IInv, Positions, Settled, reader
<1>7. QED BY <1>5, <1>6, Zenon DEF IInv

LEMMA ConsumerInv ==
  ASSUME IInv, NEW c \in Clients, ConsumerStep(c)
  PROVE  IInv'
<1>1. CASE ConsumeMessages(c) \/ FetchCanceled(c)
  <2>1. PICK from \in {"loop", "fetch"}, to \in {"loop", "fetch", "exit"} : Move(c, from, to)
    BY <1>1, Zenon DEF ConsumeMessages, FetchCanceled
  <2>2. Goto(c, from, to) /\ UNCHANGED <<isRunning, owner>> /\ UNCHANGED reader
    BY <2>1, Zenon DEF Move, kafkaVars, readerVars, histVars, reader
  <2>3. QED BY <2>2, MoveInv, Zenon DEF GPcs, LoopPcs, Running
<1>2. CASE FetchFail(c)
  <2>1. Goto(c, "fetch", "fetchErr") /\ UNCHANGED <<isRunning, owner>> /\ UNCHANGED reader
    BY <1>2, Zenon DEF FetchFail, kafkaVars, readerVars, histVars, reader
  <2>2. QED BY <2>1, MoveInv, Zenon DEF GPcs, LoopPcs, Running
<1>3. CASE HandleFetchError(c)
  <2>1. Goto(c, "fetchErr", "loop") /\ UNCHANGED <<isRunning, owner>> /\ UNCHANGED reader
    BY <1>3, Zenon DEF HandleFetchError, kafkaVars, readerVars, histVars, reader
  <2>2. QED BY <2>1, MoveInv, Zenon DEF GPcs, LoopPcs, Running
<1>4. QED BY <1>1, <1>2, <1>3, SubscribeInv, FetchInv, SendInv, CommitMessageInv, ClearInv, Zenon
          DEF ConsumerStep

-----------------------------------------------------------------------------
(* The service, the clients and the process *)

LEMMA ClientInv ==
  ASSUME IInv, NEW c \in Clients, ClientStep(c) \/ ServiceStep(c)
  PROVE  IInv'
<1>1. CASE SubscribeEvents(c)
  <2>1. Goto(c, "none", "subscribe") /\ UNCHANGED <<isRunning, owner>> /\ UNCHANGED reader
    BY <1>1, Zenon DEF SubscribeEvents, ServiceSubscribe, AdapterSubscribe, kafkaVars, readerVars,
                histVars, reader
  <2>2. QED BY <2>1, MoveInv, Zenon DEF GPcs, LoopPcs, Running
<1>2. CASE StreamSend(c) \/ StreamEnd(c) \/ ServiceStep(c)
  <2>1. UNCHANGED <<gpc, isRunning, owner>> /\ UNCHANGED reader
    BY <1>2, Zenon DEF StreamSend, StreamEnd, ServiceStep, ForwardRecv, ForwardSend, ForwardStop,
                kafkaVars, readerVars, consumerVars, histVars, reader
  <2>2. QED BY <2>1, QuietInv, Zenon
<1>3. QED BY <1>1, <1>2, Zenon DEF ClientStep

\* A new reader starts after the committed offset, before which all is settled, or
\* gives up what it skips.
LEMMA RestartInv == ASSUME IInv, Restart PROVE IInv'
<1>1. /\ next' = StartOffset /\ acked' = committed /\ UNCHANGED <<log, committed, handed>>
      /\ forfeited' = forfeited \cup {o \in 1 .. StartOffset : o > committed}
      /\ isRunning' = FALSE /\ gpc' = [c \in Clients |-> "none"]
      /\ msg' = [c \in Clients |-> 0]
  BY Zenon DEF Restart, kafkaVars
<1>2. StartOffset \in Nat /\ committed <= StartOffset /\ StartOffset <= Len(log)
  BY DEF IInv, Positions, StartOffset
<1>3. Control'
  BY <1>1, Zenon DEF Control, SingleConsumer, Consuming, GPcs, LoopPcs
<1>4. Positions'
  BY <1>1, <1>2 DEF IInv, Positions
<1>5. \A o \in 1 .. committed : log[o] \in Accepted => o \in handed \cup forfeited
  BY DEF IInv, Positions, Settled
<1>6. Settled'
  <2> SUFFICES ASSUME NEW o \in 1 .. StartOffset, log[o] \in Accepted
               PROVE  o \in handed \cup forfeited'
    BY <1>1, Zenon DEF Settled
  <2>1. CASE o <= committed
    BY <1>1, <1>5, <2>1 DEF IInv, Positions
  <2>2. CASE ~(o <= committed)
    <3>1. o > committed
      BY <2>2 DEF IInv, Positions
    <3>2. QED BY <1>1, <3>1, Zenon
  <2>3. QED BY <2>1, <2>2, Zenon
<1>7. QED BY <1>3, <1>4, <1>6, Zenon DEF IInv

LEMMA UnsubscribeInv ==
  ASSUME IInv, NEW c, ConsumerUnsubscribe(c) \/ CloseReader(c) \/ Unsubscribe(c)
  PROVE  IInv'
<1>1. CASE ConsumerUnsubscribe(c) \/ Unsubscribe(c)
  <2>1. UNCHANGED <<gpc, isRunning, owner>> /\ UNCHANGED reader
    BY <1>1, Zenon DEF ConsumerUnsubscribe, Unsubscribe, kafkaVars, readerVars, consumerVars,
       histVars,
                reader
  <2>2. QED BY <2>1, QuietInv, Zenon
<1>2. CASE CloseReader(c)
  <2>1. /\ committed' \in {committed, acked}
        /\ UNCHANGED <<log, next, acked, msg, handed, forfeited>>
        /\ UNCHANGED <<gpc, isRunning, owner>>
    BY <1>2, Zenon DEF CloseReader, consumerVars, histVars
  <2>2. QED BY <2>1, CommitInv, Zenon
<1>3. QED BY <1>1, <1>2, Zenon

LEMMA NextInv == ASSUME IInv, [Next]_vars PROVE IInv'
<1>1. CASE CommitLoop
  <2>1. /\ committed' \in {committed, acked}
        /\ UNCHANGED <<log, next, acked, msg, handed, forfeited>>
        /\ UNCHANGED <<gpc, isRunning, owner>>
    BY <1>1, Zenon DEF CommitLoop, readerVars, consumerVars, histVars
  <2>2. QED BY <2>1, CommitInv, Zenon
<1>2. CASE Sigterm \/ GracefulStop \/ UNCHANGED vars
  <2>1. UNCHANGED <<gpc, isRunning, owner>> /\ UNCHANGED reader
    BY <1>2, Zenon DEF Sigterm, GracefulStop, vars, kafkaVars, readerVars, consumerVars,
       histVars, reader
  <2>2. QED BY <2>1, QuietInv, Zenon
<1>3. CASE Delivery
  BY <1>1, <1>3, ProduceInv, ClientInv, ConsumerInv, Zenon DEF Delivery
<1>4. QED BY <1>2, <1>3, RestartInv, UnsubscribeInv, Zenon DEF Next, GatewayNext, ServiceNext

-----------------------------------------------------------------------------
(* Theorems *)

\* The goroutines, the positions of the reader and what was handed over stay
\* consistent through Unsubscribe, failed fetches, SIGTERM, crashes and restarts.
THEOREM ConsumerInvariant == Spec => []IInv
<1>1. QED BY InitInv, NextInv, PTL DEF Spec

\* At most one goroutine uses the shared reader, with its own context, for any
\* number of clients.
THEOREM ConsumersExclusive == Spec => []SingleConsumer
<1>1. IInv => SingleConsumer
  BY Zenon DEF IInv, Control
<1>2. QED BY <1>1, ConsumerInvariant, PTL

\* No message is committed that was neither handed over nor given up.
THEOREM CommitsHandedOver == Spec => []CommittedHanded
<1>1. IInv => CommittedHanded
  BY DEF IInv, Positions, Settled, CommittedHanded
<1>2. QED BY <1>1, ConsumerInvariant, PTL

\* The offset at the broker moves only to what was acknowledged, which is ahead of
\* it: over restarts and consumers that succeed one another it never moves back.
THEOREM CommitsMonotone == Spec => CommitMonotone
<1>1. ASSUME IInv, [Next]_vars
      PROVE  [committed' >= committed]_vars
  <2>1. ASSUME NEW c \in Clients, ClientStep(c) \/ ServiceStep(c)
        PROVE  committed' = committed
    BY <2>1, Zenon DEF ClientStep, SubscribeEvents, StreamSend, StreamEnd, ServiceStep, ForwardRecv,
                ForwardSend, ForwardStop, kafkaVars
  <2>2. ASSUME NEW c \in Clients, ConsumerStep(c)
        PROVE  committed' = committed
    BY <2>2, Zenon DEF ConsumerStep, ConsumerSubscribe, ConsumeMessages, Move, FetchOk,
       FetchCanceled,
                FetchFail, HandleFetchError, SendEvent, CommitMessage, ClearRunning, kafkaVars
  <2>3. ASSUME NEW c, Unsubscribe(c) \/ ConsumerUnsubscribe(c) \/ CloseReader(c)
        PROVE  committed' \in {committed, acked}
    BY <2>3, Zenon DEF Unsubscribe, ConsumerUnsubscribe, CloseReader, kafkaVars
  <2>4. ASSUME Produce \/ CommitLoop \/ Sigterm \/ GracefulStop \/ Restart
        PROVE  committed' \in {committed, acked}
    BY <2>4, Zenon DEF Produce, CommitLoop, Sigterm, GracefulStop, Restart, kafkaVars
  <2>5. ASSUME committed' \in {committed, acked}
        PROVE  committed' >= committed
    BY <1>1, <2>5 DEF IInv, Positions
  <2>6. Next => committed' >= committed
    <3>1. Delivery => committed' >= committed
      BY <2>1, <2>2, <2>4, <2>5, Zenon DEF Delivery
    <3>2. QED BY <2>3, <2>4, <2>5, <3>1, Zenon DEF Next, GatewayNext, ServiceNext
  <2>7. QED BY <1>1, <2>6, Zenon
<1>2. QED BY <1>1, ConsumerInvariant, PTL DEF Spec, CommitMonotone

-----------------------------------------------------------------------------
(* From the log to the client *)

\* Lists, of a given log.
ListsOf(l, s, from, to) ==
  /\ Range(s) = {o \in (from + 1) .. to : l[o] \in Accepted}
  /\ \A i, j \in 1 .. Len(s) : i < j => s[i] < s[j]

\* What has reached c or is on its way to it, in this order.
Sent(c)   == received[c] \o out[c]
Queued(c) == Sent(c) \o held[c] \o eventChan[c]
Flow(c)   == Queued(c) \o Sending(c)

\* The goroutine of c is at the head of its loop, or out of it, with its context
\* done: it may have given a message up, and fetches no other one.
Leaving(c) ==
  /\ c \in cancelled \/ client[c] # "connected"
  /\ gpc[c] \in {"loop", "exit"}

\* The path of a client: what it was sent is listed up to some position, and so is
\* what is queued behind it until forwardEvents stops; while its consumer runs, all
\* that was fetched is on the path.
Path(c) ==
  /\ \E to \in start[c] .. Len(log) : ListsOf(log, Sent(c), start[c], to)
  /\ fwd[c] # "closed" =>
       \E to \in start[c] .. Len(log) : ListsOf(log, Queued(c), start[c], to)
  /\ gpc[c] \in Running /\ fwd[c] # "closed" /\ ~Leaving(c) =>
       start[c] <= next /\ ListsOf(log, Flow(c), start[c], next)

\* A client that has not got a consumer yet has an empty path, forwardEvents has an
\* event in hand only while it sends it, and stops only when it is told to.
Fresh(c) ==
  /\ client[c] = "idle" => gpc[c] = "none"
  /\ client[c] = "idle" \/ gpc[c] = "subscribe" =>
       received[c] = <<>> /\ out[c] = <<>> /\ held[c] = <<>> /\ eventChan[c] = <<>>
  /\ fwd[c] # "send" => held[c] = <<>>
  /\ fwd[c] = "closed" => c \in subCancelled

PathType ==
  /\ received \in [Clients -> Seq(Nat)] /\ out \in [Clients -> Seq(Nat)]
  /\ held \in [Clients -> Seq(Nat)] /\ eventChan \in [Clients -> Seq(Nat)]
  /\ start \in [Clients -> Nat]
  /\ fwd \in [Clients -> {"none", "recv", "send", "closed"}]
  /\ client \in [Clients -> {"idle", "connected", "gone"}]

\* The inductive invariant of the delivery.
DInv == IInv /\ PathType /\ \A c \in Clients : Path(c) /\ Fresh(c)

-----------------------------------------------------------------------------
(* Listed messages *)

LEMMA Between ==
  ASSUME NEW a \in Nat, NEW b \in Nat, NEW x \in a .. b
  PROVE  x \in Nat /\ a <= x /\ x <= b
OBVIOUS

LEMMA Within ==
  ASSUME NEW a \in Nat, NEW b \in Nat, NEW e \in Nat, b <= e, NEW x \in a .. b
  PROVE  x \in a .. e
OBVIOUS

LEMMA ListsEmpty ==
  ASSUME NEW l, NEW from \in Nat
  PROVE  ListsOf(l, <<>>, from, from)
<1>1. Range(<<>>) = {}
  BY DEF Range
<1>2. (from + 1) .. from = {}
  OBVIOUS
<1>3. QED BY <1>1, <1>2 DEF ListsOf

\* The beginning of a list is a list, up to its own last message.
LEMMA ListsPrefix ==
  ASSUME NEW l, NEW p \in Seq(Nat), NEW q \in Seq(Nat), NEW from \in Nat, NEW to \in Nat,
         from <= to, ListsOf(l, p \o q, from, to)
  PROVE  \E t \in from .. to : ListsOf(l, p, from, t)
<1>1. /\ p \o q \in Seq(Nat) /\ Len(p \o q) = Len(p) + Len(q)
      /\ Len(p) \in Nat /\ Len(q) \in Nat
      /\ \A i \in 1 .. Len(p) : i \in 1 .. Len(p \o q) /\ (p \o q)[i] = p[i]
  BY ConcatProperties, LenProperties
<1>2. /\ Range(p) = {p[i] : i \in 1 .. Len(p)}
      /\ Range(p \o q) = {(p \o q)[i] : i \in 1 .. Len(p \o q)}
  BY <1>1, LenProperties, Zenon DEF Range
<1>3. /\ Range(p \o q) = {o \in (from + 1) .. to : l[o] \in Accepted}
      /\ \A i, j \in 1 .. Len(p \o q) : i < j => (p \o q)[i] < (p \o q)[j]
  BY Zenon DEF ListsOf
<1>4. \A i, j \in 1 .. Len(p) : i < j => p[i] < p[j]
  BY <1>1, <1>3, Zenon
<1>5. CASE p = <<>>
  BY <1>5, ListsEmpty
<1>6. CASE p # <<>>
  <2>1. Len(p) >= 1 /\ Len(p) \in 1 .. Len(p)
    BY <1>1, <1>6, EmptySeq
  <2> DEFINE t == p[Len(p)]
  <2>2. t \in Range(p \o q) /\ t \in Nat
    BY <1>1, <1>2, <2>1, ElementOfSeq, Zenon
  <2>3. t \in from .. to
    BY <1>3, <2>2
  <2>4. ASSUME NEW i \in 1 .. Len(p)
        PROVE  p[i] \in {o \in (from + 1) .. t : l[o] \in Accepted}
    <3>1. p[i] \in (from + 1) .. to /\ l[p[i]] \in Accepted
      BY <1>1, <1>2, <1>3, Zenon
    <3>2. p[i] <= t
      <4>1. CASE i = Len(p)
        BY <3>1, <4>1
      <4>2. CASE i # Len(p)
        <5>1. i < Len(p)
          BY <1>1, <4>2
        <5>2. p[i] < p[Len(p)]
          BY <1>4, <2>1, <5>1, Zenon
        <5>3. QED BY <2>2, <3>1, <5>2
      <4>3. QED BY <4>1, <4>2, Zenon
    <3>3. QED BY <2>2, <3>1, <3>2
  <2>5. ASSUME NEW o \in (from + 1) .. t, l[o] \in Accepted
        PROVE  o \in Range(p)
    <3>1. o \in (from + 1) .. to
      BY <2>2, <2>3
    <3>2. PICK i \in 1 .. Len(p \o q) : o = (p \o q)[i]
      BY <1>2, <1>3, <2>5, <3>1, Zenon
    <3>3. CASE i <= Len(p)
      BY <1>1, <1>2, <3>2, <3>3
    <3>4. CASE ~(i <= Len(p))
      <4>1. Len(p) < i /\ Len(p) \in 1 .. Len(p \o q)
        BY <1>1, <2>1, <3>4
      <4>2. (p \o q)[Len(p)] < (p \o q)[i]
        BY <1>3, <4>1, Zenon
      <4>3. t < o
        BY <1>1, <2>1, <3>2, <4>2, Zenon
      <4>4. QED BY <2>2, <4>3
    <3>5. QED BY <3>3, <3>4, Zenon
  <2>6. Range(p) = {o \in (from + 1) .. t : l[o] \in Accepted}
    BY <1>2, <2>4, <2>5, Zenon
  <2>7. ListsOf(l, p, from, t)
    BY <1>4, <2>6, Zenon DEF ListsOf
  <2>8. QED BY <2>3, <2>7, Zenon
<1>7. QED BY <1>5, <1>6, Zenon

\* The next message of the log is added when it is accepted.
LEMMA ListsNext ==
  ASSUME NEW l, NEW s \in Seq(Nat), NEW from \in Nat, NEW to \in Nat, from <= to,
         ListsOf(l, s, from, to)
  PROVE  /\ l[to + 1] \notin Accepted => ListsOf(l, s, from, to + 1)
         /\ l[to + 1] \in Accepted => ListsOf(l, s \o <<to + 1>>, from, to + 1)
<1>1. (from + 1) .. (to + 1) = ((from + 1) .. to) \cup {to + 1}
  OBVIOUS
<1>2. /\ Range(s) = {o \in (from + 1) .. to : l[o] \in Accepted}
      /\ \A i, j \in 1 .. Len(s) : i < j => s[i] < s[j]
  BY Zenon DEF ListsOf
<1>3. CASE l[to + 1] \notin Accepted
  BY <1>1, <1>2, <1>3, Zenon DEF ListsOf
<1>4. CASE l[to + 1] \in Accepted
  <2> DEFINE w == <<to + 1>>
  <2>1. w \in Seq(Nat) /\ Len(w) = 1 /\ w[1] = to + 1 /\ Range(w) = {to + 1}
    <3>1. w \in Seq(Nat) /\ Len(w) = 1 /\ w[1] = to + 1 /\ DOMAIN w = {1}
      OBVIOUS
    <3>2. QED BY <3>1, Zenon DEF Range
  <2> HIDE DEF w
  <2>2. Range(s \o w) = Range(s) \cup {to + 1}
    BY <2>1, RangeConcatenation
  <2>3. Range(s \o w) = {o \in (from + 1) .. (to + 1) : l[o] \in Accepted}
    BY <1>1, <1>2, <1>4, <2>2, Zenon
  <2>4. /\ Len(s) \in Nat /\ Len(s \o w) = Len(s) + 1
        /\ \A i \in 1 .. Len(s) : (s \o w)[i] = s[i]
        /\ (s \o w)[Len(s) + 1] = to + 1
    <3>1. Len(s) \in Nat
      BY LenProperties, Zenon
    <3>2. /\ Len(s \o w) = Len(s) + Len(w)
          /\ \A i \in 1 .. Len(s) + Len(w) :
               (s \o w)[i] = IF i <= Len(s) THEN s[i] ELSE w[i - Len(s)]
      BY ONLY <2>1, s \in Seq(Nat), ConcatProperties, Zenon
    <3>3. /\ Len(s) + 1 \in 1 .. Len(s) + Len(w) /\ ~(Len(s) + 1 <= Len(s))
          /\ (Len(s) + 1) - Len(s) = 1
      BY ONLY <2>1, <3>1
    <3>4. QED BY <2>1, <3>1, <3>2, <3>3
  <2>5. \A i \in 1 .. Len(s) : s[i] \in Nat /\ s[i] <= to
    <3>1. \A i \in 1 .. Len(s) : s[i] \in Range(s)
      BY LenProperties, Zenon DEF Range
    <3>2. QED BY <1>2, <3>1
  <2>6. ASSUME NEW i \in 1 .. Len(s \o w), NEW j \in 1 .. Len(s \o w), i < j
        PROVE  (s \o w)[i] < (s \o w)[j]
    <3>1. i \in 1 .. Len(s)
      BY <2>4, <2>6
    <3>2. CASE j \in 1 .. Len(s)
      BY <1>2, <2>4, <2>6, <3>1, <3>2, Zenon
    <3>3. CASE j = Len(s) + 1
      BY <2>4, <2>5, <3>1, <3>3
    <3>4. QED BY <2>4, <3>2, <3>3
  <2>7. ListsOf(l, s \o w, from, to + 1)
    BY <2>3, <2>6, Zenon DEF ListsOf
  <2>8. QED BY <1>4, <2>7, Zenon DEF w
<1>5. QED BY <1>3, <1>4, Zenon

\* Putting sequences together one after the other.
LEMMA MoveAll ==
  ASSUME NEW a \in Seq(Nat), NEW b \in Seq(Nat), NEW e \in Seq(Nat)
  PROVE  (a \o b) \o e = a \o (b \o e)
<1>1. a \o b \in Seq(Nat) /\ b \o e \in Seq(Nat)
  BY ConcatProperties, Zenon
<1>2. (a \o b) \o e \in Seq(Nat) /\ a \o (b \o e) \in Seq(Nat)
  BY <1>1, ConcatProperties, Zenon
<1>3. Len((a \o b) \o e) = Len(a \o (b \o e))
  BY <1>1
<1>4. \A i \in 1 .. Len((a \o b) \o e) : ((a \o b) \o e)[i] = (a \o (b \o e))[i]
  BY <1>1
<1>5. QED BY <1>2, <1>3, <1>4, SeqEqual, Zenon

\* Moves along the path change neither what is on it nor its order.
LEMMA MoveHead ==
  ASSUME NEW a \in Seq(Nat), NEW b \in Seq(Nat), b # <<>>
  PROVE  /\ Append(a, Head(b)) \o Tail(b) = a \o b
         /\ (a \o <<Head(b)>>) \o Tail(b) = a \o b
         /\ Head(b) \in Nat /\ Tail(b) \in Seq(Nat)
<1>1. Head(b) \in Nat /\ Tail(b) \in Seq(Nat) /\ <<Head(b)>> \o Tail(b) = b
  BY HeadTailProperties, ConcatSimplifications
<1>2. <<Head(b)>> \in Seq(Nat)
  BY <1>1
<1>3. (a \o <<Head(b)>>) \o Tail(b) = a \o (<<Head(b)>> \o Tail(b))
  BY <1>1, <1>2, MoveAll, Zenon
<1>4. Append(a, Head(b)) = a \o <<Head(b)>>
  BY <1>1, AppendIsConcat, Zenon
<1>5. QED BY <1>1, <1>3, <1>4, Zenon

\* The pieces of the path are sequences of positions.
LEMMA PathSeqs ==
  ASSUME IInv, PathType, NEW c \in Clients
  PROVE  /\ received[c] \in Seq(Nat) /\ out[c] \in Seq(Nat)
         /\ held[c] \in Seq(Nat) /\ eventChan[c] \in Seq(Nat)
         /\ Sent(c) \in Seq(Nat) /\ Sent(c) \o held[c] \in Seq(Nat)
         /\ Queued(c) \in Seq(Nat)
         /\ Sending(c) \in Seq(Nat) /\ Flow(c) \in Seq(Nat)
         /\ start[c] \in Nat /\ next \in Nat /\ msg[c] \in Nat /\ Len(log) \in Nat
<1>1. /\ received[c] \in Seq(Nat) /\ out[c] \in Seq(Nat)
      /\ held[c] \in Seq(Nat) /\ eventChan[c] \in Seq(Nat) /\ start[c] \in Nat
  BY Zenon DEF PathType
<1>2. next \in Nat /\ msg[c] \in Nat /\ log \in Seq(Kinds)
  BY Zenon DEF IInv, Positions
<1>3. Sending(c) \in Seq(Nat)
  <2>1. msg[c] \in Nat
    BY <1>2, Zenon
  <2>2. <<msg[c]>> \in Seq(Nat) /\ <<>> \in Seq(Nat)
    BY ONLY <2>1
  <2>3. QED BY <2>2, Zenon DEF Sending
<1>4. Sent(c) \in Seq(Nat)
  BY <1>1, ConcatProperties, Zenon DEF Sent
<1>5. Sent(c) \o held[c] \in Seq(Nat)
  BY <1>1, <1>4, ConcatProperties, Zenon
<1>6. Queued(c) \in Seq(Nat)
  BY <1>1, <1>5, ConcatProperties, Zenon DEF Queued
<1>7. Flow(c) \in Seq(Nat)
  BY <1>3, <1>6, ConcatProperties, Zenon DEF Flow
<1>8. Len(log) \in Nat
  BY <1>2, LenProperties, Zenon
<1>9. QED BY <1>1, <1>2, <1>3, <1>4, <1>5, <1>6, <1>7, <1>8, Zenon

\* A step that moves nothing off the path of d nor onto it.
LEMMA PathCarried ==
  ASSUME NEW d \in Clients, Path(d), log' = log, start'[d] = start[d], Sent(d)' = Sent(d),
         fwd'[d] # "closed" => fwd[d] # "closed" /\ Queued(d)' = Queued(d),
         gpc'[d] \in Running /\ fwd'[d] # "closed" /\ ~Leaving(d)' =>
           gpc[d] \in Running /\ ~Leaving(d) /\ next' = next /\ Flow(d)' = Flow(d)
  PROVE  Path(d)'
<1>1. \E to \in start'[d] .. Len(log') : ListsOf(log', Sent(d)', start'[d], to)
  BY Zenon DEF Path
<1>2. ASSUME fwd'[d] # "closed"
      PROVE  \E to \in start'[d] .. Len(log') : ListsOf(log', Queued(d)', start'[d], to)
  BY <1>2, Zenon DEF Path
<1>3. ASSUME gpc'[d] \in Running, fwd'[d] # "closed", ~Leaving(d)'
      PROVE  start'[d] <= next' /\ ListsOf(log', Flow(d)', start'[d], next')
  BY <1>3, Zenon DEF Path
<1>4. QED BY <1>1, <1>2, <1>3, Zenon DEF Path

\* A step that leaves the client d alone.  Its context may end, and a consumer of
\* another client may fetch.
LEMMA PathUntouched ==
  ASSUME NEW d \in Clients, Path(d), Fresh(d),
         log' = log, start'[d] = start[d], received'[d] = received[d], out'[d] = out[d],
         held'[d] = held[d], eventChan'[d] = eventChan[d], fwd'[d] = fwd[d],
         gpc'[d] = gpc[d], msg'[d] = msg[d],
         client'[d] = client[d] \/ (client[d] = "connected" /\ client'[d] = "gone"),
         cancelled \subseteq cancelled', subCancelled \subseteq subCancelled',
         gpc[d] \in Running => next' = next
  PROVE  Path(d)' /\ Fresh(d)'
<1>1. Sent(d)' = Sent(d)
  BY Zenon DEF Sent
<1>2. Queued(d)' = Queued(d)
  BY <1>1, Zenon DEF Queued
<1>3. Sending(d)' = Sending(d)
  BY Zenon DEF Sending
<1>4. Flow(d)' = Flow(d)
  BY <1>2, <1>3, Zenon DEF Flow
<1>5. ~Leaving(d)' => ~Leaving(d)
  BY Zenon DEF Leaving
<1>6. Path(d)'
  BY <1>1, <1>2, <1>4, <1>5, PathCarried, Zenon
<1>7. Fresh(d)'
  BY Zenon DEF Fresh
<1>8. QED BY <1>6, <1>7, Zenon

\* A step of one client's handler, goroutines or consumer leaves the others alone.
LEMMA OtherPaths ==
  ASSUME DInv, NEW c \in Clients, ClientStep(c) \/ ConsumerStep(c) \/ ServiceStep(c),
         NEW d \in Clients, d # c
  PROVE  Path(d)' /\ Fresh(d)'
<1>1. IInv /\ PathType /\ Path(d) /\ Fresh(d)
  BY Zenon DEF DInv
<1>2. gpc \in [Clients -> GPcs] /\ msg \in [Clients -> Nat]
  BY <1>1, Zenon DEF IInv, Control, Positions
<1>3. CASE ClientStep(c) \/ ServiceStep(c)
  <2>1. /\ log' = log /\ next' = next /\ msg' = msg /\ start' = start
        /\ cancelled' = cancelled /\ subCancelled' = subCancelled
        /\ gpc'[d] = gpc[d] /\ client'[d] = client[d] /\ fwd'[d] = fwd[d]
        /\ received'[d] = received[d] /\ out'[d] = out[d]
        /\ held'[d] = held[d] /\ eventChan'[d] = eventChan[d]
    <3>1. CASE SubscribeEvents(c)
      BY <1>1, <1>2, <3>1, Zenon DEF SubscribeEvents, ServiceSubscribe, AdapterSubscribe, Goto,
         kafkaVars,
           readerVars, histVars, PathType
    <3>2. CASE StreamSend(c) \/ StreamEnd(c)
      BY <1>1, <3>2, Zenon DEF StreamSend, StreamEnd, kafkaVars, readerVars, consumerVars,
         serviceVars,
           histVars, PathType
    <3>3. CASE ServiceStep(c)
      BY <1>1, <3>3, Zenon DEF ServiceStep, ForwardRecv, ForwardSend, ForwardStop, kafkaVars,
         readerVars,
           consumerVars, clientVars, histVars, PathType
    <3>4. QED BY <1>3, <3>1, <3>2, <3>3, Zenon DEF ClientStep
  <2>2. msg'[d] = msg[d] /\ start'[d] = start[d]
        /\ cancelled \subseteq cancelled' /\ subCancelled \subseteq subCancelled'
    BY <2>1, Zenon
  <2>3. QED BY <1>1, <2>1, <2>2, PathUntouched, Zenon
<1>4. CASE ConsumerStep(c)
  <2>1. /\ UNCHANGED <<log, cancelled, out>> /\ UNCHANGED serviceVars /\ UNCHANGED clientVars
        /\ gpc'[d] = gpc[d] /\ msg'[d] = msg[d] /\ start'[d] = start[d]
        /\ eventChan'[d] = eventChan[d]
    BY <1>1, <1>2, <1>4, Zenon DEF ConsumerStep, ConsumerSubscribe, ConsumeMessages, Move, FetchOk,
         FetchCanceled, FetchFail, HandleFetchError, SendEvent, CommitMessage, ClearRunning, Goto,
         kafkaVars, histVars, PathType
  <2>2. gpc[d] \in Running => next' = next
    <3>1. CASE FetchOk(c)
      <4>1. gpc[c] = "fetch"
        BY <3>1, Zenon DEF FetchOk, Goto
      <4>2. QED BY <1>1, <4>1, Zenon DEF IInv, Control, SingleConsumer, Consuming, Running, LoopPcs
    <3>2. CASE ~FetchOk(c)
      BY <1>4, <3>2, Zenon DEF ConsumerStep, ConsumerSubscribe, ConsumeMessages, Move,
         FetchCanceled, FetchFail, HandleFetchError, SendEvent, CommitMessage, ClearRunning,
         readerVars
    <3>3. QED BY <3>1, <3>2, Zenon
  <2>3. /\ log' = log /\ received'[d] = received[d] /\ out'[d] = out[d] /\ held'[d] = held[d]
        /\ fwd'[d] = fwd[d] /\ client'[d] = client[d]
        /\ cancelled \subseteq cancelled' /\ subCancelled \subseteq subCancelled'
    BY <2>1, Zenon DEF serviceVars, clientVars
  <2>4. QED BY <1>1, <2>1, <2>2, <2>3, PathUntouched, Zenon
<1>5. QED BY <1>3, <1>4, Zenon

-----------------------------------------------------------------------------
(* The steps that move messages along the path of their client *)

\* The context of a running consumer is that of its client's stream.
LEMMA CtxOfOwner ==
  ASSUME IInv, NEW c \in Clients, gpc[c] \in Running
  PROVE  CtxDone <=> c \in cancelled \/ client[c] # "connected"
<1>1. owner = c
  BY Zenon DEF IInv, Control, SingleConsumer, Consuming, Running
<1>2. QED BY <1>1, Zenon DEF CtxDone

LEMMA ClientPath ==
  ASSUME DInv, NEW c \in Clients, ClientStep(c)
  PROVE  Path(c)' /\ Fresh(c)'
<1>1. IInv /\ PathType /\ Path(c) /\ Fresh(c)
  BY Zenon DEF DInv
<1>2. gpc \in [Clients -> GPcs]
  BY <1>1, Zenon DEF IInv, Control
<1>3. CASE SubscribeEvents(c)
  <2>1. /\ client[c] = "idle" /\ client'[c] = "connected" /\ gpc'[c] = "subscribe"
        /\ fwd'[c] = "recv" /\ log' = log /\ start' = start /\ received' = received
        /\ out' = out /\ held' = held /\ eventChan' = eventChan
    BY <1>1, <1>2, <1>3, Zenon DEF SubscribeEvents, ServiceSubscribe, AdapterSubscribe, Goto,
       kafkaVars,
         histVars, PathType
  <2>2. received[c] = <<>> /\ out[c] = <<>> /\ held[c] = <<>> /\ eventChan[c] = <<>>
    BY <1>1, <2>1, Zenon DEF Fresh
  <2>3. Sent(c)' = Sent(c)
    BY <2>1, Zenon DEF Sent
  <2>4. Queued(c)' = Sent(c)
    <3>1. Sent(c) \in Seq(Nat)
      BY <1>1, PathSeqs, Zenon
    <3>2. Sent(c) \o <<>> = Sent(c)
      BY <3>1, ConcatEmptySeq, Zenon
    <3>3. QED BY <2>1, <2>2, <2>3, <3>2, Zenon DEF Queued
  <2>5. gpc'[c] \notin Running
    BY <2>1, Zenon DEF Running, LoopPcs
  <2>6. \E to \in start'[c] .. Len(log') : ListsOf(log', Sent(c)', start'[c], to)
    BY <1>1, <2>1, <2>3, Zenon DEF Path
  <2>7. Path(c)'
    BY <2>3, <2>4, <2>5, <2>6, Zenon DEF Path
  <2>8. Fresh(c)'
    BY <2>1, <2>2, Zenon DEF Fresh
  <2>9. QED BY <2>7, <2>8, Zenon
<1>4. CASE StreamSend(c)
  <2>1. /\ out[c] # <<>> /\ out'[c] = Tail(out[c]) /\ client' = client /\ client[c] = "connected"
        /\ received'[c] = Append(received[c], Head(out[c]))
        /\ UNCHANGED <<log, next, start, held, eventChan, fwd, gpc, msg, cancelled, subCancelled>>
    BY <1>1, <1>4, Zenon DEF StreamSend, kafkaVars, readerVars, consumerVars, serviceVars, histVars,
         PathType
  <2>2. Sent(c)' = Sent(c)
    <3>1. received[c] \in Seq(Nat) /\ out[c] \in Seq(Nat)
      BY <1>1, PathSeqs, Zenon
    <3>2. Append(received[c], Head(out[c])) \o Tail(out[c]) = received[c] \o out[c]
      BY <2>1, <3>1, MoveHead, Zenon
    <3>3. QED BY <2>1, <3>2, Zenon DEF Sent
  <2>3. Queued(c)' = Queued(c)
    BY <2>1, <2>2, Zenon DEF Queued
  <2>4. Flow(c)' = Flow(c)
    BY <2>1, <2>3, Zenon DEF Flow, Sending
  <2>5. Leaving(c)' <=> Leaving(c)
    BY <2>1, Zenon DEF Leaving
  <2>6. Path(c)'
    BY <1>1, <2>1, <2>2, <2>3, <2>4, <2>5, PathCarried, Zenon
  <2>7. gpc[c] # "subscribe"
    BY <1>1, <2>1, Zenon DEF Fresh
  <2>8. Fresh(c)'
    BY <1>1, <2>1, <2>7, Zenon DEF Fresh
  <2>9. QED BY <2>6, <2>8, Zenon
<1>5. CASE StreamEnd(c)
  <2>1. /\ client[c] = "connected" /\ client'[c] = "gone"
        /\ UNCHANGED <<log, next, start, received, out, held, eventChan, fwd, gpc, msg, cancelled,
                       subCancelled>>
    BY <1>1, <1>5, Zenon DEF StreamEnd, kafkaVars, readerVars, consumerVars, serviceVars, histVars,
         PathType
  <2>2. QED BY <1>1, <2>1, PathUntouched, Zenon
<1>6. QED BY <1>3, <1>4, <1>5, Zenon DEF ClientStep

LEMMA ServicePath ==
  ASSUME DInv, NEW c \in Clients, ServiceStep(c)
  PROVE  Path(c)' /\ Fresh(c)'
<1>1. IInv /\ PathType /\ Path(c) /\ Fresh(c)
  BY Zenon DEF DInv
<1>2. UNCHANGED <<log, next, start, received, client, gpc, msg, cancelled, subCancelled>>
  BY Zenon DEF ServiceStep, ForwardRecv, ForwardSend, ForwardStop, kafkaVars, readerVars,
     consumerVars,
     clientVars, histVars
<1>3. Sending(c)' = Sending(c) /\ (Leaving(c)' <=> Leaving(c))
  BY <1>2, Zenon DEF Sending, Leaving
<1>4. CASE ForwardRecv(c)
  <2>1. /\ fwd[c] = "recv" /\ fwd'[c] = "send" /\ eventChan[c] # <<>> /\ out' = out
        /\ held'[c] = <<Head(eventChan[c])>> /\ eventChan'[c] = Tail(eventChan[c])
    BY <1>1, <1>4, Zenon DEF ForwardRecv, PathType
  <2>2. held[c] = <<>>
    BY <1>1, <2>1, Zenon DEF Fresh
  <2>3. Sent(c)' = Sent(c) /\ Sent(c) \in Seq(Nat) /\ eventChan[c] \in Seq(Nat)
    BY <1>1, <1>2, <2>1, PathSeqs, Zenon DEF Sent
  <2>4. Sent(c) \o <<>> = Sent(c)
    BY <2>3, ConcatEmptySeq, Zenon
  <2>5. (Sent(c) \o <<Head(eventChan[c])>>) \o Tail(eventChan[c]) = Sent(c) \o eventChan[c]
    BY <2>1, <2>3, MoveHead, Zenon
  <2>6. Queued(c)' = Queued(c)
    BY <2>1, <2>2, <2>3, <2>4, <2>5, Zenon DEF Queued
  <2>7. Flow(c)' = Flow(c)
    BY <1>3, <2>6, Zenon DEF Flow
  <2>8. Path(c)'
    BY <1>1, <1>2, <1>3, <2>1, <2>3, <2>6, <2>7, PathCarried, Zenon
  <2>9. Fresh(c)'
    BY <1>1, <1>2, <2>1, Zenon DEF Fresh
  <2>10. QED BY <2>8, <2>9, Zenon
<1>5. CASE ForwardSend(c)
  <2>1. /\ fwd[c] = "send" /\ fwd'[c] = "recv" /\ eventChan' = eventChan
        /\ out'[c] = out[c] \o held[c] /\ held'[c] = <<>>
    BY <1>1, <1>5, Zenon DEF ForwardSend, PathType
  <2>2. /\ received[c] \in Seq(Nat) /\ out[c] \in Seq(Nat) /\ held[c] \in Seq(Nat)
        /\ Sent(c) \o held[c] \in Seq(Nat) /\ Sent(c) \in Seq(Nat) /\ eventChan[c] \in Seq(Nat)
    BY <1>1, PathSeqs, Zenon
  <2>3. Sent(c)' = Sent(c) \o held[c]
    <3>1. (received[c] \o out[c]) \o held[c] = received[c] \o (out[c] \o held[c])
      <4>1. received[c] \in Seq(Nat) /\ out[c] \in Seq(Nat) /\ held[c] \in Seq(Nat)
        BY <2>2, Zenon
      <4>2. QED BY <4>1, MoveAll, Zenon
    <3>2. QED BY <1>2, <2>1, <3>1, Zenon DEF Sent
  <2>4. (Sent(c) \o held[c]) \o <<>> = Sent(c) \o held[c]
    BY <2>2, ConcatEmptySeq, Zenon
  <2>5. Queued(c)' = Queued(c)
    BY <2>1, <2>3, <2>4, Zenon DEF Queued
  <2>6. Flow(c)' = Flow(c)
    BY <1>3, <2>5, Zenon DEF Flow
  <2>7. \E to \in start[c] .. Len(log) : ListsOf(log, Queued(c), start[c], to)
    BY <1>1, <2>1, Zenon DEF Path
  <2>8. \E to \in start[c] .. Len(log) : ListsOf(log, Sent(c) \o held[c], start[c], to)
    <3>1. PICK to \in start[c] .. Len(log) : ListsOf(log, Queued(c), start[c], to)
      BY <2>7, Zenon
    <3>2. start[c] \in Nat /\ to \in Nat /\ start[c] <= to /\ to <= Len(log) /\ Len(log) \in Nat
      BY <1>1, PathSeqs, Between, Zenon
    <3>3. \E t \in start[c] .. to : ListsOf(log, Sent(c) \o held[c], start[c], t)
      BY <2>2, <3>1, <3>2, ListsPrefix, Zenon DEF Queued
    <3>4. QED BY <3>2, <3>3, Within, Zenon
  <2>9. Path(c)'
    BY <1>1, <1>2, <1>3, <2>1, <2>3, <2>5, <2>6, <2>7, <2>8, Zenon DEF Path
  <2>10. Fresh(c)'
    <3>1. out'[c] = <<>> \/ out[c] # <<>> \/ held[c] # <<>>
      BY <2>1
    <3>2. QED BY <1>1, <1>2, <2>1, <3>1, Zenon DEF Fresh
  <2>11. QED BY <2>9, <2>10, Zenon
<1>6. CASE ForwardStop(c)
  <2>1. /\ c \in subCancelled /\ fwd'[c] = "closed" /\ held'[c] = <<>>
        /\ out' = out /\ eventChan' = eventChan
    BY <1>1, <1>6, Zenon DEF ForwardStop, PathType
  <2>2. Sent(c)' = Sent(c)
    BY <1>2, <2>1, Zenon DEF Sent
  <2>3. Path(c)'
    BY <1>1, <1>2, <2>1, <2>2, PathCarried, Zenon
  <2>4. Fresh(c)'
    BY <1>1, <1>2, <2>1, Zenon DEF Fresh
  <2>5. QED BY <2>3, <2>4, Zenon
<1>7. QED BY <1>4, <1>5, <1>6, Zenon DEF ServiceStep

LEMMA ConsumerPath ==
  ASSUME DInv, NEW c \in Clients, ConsumerStep(c)
  PROVE  Path(c)' /\ Fresh(c)'
<1>1. IInv /\ PathType /\ Path(c) /\ Fresh(c)
  BY Zenon DEF DInv
<1>2. gpc \in [Clients -> GPcs] /\ msg \in [Clients -> Nat]
  BY <1>1, Zenon DEF IInv, Control, Positions
<1>3. /\ UNCHANGED <<log, received, out, held, fwd, client, cancelled, subCancelled>>
  BY Zenon DEF ConsumerStep, ConsumerSubscribe, ConsumeMessages, Move, FetchOk, FetchCanceled,
     FetchFail,
     HandleFetchError, SendEvent, CommitMessage, ClearRunning, kafkaVars, serviceVars, clientVars
<1>4. Sent(c)' = Sent(c)
  BY <1>3, Zenon DEF Sent
<1>5. client[c] # "idle" \/ gpc[c] = "none"
  BY <1>1, Zenon DEF Fresh
<1>6. /\ Sent(c) \in Seq(Nat) /\ Queued(c) \in Seq(Nat) /\ Flow(c) \in Seq(Nat)
      /\ eventChan[c] \in Seq(Nat) /\ Sent(c) \o held[c] \in Seq(Nat)
  BY <1>1, PathSeqs, Zenon
<1>6a. /\ start[c] \in Nat /\ next \in Nat /\ Len(log) \in Nat /\ msg[c] \in Nat
       /\ next <= Len(log)
  BY <1>1, PathSeqs, Zenon DEF IInv, Positions
\* A move that neither takes a message nor gives one up.
<1>7. ASSUME NEW from \in Running, NEW to, Goto(c, from, to), from # "send", to # "send",
             from = "loop" /\ to # "exit" => ~CtxDone, from # "exit" \/ to \notin Running,
             to # "subscribe", UNCHANGED <<next, start, eventChan>>
      PROVE  Path(c)' /\ Fresh(c)'
  <2>1. gpc[c] = from /\ gpc'[c] = to
    BY <1>2, <1>7, Zenon DEF Goto
  <2>2. Queued(c)' = Queued(c)
    BY <1>3, <1>4, <1>7, Zenon DEF Queued
  <2>3. Flow(c)' = Flow(c)
    BY <1>7, <2>1, <2>2, Zenon DEF Flow, Sending
  <2>4. ASSUME to \in Running, ~Leaving(c)'
        PROVE  ~Leaving(c)
    <3>1. CASE from = "loop" /\ to # "exit"
      BY <1>1, <1>7, <2>1, <3>1, CtxOfOwner, Zenon DEF Leaving
    <3>2. CASE from = "loop" /\ to = "exit"
      BY <1>3, <2>1, <2>4, <3>2, Zenon DEF Leaving
    <3>3. CASE from # "loop"
      BY <1>7, <2>1, <2>4, <3>3, Zenon DEF Leaving
    <3>4. QED BY <3>1, <3>2, <3>3, Zenon
  <2>5. Path(c)'
    BY <1>1, <1>3, <1>4, <1>7, <2>1, <2>2, <2>3, <2>4, PathCarried, Zenon
  <2>6. gpc[c] # "none"
    BY <1>7, <2>1, Zenon DEF Running, LoopPcs
  <2>7. Fresh(c)'
    BY <1>1, <1>3, <1>5, <1>7, <2>1, <2>6, Zenon DEF Fresh
  <2>8. QED BY <2>5, <2>7, Zenon
<1>8. CASE ConsumerSubscribe(c)
  <2>1. /\ gpc[c] = "subscribe" /\ gpc'[c] \in {"rejected", "loop"}
        /\ UNCHANGED <<next, msg, eventChan>>
        /\ gpc'[c] = "rejected" => start' = start
        /\ gpc'[c] = "loop" => start'[c] = next
    BY <1>1, <1>2, <1>8, Zenon DEF ConsumerSubscribe, Goto, readerVars, PathType
  <2>2. received[c] = <<>> /\ out[c] = <<>> /\ held[c] = <<>> /\ eventChan[c] = <<>>
    BY <1>1, <2>1, Zenon DEF Fresh
  <2>3. Fresh(c)'
    BY <1>1, <1>3, <1>5, <2>1, <2>2, Zenon DEF Fresh
  <2>4. <<>> \o <<>> = <<>>
    OBVIOUS
  <2>5. Sent(c)' = <<>>
    BY <1>3, <2>2, <2>4, Zenon DEF Sent
  <2>6. Queued(c)' = <<>>
    BY <1>3, <2>1, <2>2, <2>4, <2>5, Zenon DEF Queued
  <2>7. CASE gpc'[c] = "loop"
    <3>1. Flow(c)' = <<>>
      BY <2>4, <2>6, <2>7, Zenon DEF Flow, Sending
    <3>2. ListsOf(log, <<>>, next, next)
      BY <1>6a, ListsEmpty, Zenon
    <3>3. next \in next .. Len(log) /\ next <= next
      BY ONLY <1>6a
    <3>4. start'[c] = next /\ log' = log /\ next' = next
      BY <1>3, <2>1, <2>7, Zenon
    <3>5. QED BY <2>3, <2>5, <2>6, <3>1, <3>2, <3>3, <3>4, Zenon DEF Path
  <2>8. CASE gpc'[c] = "rejected"
    <3>1. gpc'[c] \notin Running
      BY <2>8, Zenon DEF Running, LoopPcs
    <3>2. Sent(c) = <<>> /\ Queued(c) = <<>>
      BY <2>2, <2>4, Zenon DEF Sent, Queued
    <3>3. \E to \in start[c] .. Len(log) : ListsOf(log, <<>>, start[c], to)
      BY <1>1, <3>2, Zenon DEF Path
    <3>4. start'[c] = start[c] /\ log' = log
      BY <1>3, <2>1, <2>8, Zenon
    <3>5. QED BY <2>3, <2>5, <2>6, <3>1, <3>3, <3>4, Zenon DEF Path
  <2>9. QED BY <2>1, <2>7, <2>8, Zenon
<1>9. CASE ConsumeMessages(c) \/ FetchCanceled(c)
  <2>1. CASE ConsumeMessages(c)
    <3> DEFINE to == IF CtxDone THEN "exit" ELSE "fetch"
    <3>1. Goto(c, "loop", to) /\ UNCHANGED <<next, start, eventChan>>
      BY <2>1, Zenon DEF ConsumeMessages, Move, readerVars, histVars
    <3>2. /\ "loop" \in Running /\ to \notin {"send", "subscribe"}
          /\ to # "exit" => ~CtxDone
      BY Zenon DEF Running, LoopPcs
    <3> HIDE DEF to
    <3>3. QED BY <1>7, <3>1, <3>2, Zenon
  <2>2. CASE FetchCanceled(c)
    <3>1. Goto(c, "fetch", "loop") /\ UNCHANGED <<next, start, eventChan>>
      BY <2>2, Zenon DEF FetchCanceled, Move, readerVars, histVars
    <3>2. "fetch" \in Running
      BY Zenon DEF Running, LoopPcs
    <3>3. QED BY <1>7, <3>1, <3>2, Zenon
  <2>3. QED BY <1>9, <2>1, <2>2, Zenon
<1>10. CASE FetchFail(c) \/ HandleFetchError(c) \/ CommitMessage(c) \/ ClearRunning(c)
  <2>1. PICK from \in {"fetch", "fetchErr", "commit", "exit"}, to \in {"fetchErr", "loop", "done"} :
          /\ Goto(c, from, to) /\ UNCHANGED <<next, start, eventChan>>
          /\ from = "exit" => to = "done"
    BY <1>10, Zenon DEF FetchFail, HandleFetchError, CommitMessage, ClearRunning, readerVars,
       histVars
  <2>2. from \in Running /\ "done" \notin Running
    BY Zenon DEF Running, LoopPcs
  <2>3. QED BY <1>7, <2>1, <2>2, Zenon
<1>11. CASE FetchOk(c)
  <2> DEFINE to == IF log[next + 1] \in Accepted THEN "send" ELSE "commit"
  <2>1. /\ gpc[c] = "fetch" /\ gpc'[c] = to /\ next < Len(log) /\ next' = next + 1
        /\ msg'[c] = next + 1 /\ UNCHANGED <<start, eventChan>>
    BY <1>2, <1>11, Zenon DEF FetchOk, Goto, histVars
  <2>2. Queued(c)' = Queued(c)
    BY <1>3, <1>4, <2>1, Zenon DEF Queued
  <2>3. Sending(c) = <<>> /\ Sending(c)' = IF log[next + 1] \in Accepted THEN <<next + 1>> ELSE <<>>
    BY <2>1, Zenon DEF Sending
  <2>4. Queued(c) \o <<>> = Queued(c)
    BY <1>6, ConcatEmptySeq, Zenon
  <2>5. Flow(c) = Queued(c)
    BY <2>3, <2>4, Zenon DEF Flow
  <2>6. Flow(c)' = IF log[next + 1] \in Accepted THEN Flow(c) \o <<next + 1>> ELSE Flow(c)
    BY <2>2, <2>3, <2>4, <2>5, Zenon DEF Flow
  <2>7. gpc[c] \in Running /\ ~Leaving(c)
    BY <2>1, Zenon DEF Running, LoopPcs, Leaving
  <2>8. ASSUME fwd'[c] # "closed"
        PROVE  start'[c] <= next' /\ ListsOf(log', Flow(c)', start'[c], next')
    <3>1. start[c] <= next /\ ListsOf(log, Flow(c), start[c], next)
      BY <1>1, <1>3, <2>7, <2>8, Zenon DEF Path
    <3>2. ListsOf(log, Flow(c)', start[c], next + 1)
      BY <1>6, <1>6a, <2>6, <3>1, ListsNext, Zenon
    <3>3. start[c] <= next + 1
      BY ONLY <1>6a, <3>1
    <3>4. QED BY <1>3, <2>1, <3>2, <3>3, Zenon
  <2>9. Path(c)'
    <3>1. \E t \in start'[c] .. Len(log') : ListsOf(log', Sent(c)', start'[c], t)
      BY <1>1, <1>3, <1>4, <2>1, Zenon DEF Path
    <3>2. fwd'[c] # "closed" => \E t \in start'[c] .. Len(log') : ListsOf(log', Queued(c)', start'[c], t)
      BY <1>1, <1>3, <2>1, <2>2, Zenon DEF Path
    <3>3. QED BY <2>8, <3>1, <3>2, Zenon DEF Path
  <2>10. Fresh(c)'
    <3>1. gpc'[c] # "subscribe" /\ client[c] # "idle"
      BY <1>5, <2>1, Zenon
    <3>2. QED BY <1>1, <1>3, <3>1, Zenon DEF Fresh
  <2>11. QED BY <2>9, <2>10, Zenon
<1>12. CASE SendEvent(c)
  <2>1. gpc[c] = "send" /\ UNCHANGED <<next, start>>
    BY <1>12, Zenon DEF SendEvent, Goto, readerVars
  <2>2. gpc[c] \in Running /\ ~Leaving(c) /\ client[c] # "idle"
    BY <1>5, <2>1, Zenon DEF Running, LoopPcs, Leaving
  <2>3. Sending(c) = <<msg[c]>> /\ <<msg[c]>> \in Seq(Nat)
    BY <1>6a, <2>1 DEF Sending
  <2>4. CASE gpc'[c] = "commit" /\ eventChan'[c] = Append(eventChan[c], msg[c])
    <3>1. eventChan'[c] = eventChan[c] \o <<msg[c]>>
      BY <1>6, <1>6a, <2>4, AppendIsConcat, Zenon
    <3>2. Queued(c)' = Flow(c)
      <4> DEFINE p == Sent(c) \o held[c]
                 w == <<msg[c]>>
      <4>1. p \in Seq(Nat) /\ eventChan[c] \in Seq(Nat) /\ w \in Seq(Nat)
        BY <1>6, <2>3, Zenon
      <4> HIDE DEF p, w
      <4>2. (p \o eventChan[c]) \o w = p \o (eventChan[c] \o w)
        BY ONLY <4>1, MoveAll, Zenon
      <4>3. QED BY <1>3, <1>4, <2>3, <3>1, <4>2, Zenon DEF Queued, Flow, p, w
    <3>3. Flow(c)' = Flow(c)
      <4>1. Sending(c)' = <<>> /\ Flow(c) \o <<>> = Flow(c)
        BY <1>6, <2>4, ConcatEmptySeq, Zenon DEF Sending
      <4>2. QED BY <3>2, <4>1, Zenon DEF Flow
    <3>4. fwd[c] # "closed" => start[c] <= next /\ ListsOf(log, Flow(c), start[c], next)
      BY <1>1, <2>2, Zenon DEF Path
    <3>5. fwd'[c] # "closed" =>
            /\ start'[c] <= next' /\ ListsOf(log', Flow(c)', start'[c], next')
            /\ \E t \in start'[c] .. Len(log') : ListsOf(log', Queued(c)', start'[c], t)
      <4>1. fwd[c] # "closed" => next \in start[c] .. Len(log)
        <5>1. start[c] <= next => next \in start[c] .. Len(log)
          BY ONLY <1>6a
        <5>2. QED BY <3>4, <5>1, Zenon
      <4>2. QED BY <1>3, <2>1, <3>2, <3>3, <3>4, <4>1, Zenon
    <3>6. \E t \in start'[c] .. Len(log') : ListsOf(log', Sent(c)', start'[c], t)
      BY <1>1, <1>3, <1>4, <2>1, Zenon DEF Path
    <3>7. Path(c)'
      BY <3>5, <3>6, Zenon DEF Path
    <3>8. Fresh(c)'
      BY <1>1, <1>3, <2>2, <2>4, Zenon DEF Fresh
    <3>9. QED BY <3>7, <3>8, Zenon
  <2>5. CASE CtxDone /\ gpc'[c] = "loop" /\ eventChan' = eventChan
    <3>1. Queued(c)' = Queued(c)
      BY <1>3, <1>4, <2>5, Zenon DEF Queued
    <3>2. Leaving(c)'
      <4>1. c \in cancelled \/ client[c] # "connected"
        BY <1>1, <2>2, <2>5, CtxOfOwner, Zenon
      <4>2. QED BY <1>3, <2>5, <4>1, Zenon DEF Leaving
    <3>3. Path(c)'
      BY <1>1, <1>3, <1>4, <2>1, <3>1, <3>2, PathCarried, Zenon
    <3>4. Fresh(c)'
      BY <1>1, <1>3, <2>2, <2>5, Zenon DEF Fresh
    <3>5. QED BY <3>3, <3>4, Zenon
  <2>6. QED BY <1>1, <1>2, <1>12, <2>4, <2>5, Zenon DEF SendEvent, Goto, PathType
<1>13. QED BY <1>8, <1>9, <1>10, <1>11, <1>12, Zenon DEF ConsumerStep

-----------------------------------------------------------------------------
(* The log, and the process *)

LEMMA ProducePath ==
  ASSUME DInv, Produce, NEW c \in Clients
  PROVE  Path(c)' /\ Fresh(c)'
<1>1. IInv /\ PathType /\ Path(c) /\ Fresh(c)
  BY Zenon DEF DInv
<1>2. UNCHANGED <<next, start, received, out, held, eventChan, fwd, gpc, msg, client, cancelled,
                  subCancelled>>
  BY Zenon DEF Produce, readerVars, consumerVars, serviceVars, clientVars, histVars
<1>3. PICK k \in Kinds : log' = Append(log, k)
  BY Zenon DEF Produce
<1>4. /\ Len(log) \in Nat /\ Len(log') = Len(log) + 1
      /\ \A o \in 1 .. Len(log) : log'[o] = log[o]
  <2>1. log \in Seq(Kinds)
    BY <1>1, Zenon DEF IInv, Positions
  <2>2. QED BY <1>3, <2>1, AppendProperties, LenProperties
<1>5. ASSUME NEW s, NEW from \in Nat, NEW to \in Nat, to <= Len(log), ListsOf(log, s, from, to)
      PROVE  ListsOf(log', s, from, to)
  <2>1. (from + 1) .. to \subseteq 1 .. Len(log)
    <3>1. Len(log) \in Nat
      BY <1>4, Zenon
    <3>2. QED BY ONLY <1>5, <3>1
  <2>2. QED BY <1>4, <1>5, <2>1, Zenon DEF ListsOf
<1>6. ASSUME NEW s, \E to \in start[c] .. Len(log) : ListsOf(log, s, start[c], to)
      PROVE  \E to \in start[c] .. Len(log') : ListsOf(log', s, start[c], to)
  <2>1. PICK to \in start[c] .. Len(log) : ListsOf(log, s, start[c], to)
    BY <1>6, Zenon
  <2>2. start[c] \in Nat /\ Len(log) \in Nat /\ Len(log') \in Nat /\ Len(log) <= Len(log')
    BY <1>1, <1>4 DEF PathType
  <2>3. to \in Nat /\ to <= Len(log) /\ to \in start[c] .. Len(log')
    BY <2>2, Between, Within, Zenon
  <2>4. QED BY <1>5, <2>1, <2>2, <2>3, Zenon
<1>7. /\ Sent(c)' = Sent(c) /\ Queued(c)' = Queued(c) /\ Flow(c)' = Flow(c)
      /\ Leaving(c)' <=> Leaving(c)
  BY <1>2, Zenon DEF Sent, Queued, Flow, Sending, Leaving
<1>8. start[c] \in Nat /\ next \in Nat /\ next <= Len(log)
  BY <1>1, Zenon DEF IInv, Positions, PathType
<1>9. \E to \in start'[c] .. Len(log') : ListsOf(log', Sent(c)', start'[c], to)
  BY <1>1, <1>2, <1>6, <1>7, Zenon DEF Path
<1>10. ASSUME fwd'[c] # "closed"
       PROVE  \E to \in start'[c] .. Len(log') : ListsOf(log', Queued(c)', start'[c], to)
  BY <1>1, <1>2, <1>6, <1>7, <1>10, Zenon DEF Path
<1>11. ASSUME gpc'[c] \in Running, fwd'[c] # "closed", ~Leaving(c)'
       PROVE  start'[c] <= next' /\ ListsOf(log', Flow(c)', start'[c], next')
  BY <1>1, <1>2, <1>5, <1>7, <1>8, <1>11, Zenon DEF Path
<1>12. Path(c)'
  BY <1>9, <1>10, <1>11, Zenon DEF Path
<1>13. Fresh(c)'
  BY <1>1, <1>2, Zenon DEF Fresh
<1>14. QED BY <1>12, <1>13, Zenon

\* A new process has empty channels: what its clients were sent stays what it was.
LEMMA RestartPath ==
  ASSUME DInv, Restart, NEW c \in Clients
  PROVE  Path(c)' /\ Fresh(c)'
<1>1. IInv /\ PathType /\ Path(c) /\ Fresh(c)
  BY Zenon DEF DInv
<1>2. /\ gpc'[c] = "none" /\ out'[c] = <<>> /\ held'[c] = <<>> /\ eventChan'[c] = <<>>
      /\ fwd'[c] = "none" /\ client'[c] = (IF client[c] = "connected" THEN "gone" ELSE client[c])
      /\ UNCHANGED <<log, received, start>>
  BY Zenon DEF Restart, kafkaVars
<1>3. /\ received[c] \in Seq(Nat) /\ out[c] \in Seq(Nat)
      /\ start[c] \in Nat /\ Len(log) \in Nat
  BY <1>1, PathSeqs, Zenon
<1>4. received[c] \o <<>> = received[c]
  BY <1>3, ConcatEmptySeq, Zenon
<1>5. Sent(c)' = received[c] /\ Queued(c)' = received[c]
  BY <1>2, <1>4, Zenon DEF Sent, Queued
<1>6. \E t \in start[c] .. Len(log) : ListsOf(log, received[c], start[c], t)
  <2>1. PICK to \in start[c] .. Len(log) : ListsOf(log, Sent(c), start[c], to)
    BY <1>1, Zenon DEF Path
  <2>2. to \in Nat /\ start[c] <= to /\ to <= Len(log)
    BY <1>3, Between, Zenon
  <2>3. \E t \in start[c] .. to : ListsOf(log, received[c], start[c], t)
    BY <1>3, <2>1, <2>2, ListsPrefix, Zenon DEF Sent
  <2>4. QED BY <1>3, <2>2, <2>3, Within, Zenon
<1>7. gpc'[c] \notin Running
  BY <1>2, Zenon DEF Running, LoopPcs
<1>8. Path(c)'
  BY <1>2, <1>5, <1>6, <1>7, Zenon DEF Path
<1>9. Fresh(c)'
  BY <1>1, <1>2, Zenon DEF Fresh
<1>10. QED BY <1>8, <1>9, Zenon

\* The channels, the streams and forwardEvents keep their types.
LEMMA PathTypeStep ==
  ASSUME IInv, PathType, [Next]_vars
  PROVE  PathType'
<1>1. msg \in [Clients -> Nat] /\ next \in Nat
  BY Zenon DEF IInv, Positions
<1>2. ASSUME NEW c \in Clients, ClientStep(c)
      PROVE  PathType'
  <2>1. CASE SubscribeEvents(c)
    BY <2>1, Zenon DEF SubscribeEvents, ServiceSubscribe, PathType, histVars
  <2>2. CASE StreamSend(c)
    <3>1. /\ out[c] \in Seq(Nat) /\ received[c] \in Seq(Nat) /\ out[c] # <<>>
      BY <2>2, Zenon DEF PathType, StreamSend
    <3>2. Tail(out[c]) \in Seq(Nat) /\ Append(received[c], Head(out[c])) \in Seq(Nat)
      BY <3>1, HeadTailProperties, AppendProperties, Zenon
    <3>3. QED BY <2>2, <3>2, Zenon DEF StreamSend, PathType, serviceVars, histVars
  <2>3. CASE StreamEnd(c)
    BY <2>3, Zenon DEF StreamEnd, PathType, serviceVars, histVars
  <2>4. QED BY <1>2, <2>1, <2>2, <2>3, Zenon DEF ClientStep
<1>3. ASSUME NEW c \in Clients, ConsumerStep(c)
      PROVE  PathType'
  <2>1. UNCHANGED <<received, out, held, fwd, client>>
    BY <1>3, Zenon DEF ConsumerStep, ConsumerSubscribe, ConsumeMessages, Move, FetchOk,
       FetchCanceled,
       FetchFail, HandleFetchError, SendEvent, CommitMessage, ClearRunning, serviceVars, clientVars
  <2>2. start' \in [Clients -> Nat]
    BY <1>1, <1>3, Zenon DEF ConsumerStep, ConsumerSubscribe, ConsumeMessages, Move, FetchOk,
       FetchCanceled,
       FetchFail, HandleFetchError, SendEvent, CommitMessage, ClearRunning, histVars, PathType
  <2>3. eventChan' \in [Clients -> Seq(Nat)]
    <3>1. eventChan' = eventChan \/ eventChan' = [eventChan EXCEPT ![c] = Append(eventChan[c], msg[c])]
      BY <1>3, Zenon DEF ConsumerStep, ConsumerSubscribe, ConsumeMessages, Move, FetchOk,
         FetchCanceled,
         FetchFail, HandleFetchError, SendEvent, CommitMessage, ClearRunning
    <3>2. Append(eventChan[c], msg[c]) \in Seq(Nat)
      BY <1>1, AppendProperties, Zenon DEF PathType
    <3>3. QED BY <3>1, <3>2, Zenon DEF PathType
  <2>4. QED BY <2>1, <2>2, <2>3, Zenon DEF PathType
<1>4. ASSUME NEW c \in Clients, ServiceStep(c)
      PROVE  PathType'
  <2>1. UNCHANGED <<received, client, start>>
    BY <1>4, Zenon DEF ServiceStep, ForwardRecv, ForwardSend, ForwardStop, clientVars, histVars
  <2>2. /\ out[c] \in Seq(Nat) /\ held[c] \in Seq(Nat) /\ eventChan[c] \in Seq(Nat)
    BY Zenon DEF PathType
  <2>3. CASE ForwardRecv(c)
    <3>1. <<Head(eventChan[c])>> \in Seq(Nat) /\ Tail(eventChan[c]) \in Seq(Nat)
      <4>1. Head(eventChan[c]) \in Nat /\ Tail(eventChan[c]) \in Seq(Nat)
        BY <2>2, <2>3, HeadTailProperties, Zenon DEF ForwardRecv
      <4>2. QED BY <4>1
    <3>2. QED BY <2>1, <2>3, <3>1, Zenon DEF ForwardRecv, PathType
  <2>4. CASE ForwardSend(c)
    <3>1. out[c] \o held[c] \in Seq(Nat) /\ <<>> \in Seq(Nat)
      BY <2>2, ConcatProperties
    <3>2. QED BY <2>1, <2>4, <3>1, Zenon DEF ForwardSend, PathType
  <2>5. CASE ForwardStop(c)
    <3>1. <<>> \in Seq(Nat)
      OBVIOUS
    <3>2. QED BY <2>1, <2>5, <3>1, Zenon DEF ForwardStop, PathType
  <2>6. QED BY <1>4, <2>3, <2>4, <2>5, Zenon DEF ServiceStep
<1>5. CASE Restart
  <2>1. <<>> \in Seq(Nat)
    OBVIOUS
  <2>2. QED BY <1>5, <2>1, Zenon DEF Restart, PathType
<1>6. ASSUME UNCHANGED <<received, out, held, eventChan, start, fwd, client>>
      PROVE  PathType'
  BY <1>6, Zenon DEF PathType
<1>7. CASE Produce \/ CommitLoop \/ Sigterm \/ GracefulStop \/ UNCHANGED vars
  BY <1>6, <1>7, Zenon DEF Produce, CommitLoop, Sigterm, GracefulStop, vars, serviceVars,
     clientVars,
     histVars
<1>8. ASSUME NEW c, Unsubscribe(c) \/ ConsumerUnsubscribe(c) \/ CloseReader(c)
      PROVE  PathType'
  BY <1>6, <1>8, Zenon DEF Unsubscribe, ConsumerUnsubscribe, CloseReader, serviceVars, clientVars,
     histVars
<1>9. QED BY <1>2, <1>3, <1>4, <1>5, <1>7, <1>8, Zenon DEF Next, GatewayNext, ServiceNext, Delivery

\* A step of the broker, the process or a caller of Unsubscribe leaves the paths.
LEMMA QuietPath ==
  ASSUME DInv, NEW c \in Clients,
         UNCHANGED <<log, next, start, received, out, held, eventChan, fwd, gpc, msg, client>>,
         cancelled \subseteq cancelled', subCancelled \subseteq subCancelled'
  PROVE  Path(c)' /\ Fresh(c)'
<1>1. Path(c) /\ Fresh(c)
  BY Zenon DEF DInv
<1>2. QED BY <1>1, PathUntouched, Zenon

LEMMA DeliveryStep == ASSUME DInv, [Next]_vars PROVE DInv'
<1>1. IInv' /\ PathType'
  BY NextInv, PathTypeStep, Zenon DEF DInv
<1>2. ASSUME NEW c \in Clients, NEW d \in Clients, ClientStep(d) \/ ConsumerStep(d) \/ ServiceStep(d)
      PROVE  Path(c)' /\ Fresh(c)'
  <2>1. CASE c = d
    BY <1>2, <2>1, ClientPath, ConsumerPath, ServicePath, Zenon
  <2>2. CASE c # d
    BY <1>2, <2>2, OtherPaths, Zenon
  <2>3. QED BY <2>1, <2>2, Zenon
<1>3. ASSUME NEW c \in Clients, CommitLoop \/ Sigterm \/ GracefulStop \/ UNCHANGED vars
      PROVE  Path(c)' /\ Fresh(c)'
  <2>1. UNCHANGED <<log, next, start, received, out, held, eventChan, fwd, gpc, msg, client,
                    cancelled, subCancelled>>
    BY <1>3, Zenon DEF CommitLoop, Sigterm, GracefulStop, vars, kafkaVars, readerVars, consumerVars,
       serviceVars, clientVars, histVars
  <2>2. QED BY <2>1, QuietPath, Zenon
<1>4. ASSUME NEW c \in Clients, NEW u, Unsubscribe(u) \/ ConsumerUnsubscribe(u) \/ CloseReader(u)
      PROVE  Path(c)' /\ Fresh(c)'
  <2>1. /\ UNCHANGED <<log, next, start, received, out, held, eventChan, fwd, gpc, msg, client>>
        /\ cancelled \subseteq cancelled' /\ subCancelled \subseteq subCancelled'
    BY <1>4, Zenon DEF Unsubscribe, ConsumerUnsubscribe, CloseReader, kafkaVars, readerVars,
       consumerVars,
       serviceVars, clientVars, histVars
  <2>2. QED BY <2>1, QuietPath, Zenon
<1>5. ASSUME NEW c \in Clients
      PROVE  Path(c)' /\ Fresh(c)'
  BY <1>2, <1>3, <1>4, ProducePath, RestartPath, Zenon DEF Next, GatewayNext, ServiceNext, Delivery
<1>6. QED BY <1>1, <1>5, Zenon DEF DInv

LEMMA DeliveryInit == ASSUME Init PROVE DInv
<1>1. IInv
  BY InitInv, Zenon
<1>2. PathType
  <2>1. <<>> \in Seq(Nat)
    OBVIOUS
  <2>2. QED BY <2>1, Zenon DEF Init, PathType
<1>3. ASSUME NEW c \in Clients
      PROVE  Path(c) /\ Fresh(c)
  <2>1. /\ received[c] = <<>> /\ out[c] = <<>> /\ held[c] = <<>> /\ eventChan[c] = <<>>
        /\ start[c] = 0 /\ gpc[c] = "none" /\ fwd[c] = "none" /\ client[c] = "idle" /\ log = <<>>
    BY Zenon DEF Init
  <2>2. <<>> \o <<>> = <<>> /\ Len(<<>>) = 0
    OBVIOUS
  <2>3. Sent(c) = <<>> /\ Queued(c) = <<>>
    BY <2>1, <2>2, Zenon DEF Sent, Queued
  <2>4. ListsOf(log, <<>>, 0, 0) /\ 0 \in 0 .. Len(log)
    BY <2>1, <2>2, ListsEmpty
  <2>5. gpc[c] \notin Running
    BY <2>1, Zenon DEF Running, LoopPcs
  <2>6. Path(c)
    BY <2>1, <2>3, <2>4, <2>5, Zenon DEF Path
  <2>7. Fresh(c)
    BY <2>1, Zenon DEF Fresh
  <2>8. QED BY <2>6, <2>7, Zenon
<1>4. QED BY <1>1, <1>2, <1>3, Zenon DEF DInv

\* The paths from the log to the clients stay in order and complete, through
\* Unsubscribe, failed fetches, SIGTERM, crashes and restarts.
THEOREM DeliveryInvariant == Spec => []DInv
<1>1. QED BY DeliveryInit, DeliveryStep, PTL DEF Spec

\* What SubscribeEvents has sent to a client is a gapless, duplicate-free prefix of
\* the accepted messages from where its consumer started, for any number of clients,
\* any capacities, any log and any number of restarts.
THEOREM StreamsInOrder == Spec => []DeliveredInOrder
<1>1. ASSUME DInv PROVE DeliveredInOrder
  <2> SUFFICES ASSUME NEW c \in Clients
               PROVE  \E to \in start[c] .. Len(log) : Lists(received[c], start[c], to)
    BY Zenon DEF DeliveredInOrder
  <2>1. /\ received[c] \in Seq(Nat) /\ out[c] \in Seq(Nat)
        /\ start[c] \in Nat /\ Len(log) \in Nat
    BY <1>1, PathSeqs, Zenon DEF DInv
  <2>2. PICK to \in start[c] .. Len(log) : ListsOf(log, Sent(c), start[c], to)
    BY <1>1, Zenon DEF DInv, Path
  <2>3. to \in Nat /\ start[c] <= to /\ to <= Len(log)
    BY <2>1, Between, Zenon
  <2>4. \E t \in start[c] .. to : ListsOf(log, received[c], start[c], t)
    BY <2>1, <2>2, <2>3, ListsPrefix, Zenon DEF Sent
  <2>5. \E t \in start[c] .. Len(log) : ListsOf(log, received[c], start[c], t)
    BY <2>1, <2>3, <2>4, Within, Zenon
  <2>6. QED BY <2>5, Zenon DEF Lists, ListsOf
<1>2. QED BY <1>1, DeliveryInvariant, PTL

\* Between the log and a live client no fetched message is lost, doubled or out of
\* order.
THEOREM NothingLost == Spec => []NothingLostInFlight
<1>1. ASSUME DInv PROVE NothingLostInFlight
  <2> SUFFICES ASSUME NEW c \in Clients, Live(c)
               PROVE  Lists(Flow(c), start[c], next)
    BY Zenon DEF NothingLostInFlight, Flow, Queued, Sent
  <2>1. IInv /\ Path(c) /\ Fresh(c) /\ gpc[c] \in Running
    BY <1>1, Zenon DEF DInv, Live, Consuming, Running
  <2>2. ~Leaving(c)
    BY <2>1, CtxOfOwner, Zenon DEF Live, Leaving
  <2>3. fwd[c] # "closed"
    BY <2>1, Zenon DEF Live, Fresh
  <2>4. ListsOf(log, Flow(c), start[c], next)
    BY <2>1, <2>2, <2>3, Zenon DEF Path
  <2>5. QED BY <2>4, Zenon DEF Lists, ListsOf
<1>2. QED BY <1>1, DeliveryInvariant, PTL

=============================================================================
