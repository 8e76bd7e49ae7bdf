---------------------------- MODULE Subscription ----------------------------
(***************************************************************************)
(* From Kafka to the client: the Kafka consumer                            *)
(* (infrastructure/kafka/consumer.go), the broker adapter (messagebroker-  *)
(* Adapter in cmd/gateway/main.go), the subscription service               *)
(* (application/service/subscription_service.go), the SubscribeEvents      *)
(* handler (api/grpc/event_handler.go) and the process around them, which  *)
(* can crash, or stop on SIGTERM, and starts again from Kafka's offsets.   *)
(*                                                                         *)
(* One topic partition and one gateway instance.  A client makes one       *)
(* SubscribeEvents stream; a reconnection is another client.  A message is *)
(* its position in the log, so a channel is a sequence of positions.       *)
(***************************************************************************)
EXTENDS Integers, Sequences, Functions

CONSTANTS
  Clients,
  Main,             \* the caller of Consumer.Close in main.go: not a client
  Kinds,            \* what a message can be, as far as the consumer can tell
  Accepted,         \* the kinds that deserialize and pass kc.filter
  EventChanCap,     \* capacity of the adapter's eventChan
  OutChanCap,       \* SubscriptionService.channelBufferSize
  MaxLog,           \* bound: messages in the log
  MaxFetchErrors,   \* bound: errors FetchMessage returns on an open reader
  MaxCrashes        \* bound: ends of the process

ASSUME SubscriptionAssumption ==
  /\ Main \notin Clients
  /\ Accepted \subseteq Kinds
  /\ EventChanCap \in Nat \ {0}
  /\ OutChanCap \in Nat \ {0}
  /\ MaxLog \in Nat
  /\ MaxFetchErrors \in Nat
  /\ MaxCrashes \in Nat

VARIABLES
  log,           \* the partition
  committed,     \* the group's offset at the broker: the last message committed
  next,          \* the last message FetchMessage handed out
  acked,         \* the last message given to CommitMessages
  readerClosed,
  isRunning,
  owner,         \* the client whose stream context kc.ctx derives from
  cancelled,     \* the clients whose derived context kc.cancel() cancelled
  gpc,           \* the goroutine started by the adapter's Subscribe for a client
  msg,           \* the message it is processing
  errs,          \* length of its errChan (capacity 1, never read)
  eventChan, out,
  fwd, held,     \* forwardEvents, and the event in its hands
  client, received,
  subs,          \* keys of SubscriptionService.subscriptions
  subCancelled,  \* subscriptions whose own context was cancelled
  unsub,         \* where a caller of Unsubscribe (Main: of Close) is
  stopping,      \* SIGTERM was received
  fetchErrors, crashes,
  start,         \* history: the reader's position when the consumer started
  handed,        \* history: messages that were put in some eventChan
  forfeited      \* history: messages dropped on cancellation, or before the
                 \* starting position of a reader without a committed offset

kafkaVars    == <<log, committed>>
readerVars   == <<next, acked, readerClosed>>
consumerVars == <<isRunning, owner, cancelled, gpc, msg, errs>>
serviceVars  == <<fwd, held, subs, subCancelled>>
clientVars   == <<client, received>>
procVars     == <<unsub, stopping, crashes>>
histVars     == <<start, handed, forfeited>>
vars == <<kafkaVars, readerVars, consumerVars, eventChan, out, serviceVars,
          clientVars, procVars, fetchErrors, histVars>>

Callers == Clients \cup {Main}
Offsets == 1 .. MaxLog

\* The program points of the goroutine: the call of Consumer.Subscribe, and
\* the loop of consumeMessages.  kc.wg is left out: the one who waits for it
\* stops waiting at a timeout, so it orders nothing.
LoopPcs == {"loop", "fetch", "fetchErr", "send", "commit"}
GPcs    == {"none", "subscribe", "rejected", "exit", "done"} \cup LoopPcs

TypeOK ==
  /\ log \in Seq(Kinds) /\ Len(log) <= MaxLog
  /\ committed \in 0 .. MaxLog /\ next \in 0 .. MaxLog /\ acked \in 0 .. MaxLog
  /\ readerClosed \in BOOLEAN
  /\ isRunning \in BOOLEAN
  /\ owner \in Callers
  /\ cancelled \subseteq Clients
  /\ gpc \in [Clients -> GPcs]
  /\ msg \in [Clients -> 0 .. MaxLog]
  /\ errs \in [Clients -> 0 .. 1]
  /\ eventChan \in [Clients -> Seq(Offsets)]
  /\ out \in [Clients -> Seq(Offsets)]
  /\ held \in [Clients -> Seq(Offsets)]
  /\ received \in [Clients -> Seq(Offsets)]
  /\ \A c \in Clients : /\ Len(eventChan[c]) <= EventChanCap
                        /\ Len(out[c]) <= OutChanCap
                        /\ Len(held[c]) <= 1
  /\ fwd \in [Clients -> {"none", "recv", "send", "closed"}]
  /\ client \in [Clients -> {"idle", "connected", "gone"}]
  /\ subs \subseteq Clients /\ subCancelled \subseteq Clients
  /\ unsub \in [Callers -> {"idle", "lock", "wait", "done"}]
  /\ stopping \in BOOLEAN
  /\ fetchErrors \in 0 .. MaxFetchErrors /\ crashes \in 0 .. MaxCrashes
  /\ start \in [Clients -> 0 .. MaxLog]
  /\ handed \subseteq Offsets /\ forfeited \subseteq Offsets

Init ==
  /\ log = <<>> /\ committed = 0
  /\ next = 0 /\ acked = 0 /\ readerClosed = FALSE
  /\ isRunning = FALSE /\ owner = Main /\ cancelled = {}
  /\ gpc = [c \in Clients |-> "none"]
  /\ msg = [c \in Clients |-> 0]
  /\ errs = [c \in Clients |-> 0]
  /\ eventChan = [c \in Clients |-> <<>>] /\ out = [c \in Clients |-> <<>>]
  /\ fwd = [c \in Clients |-> "none"] /\ held = [c \in Clients |-> <<>>]
  /\ client = [c \in Clients |-> "idle"]
  /\ received = [c \in Clients |-> <<>>]
  /\ subs = {} /\ subCancelled = {}
  /\ unsub = [c \in Callers |-> "idle"]
  /\ stopping = FALSE /\ fetchErrors = 0 /\ crashes = 0
  /\ start = [c \in Clients |-> 0]
  /\ handed = {} /\ forfeited = {}

\* kc.ctx is done: its stream ended or kc.cancel() was called.
CtxDone == owner \in cancelled \/ ~(\E c \in Clients : c = owner /\ client[c] = "connected")

Goto(c, from, to) ==
  /\ gpc[c] = from
  /\ gpc' = [gpc EXCEPT ![c] = to]

-----------------------------------------------------------------------------
(* Kafka and the clients *)

\* A producer appends a message to the partition.
Produce ==
  /\ Len(log) < MaxLog
  /\ \E k \in Kinds : log' = Append(log, k)
  /\ UNCHANGED <<committed, readerVars, consumerVars, eventChan, out, serviceVars,
                 clientVars, procVars, fetchErrors, histVars>>

\* The commit loop of the reader sends what was acknowledged, every
\* CommitInterval.
CommitLoop ==
  /\ ~readerClosed
  /\ committed # acked
  /\ committed' = acked
  /\ UNCHANGED <<log, readerVars, consumerVars, eventChan, out, serviceVars,
                 clientVars, procVars, fetchErrors, histVars>>

\* The adapter makes the channels and starts a goroutine that will call
\* Consumer.Subscribe; it returns no error, and uses neither topic, group nor
\* filter.
AdapterSubscribe(c) == Goto(c, "none", "subscribe")

\* SubscriptionService.Subscribe with a valid filter: the broker is asked, the
\* subscription is stored with a context of its own, forwardEvents starts.
ServiceSubscribe(c) ==
  /\ AdapterSubscribe(c)
  /\ subs' = subs \cup {c}
  /\ fwd' = [fwd EXCEPT ![c] = "recv"]

\* The SubscribeEvents handler up to its loop.
SubscribeEvents(c) ==
  /\ ~stopping
  /\ client[c] = "idle"
  /\ client' = [client EXCEPT ![c] = "connected"]
  /\ ServiceSubscribe(c)
  /\ UNCHANGED <<kafkaVars, readerVars, isRunning, owner, cancelled, msg, errs, eventChan,
                 out, held, subCancelled, received, procVars, fetchErrors, histVars>>

\* The loop of SubscribeEvents: an event is sent on the stream.
StreamSend(c) ==
  /\ client[c] = "connected"
  /\ out[c] # <<>>
  /\ out' = [out EXCEPT ![c] = Tail(@)]
  /\ received' = [received EXCEPT ![c] = Append(@, Head(out[c]))]
  /\ UNCHANGED <<kafkaVars, readerVars, consumerVars, eventChan, serviceVars, client,
                 procVars, fetchErrors, histVars>>

\* The ways out of that loop: the client cancels, Send fails, or the output
\* channel is closed and drained.  The handler returns, which ends the stream's
\* context; what is left in the output channel is never read.
StreamEnd(c) ==
  /\ client[c] = "connected"
  /\ client' = [client EXCEPT ![c] = "gone"]
  /\ UNCHANGED <<kafkaVars, readerVars, consumerVars, eventChan, out, serviceVars,
                 received, procVars, fetchErrors, histVars>>

ChannelClosed(c) == fwd[c] = "closed" /\ out[c] = <<>> /\ StreamEnd(c)

-----------------------------------------------------------------------------
(* consumer.go *)

ConsumerSubscribeUnchecked(c) ==
  /\ Goto(c, "subscribe", "loop")
  /\ isRunning' = TRUE
  /\ owner' = c
  /\ start' = [start EXCEPT ![c] = next]
  /\ UNCHANGED <<kafkaVars, readerVars, cancelled, msg, errs, eventChan, out, serviceVars,
                 clientVars, procVars, fetchErrors, handed, forfeited>>

\* Consumer.Subscribe under kc.mu.  A running consumer makes it fail, and the
\* adapter puts the error in errChan, after its own Subscribe has returned.
ConsumerSubscribe(c) ==
  /\ \/ /\ isRunning
        /\ Goto(c, "subscribe", "rejected")
        /\ errs' = [errs EXCEPT ![c] = @ + 1]
        /\ UNCHANGED <<isRunning, owner, start>>
     \/ /\ ~isRunning
        /\ Goto(c, "subscribe", "loop")
        /\ isRunning' = TRUE
        /\ owner' = c
        /\ start' = [start EXCEPT ![c] = next]
        /\ UNCHANGED errs
  /\ UNCHANGED <<kafkaVars, readerVars, cancelled, msg, eventChan, out, serviceVars,
                 clientVars, procVars, fetchErrors, handed, forfeited>>

\* A move of the goroutine that changes nothing else.
Move(c, from, to) ==
  /\ Goto(c, from, to)
  /\ UNCHANGED <<kafkaVars, readerVars, isRunning, owner, cancelled, msg, errs, eventChan,
                 out, serviceVars, clientVars, procVars, fetchErrors, histVars>>

\* The select at the head of the loop.
ConsumeMessages(c) == Move(c, "loop", IF CtxDone THEN "exit" ELSE "fetch")

FetchOkAutoCommit(c) ==
  /\ ~readerClosed
  /\ next < Len(log)
  /\ next' = next + 1
  /\ acked' = next + 1
  /\ msg' = [msg EXCEPT ![c] = next + 1]
  /\ Goto(c, "fetch", IF log[next + 1] \in Accepted THEN "send" ELSE "commit")
  /\ UNCHANGED <<kafkaVars, readerClosed, isRunning, owner, cancelled, errs, eventChan, out,
                 serviceVars, clientVars, procVars, fetchErrors, histVars>>

\* FetchMessage returns a message; one that does not deserialize, or that
\* kc.filter refuses, is committed at once.
FetchOk(c) ==
  /\ ~readerClosed
  /\ next < Len(log)
  /\ next' = next + 1
  /\ msg' = [msg EXCEPT ![c] = next + 1]
  /\ Goto(c, "fetch", IF log[next + 1] \in Accepted THEN "send" ELSE "commit")
  /\ UNCHANGED <<kafkaVars, acked, readerClosed, isRunning, owner, cancelled, errs,
                 eventChan, out, serviceVars, clientVars, procVars, fetchErrors, histVars>>

\* FetchMessage returns because kc.ctx is done.
FetchCanceled(c) == CtxDone /\ Move(c, "fetch", "loop")

\* FetchMessage fails: always on a closed reader, now and then on an open one.
FetchFail(c) ==
  /\ \/ readerClosed /\ UNCHANGED fetchErrors
     \/ ~readerClosed /\ fetchErrors < MaxFetchErrors /\ fetchErrors' = fetchErrors + 1
  /\ Goto(c, "fetch", "fetchErr")
  /\ UNCHANGED <<kafkaVars, readerVars, isRunning, owner, cancelled, msg, errs, eventChan,
                 out, serviceVars, clientVars, procVars, histVars>>

HandleFetchErrorStop(c) == Move(c, "fetchErr", "exit")

\* handleFetchError waits for room in errChan, which nobody reads, or for the
\* end of kc.ctx.
HandleFetchError(c) ==
  /\ Goto(c, "fetchErr", "loop")
  /\ \/ errs[c] = 0 /\ errs' = [errs EXCEPT ![c] = 1]
     \/ CtxDone /\ UNCHANGED errs
  /\ UNCHANGED <<kafkaVars, readerVars, isRunning, owner, cancelled, msg, eventChan, out,
                 serviceVars, clientVars, procVars, fetchErrors, histVars>>

SendEventNonBlocking(c) ==
  /\ Goto(c, "send", "commit")
  /\ eventChan' = IF Len(eventChan[c]) < EventChanCap
                  THEN [eventChan EXCEPT ![c] = Append(@, msg[c])] ELSE eventChan
  /\ handed' = handed \cup {msg[c]}
  /\ UNCHANGED <<kafkaVars, readerVars, isRunning, owner, cancelled, msg, errs, out,
                 serviceVars, clientVars, procVars, fetchErrors, start, forfeited>>

\* The select of sendEvent: the event goes to eventChan, or kc.ctx is done and
\* the event is neither sent nor committed.
SendEvent(c) ==
  /\ \/ /\ Len(eventChan[c]) < EventChanCap
        /\ Goto(c, "send", "commit")
        /\ eventChan' = [eventChan EXCEPT ![c] = Append(@, msg[c])]
        /\ handed' = handed \cup {msg[c]}
        /\ UNCHANGED <<msg, forfeited>>
     \/ /\ CtxDone
        /\ Goto(c, "send", "loop")
        /\ msg' = [msg EXCEPT ![c] = 0]
        /\ forfeited' = forfeited \cup {msg[c]}
        /\ UNCHANGED <<eventChan, handed>>
  /\ UNCHANGED <<kafkaVars, readerVars, isRunning, owner, cancelled, errs, out,
                 serviceVars, clientVars, procVars, fetchErrors, start>>

CommitMessageResend(c) ==
  /\ \/ ~readerClosed /\ acked' = msg[c] /\ Goto(c, "commit", "loop")
     \/ (readerClosed \/ CtxDone) /\ UNCHANGED acked /\ Goto(c, "commit", "send")
  /\ UNCHANGED <<kafkaVars, next, readerClosed, isRunning, owner, cancelled, msg, errs,
                 eventChan, out, serviceVars, clientVars, procVars, fetchErrors, histVars>>

\* commitMessage: CommitMessages queues the offset for the commit loop, or
\* gives up when kc.ctx is done or the reader is closed.
CommitMessage(c) ==
  /\ Goto(c, "commit", "loop")
  /\ \/ ~readerClosed /\ acked' = msg[c]
     \/ (readerClosed \/ CtxDone) /\ UNCHANGED acked
  /\ msg' = [msg EXCEPT ![c] = 0]
  /\ UNCHANGED <<kafkaVars, next, readerClosed, isRunning, owner, cancelled, errs, eventChan,
                 out, serviceVars, clientVars, procVars, fetchErrors, histVars>>

\* The deferred function of consumeMessages.
ClearRunning(c) ==
  /\ Goto(c, "exit", "done")
  /\ isRunning' = FALSE
  /\ UNCHANGED <<kafkaVars, readerVars, owner, cancelled, msg, errs, eventChan, out,
                 serviceVars, clientVars, procVars, fetchErrors, histVars>>

-----------------------------------------------------------------------------
(* subscription_service.go *)

\* forwardEvents receives from the broker's channel.  The adapter never closes
\* that channel.
ForwardRecv(c) ==
  /\ fwd[c] = "recv"
  /\ eventChan[c] # <<>>
  /\ held' = [held EXCEPT ![c] = <<Head(eventChan[c])>>]
  /\ eventChan' = [eventChan EXCEPT ![c] = Tail(@)]
  /\ fwd' = [fwd EXCEPT ![c] = "send"]
  /\ UNCHANGED <<kafkaVars, readerVars, consumerVars, out, subs, subCancelled, clientVars,
                 procVars, fetchErrors, histVars>>

ForwardSend(c) ==
  /\ fwd[c] = "send"
  /\ Len(out[c]) < OutChanCap
  /\ out' = [out EXCEPT ![c] = @ \o held[c]]
  /\ held' = [held EXCEPT ![c] = <<>>]
  /\ fwd' = [fwd EXCEPT ![c] = "recv"]
  /\ UNCHANGED <<kafkaVars, readerVars, consumerVars, eventChan, subs, subCancelled,
                 clientVars, procVars, fetchErrors, histVars>>

\* The subscription's context is done, at either select: the event in hand is
\* dropped and the output channel closed.
ForwardStop(c) ==
  /\ fwd[c] \in {"recv", "send"}
  /\ c \in subCancelled
  /\ held' = [held EXCEPT ![c] = <<>>]
  /\ fwd' = [fwd EXCEPT ![c] = "closed"]
  /\ UNCHANGED <<kafkaVars, readerVars, consumerVars, eventChan, out, subs, subCancelled,
                 clientVars, procVars, fetchErrors, histVars>>

\* The adapter calls Consumer.Unsubscribe with a timeout of 5 seconds.
AdapterUnsubscribe(c) == unsub' = [unsub EXCEPT ![c] = "lock"]

\* SubscriptionService.Unsubscribe: the entry is deleted and the subscription's
\* context cancelled, then the adapter calls Consumer.Unsubscribe.
Unsubscribe(c) ==
  /\ c \in subs
  /\ subs' = subs \ {c}
  /\ subCancelled' = subCancelled \cup {c}
  /\ AdapterUnsubscribe(c)
  /\ UNCHANGED <<kafkaVars, readerVars, consumerVars, eventChan, out, fwd, held, clientVars,
                 stopping, crashes, fetchErrors, histVars>>

-----------------------------------------------------------------------------
(* Consumer.Unsubscribe, called by the adapter for a client, or by Consumer.Close *)

\* Under kc.mu: an error when nothing runs, else cancel whatever runs.
ConsumerUnsubscribe(c) ==
  /\ unsub[c] = "lock"
  /\ \/ ~isRunning /\ unsub' = [unsub EXCEPT ![c] = "done"] /\ UNCHANGED cancelled
     \/ /\ isRunning
        /\ cancelled' = cancelled \cup {owner}
        /\ unsub' = [unsub EXCEPT ![c] = "wait"]
  /\ UNCHANGED <<kafkaVars, readerVars, isRunning, owner, gpc, msg, errs, eventChan, out,
                 serviceVars, clientVars, stopping, crashes, fetchErrors, histVars>>

\* kc.wg.Wait is over, or the caller's timeout is; the reader is closed, and
\* its last commit may or may not get through.
CloseReader(c) ==
  /\ unsub[c] = "wait"
  /\ unsub' = [unsub EXCEPT ![c] = "done"]
  /\ readerClosed' = TRUE
  /\ \/ committed' = committed
     \/ ~readerClosed /\ committed' = acked
  /\ UNCHANGED <<log, next, acked, consumerVars, eventChan, out, serviceVars, clientVars,
                 stopping, crashes, fetchErrors, histVars>>

-----------------------------------------------------------------------------
(* The process *)

Sigterm ==
  /\ ~stopping
  /\ stopping' = TRUE
  /\ UNCHANGED <<kafkaVars, readerVars, consumerVars, eventChan, out, serviceVars,
                 clientVars, unsub, crashes, fetchErrors, histVars>>

\* Consumer.Close calls Consumer.Unsubscribe with a timeout of 30 seconds.
ConsumerClose == unsub' = [unsub EXCEPT ![Main] = "lock"]

\* GracefulStop returns when every handler has; main then makes its deferred
\* call of Consumer.Close.
GracefulStop ==
  /\ stopping
  /\ unsub[Main] = "idle"
  /\ \A c \in Clients : client[c] # "connected"
  /\ ConsumerClose
  /\ UNCHANGED <<kafkaVars, readerVars, consumerVars, eventChan, out, serviceVars,
                 clientVars, stopping, crashes, fetchErrors, histVars>>

StartOffsetFirst == 0

\* Where a new reader of the group starts: after the committed offset, or at
\* the end of the log (StartOffset: LastOffset) when there is none.
StartOffset == IF committed = 0 THEN Len(log) ELSE committed

\* The process ends, by a crash at any point or after main returned, and is
\* started again.
Restart ==
  /\ crashes < MaxCrashes
  /\ crashes' = crashes + 1
  /\ next' = StartOffset /\ acked' = committed /\ readerClosed' = FALSE
  /\ forfeited' = forfeited \cup {o \in 1 .. StartOffset : o > committed}
  /\ isRunning' = FALSE /\ owner' = Main /\ cancelled' = {}
  /\ gpc' = [c \in Clients |-> "none"]
  /\ msg' = [c \in Clients |-> 0] /\ errs' = [c \in Clients |-> 0]
  /\ eventChan' = [c \in Clients |-> <<>>] /\ out' = [c \in Clients |-> <<>>]
  /\ fwd' = [c \in Clients |-> "none"] /\ held' = [c \in Clients |-> <<>>]
  /\ client' = [c \in Clients |-> IF client[c] = "connected" THEN "gone" ELSE client[c]]
  /\ subs' = {} /\ subCancelled' = {}
  /\ unsub' = [c \in Callers |-> "idle"]
  /\ stopping' = FALSE
  /\ UNCHANGED <<kafkaVars, received, fetchErrors, start, handed>>

-----------------------------------------------------------------------------
ClientStep(c) == SubscribeEvents(c) \/ StreamSend(c) \/ StreamEnd(c)

ConsumerStep(c) ==
  \/ ConsumerSubscribe(c) \/ ConsumeMessages(c)
  \/ FetchOk(c) \/ FetchCanceled(c) \/ FetchFail(c) \/ HandleFetchError(c)
  \/ SendEvent(c) \/ CommitMessage(c) \/ ClearRunning(c)

ServiceStep(c) == ForwardRecv(c) \/ ForwardSend(c) \/ ForwardStop(c)

Delivery ==
  \/ Produce \/ CommitLoop
  \/ \E c \in Clients : ClientStep(c) \/ ConsumerStep(c) \/ ServiceStep(c)

\* The gateway as main.go wires it: no handler calls Unsubscribe.
GatewayNext ==
  \/ Delivery
  \/ Sigterm \/ GracefulStop \/ Restart
  \/ ConsumerUnsubscribe(Main) \/ CloseReader(Main)

\* The subscription use case with callers of Unsubscribe.
ServiceNext ==
  \/ Delivery
  \/ \E c \in Clients : Unsubscribe(c) \/ ConsumerUnsubscribe(c) \/ CloseReader(c)

Next == GatewayNext \/ ServiceNext

\* Every goroutine of the gateway keeps running, Kafka answers fetches, and a
\* client that stays connected reads its stream.  Nothing is assumed of the
\* producers, of new or ending streams, of commits, of errors, of signals and
\* of the process's end.
Fairness ==
  /\ WF_vars(GracefulStop \/ ConsumerUnsubscribe(Main) \/ CloseReader(Main))
  /\ \A c \in Clients :
       /\ WF_vars(StreamSend(c) \/ ChannelClosed(c))
       /\ WF_vars(ServiceStep(c))
       /\ WF_vars(ConsumerSubscribe(c) \/ ConsumeMessages(c) \/ FetchOk(c)
                   \/ FetchCanceled(c) \/ HandleFetchError(c) \/ SendEvent(c)
                   \/ CommitMessage(c) \/ ClearRunning(c))

GatewaySpec == Init /\ [][GatewayNext]_vars
ServiceSpec == Init /\ [][ServiceNext]_vars
Spec        == Init /\ [][Next]_vars
FairSpec    == GatewaySpec /\ Fairness

-----------------------------------------------------------------------------
(* Properties *)

\* The goroutines that Consumer.Subscribe let in and that have not yet cleared
\* kc.isRunning.
Consuming == {c \in Clients : gpc[c] \in LoopPcs \cup {"exit"}}

\* One consumer at a time: kc.isRunning, set by Subscribe and cleared by the
\* deferred call of consumeMessages, admits at most one goroutine to the shared
\* reader, and kc.ctx, which that goroutine reads without the lock, is its own.
SingleConsumer ==
  /\ isRunning <=> Consuming # {}
  /\ \A c \in Consuming : owner = c

\* s lists the accepted messages after position from, up to position to: each
\* once, in log order.
Lists(s, from, to) ==
  /\ Range(s) = {o \in (from + 1) .. to : log[o] \in Accepted}
  /\ \A i, j \in 1 .. Len(s) : i < j => s[i] < s[j]

\* Order and completeness of a stream: what SubscribeEvents has sent to a client
\* is at every moment, through disconnections, Unsubscribe, failed fetches and
\* restarts, a gapless, duplicate-free prefix of the accepted messages after the
\* position at which its consumer started.
DeliveredInOrder ==
  \A c \in Clients : \E to \in start[c] .. Len(log) : Lists(received[c], start[c], to)

\* A client whose stream, subscription and consumer are all alive.
Live(c) == c \in Consuming /\ ~CtxDone /\ c \notin subCancelled

\* What the goroutine of c is about to put in the event channel.
Sending(c) == IF gpc[c] = "send" THEN <<msg[c]>> ELSE <<>>

\* No message is lost on the way to a live client: each one fetched since its
\* consumer started is in exactly one place, the stream, the output channel,
\* forwardEvents, the event channel or sendEvent, in log order.
NothingLostInFlight ==
  \A c \in Clients : Live(c) =>
    Lists(received[c] \o out[c] \o held[c] \o eventChan[c] \o Sending(c), start[c], next)

\* The offset never runs ahead of the hand-over: a message at or before the
\* group's committed offset was put in a client's event channel before it was
\* committed, or was not accepted, or was given up (sendEvent on a cancelled
\* context, a reader that started at the end of the log).
CommittedHanded ==
  \A o \in 1 .. committed : log[o] \in Accepted => o \in handed \cup forfeited

\* The committed offset never moves backwards, over restarts of the reader and
\* consumers that succeed one another.
CommitMonotone == [][committed' >= committed]_vars

\* Every message of the log that c is to get has been sent on its stream.
CaughtUp(c) == Lists(received[c], start[c], Len(log))

\* handleFetchError waits for room in an error channel that has its one error and that
\* nobody reads.
Stuck(c) == gpc[c] = "fetchErr" /\ errs[c] = 1

\* Delivery goes on, and the shared consumer comes back: once a client's consumer
\* runs, the client gets every message of the log for as long as it stays, unless a
\* second fetch fails and leaves handleFetchError waiting, and nothing else can stop
\* it; and when its stream ends the consumer stops, a waiting one included, and lets
\* the next client in.
StreamServed ==
  \A c \in Clients :
    (c \in Consuming) ~> (IF client[c] = "connected" THEN CaughtUp(c) \/ Stuck(c)
                                                    ELSE c \notin Consuming)

-----------------------------------------------------------------------------
(* What the repository says and the code does not do *)

\* o is in a channel or a goroutine on its way to a connected client c.
OnTheWay(c, o) ==
  client[c] = "connected" /\ o \in Range(out[c] \o held[c] \o eventChan[c])

\* README.md:30, "At-least-once processing semantics": an accepted message that
\* the group has committed was sent to a client, or still can be.
AtLeastOnce ==
  \A o \in 1 .. committed : log[o] \in Accepted =>
    \E c \in Clients : o \in Range(received[c]) \/ OnTheWay(c, o)

\* proto/event/v1/event.proto:89, "SubscribeEvents allows clients to subscribe to a
\* stream of events": a client whose consumer runs, and who stays, gets every message of
\* the log, also when fetches fail now and then.
SubscribersServed ==
  \A c \in Clients : (c \in Consuming) ~> (client[c] # "connected" \/ CaughtUp(c))

\* docs/Deployment.md:325, "30-second graceful termination period": a gateway
\* that got SIGTERM comes to the end of its shutdown.
ShutdownCompletes == stopping ~> (unsub[Main] = "done" \/ ~stopping)

=============================================================================
