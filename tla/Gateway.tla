------------------------------- MODULE Gateway -------------------------------
(***************************************************************************)
(* The life of the gateway process (cmd/gateway/main.go): the start, in    *)
(* which each step can fail, the two servers in goroutines of their own,   *)
(* and the stop that a signal asks for, whenever it comes.                 *)
(*                                                                         *)
(* The servers of the libraries are external: grpc.Server and http.Server  *)
(* are modelled by what their methods promise.  Of a subscription there is *)
(* what decides whether the consumer can be closed; its messages are the   *)
(* subject of the module Subscription.                                     *)
(***************************************************************************)
CONSTANTS
  Calls,    \* RPCs, whose handlers use the producer and the consumer
  Probes    \* requests of the HTTP endpoints

VARIABLES
  main,                \* where the main goroutine is in run
  producer, consumer,  \* the two Kafka clients
  grpc, http,          \* where the goroutine of a server is
  shutdownChan,        \* a signal waits in the channel, which has room for one
  grpcStopped,         \* GracefulStop was called
  httpStopped,         \* Shutdown was called
  deadline,            \* the 30 seconds of shutdownCtx
  calls, probes,       \* requests that are being handled
  subscription         \* what the consumer does for a call that subscribes

servers == <<grpc, http, grpcStopped, httpStopped>>
requests == <<calls, probes, subscription>>
processVars == <<main, producer, consumer, servers, shutdownChan, deadline, requests>>

Startup == {"config", "metrics", "producer", "consumer", "servers"}
Shutdown == {"stopGRPC", "awaitGRPC", "stopHTTP", "awaitHTTP", "awaitGroup"}
Closing == {"closeConsumer", "closeProducer"}

\* A client whose Close has returned, with an error or without.
Released == {"closed", "failed"}

ProcessTypeOK ==
  /\ main \in Startup \cup {"running"} \cup Shutdown \cup Closing \cup {"exited"}
  /\ {producer, consumer} \subseteq {"none", "open"} \cup Released
  /\ {grpc, http} \subseteq {"none", "listen", "bound", "serving", "done"}
  /\ {shutdownChan, grpcStopped, httpStopped} \subseteq BOOLEAN
  /\ deadline \in {"none", "running", "passed"}
  /\ calls \subseteq Calls
  /\ probes \subseteq Probes
  /\ subscription \in [Calls -> {"none", "starting", "running"}]

InitAt(step) ==
  /\ main = step
  /\ producer = "none" /\ consumer = "none"
  /\ grpc = "none" /\ http = "none"
  /\ shutdownChan = FALSE /\ grpcStopped = FALSE /\ httpStopped = FALSE
  /\ deadline = "none"
  /\ calls = {} /\ probes = {}
  /\ subscription = [c \in Calls |-> "none"]

ProcessInit == InitAt("config")

Advance(from, to) == main = from /\ main' = to

-----------------------------------------------------------------------------
(* Start.  An error returns from run, through the calls it has deferred. *)

\* The deferred Close of what has been opened, last opened first.
Unwind ==
  CASE consumer = "open" -> "closeConsumer"
    [] consumer # "open" /\ producer = "open" -> "closeProducer"
    [] OTHER -> "exited"

LoadConfig ==
  /\ Advance("config", "metrics") \/ Advance("config", Unwind)
  /\ UNCHANGED <<producer, consumer, servers, shutdownChan, deadline, requests>>

InitializeMetrics ==
  /\ Advance("metrics", "producer") \/ Advance("metrics", Unwind)
  /\ UNCHANGED <<producer, consumer, servers, shutdownChan, deadline, requests>>

InitializeKafkaProducer ==
  /\ \/ Advance("producer", "consumer") /\ producer' = "open"
     \/ Advance("producer", Unwind) /\ UNCHANGED producer
  /\ UNCHANGED <<consumer, servers, shutdownChan, deadline, requests>>

\* Mutant: the producer is not closed when the consumer cannot be created.
InitializeKafkaConsumerLeak ==
  /\ \/ Advance("consumer", "servers") /\ consumer' = "open"
     \/ Advance("consumer", "exited") /\ UNCHANGED consumer
  /\ UNCHANGED <<producer, servers, shutdownChan, deadline, requests>>

InitializeKafkaConsumer ==
  /\ \/ Advance("consumer", "servers") /\ consumer' = "open"
     \/ Advance("consumer", Unwind) /\ UNCHANGED consumer
  /\ UNCHANGED <<producer, servers, shutdownChan, deadline, requests>>

\* The health checks are registered, which cannot fail as their names differ; the
\* services, handlers and servers are created, signals are asked for, and the
\* servers started.
StartServers ==
  /\ Advance("servers", "running")
  /\ grpc' = "listen" /\ http' = "listen"
  /\ UNCHANGED <<producer, consumer, shutdownChan, grpcStopped, httpStopped, deadline, requests>>

-----------------------------------------------------------------------------
(* The goroutines of the servers *)

\* Mutant: the wait group is not told of a server that cannot listen.
GRPCListenWithoutDone ==
  /\ grpc = "listen"
  /\ grpc' \in {"bound", "none"}
  /\ UNCHANGED <<main, producer, consumer, http, grpcStopped, httpStopped, shutdownChan, deadline, requests>>

\* net.Listen can fail: the error is logged, and the gateway goes on without RPCs.
GRPCListen ==
  /\ grpc = "listen"
  /\ grpc' \in {"bound", "done"}
  /\ UNCHANGED <<main, producer, consumer, http, grpcStopped, httpStopped, shutdownChan, deadline, requests>>

\* Serve, which returns at once when the server has been stopped.
GRPCServe ==
  /\ grpc = "bound"
  /\ grpc' = IF grpcStopped THEN "done" ELSE "serving"
  /\ UNCHANGED <<main, producer, consumer, http, grpcStopped, httpStopped, shutdownChan, deadline, requests>>

\* Serve returns when the server is stopped, or when its listener fails.
GRPCServeReturns ==
  /\ grpc = "serving"
  /\ grpc' = "done"
  /\ UNCHANGED <<main, producer, consumer, http, grpcStopped, httpStopped, shutdownChan, deadline, requests>>

\* ListenAndServe fails to listen, finds the server stopped, or serves.
HTTPListenAndServe ==
  /\ http = "listen"
  /\ http' \in IF httpStopped THEN {"done"} ELSE {"serving", "done"}
  /\ UNCHANGED <<main, producer, consumer, grpc, grpcStopped, httpStopped, shutdownChan, deadline, requests>>

HTTPServeReturns ==
  /\ http = "serving"
  /\ http' = "done"
  /\ UNCHANGED <<main, producer, consumer, grpc, grpcStopped, httpStopped, shutdownChan, deadline, requests>>

\* A handler may subscribe: the adapter then leaves that to a goroutine.
BeginCall(c) ==
  /\ grpc = "serving" /\ ~grpcStopped
  /\ c \notin calls /\ subscription[c] = "none"
  /\ calls' = calls \cup {c}
  /\ \E s \in {"none", "starting"} : subscription' = [subscription EXCEPT ![c] = s]
  /\ UNCHANGED <<main, producer, consumer, servers, shutdownChan, deadline, probes>>

EndCall(c) ==
  /\ c \in calls
  /\ calls' = calls \ {c}
  /\ UNCHANGED <<main, producer, consumer, servers, shutdownChan, deadline, probes, subscription>>

IsRunning == \E c \in Calls : subscription[c] = "running"

\* The goroutine of the adapter: the consumer refuses a second subscription.
ConsumerSubscribe(c) ==
  /\ subscription[c] = "starting" /\ main # "exited"
  /\ subscription' = [subscription EXCEPT ![c] = IF IsRunning THEN "none" ELSE "running"]
  /\ UNCHANGED <<main, producer, consumer, servers, shutdownChan, deadline, calls, probes>>

\* consumeMessages returns when the context of the call is over.
ConsumerReturns(c) ==
  /\ subscription[c] = "running" /\ c \notin calls /\ main # "exited"
  /\ subscription' = [subscription EXCEPT ![c] = "none"]
  /\ UNCHANGED <<main, producer, consumer, servers, shutdownChan, deadline, calls, probes>>

BeginProbe(p) ==
  /\ http = "serving" /\ ~httpStopped
  /\ probes' = probes \cup {p}
  /\ UNCHANGED <<main, producer, consumer, servers, shutdownChan, deadline, calls, subscription>>

EndProbe(p) ==
  /\ p \in probes /\ main # "exited"
  /\ probes' = probes \ {p}
  /\ UNCHANGED <<main, producer, consumer, servers, shutdownChan, deadline, calls, subscription>>

-----------------------------------------------------------------------------
(* Stop *)

\* SIGINT or SIGTERM, once signal.Notify was called; one that finds the channel
\* full is dropped, and nobody reads one that comes while the clients are closed.
Signal ==
  /\ main \in {"running"} \cup Shutdown
  /\ shutdownChan' = TRUE
  /\ UNCHANGED <<main, producer, consumer, servers, deadline, requests>>

\* The context of the stop begins before the gRPC server is stopped.
AwaitSignal ==
  /\ Advance("running", "stopGRPC")
  /\ shutdownChan
  /\ shutdownChan' = FALSE
  /\ deadline' = "running"
  /\ UNCHANGED <<producer, consumer, servers, requests>>

DeadlinePasses ==
  /\ deadline = "running" /\ main # "exited"
  /\ deadline' = "passed"
  /\ UNCHANGED <<main, producer, consumer, servers, shutdownChan, requests>>

GracefulStop ==
  /\ Advance("stopGRPC", "awaitGRPC")
  /\ grpcStopped' = TRUE
  /\ UNCHANGED <<producer, consumer, grpc, http, httpStopped, shutdownChan, deadline, requests>>

\* Mutant: Stop, which does not wait for the handlers.
GracefulStopReturnsEarly ==
  /\ Advance("awaitGRPC", "stopHTTP")
  /\ grpc # "serving"
  /\ UNCHANGED <<producer, consumer, servers, shutdownChan, deadline, requests>>

\* GracefulStop waits for Serve and for every handler, however long they take.
GracefulStopReturns ==
  /\ Advance("awaitGRPC", "stopHTTP")
  /\ grpc # "serving" /\ calls = {}
  /\ UNCHANGED <<producer, consumer, servers, shutdownChan, deadline, requests>>

StopHTTP ==
  /\ Advance("stopHTTP", "awaitHTTP")
  /\ httpStopped' = TRUE
  /\ UNCHANGED <<producer, consumer, grpc, http, grpcStopped, shutdownChan, deadline, requests>>

\* Mutant: Shutdown is called with a context that is already cancelled.
ShutdownReturnsAtOnce ==
  /\ Advance("awaitHTTP", "awaitGroup")
  /\ UNCHANGED <<producer, consumer, servers, shutdownChan, deadline, requests>>

\* Shutdown waits for the requests until the deadline.
ShutdownReturns ==
  /\ Advance("awaitHTTP", "awaitGroup")
  /\ probes = {} \/ deadline = "passed"
  /\ UNCHANGED <<producer, consumer, servers, shutdownChan, deadline, requests>>

\* wg.Wait
AwaitGroup ==
  /\ Advance("awaitGroup", Unwind)
  /\ grpc = "done" /\ http = "done"
  /\ UNCHANGED <<producer, consumer, servers, shutdownChan, deadline, requests>>

\* Close of the consumer is Unsubscribe: it refuses when no subscription runs, which
\* leaves the reader as it is.  Otherwise it cancels the subscription, waits for it,
\* for at most 30 seconds, and closes the reader, which can fail.
CloseConsumer ==
  /\ Advance("closeConsumer", "closeProducer")
  /\ consumer' \in IF IsRunning THEN {"closed", "failed"} ELSE {"failed"}
  /\ \E left \in {"none", "running"} :
       subscription' = [c \in Calls |->
                          IF subscription[c] = "running" THEN left ELSE subscription[c]]
  /\ UNCHANGED <<producer, servers, shutdownChan, deadline, calls, probes>>

CloseProducer ==
  /\ Advance("closeProducer", "exited")
  /\ producer' \in {"closed", "failed"}
  /\ UNCHANGED <<consumer, servers, shutdownChan, deadline, requests>>

\* The process is gone.
Exited == main = "exited" /\ UNCHANGED processVars

-----------------------------------------------------------------------------
Run ==
  \/ LoadConfig \/ InitializeMetrics \/ InitializeKafkaProducer \/ InitializeKafkaConsumer
  \/ StartServers \/ AwaitSignal
  \/ GracefulStop \/ GracefulStopReturns \/ StopHTTP \/ ShutdownReturns
  \/ AwaitGroup \/ CloseConsumer \/ CloseProducer

\* What the goroutine of a server is bound to do.
GRPCServer == GRPCListen \/ GRPCServe \/ (grpcStopped /\ GRPCServeReturns)
HTTPServer == HTTPListenAndServe \/ (httpStopped /\ HTTPServeReturns)

ProcessNext ==
  \/ Run
  \/ GRPCListen \/ GRPCServe \/ GRPCServeReturns
  \/ HTTPListenAndServe \/ HTTPServeReturns
  \/ \E c \in Calls : BeginCall(c) \/ EndCall(c) \/ ConsumerSubscribe(c) \/ ConsumerReturns(c)
  \/ \E p \in Probes : BeginProbe(p) \/ EndProbe(p)
  \/ Signal \/ DeadlinePasses
  \/ Exited

\* The goroutines run and the deadline passes.  Nothing makes a handler return: an
\* RPC that subscribes, or whose client sends nothing more, need not.
ProcessFairness ==
  /\ WF_processVars(Run)
  /\ WF_processVars(GRPCServer)
  /\ WF_processVars(HTTPServer)
  /\ WF_processVars(DeadlinePasses)

ProcessSpec == ProcessInit /\ [][ProcessNext]_processVars /\ ProcessFairness

-----------------------------------------------------------------------------
(* Properties *)

\* No handler runs with a producer or consumer that was closed, or told to: run does
\* so only when GracefulStop has seen the last handler out.
ClosedUnused == {producer, consumer} \cap Released # {} => calls = {}

\* However run ends, at whichever step the start failed, the deferred Close of each
\* Kafka client that it had created has run.  Close of the consumer need not close
\* its reader: without a subscription it refuses.
DeferredClosesRun == main = "exited" => "open" \notin {producer, consumer}

\* The process exits under a request for /health, /ready or /metrics only when
\* the 30 seconds of the stop are over.
ProbesAnswered == main = "exited" => probes = {} \/ deadline = "passed"

\* A signal stops the gateway, also one that comes before the servers listen or
\* after one of them failed, unless the handler of an RPC never returns: for that,
\* and for nothing else, the gateway may wait for ever.
SignalStops ==
  shutdownChan ~> (main = "exited" \/ [](main = "awaitGRPC" /\ calls # {}))

=============================================================================
