---------------------------- MODULE GatewayProofs ----------------------------
(***************************************************************************)
(* Proofs about the gateway process and its health checker.                *)
(*                                                                         *)
(* Gateway: for any RPCs and any requests of the endpoints, the Kafka      *)
(* clients are told to close after their last use by a handler and before  *)
(* the exit, wherever the start fails and whenever the signal comes.       *)
(*                                                                         *)
(* Health: for any checks and any concurrent requests, a report is true of *)
(* each check at some moment of its request.                               *)
(***************************************************************************)
EXTENDS Gateway, Health, TLAPS

-----------------------------------------------------------------------------
(* The inductive invariant *)

\* Where no RPC is handled any more, and where no probe is waited for.
Drained  == {"stopHTTP", "awaitHTTP", "awaitGroup"} \cup Closing \cup {"exited"}
Unprobed == {"awaitGroup"} \cup Closing \cup {"exited"}

\* How far run has come says which Kafka clients there are, and which of them a
\* deferred Close is still due for: those that are open.
Clients ==
  /\ main \in {"config", "metrics", "producer"} => producer = "none" /\ consumer = "none"
  /\ main = "consumer" => producer = "open" /\ consumer = "none"
  /\ main \in {"servers", "running", "closeConsumer"} \cup Shutdown =>
       producer = "open" /\ consumer = "open"
  /\ main = "closeProducer" => producer = "open" /\ consumer # "open"
  /\ main = "exited" => producer # "open" /\ consumer # "open"

\* RPCs are handled only between the start of the server and the return of
\* GracefulStop, and none can begin after it.
Handlers ==
  /\ main \in Startup => grpc = "none" /\ calls = {}
  /\ main = "awaitGRPC" => grpcStopped
  /\ main \in Drained => calls = {} /\ (grpcStopped \/ grpc = "none")

\* The same for the probes, which Shutdown gives up at the deadline.
Endpoints ==
  /\ main \in Startup => http = "none" /\ probes = {}
  /\ main = "awaitHTTP" => httpStopped
  /\ main \in Unprobed => /\ httpStopped \/ http = "none"
                          /\ probes = {} \/ deadline = "passed"

IInv == ProcessTypeOK /\ Clients /\ Handlers /\ Endpoints

-----------------------------------------------------------------------------
(* Its proof *)

LEMMA InitInv == ProcessInit => IInv
BY Zenon DEF ProcessInit, InitAt, IInv, ProcessTypeOK, Clients, Handlers, Endpoints, Startup, Shutdown, Closing, Drained,
       Unprobed, Released

USE DEF Startup, Shutdown, Closing, Drained, Unprobed, Released, Advance, servers, requests

\* An error at the start returns through the deferred calls that are due.
LEMMA UnwindFacts ==
  ASSUME ProcessTypeOK
  PROVE  /\ Unwind \in Closing \cup {"exited"}
         /\ Unwind = "closeConsumer" => consumer = "open"
         /\ Unwind = "closeProducer" => producer = "open" /\ consumer # "open"
         /\ Unwind = "exited" => producer # "open" /\ consumer # "open"
BY Zenon DEF Unwind, ProcessTypeOK

\* The steps of run keep the invariant.
LEMMA RunInv == ASSUME IInv, Run PROVE IInv'
<1> USE DEF IInv, ProcessTypeOK, Clients, Handlers, Endpoints
<1>1. CASE LoadConfig
  BY <1>1, UnwindFacts, Zenon DEF LoadConfig
<1>2. CASE InitializeMetrics
  BY <1>2, UnwindFacts, Zenon DEF InitializeMetrics
<1>3. CASE InitializeKafkaProducer
  BY <1>3, UnwindFacts, Zenon DEF InitializeKafkaProducer
<1>4. CASE InitializeKafkaConsumer
  BY <1>4, UnwindFacts, Zenon DEF InitializeKafkaConsumer
<1>5. CASE StartServers
  BY <1>5, Zenon DEF StartServers
<1>6. CASE AwaitSignal
  BY <1>6, Zenon DEF AwaitSignal
<1>7. CASE GracefulStop
  BY <1>7, Zenon DEF GracefulStop
<1>8. CASE GracefulStopReturns
  BY <1>8, Zenon DEF GracefulStopReturns
<1>9. CASE StopHTTP
  BY <1>9, Zenon DEF StopHTTP
<1>10. CASE ShutdownReturns
  BY <1>10, Zenon DEF ShutdownReturns
<1>11. CASE AwaitGroup
  BY <1>11, UnwindFacts, Zenon DEF AwaitGroup
<1>12. CASE CloseConsumer
  <2>1. /\ main = "closeConsumer" /\ main' = "closeProducer"
        /\ consumer' \in {"closed", "failed"}
        /\ UNCHANGED <<producer, servers, shutdownChan, deadline, calls, probes>>
    BY <1>12, Zenon DEF CloseConsumer
  <2>2. subscription' \in [Calls -> {"none", "starting", "running"}]
    BY <1>12, Zenon DEF CloseConsumer
  <2>3. QED BY <2>1, <2>2, Zenon
<1>13. CASE CloseProducer
  BY <1>13, Zenon DEF CloseProducer
<1>14. QED
  BY <1>1, <1>2, <1>3, <1>4, <1>5, <1>6, <1>7, <1>8, <1>9, <1>10, <1>11, <1>12, <1>13, Zenon DEF Run

\* So do those of the servers, of their requests and of the world outside.
LEMMA NextInv == ASSUME IInv, [ProcessNext]_processVars PROVE IInv'
<1> USE DEF IInv, ProcessTypeOK, Clients, Handlers, Endpoints
<1>1. CASE Run
  BY <1>1, RunInv, Zenon
<1>2. CASE GRPCListen \/ GRPCServe \/ GRPCServeReturns
  BY <1>2, Zenon DEF GRPCListen, GRPCServe, GRPCServeReturns
<1>3. CASE HTTPListenAndServe \/ HTTPServeReturns
  BY <1>3, Zenon DEF HTTPListenAndServe, HTTPServeReturns
<1>4. ASSUME NEW c \in Calls,
             BeginCall(c) \/ EndCall(c) \/ ConsumerSubscribe(c) \/ ConsumerReturns(c)
      PROVE  IInv'
  <2>1. subscription' \in [Calls -> {"none", "starting", "running"}]
    BY <1>4, Zenon DEF BeginCall, EndCall, ConsumerSubscribe, ConsumerReturns
  <2>2. CASE BeginCall(c)
    BY <2>1, <2>2, Zenon DEF BeginCall
  <2>3. CASE EndCall(c)
    BY <2>1, <2>3, Zenon DEF EndCall
  <2>4. CASE ConsumerSubscribe(c) \/ ConsumerReturns(c)
    BY <2>1, <2>4, Zenon DEF ConsumerSubscribe, ConsumerReturns
  <2>5. QED BY <1>4, <2>2, <2>3, <2>4, Zenon
<1>5. ASSUME NEW p \in Probes, BeginProbe(p) \/ EndProbe(p)
      PROVE  IInv'
  BY <1>5, Zenon DEF BeginProbe, EndProbe
<1>6. CASE Signal \/ DeadlinePasses
  BY <1>6, Zenon DEF Signal, DeadlinePasses
<1>7. CASE Exited \/ UNCHANGED processVars
  BY <1>7, Zenon DEF Exited, processVars
<1>8. QED
  BY <1>1, <1>2, <1>3, <1>4, <1>5, <1>6, <1>7, Zenon DEF ProcessNext

-----------------------------------------------------------------------------
(* Theorems *)

\* The state of the process keeps its type, and how far run has come fixes which
\* clients are still to be closed and which servers may have requests.
THEOREM ProcessInvariant == ProcessSpec => []IInv
<1>1. QED BY InitInv, NextInv, PTL DEF ProcessSpec

\* No handler of an RPC runs with a producer or consumer whose Close was called, for
\* any number of RPCs.
THEOREM ClientsClosedUnused == ProcessSpec => []ClosedUnused
<1>1. IInv => ClosedUnused
  BY Zenon DEF IInv, ProcessTypeOK, Clients, Handlers, ClosedUnused
<1>2. QED BY <1>1, ProcessInvariant, PTL

\* The process exits only when the deferred Close of each client that it had created
\* has run, at whichever step its start failed and whatever these calls return.
THEOREM DeferredClosed == ProcessSpec => []DeferredClosesRun
<1>1. IInv => DeferredClosesRun
  BY Zenon DEF IInv, Clients, DeferredClosesRun
<1>2. QED BY <1>1, ProcessInvariant, PTL

\* The process exits under a probe only after the deadline, for any number of
\* probes.
THEOREM ProbesOutlived == ProcessSpec => []ProbesAnswered
<1>1. IInv => ProbesAnswered
  BY Zenon DEF IInv, Endpoints, ProbesAnswered
<1>2. QED BY <1>1, ProcessInvariant, PTL

-----------------------------------------------------------------------------
(* The health checker *)

\* What a request has seen: every dependency as it is now, at least.
Witnessed ==
  \A r \in Reporters : rpc[r] # "idle" => up \subseteq wasUp[r] /\ Names \ up \subseteq wasDown[r]

\* Where a request is: the checks it has still to run are some of those it was asked
\* about, which are registered, and none once it is done.
Underway ==
  \A r \in Reporters :
    /\ rpc[r] # "checking" => todo[r] = {}
    /\ todo[r] \subseteq asked[r]
    /\ asked[r] \subseteq Registered

\* The status so far goes by the checks that were run, each at some moment.
StatusSoFar ==
  \A r \in Reporters : rpc[r] # "idle" =>
     IF overall[r] = "healthy"
     THEN \A n \in asked[r] \ todo[r] : Check(n, n \in wasUp[r])
     ELSE \E n \in asked[r] : ~Check(n, n \notin wasDown[r])

\* The inductive invariant.
HealthInv == HealthTypeOK /\ Witnessed /\ Underway /\ StatusSoFar

\* What a request has seen it has seen for good, and it sees every step.
LEMMA Observed ==
  ASSUME HealthTypeOK, up' \subseteq Names, Observe
  PROVE  /\ wasUp' \in [Reporters -> SUBSET Names] /\ wasDown' \in [Reporters -> SUBSET Names]
         /\ \A r \in Reporters : rpc'[r] # "idle" =>
              /\ wasUp[r] \cup up' \subseteq wasUp'[r]
              /\ wasDown[r] \cup (Names \ up') \subseteq wasDown'[r]
BY Zenon DEF Observe, HealthTypeOK

\* Seeing more cannot make the status so far wrong.
LEMMA StatusKept ==
  ASSUME HealthInv, up' \subseteq Names, Observe, NEW r \in Reporters,
         rpc[r] # "idle", rpc'[r] # "idle", overall'[r] = overall[r],
         asked'[r] = asked[r], todo'[r] = todo[r],
         \A n \in asked[r] : checks'[n] = checks[n]
  PROVE  IF overall'[r] = "healthy"
         THEN \A n \in asked'[r] \ todo'[r] : Check(n, n \in wasUp[r])'
         ELSE \E n \in asked'[r] : ~Check(n, n \notin wasDown[r])'
<1>1. wasUp[r] \subseteq wasUp'[r] /\ wasDown[r] \subseteq wasDown'[r]
  BY Observed, Zenon DEF HealthInv
<1>2. CASE overall[r] = "healthy"
  BY <1>1, <1>2, Zenon DEF HealthInv, StatusSoFar, Check
<1>3. CASE overall[r] # "healthy"
  BY <1>1, <1>3, Zenon DEF HealthInv, StatusSoFar, Check
<1>4. QED BY <1>2, <1>3, Zenon

\* A dependency that comes or goes, and a check that is registered, concern no check
\* that a request under way was asked about.
LEMMA SurroundingsInv ==
  ASSUME HealthInv, up' \subseteq Names, Observe, UNCHANGED <<request, asked>>,
         checks' \in [Names -> Kinds \cup {"none"}],
         \A n \in Registered : checks'[n] = checks[n]
  PROVE  HealthInv'
<1>1. UNCHANGED <<rpc, todo, overall, asked>>
  BY Zenon DEF request
<1>2. HealthTypeOK'
  BY <1>1, Observed, Zenon DEF HealthInv, HealthTypeOK
<1>3. Witnessed'
  BY <1>1, Observed, Zenon DEF HealthInv, Witnessed
<1>4. Underway'
  BY <1>1, Zenon DEF HealthInv, HealthTypeOK, Underway, Registered
<1>5. StatusSoFar'
  <2> SUFFICES ASSUME NEW r \in Reporters, rpc'[r] # "idle"
               PROVE  IF overall'[r] = "healthy"
                      THEN \A n \in asked'[r] \ todo'[r] : Check(n, n \in wasUp[r])'
                      ELSE \E n \in asked'[r] : ~Check(n, n \notin wasDown[r])'
    BY Zenon DEF StatusSoFar
  <2>1. \A n \in asked[r] : checks'[n] = checks[n]
    BY Zenon DEF HealthInv, Underway
  <2>2. QED BY <1>1, <2>1, StatusKept, Zenon
<1>6. QED BY <1>2, <1>3, <1>4, <1>5, Zenon DEF HealthInv

\* A step of one request.
LEMMA RequestInv ==
  ASSUME HealthInv, Observe, UNCHANGED <<checks, up>>, NEW r \in Reporters,
         rpc' \in [Reporters -> {"idle", "checking", "done"}],
         overall' \in [Reporters -> Statuses],
         todo' \in [Reporters -> SUBSET Names], asked' \in [Reporters -> SUBSET Names],
         \A q \in Reporters \ {r} : /\ rpc'[q] = rpc[q] /\ overall'[q] = overall[q]
                                    /\ todo'[q] = todo[q] /\ asked'[q] = asked[q],
         rpc'[r] # "checking" => todo'[r] = {},
         todo'[r] \subseteq asked'[r],
         asked'[r] \subseteq Registered,
         rpc'[r] # "idle" =>
           IF overall'[r] = "healthy"
           THEN \A n \in asked'[r] \ todo'[r] : Check(n, n \in wasUp'[r])
           ELSE \E n \in asked'[r] : ~Check(n, n \notin wasDown'[r])
  PROVE  HealthInv'
<1>1. up' \subseteq Names
  BY Zenon DEF HealthInv, HealthTypeOK
<1>2. HealthTypeOK'
  BY <1>1, Observed, Zenon DEF HealthInv, HealthTypeOK
<1>3. Witnessed'
  BY <1>1, Observed, Zenon DEF HealthInv, Witnessed
<1>4. Underway'
  BY Zenon DEF HealthInv, Underway, Registered
<1>5. StatusSoFar'
  <2> SUFFICES ASSUME NEW q \in Reporters, rpc'[q] # "idle"
               PROVE  IF overall'[q] = "healthy"
                      THEN \A n \in asked'[q] \ todo'[q] : Check(n, n \in wasUp[q])'
                      ELSE \E n \in asked'[q] : ~Check(n, n \notin wasDown[q])'
    BY Zenon DEF StatusSoFar
  <2>1. CASE q = r
    BY <2>1, Zenon DEF Check
  <2>2. CASE q # r
    BY <1>1, <2>2, StatusKept, Zenon
  <2>3. QED BY <2>1, <2>2, Zenon
<1>6. QED BY <1>2, <1>3, <1>4, <1>5, Zenon DEF HealthInv

LEMMA StartInv ==
  ASSUME HealthInv, NEW r \in Reporters, NEW names \in SUBSET Registered, Start(r, names)
  PROVE  HealthInv'
<1>1. /\ rpc' = [rpc EXCEPT ![r] = "checking"] /\ todo' = [todo EXCEPT ![r] = names]
      /\ overall' = [overall EXCEPT ![r] = "healthy"] /\ asked' = [asked EXCEPT ![r] = names]
      /\ UNCHANGED <<checks, up>> /\ Observe
  BY Zenon DEF Start
<1>2. names \in SUBSET Names
  BY Zenon DEF Registered
<1>3. /\ rpc' \in [Reporters -> {"idle", "checking", "done"}]
      /\ overall' \in [Reporters -> Statuses]
      /\ todo' \in [Reporters -> SUBSET Names] /\ asked' \in [Reporters -> SUBSET Names]
  BY <1>1, <1>2, Zenon DEF HealthInv, HealthTypeOK, Statuses
<1>4. /\ rpc'[r] = "checking" /\ overall'[r] = "healthy" /\ todo'[r] = names /\ asked'[r] = names
      /\ \A q \in Reporters \ {r} : /\ rpc'[q] = rpc[q] /\ overall'[q] = overall[q]
                                    /\ todo'[q] = todo[q] /\ asked'[q] = asked[q]
  BY <1>1, Zenon DEF HealthInv, HealthTypeOK
<1>5. QED BY <1>1, <1>3, <1>4, RequestInv, Zenon

\* A check that passes was up when it was run, one that fails was not, and the
\* request sees both.
LEMMA RunCheckInv ==
  ASSUME HealthInv, NEW r \in Reporters, RunCheck(r)
  PROVE  HealthInv'
<1>1. PICK n \in todo[r] :
        /\ todo' = [todo EXCEPT ![r] = todo[r] \ {n}]
        /\ overall' = [overall EXCEPT ![r] = IF Check(n, n \in up) THEN overall[r] ELSE "unhealthy"]
        /\ UNCHANGED <<checks, up, rpc, asked>> /\ Observe
  BY Zenon DEF RunCheck
<1>2. /\ rpc[r] = "checking" /\ n \in asked[r] /\ n \in Names
      /\ todo[r] \subseteq asked[r] /\ asked[r] \subseteq Registered
      /\ overall[r] \in Statuses
  <2>1. /\ todo[r] \subseteq asked[r] /\ asked[r] \subseteq Registered
        /\ rpc[r] # "checking" => todo[r] = {}
    BY Zenon DEF HealthInv, Underway
  <2>2. n \in Names /\ overall[r] \in Statuses
    BY <1>1, <2>1, Zenon DEF HealthInv, HealthTypeOK, Registered
  <2>3. QED BY <1>1, <2>1, <2>2, Zenon
<1>3. /\ rpc' \in [Reporters -> {"idle", "checking", "done"}]
      /\ overall' \in [Reporters -> Statuses]
      /\ todo' \in [Reporters -> SUBSET Names] /\ asked' \in [Reporters -> SUBSET Names]
  BY <1>1, <1>2, Zenon DEF HealthInv, HealthTypeOK, Statuses
<1>4. /\ rpc'[r] = "checking" /\ todo'[r] = todo[r] \ {n} /\ asked'[r] = asked[r]
      /\ overall'[r] = IF Check(n, n \in up) THEN overall[r] ELSE "unhealthy"
      /\ \A q \in Reporters \ {r} : /\ rpc'[q] = rpc[q] /\ overall'[q] = overall[q]
                                    /\ todo'[q] = todo[q] /\ asked'[q] = asked[q]
  BY <1>1, <1>2, Zenon DEF HealthInv, HealthTypeOK
<1>5. /\ wasUp[r] \subseteq wasUp'[r] /\ wasDown[r] \subseteq wasDown'[r]
      /\ n \in up => n \in wasUp'[r]
      /\ n \notin up => n \in wasDown'[r]
  BY <1>1, <1>2, <1>4, Observed, Zenon DEF HealthInv, HealthTypeOK
<1>6. CASE Check(n, n \in up)
  <2>1. CASE overall[r] = "healthy"
    <3>1. \A m \in asked[r] \ todo[r] : Check(m, m \in wasUp'[r])
      BY <1>2, <1>5, <2>1, Zenon DEF HealthInv, StatusSoFar, Check
    <3>2. Check(n, n \in wasUp'[r])
      BY <1>5, <1>6, Zenon DEF Check
    <3>3. \A m \in asked'[r] \ todo'[r] : Check(m, m \in wasUp'[r])
      BY <1>4, <3>1, <3>2, Zenon
    <3>4. QED BY <1>1, <1>2, <1>3, <1>4, <1>6, <2>1, <3>3, RequestInv, Zenon
  <2>2. CASE overall[r] # "healthy"
    <3>1. \E m \in asked'[r] : ~Check(m, m \notin wasDown'[r])
      BY <1>2, <1>4, <1>5, <2>2, Zenon DEF HealthInv, StatusSoFar, Check
    <3>2. QED BY <1>1, <1>2, <1>3, <1>4, <1>6, <2>2, <3>1, RequestInv, Zenon
  <2>3. QED BY <2>1, <2>2, Zenon
<1>7. CASE ~Check(n, n \in up)
  <2>1. ~Check(n, n \notin wasDown'[r])
    BY <1>5, <1>7, Zenon DEF Check
  <2>2. \E m \in asked'[r] : ~Check(m, m \notin wasDown'[r])
    BY <1>2, <1>4, <2>1, Zenon
  <2>3. overall'[r] # "healthy"
    BY <1>4, <1>7, Zenon
  <2>4. QED BY <1>1, <1>2, <1>3, <1>4, <2>2, <2>3, RequestInv, Zenon
<1>8. QED BY <1>6, <1>7, Zenon

LEMMA AnswerInv ==
  ASSUME HealthInv, NEW r \in Reporters, Report(r) \/ HealthReturn(r)
  PROVE  HealthInv'
<1>1. CASE Report(r)
  <2>1. /\ rpc[r] = "checking" /\ todo[r] = {} /\ rpc' = [rpc EXCEPT ![r] = "done"]
        /\ UNCHANGED <<checks, up, todo, overall, asked>> /\ Observe
    BY <1>1, Zenon DEF Report
  <2>2. rpc' \in [Reporters -> {"idle", "checking", "done"}]
    BY <2>1, Zenon DEF HealthInv, HealthTypeOK
  <2>3. rpc'[r] = "done" /\ \A q \in Reporters \ {r} : rpc'[q] = rpc[q]
    BY <2>1, Zenon DEF HealthInv, HealthTypeOK
  <2>4. IF overall'[r] = "healthy"
        THEN \A n \in asked'[r] \ todo'[r] : Check(n, n \in wasUp'[r])
        ELSE \E n \in asked'[r] : ~Check(n, n \notin wasDown'[r])
    <3>1. wasUp[r] \subseteq wasUp'[r] /\ wasDown[r] \subseteq wasDown'[r]
      BY <2>1, <2>3, Observed, Zenon DEF HealthInv, HealthTypeOK
    <3>2. QED BY <2>1, <3>1, Zenon DEF HealthInv, StatusSoFar, Check
  <2>5. /\ overall' \in [Reporters -> Statuses]
        /\ todo' \in [Reporters -> SUBSET Names] /\ asked' \in [Reporters -> SUBSET Names]
    BY <2>1, Zenon DEF HealthInv, HealthTypeOK
  <2>6. todo'[r] = {} /\ asked'[r] \subseteq Registered
    BY <2>1, Zenon DEF HealthInv, Underway
  <2>7. QED BY <2>1, <2>2, <2>3, <2>4, <2>5, <2>6, RequestInv, Zenon
<1>2. CASE HealthReturn(r)
  <2>1. /\ rpc[r] = "done" /\ rpc' = [rpc EXCEPT ![r] = "idle"]
        /\ asked' = [asked EXCEPT ![r] = {}]
        /\ UNCHANGED <<checks, up, todo, overall>> /\ Observe
    BY <1>2, Zenon DEF HealthReturn
  <2>2. /\ rpc' \in [Reporters -> {"idle", "checking", "done"}]
        /\ asked' \in [Reporters -> SUBSET Names] /\ todo' \in [Reporters -> SUBSET Names]
        /\ overall' \in [Reporters -> Statuses]
        /\ todo'[r] = {}
    BY <2>1, Zenon DEF HealthInv, HealthTypeOK, Underway
  <2>3. /\ rpc'[r] = "idle" /\ asked'[r] = {}
        /\ \A q \in Reporters \ {r} : rpc'[q] = rpc[q] /\ asked'[q] = asked[q]
    BY <2>1, Zenon DEF HealthInv, HealthTypeOK
  <2>4. QED BY <2>1, <2>2, <2>3, RequestInv, Zenon
<1>3. QED BY <1>1, <1>2, Zenon

LEMMA HealthNextInv == ASSUME HealthInv, [HealthNext]_healthVars PROVE HealthInv'
<1>1. ASSUME NEW n \in Names, Toggle(n) PROVE HealthInv'
  <2>1. up' \subseteq Names
    BY <1>1, Zenon DEF Toggle, HealthInv, HealthTypeOK
  <2>2. QED BY <1>1, <2>1, SurroundingsInv, Zenon DEF Toggle, HealthInv, HealthTypeOK
<1>2. ASSUME NEW n \in Names, NEW kind \in Kinds, RegisterCheck(n, kind) PROVE HealthInv'
  <2>1. /\ checks' \in [Names -> Kinds \cup {"none"}]
        /\ \A m \in Registered : checks'[m] = checks[m]
    BY <1>2, Zenon DEF RegisterCheck, HealthInv, HealthTypeOK, Registered
  <2>2. QED BY <1>2, <2>1, SurroundingsInv, Zenon DEF RegisterCheck, HealthInv, HealthTypeOK
<1>3. ASSUME NEW r \in Reporters, Serve(r) PROVE HealthInv'
  BY <1>3, StartInv, RunCheckInv, AnswerInv, Zenon DEF Serve, CheckAll
<1>4. ASSUME NEW r \in Reporters, NEW n \in Names, GetCheckStatus(r, n) PROVE HealthInv'
  BY <1>4, StartInv, Zenon DEF GetCheckStatus
<1>5. CASE UNCHANGED healthVars
  BY <1>5, Zenon DEF healthVars, request, HealthInv, HealthTypeOK, Witnessed, Underway, StatusSoFar,
              Registered, Check
<1>6. QED BY <1>1, <1>2, <1>3, <1>4, <1>5, Zenon DEF HealthNext

\* Whatever dependencies come and go and checks are registered while requests run,
\* a report is healthy only when each of its checks passed at some moment of the
\* request, and unhealthy only when one of them failed at some moment of it.
THEOREM ReportsSound == HealthSpec => []ReportSound
<1>1. HealthInit => HealthInv
  BY DEF HealthInit, InitWith, HealthInv, HealthTypeOK, Statuses, Witnessed, Underway, StatusSoFar
<1>2. HealthInv => ReportSound
  BY Zenon DEF HealthInv, Underway, StatusSoFar, ReportSound, Done
<1>3. QED BY <1>1, <1>2, HealthNextInv, PTL DEF HealthSpec

=============================================================================
