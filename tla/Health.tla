-------------------------------- MODULE Health --------------------------------
(***************************************************************************)
(* The health checker (internal/infrastructure/health) with the endpoints  *)
(* /health and /ready, and the RPC GetHealth that reports the same checks  *)
(* through the adapter of main.go.  CheckAll copies the checks under the   *)
(* lock and runs the copies unlocked, one after the other in the order of  *)
(* a Go map, while the dependencies they ask come and go.                  *)
(***************************************************************************)
EXTENDS FiniteSets

CONSTANTS
  Reporters,  \* concurrent requests
  Names       \* names of checks

VARIABLES
  checks,   \* the kind of the check registered under a name
  up,       \* the dependencies that answer
  rpc,      \* where a request is: idle, running its checks, done
  todo,     \* the checks it has still to run
  overall,  \* its overall status so far
  asked,    \* history: the checks it was asked about
  wasUp,    \* history: the dependencies that answered at some moment of it
  wasDown   \* history: the dependencies that did not at some moment of it

request == <<rpc, todo, overall>>
healthVars == <<checks, up, request, asked, wasUp, wasDown>>

\* A generic check calls its function, and the Kafka and gRPC checks their ping
\* when they have one.
Kinds == {"simple", "function", "noPing"}
Statuses == {"healthy", "unhealthy"}

Registered == {n \in Names : checks[n] # "none"}

\* What the check of a name returns while its dependency answers, or does not.
Check(n, answers) == checks[n] = "simple" \/ (checks[n] = "function" /\ answers)

HealthTypeOK ==
  /\ checks \in [Names -> Kinds \cup {"none"}]
  /\ up \subseteq Names
  /\ rpc \in [Reporters -> {"idle", "checking", "done"}]
  /\ overall \in [Reporters -> Statuses]
  /\ \A f \in {todo, asked, wasUp, wasDown} : f \in [Reporters -> SUBSET Names]

InitWith(registered) ==
  /\ checks = registered
  /\ up = {}
  /\ rpc = [r \in Reporters |-> "idle"]
  /\ todo = [r \in Reporters |-> {}]
  /\ overall = [r \in Reporters |-> "healthy"]
  /\ asked = [r \in Reporters |-> {}]
  /\ wasUp = [r \in Reporters |-> {}]
  /\ wasDown = [r \in Reporters |-> {}]

HealthInit == InitWith([n \in Names |-> "none"])

\* Every request under way sees which dependencies answer after the step.
Observe ==
  /\ wasUp' = [r \in Reporters |-> IF rpc'[r] = "idle" THEN {} ELSE wasUp[r] \cup up']
  /\ wasDown' = [r \in Reporters |-> IF rpc'[r] = "idle" THEN {} ELSE wasDown[r] \cup (Names \ up')]

-----------------------------------------------------------------------------
\* A dependency stops answering, or answers again.
Toggle(n) ==
  /\ up' = IF n \in up THEN up \ {n} ELSE up \cup {n}
  /\ UNCHANGED <<checks, request, asked>>
  /\ Observe

\* A second check of the same name is refused.
RegisterCheck(n, kind) ==
  /\ checks[n] = "none"
  /\ checks' = [checks EXCEPT ![n] = kind]
  /\ UNCHANGED <<up, request, asked>>
  /\ Observe

Start(r, names) ==
  /\ rpc[r] = "idle"
  /\ rpc' = [rpc EXCEPT ![r] = "checking"]
  /\ todo' = [todo EXCEPT ![r] = names]
  /\ overall' = [overall EXCEPT ![r] = "healthy"]
  /\ asked' = [asked EXCEPT ![r] = names]
  /\ UNCHANGED <<checks, up>>
  /\ Observe

CheckAll(r) == Start(r, Registered)

\* A name without a check is an error.
GetCheckStatus(r, n) == n \in Registered /\ Start(r, {n})

\* Mutant: the overall status is that of the check run last.
RunCheckLast(r) ==
  \E n \in todo[r] :
     /\ todo' = [todo EXCEPT ![r] = @ \ {n}]
     /\ overall' = [overall EXCEPT ![r] = IF Check(n, n \in up) THEN "healthy" ELSE "unhealthy"]
     /\ UNCHANGED <<checks, up, rpc, asked>>
     /\ Observe

RunCheck(r) ==
  \E n \in todo[r] :
     /\ todo' = [todo EXCEPT ![r] = @ \ {n}]
     /\ overall' = [overall EXCEPT ![r] = IF Check(n, n \in up) THEN @ ELSE "unhealthy"]
     /\ UNCHANGED <<checks, up, rpc, asked>>
     /\ Observe

Report(r) ==
  /\ rpc[r] = "checking" /\ todo[r] = {}
  /\ rpc' = [rpc EXCEPT ![r] = "done"]
  /\ UNCHANGED <<checks, up, todo, overall, asked>>
  /\ Observe

HealthReturn(r) ==
  /\ rpc[r] = "done"
  /\ rpc' = [rpc EXCEPT ![r] = "idle"]
  /\ asked' = [asked EXCEPT ![r] = {}]
  /\ UNCHANGED <<checks, up, todo, overall>>
  /\ Observe

Serve(r) == CheckAll(r) \/ RunCheck(r) \/ Report(r) \/ HealthReturn(r)

HealthNext ==
  \/ \E n \in Names : Toggle(n) \/ \E kind \in Kinds : RegisterCheck(n, kind)
  \/ \E r \in Reporters : Serve(r) \/ \E n \in Names : GetCheckStatus(r, n)

HealthSpec == HealthInit /\ [][HealthNext]_healthVars

\* The gateway registers its checks at the start and only calls CheckAll.  The
\* function of its Kafka check returns nil without asking Kafka.
RegisterHealthChecks == [n \in Names |-> "simple"]

GatewayNext == (\E n \in Names : Toggle(n)) \/ (\E r \in Reporters : Serve(r))

GatewaySpec == InitWith(RegisterHealthChecks) /\ [][GatewayNext]_healthVars

-----------------------------------------------------------------------------
(* The answers of the endpoints and of the RPC *)

Done(r) == rpc[r] = "done"

\* /health, and /ready, which answers alike.
HealthHTTPHandler(r) == IF overall[r] = "healthy" THEN "200 OK" ELSE "503 Service Unavailable"

\* The adapter hands on the status as it is, in small letters.
GetStatus(r) == overall[r]

\* GetHealth goes by names in capitals.
GetHealth(r) ==
  CASE GetStatus(r) = "HEALTHY"  -> "STATUS_HEALTHY"
    [] GetStatus(r) = "DEGRADED" -> "STATUS_DEGRADED"
    [] OTHER                     -> "STATUS_UNHEALTHY"

-----------------------------------------------------------------------------
(* Properties *)

\* A report was true of each check at some moment of the request, however the
\* dependencies change while it runs: healthy only when every check that was
\* registered when it began passed, unhealthy only when one of them failed.
ReportSound ==
  \A r \in Reporters : Done(r) =>
     IF overall[r] = "healthy"
     THEN \A n \in asked[r] : Check(n, n \in wasUp[r])
     ELSE \E n \in asked[r] : ~Check(n, n \notin wasDown[r])

\* "GetHealth returns the health status of the gateway": the RPC says that the
\* gateway is healthy when the endpoint /health does.
GetHealthAgrees ==
  \A r \in Reporters : Done(r) =>
     (GetHealth(r) = "STATUS_HEALTHY" <=> HealthHTTPHandler(r) = "200 OK")

=============================================================================
