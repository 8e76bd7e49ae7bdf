--------------------------- MODULE CircuitBreaker ---------------------------
(***************************************************************************)
(* The package circuitbreaker (pkg/circuitbreaker/circuit_breaker.go).     *)
(*                                                                         *)
(* Execute holds the mutex while it runs fn, so a call that waits has no   *)
(* state of its own and any number of callers is covered.  A call is two   *)
(* steps, up to fn and from its end; time passes and callbacks start in    *)
(* between.  A call that gets ErrCircuitOpen changes nothing.              *)
(***************************************************************************)
EXTENDS Integers, Sequences

CONSTANTS
  FailureThreshold, HalfOpenMaxCalls, ResetTimeout,  \* Config
  MaxCalls,  \* bound: calls of Execute that run fn, and of Reset
  MaxTime    \* bound: the clock

\* New replaces a value that is not positive by a default.
ASSUME CircuitBreakerAssumption ==
  /\ FailureThreshold \in Nat \ {0}
  /\ HalfOpenMaxCalls \in Nat \ {0}
  /\ ResetTimeout \in Nat \ {0}
  /\ MaxCalls \in Nat
  /\ MaxTime \in Nat

VARIABLES
  now, state, consecutiveFailures, lastFailureTime, successCount,
  running,        \* the mutex is held by an Execute that runs fn
  onStateChange,  \* a callback is set
  calls,
  outcomes,       \* history: of the calls since the last change of state
  told,           \* history: how often the callback was started, by old and new state
  heardFrom       \* history: the state when the callback was set

counters == <<consecutiveFailures, successCount>>
vars == <<now, state, counters, lastFailureTime, running, onStateChange, calls,
          outcomes, told, heardFrom>>

States == {"closed", "open", "half-open"}

TypeOK ==
  /\ now \in 0 .. MaxTime
  /\ state \in States
  /\ consecutiveFailures \in 0 .. FailureThreshold
  /\ lastFailureTime \in 0 .. now
  /\ successCount \in 0 .. HalfOpenMaxCalls - 1
  /\ running \in BOOLEAN
  /\ running => state # "open"
  /\ onStateChange \in BOOLEAN
  /\ calls \in 0 .. MaxCalls
  /\ outcomes \in Seq({"ok", "failed"})
  /\ told \in [States \X States -> Nat]
  /\ heardFrom \in States

Init ==
  /\ now = 0
  /\ state = "closed"
  /\ consecutiveFailures = 0
  /\ lastFailureTime = 0
  /\ successCount = 0
  /\ running = FALSE
  /\ onStateChange = FALSE
  /\ calls = 0
  /\ outcomes = <<>>
  /\ told = [t \in States \X States |-> 0]
  /\ heardFrom = "closed"

\* Mutant: the old state is read after the assignment.
ChangeStateLate(new) ==
  /\ state' = new
  /\ outcomes' = <<>>
  /\ told' = IF onStateChange THEN [told EXCEPT ![<<new, new>>] = @ + 1] ELSE told
\* changeState: the callback runs in a goroutine of its own, at any time from now on.
ChangeState(new) ==
  /\ state' = new
  /\ outcomes' = <<>>
  /\ told' = IF onStateChange THEN [told EXCEPT ![<<state, new>>] = @ + 1] ELSE told

SameState(o) ==
  /\ outcomes' = Append(outcomes, o)
  /\ UNCHANGED <<state, told>>

\* Another callback, or none, from here on.
SetOnStateChange ==
  /\ ~running
  /\ onStateChange' \in BOOLEAN
  /\ heardFrom' = state
  /\ told' = [t \in States \X States |-> 0]
  /\ UNCHANGED <<now, state, counters, lastFailureTime, running, calls, outcomes>>

-----------------------------------------------------------------------------
(* Execute, up to the call of fn *)

Call ==
  /\ ~running
  /\ calls < MaxCalls
  /\ calls' = calls + 1

\* The state is closed or half-open.
ExecuteAdmitted ==
  /\ Call
  /\ state # "open"
  /\ running' = TRUE
  /\ UNCHANGED <<now, state, counters, lastFailureTime, onStateChange, outcomes, told, heardFrom>>

\* executeOpen when the reset timeout has passed; before, ErrCircuitOpen.
ExecuteOpen ==
  /\ Call
  /\ state = "open"
  /\ now - lastFailureTime >= ResetTimeout
  /\ running' = TRUE
  /\ ChangeState("half-open")
  /\ successCount' = 0
  /\ UNCHANGED <<now, consecutiveFailures, lastFailureTime, onStateChange, heardFrom>>

-----------------------------------------------------------------------------
(* Execute, from the end of fn *)

FnReturned ==
  /\ running
  /\ running' = FALSE
  /\ UNCHANGED <<now, onStateChange, calls, heardFrom>>

ClosedFailure ==
  /\ FnReturned
  /\ state = "closed"
  /\ consecutiveFailures' = consecutiveFailures + 1
  /\ lastFailureTime' = now
  /\ IF consecutiveFailures' >= FailureThreshold THEN ChangeState("open") ELSE SameState("failed")
  /\ UNCHANGED successCount

\* Mutant: the failures before a success still count.
ClosedSuccessKept ==
  /\ FnReturned
  /\ state = "closed"
  /\ SameState("ok")
  /\ UNCHANGED <<counters, lastFailureTime>>
ClosedSuccess ==
  /\ FnReturned
  /\ state = "closed"
  /\ consecutiveFailures' = 0
  /\ SameState("ok")
  /\ UNCHANGED <<successCount, lastFailureTime>>

HalfOpenFailure ==
  /\ FnReturned
  /\ state = "half-open"
  /\ ChangeState("open")
  /\ lastFailureTime' = now
  /\ consecutiveFailures' = 1
  /\ successCount' = 0

\* Mutant: one success too many is waited for.
HalfOpenSuccessLate ==
  /\ FnReturned
  /\ state = "half-open"
  /\ IF successCount + 1 > HalfOpenMaxCalls
     THEN ChangeState("closed") /\ consecutiveFailures' = 0 /\ successCount' = 0
     ELSE SameState("ok") /\ successCount' = successCount + 1 /\ UNCHANGED consecutiveFailures
  /\ UNCHANGED lastFailureTime
HalfOpenSuccess ==
  /\ FnReturned
  /\ state = "half-open"
  /\ IF successCount + 1 >= HalfOpenMaxCalls
     THEN ChangeState("closed") /\ consecutiveFailures' = 0 /\ successCount' = 0
     ELSE SameState("ok") /\ successCount' = successCount + 1 /\ UNCHANGED consecutiveFailures
  /\ UNCHANGED lastFailureTime

\* fn panics: the deferred Unlock runs, and nothing is counted.
FnPanics ==
  /\ FnReturned
  /\ UNCHANGED <<state, counters, lastFailureTime, outcomes, told>>

-----------------------------------------------------------------------------
\* Reset calls back only when it changes the state.
Reset ==
  /\ Call
  /\ state' = "closed"
  /\ outcomes' = <<>>
  /\ told' = IF onStateChange /\ state # "closed"
             THEN [told EXCEPT ![<<state, "closed">>] = @ + 1] ELSE told
  /\ consecutiveFailures' = 0
  /\ successCount' = 0
  /\ lastFailureTime' = now
  /\ UNCHANGED <<now, running, onStateChange, heardFrom>>

Tick ==
  /\ now < MaxTime
  /\ now' = now + 1
  /\ UNCHANGED <<state, counters, lastFailureTime, running, onStateChange, calls,
                 outcomes, told, heardFrom>>

Next ==
  \/ SetOnStateChange \/ ExecuteAdmitted \/ ExecuteOpen
  \/ ClosedFailure \/ ClosedSuccess \/ HalfOpenFailure \/ HalfOpenSuccess \/ FnPanics
  \/ Reset \/ Tick

Spec == Init /\ [][Next]_vars

-----------------------------------------------------------------------------
(* Properties *)

Abstract == INSTANCE Breaker WITH openedAt <- IF state = "open" THEN lastFailureTime ELSE 0

\* The counters and timestamps of Execute make a circuit breaker: over any sequence of
\* successes, failures, panics and resets it opens exactly at FailureThreshold failures in
\* a row, lets nothing through for ResetTimeout from then, and closes exactly at
\* HalfOpenMaxCalls successes.
IsBreaker == Abstract!Spec

Arrivals(s)   == told[<<"closed", s>>] + told[<<"open", s>>] + told[<<"half-open", s>>]
Departures(s) == told[<<s, "closed">>] + told[<<s, "open">>] + told[<<s, "half-open">>]
At(s, t)      == IF s = t THEN 1 ELSE 0

\* Callbacks, which changeState and Reset start with go and which may run in any order,
\* are together the way from the state when the callback was set to the present one: an
\* observer that counts arrivals and departures knows the state, though one that goes by
\* the last callback may not.
CallbacksConserve ==
  onStateChange =>
    \A s \in States : Arrivals(s) - Departures(s) = At(state, s) - At(heardFrom, s)

=============================================================================
