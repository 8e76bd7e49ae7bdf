------------------------------- MODULE Breaker -------------------------------
(***************************************************************************)
(* What a circuit breaker promises, in terms of the outcomes of the calls  *)
(* it let through and of the time it opened.                               *)
(***************************************************************************)
EXTENDS Integers, Sequences

CONSTANTS FailureThreshold, HalfOpenMaxCalls, ResetTimeout

VARIABLES
  now,
  state,
  outcomes,  \* of the calls since the breaker got into its state
  openedAt   \* when it opened, 0 while it is not open

vars == <<now, state, outcomes, openedAt>>

Init == now = 0 /\ state = "closed" /\ outcomes = <<>> /\ openedAt = 0

\* The last n outcomes of s are failures.
LastFailed(s, n) ==
  n <= Len(s) /\ \A k \in 1 .. Len(s) : k > Len(s) - n => s[k] = "failed"

Enter(to) ==
  /\ state' = to
  /\ outcomes' = <<>>
  /\ openedAt' = IF to = "open" THEN now ELSE 0
  /\ UNCHANGED now

Stay(o) ==
  /\ outcomes' = Append(outcomes, o)
  /\ UNCHANGED <<now, state, openedAt>>

\* A closed breaker opens at FailureThreshold failures in a row, and not before.
Closed(o) ==
  /\ state = "closed"
  /\ IF LastFailed(Append(outcomes, o), FailureThreshold) THEN Enter("open") ELSE Stay(o)

\* A half-open one opens at the first failure and closes at HalfOpenMaxCalls successes.
HalfOpen(o) ==
  /\ state = "half-open"
  /\ IF o = "failed" THEN Enter("open")
     ELSE IF Len(outcomes) + 1 >= HalfOpenMaxCalls THEN Enter("closed") ELSE Stay(o)

\* An open one lets nothing through until ResetTimeout has passed.
Probe ==
  /\ state = "open"
  /\ now - openedAt >= ResetTimeout
  /\ Enter("half-open")

Reset == Enter("closed")

Tick == now' = now + 1 /\ UNCHANGED <<state, outcomes, openedAt>>

Next == (\E o \in {"ok", "failed"} : Closed(o) \/ HalfOpen(o)) \/ Probe \/ Reset \/ Tick

Spec == Init /\ [][Next]_vars

=============================================================================
