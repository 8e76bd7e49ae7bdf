-------------------------- MODULE ResilienceProofs --------------------------
(***************************************************************************)
(* Proofs about the two parts that deal with failures, for any thresholds, *)
(* timeouts and settings: the circuit breaker implements Breaker, and its  *)
(* callbacks add up to its state; retry.Do returns what happened.          *)
(***************************************************************************)
EXTENDS CircuitBreaker, Retry, TLAPS

-----------------------------------------------------------------------------
(* The circuit breaker *)

\* What the counters stand for: consecutiveFailures is the length of the run of failures
\* that ends the outcomes of a closed breaker, successCount the number of outcomes of a
\* half-open one.
Counted ==
  /\ state = "closed" =>
       /\ consecutiveFailures < FailureThreshold
       /\ Abstract!LastFailed(outcomes, consecutiveFailures)
       /\ consecutiveFailures < Len(outcomes) =>
            outcomes[Len(outcomes) - consecutiveFailures] = "ok"
  /\ state = "half-open" => successCount = Len(outcomes)

-----------------------------------------------------------------------------
(* Type correctness *)

\* An entry of told that is counted up leaves a table of counts.
LEMMA ToldType ==
  ASSUME TypeOK, NEW t \in States \X States
  PROVE  [told EXCEPT ![t] = @ + 1] \in [States \X States -> Nat]
BY DEF TypeOK

\* A change of state keeps the types of what it changes.
LEMMA ChangeStateType ==
  ASSUME TypeOK, NEW s \in States, ChangeState(s)
  PROVE  state' = s /\ outcomes' = <<>> /\ outcomes' \in Seq({"ok", "failed"})
         /\ told' \in [States \X States -> Nat]
<1>1. <<state, s>> \in States \X States
  BY DEF TypeOK
<1>2. told \in [States \X States -> Nat]
  BY DEF TypeOK
<1>3. [told EXCEPT ![<<state, s>>] = @ + 1] \in [States \X States -> Nat]
  BY <1>1, ToldType
<1>4. told' = told \/ told' = [told EXCEPT ![<<state, s>>] = @ + 1]
  BY DEF ChangeState
<1>5. QED BY <1>2, <1>3, <1>4 DEF ChangeState

\* An outcome that is appended keeps the type of outcomes.
LEMMA SameStateType ==
  ASSUME TypeOK, NEW o \in {"ok", "failed"}, SameState(o)
  PROVE  state' = state /\ told' = told /\ outcomes' = Append(outcomes, o)
         /\ outcomes' \in Seq({"ok", "failed"})
BY DEF SameState, TypeOK

\* The end of fn releases the mutex and leaves the rest to its outcome.
LEMMA FnReturnedType ==
  ASSUME TypeOK, FnReturned
  PROVE  /\ now' \in 0 .. MaxTime /\ now' = now
         /\ running' \in BOOLEAN /\ ~running'
         /\ onStateChange' \in BOOLEAN
         /\ calls' \in 0 .. MaxCalls
         /\ heardFrom' \in States
BY Zenon DEF TypeOK, FnReturned

\* The types of what an outcome may change.
Settled ==
  /\ consecutiveFailures \in 0 .. FailureThreshold
  /\ lastFailureTime \in 0 .. now
  /\ successCount \in 0 .. HalfOpenMaxCalls - 1

\* Every step keeps the types.
LEMMA TypeStep == TypeOK /\ Counted /\ [Next]_vars => TypeOK'
<1>. SUFFICES ASSUME TypeOK, Counted, [Next]_vars PROVE TypeOK'
  OBVIOUS
<1>. USE CircuitBreakerAssumption
<1>1. CASE SetOnStateChange
  BY <1>1 DEF SetOnStateChange, TypeOK, counters
<1>2. CASE ExecuteAdmitted
  BY <1>2 DEF ExecuteAdmitted, Call, TypeOK, counters
<1>3. CASE ExecuteOpen
  <2>1. "half-open" \in States
    BY DEF States
  <2>2. /\ state' = "half-open" /\ outcomes' \in Seq({"ok", "failed"})
        /\ told' \in [States \X States -> Nat]
    BY <1>3, <2>1, ChangeStateType, Zenon DEF ExecuteOpen
  <2>3. QED BY <1>3, <2>1, <2>2 DEF ExecuteOpen, Call, TypeOK
<1>4. CASE ClosedFailure
  <2>1. CASE consecutiveFailures' >= FailureThreshold
    <3>1. "open" \in States
      BY DEF States
    <3>2. /\ state' = "open" /\ outcomes' \in Seq({"ok", "failed"})
          /\ told' \in [States \X States -> Nat]
      BY <1>4, <2>1, <3>1, ChangeStateType, Zenon DEF ClosedFailure
    <3>3. FnReturned /\ Settled'
      BY <1>4 DEF ClosedFailure, FnReturned, TypeOK, Counted, Settled
    <3>4. QED BY <3>1, <3>2, <3>3, FnReturnedType DEF TypeOK, Settled
  <2>2. CASE ~(consecutiveFailures' >= FailureThreshold)
    <3>1. state' = state /\ told' = told /\ outcomes' \in Seq({"ok", "failed"})
      BY <1>4, <2>2, SameStateType DEF ClosedFailure
    <3>2. FnReturned /\ Settled'
      BY <1>4 DEF ClosedFailure, FnReturned, TypeOK, Counted, Settled
    <3>3. QED BY <3>1, <3>2, FnReturnedType DEF TypeOK, Settled
  <2>3. QED BY <2>1, <2>2
<1>5. CASE ClosedSuccess
  <2>1. state' = state /\ told' = told /\ outcomes' \in Seq({"ok", "failed"})
    BY <1>5, SameStateType DEF ClosedSuccess
  <2>2. FnReturned /\ Settled'
    BY <1>5 DEF ClosedSuccess, FnReturned, TypeOK, Settled
  <2>3. QED BY <2>1, <2>2, FnReturnedType DEF TypeOK, Settled
<1>6. CASE HalfOpenFailure
  <2>1. "open" \in States
    BY DEF States
  <2>2. /\ state' = "open" /\ outcomes' \in Seq({"ok", "failed"})
        /\ told' \in [States \X States -> Nat]
    BY <1>6, <2>1, ChangeStateType, Zenon DEF HalfOpenFailure
  <2>3. FnReturned /\ Settled'
    BY <1>6 DEF HalfOpenFailure, FnReturned, TypeOK, Settled
  <2>4. QED BY <2>1, <2>2, <2>3, FnReturnedType DEF TypeOK, Settled
<1>7. CASE HalfOpenSuccess
  <2>1. CASE successCount + 1 >= HalfOpenMaxCalls
    <3>1. "closed" \in States
      BY DEF States
    <3>2. /\ state' = "closed" /\ outcomes' \in Seq({"ok", "failed"})
          /\ told' \in [States \X States -> Nat]
      BY <1>7, <2>1, <3>1, ChangeStateType, Zenon DEF HalfOpenSuccess
    <3>3. FnReturned /\ Settled'
      BY <1>7, <2>1 DEF HalfOpenSuccess, FnReturned, TypeOK, Settled
    <3>4. QED BY <3>1, <3>2, <3>3, FnReturnedType DEF TypeOK, Settled
  <2>2. CASE ~(successCount + 1 >= HalfOpenMaxCalls)
    <3>1. state' = state /\ told' = told /\ outcomes' \in Seq({"ok", "failed"})
      BY <1>7, <2>2, SameStateType DEF HalfOpenSuccess
    <3>2. FnReturned /\ Settled'
      BY <1>7, <2>2 DEF HalfOpenSuccess, FnReturned, TypeOK, Settled
    <3>3. QED BY <3>1, <3>2, FnReturnedType DEF TypeOK, Settled
  <2>3. QED BY <2>1, <2>2
<1>8. CASE FnPanics
  BY <1>8, Zenon DEF FnPanics, FnReturned, TypeOK, counters
<1>9. CASE Reset
  <2>1. told' \in [States \X States -> Nat]
    <3>1. <<state, "closed">> \in States \X States
      BY DEF TypeOK, States
    <3>2. told' = told \/ told' = [told EXCEPT ![<<state, "closed">>] = @ + 1]
      BY <1>9 DEF Reset
    <3>3. [told EXCEPT ![<<state, "closed">>] = @ + 1] \in [States \X States -> Nat]
      BY <3>1, ToldType
    <3>4. told \in [States \X States -> Nat]
      BY DEF TypeOK
    <3>5. QED BY <3>2, <3>3, <3>4
  <2>2. <<>> \in Seq({"ok", "failed"}) /\ "closed" \in States
    BY DEF States
  <2>3. Settled' /\ now' \in 0 .. MaxTime /\ calls' \in 0 .. MaxCalls
    BY <1>9 DEF Reset, Call, TypeOK, Settled
  <2>4. state' = "closed" /\ outcomes' = <<>> /\ UNCHANGED <<running, onStateChange, heardFrom>>
    BY <1>9 DEF Reset
  <2>5. QED BY <2>1, <2>2, <2>3, <2>4 DEF TypeOK, Settled
<1>10. CASE Tick
  BY <1>10 DEF Tick, TypeOK, counters
<1>11. CASE UNCHANGED vars
  BY <1>11 DEF vars, TypeOK, counters
<1>12. QED
  BY <1>1, <1>2, <1>3, <1>4, <1>5, <1>6, <1>7, <1>8, <1>9, <1>10, <1>11 DEF Next

-----------------------------------------------------------------------------
(* The counters *)

\* One more failure in the outcomes of a closed breaker: the run of failures is one longer,
\* and reaches FailureThreshold exactly when the counter does.
LEMMA OneMoreFailure ==
  ASSUME TypeOK, Counted, state = "closed", NEW s, s = Append(outcomes, "failed"),
         NEW n, n = consecutiveFailures + 1
  PROVE  /\ Abstract!LastFailed(s, n)
         /\ n < Len(s) => s[Len(s) - n] = "ok"
         /\ n >= FailureThreshold => Abstract!LastFailed(s, FailureThreshold)
         /\ n < FailureThreshold => ~Abstract!LastFailed(s, FailureThreshold)
<1>. USE CircuitBreakerAssumption
<1>1. /\ outcomes \in Seq({"ok", "failed"}) /\ Len(outcomes) \in Nat
      /\ consecutiveFailures \in Nat
      /\ Len(s) = Len(outcomes) + 1 /\ s[Len(s)] = "failed"
      /\ \A k \in 1 .. Len(outcomes) : s[k] = outcomes[k]
  BY DEF TypeOK
<1>2. /\ consecutiveFailures < FailureThreshold
      /\ consecutiveFailures <= Len(outcomes)
      /\ \A k \in 1 .. Len(outcomes) : k > Len(outcomes) - consecutiveFailures => outcomes[k] = "failed"
      /\ consecutiveFailures < Len(outcomes) =>
           outcomes[Len(outcomes) - consecutiveFailures] = "ok"
  BY DEF Counted, Abstract!LastFailed
<1>3. Abstract!LastFailed(s, n)
  BY <1>1, <1>2 DEF Abstract!LastFailed
<1>4. n < Len(s) => s[Len(s) - n] = "ok"
  BY <1>1, <1>2
<1>5. n >= FailureThreshold => n = FailureThreshold
  BY <1>1, <1>2
<1>6. n < FailureThreshold => ~Abstract!LastFailed(s, FailureThreshold)
  <2>1. SUFFICES ASSUME n < FailureThreshold, FailureThreshold <= Len(s)
                 PROVE  \E k \in 1 .. Len(s) : k > Len(s) - FailureThreshold /\ s[k] # "failed"
    BY DEF Abstract!LastFailed
  <2>2. /\ Len(s) - n \in 1 .. Len(s) /\ Len(s) - n > Len(s) - FailureThreshold
        /\ s[Len(s) - n] = "ok"
    BY <1>1, <1>4, <2>1
  <2>3. QED BY <2>2
<1>7. QED BY <1>3, <1>4, <1>5, <1>6, Zenon

\* A success ends the run of failures.
LEMMA OneMoreSuccess ==
  ASSUME TypeOK, NEW s, s = Append(outcomes, "ok")
  PROVE  /\ Abstract!LastFailed(s, 0)
         /\ Len(s) > 0 /\ s[Len(s) - 0] = "ok"
         /\ ~Abstract!LastFailed(s, FailureThreshold)
<1>1. /\ Len(outcomes) \in Nat /\ Len(s) = Len(outcomes) + 1 /\ s[Len(s)] = "ok"
  BY DEF TypeOK
<1>2. Abstract!LastFailed(s, 0)
  BY <1>1 DEF Abstract!LastFailed
<1>3. ~Abstract!LastFailed(s, FailureThreshold)
  <2>1. Len(s) \in 1 .. Len(s) /\ Len(s) > Len(s) - FailureThreshold
    BY <1>1, CircuitBreakerAssumption
  <2>2. QED BY <1>1, <2>1 DEF Abstract!LastFailed
<1>4. QED BY <1>1, <1>2, <1>3

\* The counters of a breaker that has just got into its state.
LEMMA NothingCounted == Abstract!LastFailed(<<>>, 0) /\ Len(<<>>) = 0
BY DEF Abstract!LastFailed

-----------------------------------------------------------------------------
(* Refinement *)

\* Every step keeps the counters to what they stand for.
LEMMA CountedStep == TypeOK /\ Counted /\ [Next]_vars => Counted'
<1>. SUFFICES ASSUME TypeOK, Counted, [Next]_vars PROVE Counted'
  OBVIOUS
<1>. USE CircuitBreakerAssumption
<1>1. CASE UNCHANGED <<state, counters, outcomes>>
  BY <1>1 DEF Counted, counters, Abstract!LastFailed
<1>2. CASE ExecuteOpen
  BY <1>2, NothingCounted DEF ExecuteOpen, ChangeState, Counted
<1>3. CASE ClosedFailure
  <2>1. CASE consecutiveFailures' >= FailureThreshold
    BY <1>3, <2>1 DEF ClosedFailure, ChangeState, Counted
  <2>2. CASE ~(consecutiveFailures' >= FailureThreshold)
    <3>1. /\ state = "closed" /\ state' = "closed"
          /\ consecutiveFailures' = consecutiveFailures + 1
          /\ outcomes' = Append(outcomes, "failed")
      BY <1>3, <2>2 DEF ClosedFailure, SameState
    <3>2. /\ Abstract!LastFailed(outcomes', consecutiveFailures')
          /\ consecutiveFailures' < Len(outcomes') =>
               outcomes'[Len(outcomes') - consecutiveFailures'] = "ok"
      BY <3>1, OneMoreFailure, Zenon
    <3>3. consecutiveFailures' < FailureThreshold
      BY <2>2, <3>1 DEF TypeOK
    <3>4. QED BY <3>1, <3>2, <3>3, Zenon DEF Counted, Abstract!LastFailed
  <2>3. QED BY <2>1, <2>2
<1>4. CASE ClosedSuccess
  <2>1. /\ state' = "closed" /\ consecutiveFailures' = 0
        /\ outcomes' = Append(outcomes, "ok")
    BY <1>4 DEF ClosedSuccess, SameState
  <2>2. QED BY <2>1, OneMoreSuccess DEF Counted, Abstract!LastFailed
<1>5. CASE HalfOpenFailure
  BY <1>5 DEF HalfOpenFailure, ChangeState, Counted
<1>6. CASE HalfOpenSuccess
  <2>1. CASE successCount + 1 >= HalfOpenMaxCalls
    BY <1>6, <2>1, NothingCounted DEF HalfOpenSuccess, ChangeState, Counted, Abstract!LastFailed
  <2>2. CASE ~(successCount + 1 >= HalfOpenMaxCalls)
    BY <1>6, <2>2 DEF HalfOpenSuccess, SameState, Counted, TypeOK
  <2>3. QED BY <2>1, <2>2
<1>7. CASE Reset
  BY <1>7, NothingCounted DEF Reset, Counted, Abstract!LastFailed
<1>8. CASE SetOnStateChange \/ ExecuteAdmitted \/ FnPanics \/ Tick \/ UNCHANGED vars
  BY <1>1, <1>8 DEF SetOnStateChange, ExecuteAdmitted, FnPanics, Tick, vars
<1>9. QED BY <1>2, <1>3, <1>4, <1>5, <1>6, <1>7, <1>8 DEF Next

\* Every step is one of Breaker's, or invisible to it.
LEMMA BreakerStep ==
  TypeOK /\ Counted /\ [Next]_vars => [Abstract!Next]_(Abstract!vars)
<1>. SUFFICES ASSUME TypeOK, Counted, [Next]_vars
              PROVE  Abstract!Next \/ UNCHANGED Abstract!vars
  OBVIOUS
<1>. USE CircuitBreakerAssumption
<1>1. CASE UNCHANGED <<now, state, outcomes, lastFailureTime>>
  BY <1>1 DEF Abstract!vars
<1>2. CASE ExecuteOpen
  <2>1. Abstract!Probe
    BY <1>2 DEF ExecuteOpen, ChangeState, Abstract!Probe, Abstract!Enter
  <2>2. QED BY <2>1 DEF Abstract!Next
<1>3. CASE ClosedFailure
  <2>1. /\ state = "closed" /\ consecutiveFailures' = consecutiveFailures + 1
        /\ lastFailureTime' = now /\ now' = now
    BY <1>3 DEF ClosedFailure, FnReturned
  <2>2. CASE consecutiveFailures' >= FailureThreshold
    <3>1. Abstract!LastFailed(Append(outcomes, "failed"), FailureThreshold)
      BY <2>1, <2>2, OneMoreFailure, Zenon
    <3>2. Abstract!Enter("open")
      BY <1>3, <2>1, <2>2 DEF ClosedFailure, ChangeState, Abstract!Enter
    <3>3. Abstract!Closed("failed")
      BY <2>1, <3>1, <3>2 DEF Abstract!Closed
    <3>4. QED BY <3>3 DEF Abstract!Next
  <2>3. CASE ~(consecutiveFailures' >= FailureThreshold)
    <3>1. consecutiveFailures + 1 < FailureThreshold
      BY <2>1, <2>3 DEF TypeOK
    <3>2. ~Abstract!LastFailed(Append(outcomes, "failed"), FailureThreshold)
      BY <2>1, <3>1, OneMoreFailure, Zenon
    <3>3. Abstract!Stay("failed")
      BY <1>3, <2>1, <2>3 DEF ClosedFailure, SameState, Abstract!Stay
    <3>4. Abstract!Closed("failed")
      BY <2>1, <3>2, <3>3 DEF Abstract!Closed
    <3>5. QED BY <3>4 DEF Abstract!Next
  <2>4. QED BY <2>2, <2>3
<1>4. CASE ClosedSuccess
  <2>1. ~Abstract!LastFailed(Append(outcomes, "ok"), FailureThreshold)
    BY OneMoreSuccess, Zenon
  <2>2. state = "closed" /\ Abstract!Stay("ok")
    BY <1>4 DEF ClosedSuccess, FnReturned, SameState, Abstract!Stay
  <2>3. Abstract!Closed("ok")
    BY <2>1, <2>2 DEF Abstract!Closed
  <2>4. QED BY <2>3 DEF Abstract!Next
<1>5. CASE HalfOpenFailure
  <2>1. Abstract!HalfOpen("failed")
    BY <1>5 DEF HalfOpenFailure, FnReturned, ChangeState, Abstract!HalfOpen, Abstract!Enter
  <2>2. QED BY <2>1 DEF Abstract!Next
<1>6. CASE HalfOpenSuccess
  <2>1. state = "half-open" /\ successCount = Len(outcomes) /\ now' = now
    BY <1>6 DEF HalfOpenSuccess, FnReturned, Counted
  <2>2. CASE successCount + 1 >= HalfOpenMaxCalls
    <3>1. Abstract!Enter("closed")
      BY <1>6, <2>1, <2>2 DEF HalfOpenSuccess, ChangeState, Abstract!Enter
    <3>2. Abstract!HalfOpen("ok")
      BY <2>1, <2>2, <3>1 DEF Abstract!HalfOpen
    <3>3. QED BY <3>2 DEF Abstract!Next
  <2>3. CASE ~(successCount + 1 >= HalfOpenMaxCalls)
    <3>1. Abstract!Stay("ok")
      BY <1>6, <2>1, <2>3 DEF HalfOpenSuccess, SameState, Abstract!Stay
    <3>2. Abstract!HalfOpen("ok")
      BY <2>1, <2>3, <3>1 DEF Abstract!HalfOpen
    <3>3. QED BY <3>2 DEF Abstract!Next
  <2>4. QED BY <2>2, <2>3
<1>7. CASE Reset
  <2>1. Abstract!Reset
    BY <1>7 DEF Reset, Abstract!Reset, Abstract!Enter
  <2>2. QED BY <2>1 DEF Abstract!Next
<1>8. CASE Tick
  <2>1. Abstract!Tick
    BY <1>8 DEF Tick, Abstract!Tick
  <2>2. QED BY <2>1 DEF Abstract!Next
<1>9. CASE SetOnStateChange \/ ExecuteAdmitted \/ FnPanics \/ UNCHANGED vars
  BY <1>1, <1>9 DEF SetOnStateChange, ExecuteAdmitted, FnPanics, FnReturned, vars
<1>10. QED BY <1>2, <1>3, <1>4, <1>5, <1>6, <1>7, <1>8, <1>9 DEF Next

\* The breaker that New makes has counted nothing and is Breaker's.
LEMMA InitCounted == Init => TypeOK /\ Counted /\ Abstract!Init
<1>. SUFFICES ASSUME Init PROVE TypeOK /\ Counted /\ Abstract!Init
  OBVIOUS
<1>1. TypeOK
  <2>1. running \in BOOLEAN /\ onStateChange \in BOOLEAN /\ ~running
    BY Zenon DEF Init
  <2>2. <<>> \in Seq({"ok", "failed"})
    OBVIOUS
  <2>3. told \in [States \X States -> Nat]
    BY DEF Init
  <2>4. QED BY <2>1, <2>2, <2>3, CircuitBreakerAssumption DEF Init, TypeOK, States
<1>2. Counted
  BY CircuitBreakerAssumption, NothingCounted DEF Init, Counted
<1>3. Abstract!Init
  BY DEF Init, Abstract!Init
<1>4. QED BY <1>1, <1>2, <1>3

\* The state of the breaker is always well typed: the counters keep within their thresholds,
\* and no fn runs while the breaker is open.
THEOREM TypeCorrect == Spec => []TypeOK
BY InitCounted, TypeStep, CountedStep, PTL DEF Spec

\* Whatever the thresholds and the timeout and however calls succeed, fail and panic,
\* Execute and Reset make a circuit breaker.
THEOREM Implements == Spec => IsBreaker
BY InitCounted, TypeStep, CountedStep, BreakerStep, PTL DEF Spec, IsBreaker, Abstract!Spec

-----------------------------------------------------------------------------
(* Callbacks *)

\* A callback from the old to the new state moves the balance with the state.
LEMMA CallbackMoves ==
  ASSUME TypeOK, NEW new \in States, NEW s \in States, state' = new,
         told' = [told EXCEPT ![<<state, new>>] = @ + 1]
  PROVE  /\ Arrivals(s) \in Nat /\ Departures(s) \in Nat
         /\ Arrivals(s)' = Arrivals(s) + At(new, s)
         /\ Departures(s)' = Departures(s) + At(state, s)
<1>. DEFINE One(a, b) == IF a = state /\ b = new THEN 1 ELSE 0
<1>1. ASSUME NEW a \in States, NEW b \in States
      PROVE  /\ told[<<a, b>>] \in Nat /\ One(a, b) \in Nat
             /\ told'[<<a, b>>] = told[<<a, b>>] + One(a, b)
  <2>1. <<a, b>> \in States \X States /\ told \in [States \X States -> Nat]
    BY DEF TypeOK
  <2>2. told[<<a, b>>] \in Nat
    BY <2>1
  <2>3. CASE a = state /\ b = new
    <3>1. told'[<<a, b>>] = told[<<a, b>>] + 1
      BY <2>1, <2>3
    <3>2. QED BY <2>2, <2>3, <3>1
  <2>4. CASE ~(a = state /\ b = new)
    <3>1. <<a, b>> # <<state, new>>
      BY <2>4
    <3>2. told'[<<a, b>>] = told[<<a, b>>]
      BY <2>1, <3>1
    <3>3. QED BY <2>2, <2>4, <3>2
  <2>5. QED BY <2>3, <2>4
<1>2. state \in States
  BY DEF TypeOK
<1>3. "closed" \in States /\ "open" \in States /\ "half-open" \in States
  BY DEF States
<1>4. /\ Arrivals(s) \in Nat /\ Departures(s) \in Nat
      /\ Arrivals(s)' = Arrivals(s) + One("closed", s) + One("open", s) + One("half-open", s)
      /\ Departures(s)' = Departures(s) + One(s, "closed") + One(s, "open") + One(s, "half-open")
  <2>. HIDE DEF One
  <2>1. ASSUME NEW a1 \in Nat, NEW a2 \in Nat, NEW a3 \in Nat,
               NEW b1 \in Nat, NEW b2 \in Nat, NEW b3 \in Nat
        PROVE  (a1 + b1) + (a2 + b2) + (a3 + b3) = a1 + a2 + a3 + b1 + b2 + b3
    OBVIOUS
  <2>2. /\ Arrivals(s) \in Nat
        /\ Arrivals(s)' = Arrivals(s) + One("closed", s) + One("open", s) + One("half-open", s)
    <3>1. \A a \in States : /\ told[<<a, s>>] \in Nat /\ One(a, s) \in Nat
                            /\ told'[<<a, s>>] = told[<<a, s>>] + One(a, s)
      BY <1>1
    <3>2. /\ Arrivals(s)' = told'[<<"closed", s>>] + told'[<<"open", s>>] + told'[<<"half-open", s>>]
          /\ Arrivals(s) = told[<<"closed", s>>] + told[<<"open", s>>] + told[<<"half-open", s>>]
      BY ONLY DEF Arrivals
    <3>3. QED BY ONLY <1>3, <2>1, <3>1, <3>2
  <2>3. /\ Departures(s) \in Nat
        /\ Departures(s)' = Departures(s) + One(s, "closed") + One(s, "open") + One(s, "half-open")
    <3>1. \A b \in States : /\ told[<<s, b>>] \in Nat /\ One(s, b) \in Nat
                            /\ told'[<<s, b>>] = told[<<s, b>>] + One(s, b)
      BY <1>1
    <3>2. /\ Departures(s)' = told'[<<s, "closed">>] + told'[<<s, "open">>] + told'[<<s, "half-open">>]
          /\ Departures(s) = told[<<s, "closed">>] + told[<<s, "open">>] + told[<<s, "half-open">>]
      BY ONLY DEF Departures
    <3>3. QED BY ONLY <1>3, <2>1, <3>1, <3>2
  <2>4. QED BY <2>2, <2>3
<1>5. /\ One("closed", s) + One("open", s) + One("half-open", s) = At(new, s)
      /\ One(s, "closed") + One(s, "open") + One(s, "half-open") = At(state, s)
  BY <1>2 DEF At, States
<1>6. At(new, s) \in Nat /\ At(state, s) \in Nat
  BY DEF At
<1>7. Arrivals(s)' = Arrivals(s) + At(new, s) /\ Departures(s)' = Departures(s) + At(state, s)
  BY <1>4, <1>5, <1>6 DEF At
<1>8. QED BY <1>4, <1>7

\* The callbacks add up after every step.
LEMMA ConserveStep == TypeOK /\ CallbacksConserve /\ [Next]_vars => CallbacksConserve'
<1>. SUFFICES ASSUME TypeOK, CallbacksConserve, [Next]_vars, onStateChange', NEW s \in States
              PROVE  Arrivals(s)' - Departures(s)' = At(state', s) - At(heardFrom', s)
  BY DEF CallbacksConserve
<1>1. CASE SetOnStateChange
  <2>1. \A a, b \in States : told'[<<a, b>>] = 0
    BY <1>1 DEF SetOnStateChange
  <2>2. state' = state /\ heardFrom' = state
    BY <1>1 DEF SetOnStateChange
  <2>3. QED BY <2>1, <2>2 DEF Arrivals, Departures, At, States
<1>2. ASSUME onStateChange, heardFrom' = heardFrom, UNCHANGED <<state, told>>
      PROVE  Arrivals(s)' - Departures(s)' = At(state', s) - At(heardFrom', s)
  BY <1>2 DEF CallbacksConserve, Arrivals, Departures
<1>3. ASSUME onStateChange, heardFrom' = heardFrom, NEW new \in States, state' = new,
             told' = [told EXCEPT ![<<state, new>>] = @ + 1]
      PROVE  Arrivals(s)' - Departures(s)' = At(state', s) - At(heardFrom', s)
  <2>1. Arrivals(s) - Departures(s) = At(state, s) - At(heardFrom, s)
    BY <1>3 DEF CallbacksConserve
  <2>2. /\ Arrivals(s) \in Nat /\ Departures(s) \in Nat
        /\ Arrivals(s)' = Arrivals(s) + At(new, s)
        /\ Departures(s)' = Departures(s) + At(state, s)
    BY <1>3, CallbackMoves, Zenon
  <2>3. QED BY <1>3, <2>1, <2>2 DEF At
<1>4. CASE ~SetOnStateChange /\ Next
  <2>1. onStateChange /\ heardFrom' = heardFrom
    BY <1>4, Zenon DEF Next, ExecuteAdmitted, ExecuteOpen, ClosedFailure, ClosedSuccess,
      HalfOpenFailure, HalfOpenSuccess, FnPanics, FnReturned, Reset, Tick
  <2>2. \/ UNCHANGED <<state, told>>
        \/ \E new \in States :
             state' = new /\ told' = [told EXCEPT ![<<state, new>>] = @ + 1]
    BY <1>4, <2>1 DEF Next, ExecuteAdmitted, ExecuteOpen, ClosedFailure, ClosedSuccess,
      HalfOpenFailure, HalfOpenSuccess, FnPanics, Reset, Tick, ChangeState, SameState, States
  <2>3. CASE UNCHANGED <<state, told>>
    BY <1>2, <2>1, <2>3
  <2>4. CASE ~UNCHANGED <<state, told>>
    <3>1. PICK new \in States : state' = new /\ told' = [told EXCEPT ![<<state, new>>] = @ + 1]
      BY <2>2, <2>4
    <3>2. QED BY <1>3, <2>1, <3>1, Zenon
  <2>5. QED BY <2>3, <2>4
<1>5. CASE UNCHANGED vars
  BY <1>2, <1>5 DEF vars
<1>6. QED BY <1>1, <1>4, <1>5

\* Callbacks are neither lost nor made up, for any run of the breaker: an observer that
\* counts them knows the state.
THEOREM CallbacksAddUp == Spec => []CallbacksConserve
<1>1. Init => CallbacksConserve
  BY Zenon DEF Init, CallbacksConserve
<1>2. QED BY <1>1, TypeCorrect, ConserveStep, PTL DEF Spec

-----------------------------------------------------------------------------
(* Retries *)

Configs ==
  [retries : (MaxRetriesGiven \cap Nat) \cup {0}, initial : Nat \ {0}, max : Nat \ {0},
   halves : {h \in HalvesGiven \cup {4} : h > 0}, jitter : BOOLEAN, isRetryable : BOOLEAN]

\* The values of the variables: the configuration has its defaults once Do is called.
RetryTypes ==
  /\ retryPc \in {"idle", "check", "call", "backoff", "wait", "returned"}
  /\ retryPc # "idle" => cfg \in Configs
  /\ attempt \in Nat /\ wait \in Int /\ late \in {0, 1} /\ cancelled \in BOOLEAN
  /\ results \in Seq(Results)
  /\ outcome \in Results \cup {"none", "canceled", "panic"}

\* How often the function was called, by where Do is.
Attempted ==
  /\ retryPc = "idle" => attempt = 0 /\ Len(results) = 0 /\ wait = 0
  /\ retryPc \in {"check", "call"} => Len(results) = attempt /\ attempt <= cfg.retries
  /\ retryPc \in {"backoff", "wait"} => Len(results) = attempt + 1 /\ attempt < cfg.retries
  /\ retryPc = "returned" => Len(results) <= cfg.retries + 1

\* Errors that are to be retried, but for the last when Do has returned.
Retried ==
  /\ retryPc \notin {"idle", "returned"} =>
       \A k \in 1 .. Len(results) : results[k] # "nil" /\ Retryable(results[k])
  /\ retryPc = "returned" =>
       \A k \in 1 .. Len(results) - 1 : results[k] # "nil" /\ Retryable(results[k])

\* How Do ended.
Ended ==
  /\ retryPc # "returned" => outcome = "none"
  /\ outcome \in Results =>
       /\ Len(results) > 0 /\ outcome = LastResult
       /\ outcome # "nil" /\ Retryable(outcome) => Len(results) = cfg.retries + 1
  /\ outcome = "canceled" => cancelled
  /\ outcome = "panic" => ~Workable(cfg)

\* A call that begins once the context is cancelled is the last.
LastCall ==
  /\ late = 1 => cancelled
  /\ retryPc \in {"idle", "call"} => late = 0

Waits ==
  /\ retryPc # "idle" => IF cfg.jitter THEN 2 * wait < 3 * cfg.max ELSE wait <= cfg.max
  /\ retryPc = "wait" /\ Workable(cfg) => wait >= cfg.initial \/ wait >= cfg.max

RetryIInv == RetryTypes /\ Attempted /\ Retried /\ Ended /\ LastCall /\ Waits

LEMMA ResultsDistinct == Results \cap {"none", "canceled", "panic"} = {}
  BY Zenon DEF Results

\* A wait exceeds MaxBackoff by less than a half, and only with jitter.
LEMMA BackoffBounded ==
  ASSUME NEW c \in Configs, NEW a \in Nat, a < c.retries, NEW w \in CalculateBackoff(a, c)
  PROVE  w \in Int /\ IF c.jitter THEN 2 * w < 3 * c.max ELSE w <= c.max
<1> DEFINE x == (c.initial * c.halves ^ a) \div 2 ^ a
           capped == {Cap(d, c.max) : d \in Duration(x)}
<1>1. /\ c.retries \in MaxRetriesGiven /\ c.retries \in Nat
      /\ c.initial \in Nat /\ c.max \in Nat \ {0} /\ c.halves \in HalvesGiven \cup {4} /\ c.halves > 0
  BY DEF Configs
<1>2. a \in 0 .. c.retries
  BY <1>1
<1>3. 2 ^ a \in Nat \ {0} /\ c.halves ^ a \in Nat \ {0}
  BY <1>1, <1>2, RetryAssumption, Zenon
<1>4. x \in Int
  <2>1. ASSUME NEW p \in Nat \ {0}, NEW z \in Nat \ {0} PROVE (c.initial * p) \div z \in Int
    BY <1>1
  <2>2. QED BY <1>3, <2>1, Zenon
<1>5. MaxDuration \in Nat
  BY RetryAssumption, Zenon
<1>6. Duration(x) \subseteq Int
  <2> HIDE DEF x
  <2>1. QED BY <1>4, <1>5 DEF Duration
<1>7. \A d \in capped : d \in Int /\ d <= c.max
  BY <1>1, <1>6 DEF Cap
<1>8. CASE ~c.jitter
  <2>1. w \in capped
    BY <1>8, Zenon DEF CalculateBackoff
  <2> HIDE DEF capped
  <2>2. QED BY <1>7, <1>8, <2>1, Zenon
<1>9. CASE c.jitter
  <2>1. PICK d \in capped : w \in {Wrap(d + j) : j \in 0 .. d \div 2 - 1}
    BY <1>9, Zenon DEF CalculateBackoff
  <2>2. PICK j \in 0 .. d \div 2 - 1 : w = Wrap(d + j)
    BY <2>1, Zenon
  <2>3. d \in Int /\ d <= c.max
    BY <1>7, <2>1, Zenon
  <2>4. j \in Int /\ j >= 0 /\ 2 * j < d
    BY <2>2, <2>3
  <2>5. w \in Int /\ w <= d + j
    BY <1>5, <2>2, <2>3, <2>4 DEF Wrap
  <2>6. 2 * w < 3 * c.max
    BY <1>1, <2>3, <2>4, <2>5
  <2>7. QED BY <1>9, <2>5, <2>6, Zenon
<1>10. QED BY <1>8, <1>9, Zenon

\* With workable settings the backoffs fit, and none is shorter than the first.
LEMMA BackoffFits ==
  ASSUME NEW c \in Configs, NEW a \in Nat, a < c.retries, Workable(c)
  PROVE  \E x \in Nat : /\ x = (c.initial * c.halves ^ a) \div 2 ^ a
                        /\ x >= c.initial /\ x <= MaxDuration
<1>1. /\ c.retries \in MaxRetriesGiven /\ c.retries \in Nat
      /\ c.initial \in Nat /\ c.halves \in HalvesGiven \cup {4}
      /\ c.halves > 0 /\ c.halves >= 2
  BY DEF Configs, Workable
<1>2. a \in 0 .. c.retries /\ a \in 0 .. c.retries - 1
  BY <1>1
<1>3. 2 ^ a \in Nat \ {0} /\ c.halves ^ a \in Nat \ {0} /\ c.halves ^ a >= 2 ^ a
  BY <1>1, <1>2, RetryAssumption, Zenon
<1>4. ASSUME NEW i \in Nat, NEW p \in Nat \ {0}, NEW z \in Nat \ {0}, p >= z
      PROVE  (i * p) \div z \in Nat /\ (i * p) \div z >= i
  BY <1>4
<1>5. QED BY <1>1, <1>2, <1>3, <1>4, Zenon DEF Workable

\* With workable settings no jitter panics and no wait is too short.
LEMMA BackoffWorks ==
  ASSUME NEW c \in Configs, NEW a \in Nat, a < c.retries, Workable(c)
  PROVE  /\ ~JitterPanics(a, c)
         /\ \A w \in CalculateBackoff(a, c) : w >= c.initial \/ w >= c.max
<1>1. PICK x \in Nat : /\ x = (c.initial * c.halves ^ a) \div 2 ^ a
                       /\ x >= c.initial /\ x <= MaxDuration
  BY BackoffFits, Zenon
<1>2. /\ c.initial \in Nat /\ c.max \in Nat /\ c.initial >= 2 /\ c.max >= 2
      /\ c.max + c.max \div 2 <= MaxDuration
  BY DEF Configs, Workable
<1>3. MaxDuration \in Nat
  BY RetryAssumption, Zenon
<1>4. Duration((c.initial * c.halves ^ a) \div 2 ^ a) = {x}
  BY <1>1, Zenon DEF Duration
<1> DEFINE d == Cap(x, c.max)
<1>5. d \in Nat /\ d >= 2 /\ (d >= c.initial \/ d >= c.max) /\ d + d \div 2 <= MaxDuration
  BY <1>1, <1>2, <1>3 DEF Cap
<1>6. ~JitterPanics(a, c)
  <2>1. ~(d < 2)
    BY <1>5
  <2>2. QED BY <1>4, <2>1, Zenon DEF JitterPanics
<1>7. ASSUME NEW w \in CalculateBackoff(a, c)
      PROVE  w >= c.initial \/ w >= c.max
  <2>1. {Cap(e, c.max) : e \in Duration((c.initial * c.halves ^ a) \div 2 ^ a)} = {d}
    BY <1>4, Zenon
  <2>2. CASE ~c.jitter
    BY <1>5, <1>7, <2>1, <2>2, Zenon DEF CalculateBackoff
  <2>3. CASE c.jitter
    <3>1. w \in UNION {{Wrap(e + j) : j \in 0 .. e \div 2 - 1} : e \in {d}}
      BY <1>7, <2>1, <2>3, Zenon DEF CalculateBackoff
    <3>2. PICK j \in 0 .. d \div 2 - 1 : w = Wrap(d + j)
      BY <3>1, Zenon
    <3> HIDE DEF d
    <3>3. w = d + j /\ w >= d
      BY <1>3, <1>5, <3>2 DEF Wrap
    <3>4. QED BY <1>2, <1>5, <3>2, <3>3
  <2>4. QED BY <2>2, <2>3, Zenon
<1>8. QED BY <1>6, <1>7, Zenon

LEMMA DoInv ==
  ASSUME RetryIInv, NEW retries \in MaxRetriesGiven, NEW initial \in InitialBackoffGiven,
         NEW max \in MaxBackoffGiven, NEW halves \in HalvesGiven, NEW jitter \in BOOLEAN,
         NEW isRetryable \in BOOLEAN, Do(retries, initial, max, halves, jitter, isRetryable)
  PROVE  RetryIInv'
<1>1. /\ retryPc = "idle" /\ retryPc' = "check"
      /\ cfg' = [retries     |-> IF retries < 0 THEN 0 ELSE retries,
                 initial     |-> OrDefault(initial, DefaultInitial),
                 max         |-> OrDefault(max, DefaultMax),
                 halves      |-> OrDefault(halves, 4),
                 jitter      |-> jitter,
                 isRetryable |-> isRetryable]
      /\ UNCHANGED <<attempt, wait, cancelled, results, outcome, late>>
  BY Zenon DEF Do
<1>2. /\ retries \in Int /\ initial \in Int /\ max \in Int /\ halves \in Int
      /\ DefaultInitial \in Nat \ {0} /\ DefaultMax \in Nat \ {0}
  BY RetryAssumption, Zenon
<1>3. /\ (IF retries < 0 THEN 0 ELSE retries) \in (MaxRetriesGiven \cap Nat) \cup {0}
      /\ OrDefault(initial, DefaultInitial) \in Nat \ {0}
      /\ OrDefault(max, DefaultMax) \in Nat \ {0}
      /\ OrDefault(halves, 4) \in {h \in HalvesGiven \cup {4} : h > 0}
  BY <1>2 DEF OrDefault
<1>4. cfg' \in Configs
  BY <1>1, <1>3, Zenon DEF Configs
<1>5. cfg'.max > 0 /\ cfg'.max \in Nat /\ cfg'.retries \in Nat
  BY <1>4 DEF Configs
<1>6. RetryTypes'
  BY <1>1, <1>4, Zenon DEF RetryIInv, RetryTypes
<1>7. Attempted' /\ Retried' /\ Ended' /\ LastCall'
  <2>1. attempt = 0 /\ Len(results) = 0 /\ outcome = "none" /\ late = 0
    BY <1>1, Zenon DEF RetryIInv, Attempted, Ended, LastCall
  <2>2. Attempted'
    BY <1>1, <1>5, <2>1 DEF Attempted
  <2>3. Retried'
    BY <1>1, <2>1 DEF Retried
  <2>4. Ended' /\ LastCall'
    BY <1>1, <2>1, ResultsDistinct DEF Ended, LastCall
  <2>5. QED BY <2>2, <2>3, <2>4, Zenon
<1>8. Waits'
  BY <1>1, <1>5 DEF RetryIInv, Attempted, Waits, Workable
<1>9. QED BY <1>6, <1>7, <1>8, Zenon DEF RetryIInv

LEMMA CheckContextInv == ASSUME RetryIInv, CheckContext PROVE RetryIInv'
<1>1. retryPc = "check" /\ UNCHANGED <<cfg, attempt, wait, cancelled, results, late>>
  BY Zenon DEF CheckContext
<1>2. /\ cfg \in Configs /\ outcome = "none" /\ Len(results) = attempt /\ attempt <= cfg.retries
      /\ Len(results) \in Nat /\ cfg.retries \in Nat
  BY <1>1 DEF RetryIInv, RetryTypes, Attempted, Ended, Configs
<1>3. CASE cancelled /\ outcome' = "canceled" /\ retryPc' = "returned"
  <2>1. RetryTypes' /\ Waits'
    BY <1>1, <1>3, Zenon DEF RetryIInv, RetryTypes, Waits, Workable
  <2>2. Attempted' /\ LastCall'
    BY <1>1, <1>2, <1>3 DEF RetryIInv, Attempted, LastCall
  <2>3. Retried'
    BY <1>1, <1>2, <1>3 DEF RetryIInv, Retried, Retryable
  <2>4. Ended'
    BY <1>1, <1>3, ResultsDistinct, Zenon DEF Ended
  <2>5. QED BY <2>1, <2>2, <2>3, <2>4, Zenon DEF RetryIInv
<1>4. CASE ~cancelled /\ retryPc' = "call" /\ outcome' = outcome
  <2>1. RetryTypes' /\ Waits'
    BY <1>1, <1>4, Zenon DEF RetryIInv, RetryTypes, Waits, Workable
  <2>2. Attempted' /\ LastCall'
    BY <1>1, <1>2, <1>4, Zenon DEF RetryIInv, RetryTypes, Attempted, LastCall
  <2>3. Retried' /\ Ended'
    BY <1>1, <1>2, <1>4, ResultsDistinct, Zenon DEF RetryIInv, Retried, Retryable, Ended
  <2>4. QED BY <2>1, <2>2, <2>3, Zenon DEF RetryIInv
<1>5. QED BY <1>3, <1>4, Zenon DEF CheckContext, Finish

LEMMA CallFunctionInv ==
  ASSUME RetryIInv, NEW err \in Results, CallFunction(err)
  PROVE  RetryIInv'
<1>1. /\ retryPc = "call" /\ results' = Append(results, err)
      /\ late' = IF cancelled THEN late + 1 ELSE late
      /\ UNCHANGED <<cfg, attempt, wait, cancelled>>
  BY Zenon DEF CallFunction
<1>2. /\ cfg \in Configs /\ results \in Seq(Results) /\ late = 0 /\ outcome = "none"
      /\ Len(results) = attempt /\ attempt \in Nat /\ attempt <= cfg.retries
      /\ cfg.retries \in Nat
  BY <1>1 DEF RetryIInv, RetryTypes, Attempted, Ended, LastCall, Configs
<1>3. /\ results' \in Seq(Results) /\ Len(results') = attempt + 1
      /\ results'[attempt + 1] = err
      /\ \A k \in 1 .. attempt : results'[k] = results[k]
  BY <1>1, <1>2
<1>4. late' \in {0, 1} /\ (late' = 1 => cancelled')
  BY <1>1, <1>2
<1>5. \A k \in 1 .. attempt : (results[k] # "nil" /\ Retryable(results[k]))'
  BY <1>1, <1>2, <1>3, Zenon DEF RetryIInv, Retried, Retryable
<1>6. CASE /\ err = "nil" \/ ~Retryable(err) \/ attempt = cfg.retries
           /\ outcome' = err /\ retryPc' = "returned"
  <2>1. RetryTypes' /\ Waits'
    BY <1>1, <1>3, <1>4, <1>6, Zenon DEF RetryIInv, RetryTypes, Waits, Workable
  <2>2. Attempted' /\ LastCall'
    BY <1>1, <1>2, <1>3, <1>4, <1>6 DEF Attempted, LastCall
  <2>3. Retried'
    BY <1>2, <1>3, <1>5, <1>6 DEF Retried, Retryable
  <2>4. Ended'
    BY <1>1, <1>2, <1>3, <1>6, ResultsDistinct DEF Ended, LastResult, Retryable
  <2>5. QED BY <2>1, <2>2, <2>3, <2>4, Zenon DEF RetryIInv
<1>7. CASE /\ err # "nil" /\ Retryable(err) /\ attempt < cfg.retries
           /\ retryPc' = "backoff" /\ outcome' = outcome
  <2>1. RetryTypes' /\ Waits'
    BY <1>1, <1>3, <1>4, <1>7, Zenon DEF RetryIInv, RetryTypes, Waits, Workable
  <2>2. Attempted' /\ LastCall'
    BY <1>1, <1>2, <1>3, <1>4, <1>7, Zenon DEF Attempted, LastCall
  <2>3. Retried'
    <3>1. Retryable(err)' = Retryable(err)
      BY <1>1, Zenon DEF Retryable
    <3>2. \A k \in 1 .. attempt + 1 : k \in 1 .. attempt \/ k = attempt + 1
      BY <1>2
    <3>3. QED BY <1>3, <1>5, <1>7, <3>1, <3>2 DEF Retried, Retryable
  <2>4. Ended'
    BY <1>2, <1>7, ResultsDistinct, Zenon DEF Ended
  <2>5. QED BY <2>1, <2>2, <2>3, <2>4, Zenon DEF RetryIInv
<1>8. QED BY <1>6, <1>7, Zenon DEF CallFunction, Finish

LEMMA BackoffInv == ASSUME RetryIInv, Backoff PROVE RetryIInv'
<1>1. retryPc = "backoff" /\ UNCHANGED <<cfg, attempt, cancelled, results, late>>
  BY Zenon DEF Backoff
<1>2. /\ cfg \in Configs /\ outcome = "none" /\ attempt \in Nat /\ attempt < cfg.retries
      /\ Len(results) = attempt + 1 /\ cfg.retries \in Nat
  BY <1>1 DEF RetryIInv, RetryTypes, Attempted, Ended, Configs
<1>3. CASE wait' \in CalculateBackoff(attempt, cfg) /\ retryPc' = "wait" /\ outcome' = outcome
  <2>1. wait' \in Int /\ Waits'
    BY <1>1, <1>2, <1>3, BackoffBounded, BackoffWorks, Zenon DEF Waits, Workable
  <2>2. RetryTypes'
    BY <1>1, <1>3, <2>1, Zenon DEF RetryIInv, RetryTypes
  <2>3. Attempted' /\ LastCall'
    BY <1>1, <1>2, <1>3, Zenon DEF RetryIInv, Attempted, LastCall
  <2>4. Retried' /\ Ended'
    BY <1>1, <1>2, <1>3, ResultsDistinct, Zenon DEF RetryIInv, Retried, Retryable, Ended
  <2>5. QED BY <2>1, <2>2, <2>3, <2>4, Zenon DEF RetryIInv
<1>4. CASE JitterPanics(attempt, cfg) /\ outcome' = "panic" /\ retryPc' = "returned" /\ wait' = wait
  <2>1. RetryTypes' /\ Waits'
    BY <1>1, <1>4, Zenon DEF RetryIInv, RetryTypes, Waits, Workable
  <2>2. Attempted' /\ LastCall'
    BY <1>1, <1>2, <1>4 DEF RetryIInv, Attempted, LastCall
  <2>3. Retried'
    BY <1>1, <1>2, <1>4 DEF RetryIInv, Retried, Retryable
  <2>4. Ended'
    <3>1. ~Workable(cfg)'
      BY <1>1, <1>2, <1>4, BackoffWorks, Zenon DEF Workable
    <3>2. QED BY <1>4, <3>1, ResultsDistinct, Zenon DEF Ended
  <2>5. QED BY <2>1, <2>2, <2>3, <2>4, Zenon DEF RetryIInv
<1>5. QED BY <1>3, <1>4, Zenon DEF Backoff, Finish

LEMMA WaitInv == ASSUME RetryIInv, Elapse \/ WaitCancelled PROVE RetryIInv'
<1>1. retryPc = "wait" /\ UNCHANGED <<cfg, wait, cancelled, results, late>>
  BY Zenon DEF Elapse, WaitCancelled
<1>2. /\ cfg \in Configs /\ outcome = "none" /\ attempt \in Nat /\ attempt < cfg.retries
      /\ Len(results) = attempt + 1 /\ cfg.retries \in Nat
  BY <1>1 DEF RetryIInv, RetryTypes, Attempted, Ended, Configs
<1>3. CASE attempt' = attempt + 1 /\ retryPc' = "check" /\ outcome' = outcome
  <2>1. RetryTypes' /\ Waits'
    BY <1>1, <1>2, <1>3 DEF RetryIInv, RetryTypes, Waits, Workable
  <2>2. Attempted' /\ LastCall'
    BY <1>1, <1>2, <1>3 DEF RetryIInv, Attempted, LastCall
  <2>3. Retried' /\ Ended'
    BY <1>1, <1>2, <1>3, ResultsDistinct, Zenon DEF RetryIInv, Retried, Retryable, Ended
  <2>4. QED BY <2>1, <2>2, <2>3, Zenon DEF RetryIInv
<1>4. CASE cancelled /\ outcome' = "canceled" /\ retryPc' = "returned" /\ attempt' = attempt
  <2>1. RetryTypes' /\ Waits'
    BY <1>1, <1>4, Zenon DEF RetryIInv, RetryTypes, Waits, Workable
  <2>2. Attempted' /\ LastCall'
    BY <1>1, <1>2, <1>4 DEF RetryIInv, Attempted, LastCall
  <2>3. Retried'
    BY <1>1, <1>2, <1>4 DEF RetryIInv, Retried, Retryable
  <2>4. Ended'
    BY <1>1, <1>4, ResultsDistinct, Zenon DEF Ended
  <2>5. QED BY <2>1, <2>2, <2>3, <2>4, Zenon DEF RetryIInv
<1>5. QED BY <1>3, <1>4, Zenon DEF Elapse, WaitCancelled, Finish

LEMMA RetryNextInv == ASSUME RetryIInv, [RetryNext]_retryVars PROVE RetryIInv'
<1>1. CASE UNCHANGED retryVars
  BY <1>1 DEF retryVars, RetryIInv, RetryTypes, Attempted, Retried, Retryable, Ended, LastResult,
              LastCall, Waits, Workable
<1>2. CASE Cancel
  <2>1. cancelled' = TRUE /\ UNCHANGED <<cfg, retryPc, attempt, wait, results, outcome, late>>
    BY <1>2, Zenon DEF Cancel
  <2>2. QED
    BY <2>1 DEF RetryIInv, RetryTypes, Attempted, Retried, Retryable, Ended, LastResult,
                LastCall, Waits, Workable
<1>3. QED
  BY <1>1, <1>2, DoInv, CheckContextInv, CallFunctionInv, BackoffInv, WaitInv
     DEF RetryNext, Returned

\* What Do returns is what happened, whatever the settings, the errors of the function
\* and the moment of the cancellation.
THEOREM RetriesSound == RetrySpec => []RetrySound
<1>1. RetryInit => RetryIInv
  <2> SUFFICES ASSUME RetryInit PROVE RetryIInv
    OBVIOUS
  <2>1. RetryTypes
    <3>1. retryPc = "idle" /\ cancelled \in BOOLEAN /\ outcome = "none"
      BY Zenon DEF RetryInit
    <3>2. attempt \in Nat /\ wait \in Int /\ late \in {0, 1} /\ results \in Seq(Results)
      BY DEF RetryInit
    <3>3. QED BY <3>1, <3>2, Zenon DEF RetryTypes
  <2>2. Attempted /\ Retried /\ LastCall /\ Waits
    BY DEF RetryInit, Attempted, Retried, LastCall, Waits
  <2>3. Ended
    BY ResultsDistinct, Zenon DEF RetryInit, Ended
  <2>4. QED BY <2>1, <2>2, <2>3, Zenon DEF RetryIInv
<1>2. RetryIInv => RetrySound
  <2> SUFFICES ASSUME RetryIInv, retryPc # "idle" PROVE RetrySound
    BY Zenon DEF RetrySound
  <2>1. Len(results) \in Nat /\ cfg.retries \in Nat /\ late <= 1
    BY DEF RetryIInv, RetryTypes, Configs
  <2>2. Len(results) <= cfg.retries + 1
    BY <2>1 DEF RetryIInv, RetryTypes, Attempted
  <2>3. \A k \in 1 .. Len(results) - 1 : results[k] # "nil" /\ Retryable(results[k])
    BY <2>1 DEF RetryIInv, RetryTypes, Retried
  <2>4. QED BY <2>1, <2>2, <2>3, Zenon DEF RetryIInv, Ended, Waits, RetrySound
<1>3. QED BY <1>1, <1>2, RetryNextInv, PTL DEF RetrySpec

=============================================================================
