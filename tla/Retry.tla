-------------------------------- MODULE Retry --------------------------------
(***************************************************************************)
(* The retry package (pkg/retry): Do calls a function until it succeeds,   *)
(* fails for good or has been tried often enough, and waits between the    *)
(* attempts, while its context may be cancelled at any moment.  With-      *)
(* functions and the Simple- helpers only choose the configuration.        *)
(*                                                                         *)
(* Durations are integers of the width that MaxDuration gives them.        *)
(***************************************************************************)
EXTENDS Integers, Sequences

CONSTANTS
  MaxRetriesGiven,      \* the settings that callers give, of which those
  InitialBackoffGiven,  \* below or at zero ask for a default
  MaxBackoffGiven,
  HalvesGiven,          \* BackoffMultiplier, in halves
  DefaultInitial,       \* 100 * time.Millisecond
  DefaultMax,           \* 30 * time.Second
  MaxDuration,          \* the largest time.Duration
  NoConfig              \* before Do is called

\* Defaults are positive, and so is a power of a positive number, which grows with it.
ASSUME RetryAssumption ==
  /\ MaxRetriesGiven \cup InitialBackoffGiven \cup MaxBackoffGiven \cup HalvesGiven \subseteq Int
  /\ {DefaultInitial, DefaultMax, MaxDuration} \subseteq Nat \ {0}
  /\ \A n \in MaxRetriesGiven : \A a \in 0 .. n :
       /\ 2 ^ a \in Nat \ {0}
       /\ \A h \in HalvesGiven \cup {4} :
            (h > 0 => h ^ a \in Nat \ {0}) /\ (h >= 2 => h ^ a >= 2 ^ a)

VARIABLES
  cfg,        \* the configuration, with its defaults filled in
  retryPc,    \* where Do is
  attempt,
  wait,       \* how long it waits
  cancelled,  \* the context is
  results,    \* what the function returned, call by call
  outcome,    \* how Do ended
  late        \* history: calls of the function with the context cancelled

retryVars == <<cfg, retryPc, attempt, wait, cancelled, results, outcome, late>>

\* IsRetryable, when it is not nil, takes an error for retryable or not.
Results == {"nil", "transient", "permanent"}
Retryable(err) == cfg.isRetryable => err = "transient"

RetryInit ==
  /\ cfg = NoConfig
  /\ retryPc = "idle"
  /\ attempt = 0
  /\ wait = 0
  /\ cancelled = FALSE
  /\ results = <<>>
  /\ outcome = "none"
  /\ late = 0

LastResult == results[Len(results)]

Finish(how) ==
  /\ outcome' = how
  /\ retryPc' = "returned"

-----------------------------------------------------------------------------
\* A conversion of a float64 that does not fit gives what the processor gives.
Duration(x) == IF x <= MaxDuration THEN {x} ELSE {MaxDuration, -MaxDuration - 1}

Wrap(d) == IF d <= MaxDuration THEN d ELSE d - 2 * (MaxDuration + 1)

Cap(d, max) == IF d > max THEN max ELSE d

\* The waits that calculateBackoff may return.  rand.Int63n panics on a bound
\* that is not positive, so there may be none.
CalculateBackoff(a, c) ==
  LET capped == {Cap(d, c.max) : d \in Duration((c.initial * c.halves ^ a) \div 2 ^ a)}
  IN  IF c.jitter THEN UNION {{Wrap(d + j) : j \in 0 .. d \div 2 - 1} : d \in capped} ELSE capped

\* Some backoff leaves the jitter nothing to be drawn from.
JitterPanics(a, c) ==
  /\ c.jitter
  /\ \E d \in Duration((c.initial * c.halves ^ a) \div 2 ^ a) : Cap(d, c.max) < 2

-----------------------------------------------------------------------------
OrDefault(x, default) == IF x <= 0 THEN default ELSE x

Do(retries, initial, max, halves, jitter, isRetryable) ==
  /\ retryPc = "idle"
  /\ cfg' = [retries     |-> IF retries < 0 THEN 0 ELSE retries,
             initial     |-> OrDefault(initial, DefaultInitial),
             max         |-> OrDefault(max, DefaultMax),
             halves      |-> OrDefault(halves, 4),
             jitter      |-> jitter,
             isRetryable |-> isRetryable]
  /\ retryPc' = "check"
  /\ UNCHANGED <<attempt, wait, cancelled, results, outcome, late>>

\* The caller cancels, or the deadline of SimpleRetryWithTimeout passes.
Cancel ==
  /\ ~cancelled
  /\ cancelled' = TRUE
  /\ UNCHANGED <<cfg, retryPc, attempt, wait, results, outcome, late>>

\* Mutant: the context is looked at only while waiting.
CheckNothing ==
  /\ retryPc = "check"
  /\ retryPc' = "call"
  /\ UNCHANGED <<cfg, attempt, wait, cancelled, results, outcome, late>>

CheckContext ==
  /\ retryPc = "check"
  /\ \/ cancelled /\ Finish("canceled")
     \/ ~cancelled /\ retryPc' = "call" /\ UNCHANGED outcome
  /\ UNCHANGED <<cfg, attempt, wait, cancelled, results, late>>

CallFunction(err) ==
  /\ retryPc = "call"
  /\ results' = Append(results, err)
  /\ late' = IF cancelled THEN late + 1 ELSE late
  /\ \/ (err = "nil" \/ ~Retryable(err) \/ attempt = cfg.retries) /\ Finish(err)
     \/ err # "nil" /\ Retryable(err) /\ attempt < cfg.retries /\ retryPc' = "backoff" /\ UNCHANGED outcome
  /\ UNCHANGED <<cfg, attempt, wait, cancelled>>

Backoff ==
  /\ retryPc = "backoff"
  /\ \/ /\ wait' \in CalculateBackoff(attempt, cfg)
        /\ retryPc' = "wait"
        /\ UNCHANGED outcome
     \/ JitterPanics(attempt, cfg) /\ Finish("panic") /\ UNCHANGED wait
  /\ UNCHANGED <<cfg, attempt, cancelled, results, late>>

\* The timer; when the context is cancelled as well, either case is taken.
Elapse ==
  /\ retryPc = "wait"
  /\ attempt' = attempt + 1
  /\ retryPc' = "check"
  /\ UNCHANGED <<cfg, wait, cancelled, results, outcome, late>>

WaitCancelled ==
  /\ retryPc = "wait" /\ cancelled
  /\ Finish("canceled")
  /\ UNCHANGED <<cfg, attempt, wait, cancelled, results, late>>

Returned == retryPc = "returned" /\ UNCHANGED retryVars

RetryNext ==
  \/ \E retries \in MaxRetriesGiven, initial \in InitialBackoffGiven, max \in MaxBackoffGiven,
        halves \in HalvesGiven, jitter, isRetryable \in BOOLEAN :
       Do(retries, initial, max, halves, jitter, isRetryable)
  \/ Cancel
  \/ CheckContext
  \/ \E err \in Results : CallFunction(err)
  \/ Backoff \/ Elapse \/ WaitCancelled
  \/ Returned

RetrySpec == RetryInit /\ [][RetryNext]_retryVars

-----------------------------------------------------------------------------
(* Properties *)

\* The settings for which calculateBackoff is meant: backoffs do not shrink, the
\* jitter has something to be drawn from, and no sum or product outgrows a Duration.
Workable(c) ==
  /\ c.initial >= 2 /\ c.max >= 2 /\ c.halves >= 2
  /\ \A a \in 0 .. c.retries - 1 : (c.initial * c.halves ^ a) \div 2 ^ a <= MaxDuration
  /\ c.max + c.max \div 2 <= MaxDuration

\* What Do returns is what happened: the function's last error only when it is
\* not to be retried or was retried MaxRetries times, the context's error only
\* when it is cancelled.  Once the context is cancelled the function is called
\* at most once more.  With workable settings Do never panics, and waits at least
\* InitialBackoff, or MaxBackoff where that is shorter.  With any settings a wait
\* is at most MaxBackoff without jitter, and less than half as much again with it:
\* calculateBackoff adds the jitter to the capped backoff, as pkg/README.md says.
RetrySound ==
  retryPc # "idle" =>
    /\ Len(results) <= cfg.retries + 1
    /\ \A k \in 1 .. Len(results) - 1 : results[k] # "nil" /\ Retryable(results[k])
    /\ outcome \in Results =>
         /\ outcome = LastResult
         /\ outcome # "nil" /\ Retryable(outcome) => Len(results) = cfg.retries + 1
    /\ outcome = "canceled" => cancelled
    /\ late <= 1
    /\ Workable(cfg) =>
         /\ outcome # "panic"
         /\ retryPc = "wait" => wait >= cfg.initial \/ wait >= cfg.max
    /\ IF cfg.jitter THEN 2 * wait < 3 * cfg.max ELSE wait <= cfg.max

=============================================================================
