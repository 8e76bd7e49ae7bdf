----------------------------- MODULE RateLimiter -----------------------------
(***************************************************************************)
(* The chain of gRPC interceptors that NewGRPCServer builds                *)
(* (infrastructure/grpc/server.go) and the TokenBucketLimiter it calls     *)
(* (infrastructure/ratelimiter/rate_limiter.go): calls that run            *)
(* concurrently, and the goroutine that removes stale limiters.            *)
(*                                                                         *)
(* limiters and lastAccessTimestamps are sync.Maps: every operation on one *)
(* of them is a step, and nothing makes two of them atomic.                *)
(***************************************************************************)
EXTENDS Integers, FiniteSets, Sequences, Functions

CONSTANTS
  Calls,           \* RPCs in progress
  Keys,            \* keys of limiters; the interceptors use one
  Burst,           \* burst
  Rate,            \* requestsPerSecond: tokens per unit of time
  StaleThreshold,  \* staleThreshold
  MaxLimiterTime   \* bound: the clock

\* A limiter that is stale has refilled, as 10 minutes do with the default limits.
ASSUME RateLimiterAssumption ==
  /\ IsFiniteSet(Keys)
  /\ IsFiniteSet(Calls)
  /\ {Burst, Rate} \subseteq Nat \ {0}
  /\ {StaleThreshold, MaxLimiterTime} \subseteq Nat
  /\ (StaleThreshold + 1) * Rate >= Burst

VARIABLES
  limiterNow,
  limiters,        \* the limiter of each key, 0 when there is none
  bucket,          \* each limiter: its tokens, and when they were last counted
  lastAccess,      \* lastAccessTimestamps, Never when there is no entry
  limiterPc, key,  \* where each call is, and its key
  held,            \* the limiter a call has been given by getOrCreateLimiter
  cleaner,         \* where the cleanup goroutine is
  stopped,         \* stopCleanup is closed
  doomed,          \* keysToDelete
  granted,         \* history: calls let through, by key and time
  touched,         \* history: doomed keys that a call used since they were found stale
  raced,           \* history: how many cleanups of a key a call overlapped
  orphans          \* history: keys whose limiter was created between the two removals of
                   \* a cleanup, and whose access was not recorded since

callVars  == <<limiterPc, key, held>>
cleanVars == <<cleaner, stopped, doomed>>
histVars  == <<granted, touched, raced, orphans>>
limiterVars == <<limiterNow, limiters, bucket, lastAccess, callVars, cleanVars, histVars>>

\* There are never more limiters in use than keys and calls.
Limiters == 1 .. Cardinality(Keys) + Cardinality(Calls)

Never == -1

PcValues == {"idle", "load", "create", "allow", "access", "handler"}

LimiterTypeOK ==
  /\ limiterNow \in 0 .. MaxLimiterTime
  /\ limiters \in [Keys -> Limiters \cup {0}]
  /\ bucket \in [Limiters -> [tokens : 0 .. Burst, last : 0 .. MaxLimiterTime]]
  /\ lastAccess \in [Keys -> 0 .. MaxLimiterTime \cup {Never}]
  /\ limiterPc \in [Calls -> PcValues]
  /\ key \in [Calls -> Keys]
  /\ held \in [Calls -> Limiters \cup {0}]
  /\ cleaner \in {"select", "limiter", "timestamp", "ended"}
  /\ stopped \in BOOLEAN
  /\ doomed \in Seq(Keys)
  /\ granted \in [Keys -> [0 .. MaxLimiterTime -> Nat]]
  /\ touched \subseteq Keys
  /\ raced \in [Keys -> Nat]
  /\ orphans \subseteq Keys

LimiterInit ==
  /\ limiterNow = 0
  /\ limiters = [k \in Keys |-> 0]
  /\ bucket = [l \in Limiters |-> [tokens |-> 0, last |-> 0]]
  /\ lastAccess = [k \in Keys |-> Never]
  /\ limiterPc = [c \in Calls |-> "idle"]
  /\ key \in [Calls -> Keys]
  /\ held = [c \in Calls |-> 0]
  /\ cleaner = "select"
  /\ stopped = FALSE
  /\ doomed = <<>>
  /\ granted = [k \in Keys |-> [t \in 0 .. MaxLimiterTime |-> 0]]
  /\ touched = {}
  /\ raced = [k \in Keys |-> 0]
  /\ orphans = {}

\* The calls of k that are between getOrCreateLimiter and updateLastAccess.
Using(k) == {c \in Calls : key[c] = k /\ limiterPc[c] \in {"create", "allow", "access"}}

-----------------------------------------------------------------------------
(* rate.Limiter *)

\* A new limiter is full.
NewLimiter == [tokens |-> Burst, last |-> limiterNow]

\* The tokens a limiter has by now.
Tokens(l) ==
  LET earned == bucket[l].tokens + Rate * (limiterNow - bucket[l].last)
  IN  IF earned < Burst THEN earned ELSE Burst

-----------------------------------------------------------------------------
(* A call *)

Goto(c, from, to) ==
  /\ limiterPc[c] = from
  /\ limiterPc' = [limiterPc EXCEPT ![c] = to]

\* A call comes in and the JWT interceptor accepts its token (a call that it refuses
\* changes nothing); the RBAC interceptor only logs.
Authenticated(c) ==
  /\ Goto(c, "idle", "load")
  /\ \E k \in Keys : key' = [key EXCEPT ![c] = k]
  /\ UNCHANGED <<limiterNow, limiters, bucket, lastAccess, held, cleanVars, histVars>>

\* getOrCreateLimiter, limiters.Load.
Load(c) ==
  /\ Goto(c, "load", IF limiters[key[c]] = 0 THEN "create" ELSE "allow")
  /\ held' = [held EXCEPT ![c] = limiters[key[c]]]
  /\ touched' = touched \cup ({key[c]} \cap Range(doomed))
  /\ UNCHANGED <<limiterNow, limiters, bucket, lastAccess, key, cleanVars, granted, raced, orphans>>

\* A limiter that is in no entry and that no call holds.
Unused ==
  CHOOSE l \in Limiters : (\A k \in Keys : limiters[k] # l) /\ (\A c \in Calls : held[c] # l)

\* Mutant: limiters.Store.
StoreLimiter(c) ==
  /\ Goto(c, "create", "allow")
  /\ limiters' = [limiters EXCEPT ![key[c]] = Unused]
  /\ bucket' = [bucket EXCEPT ![Unused] = NewLimiter]
  /\ held' = [held EXCEPT ![c] = Unused]
  /\ touched' = touched \cup ({key[c]} \cap Range(doomed))
  /\ UNCHANGED <<limiterNow, lastAccess, key, cleanVars, granted, raced, orphans>>

\* getOrCreateLimiter, limiters.LoadOrStore of a new limiter.
LoadOrStore(c) ==
  LET l == IF limiters[key[c]] = 0 THEN Unused ELSE limiters[key[c]]
  IN  /\ Goto(c, "create", "allow")
      /\ limiters' = [limiters EXCEPT ![key[c]] = l]
      /\ bucket' = IF limiters[key[c]] = 0 THEN [bucket EXCEPT ![l] = NewLimiter] ELSE bucket
      /\ held' = [held EXCEPT ![c] = l]
      /\ touched' = touched \cup ({key[c]} \cap Range(doomed))
      /\ UNCHANGED <<limiterNow, lastAccess, key, cleanVars, granted, raced, orphans>>

\* limiter.Allow, of the limiter the call has, even if it has been removed since.
Allow(c) ==
  /\ Goto(c, "allow", "access")
  /\ Tokens(held[c]) > 0
  /\ bucket' = [bucket EXCEPT ![held[c]] = [tokens |-> Tokens(held[c]) - 1, last |-> limiterNow]]
  /\ held' = [held EXCEPT ![c] = 0]
  /\ granted' = [granted EXCEPT ![key[c]][limiterNow] = @ + 1]
  /\ touched' = touched \cup ({key[c]} \cap Range(doomed))
  /\ UNCHANGED <<limiterNow, limiters, lastAccess, key, cleanVars, raced, orphans>>

\* The call is refused: "rate limit exceeded".
Exceeded(c) ==
  /\ Goto(c, "allow", "idle")
  /\ Tokens(held[c]) = 0
  /\ held' = [held EXCEPT ![c] = 0]
  /\ UNCHANGED <<limiterNow, limiters, bucket, lastAccess, key, cleanVars, histVars>>

\* Mutant: the access is not recorded.
UpdateNothing(c) ==
  /\ Goto(c, "access", "handler")
  /\ UNCHANGED <<limiterNow, limiters, bucket, lastAccess, key, held, cleanVars, histVars>>

\* updateLastAccess.
UpdateLastAccess(c) ==
  /\ Goto(c, "access", "handler")
  /\ lastAccess' = [lastAccess EXCEPT ![key[c]] = limiterNow]
  /\ touched' = touched \cup ({key[c]} \cap Range(doomed))
  /\ orphans' = orphans \ {key[c]}
  /\ UNCHANGED <<limiterNow, limiters, bucket, key, held, cleanVars, granted, raced>>

\* The handler returns, or panics and the recovery interceptor makes it an error; the
\* metrics and logging interceptors return in turn.
Handle(c) ==
  /\ Goto(c, "handler", "idle")
  /\ UNCHANGED <<limiterNow, limiters, bucket, lastAccess, key, held, cleanVars, histVars>>

-----------------------------------------------------------------------------
(* The cleanup goroutine *)

Stale(k) == lastAccess[k] # Never /\ limiterNow - lastAccess[k] > StaleThreshold

\* The ticker: the scan of lastAccessTimestamps, in any order, that finds stale keys.
FindStale ==
  LET found == {k \in Keys : Stale(k)}
  IN  /\ cleaner = "select"
      /\ found # {}
      /\ cleaner' = "limiter"
      /\ \E keys \in [1 .. Cardinality(found) -> found] :
           Range(keys) = found /\ doomed' = keys
      /\ touched' = {k \in found : Using(k) # {}}
      /\ UNCHANGED <<limiterNow, limiters, bucket, lastAccess, callVars, stopped, granted, raced,
                     orphans>>

DeleteLimiter ==
  /\ cleaner = "limiter"
  /\ cleaner' = "timestamp"
  /\ limiters' = [limiters EXCEPT ![Head(doomed)] = 0]
  /\ UNCHANGED <<limiterNow, bucket, lastAccess, callVars, stopped, doomed, histVars>>

DeleteTimestamp ==
  LET k == Head(doomed)
  IN  /\ cleaner = "timestamp"
      /\ cleaner' = IF Len(doomed) = 1 THEN "select" ELSE "limiter"
      /\ lastAccess' = [lastAccess EXCEPT ![k] = Never]
      /\ doomed' = Tail(doomed)
      /\ raced' = [raced EXCEPT ![k] = IF k \in touched THEN @ + 1 ELSE @]
      /\ touched' = touched \ {k}
      /\ orphans' = IF limiters[k] # 0 THEN orphans \cup {k} ELSE orphans
      /\ UNCHANGED <<limiterNow, limiters, bucket, callVars, stopped, granted>>

\* Stop, of which only the first call does anything.
Stop ==
  /\ ~stopped
  /\ stopped' = TRUE
  /\ UNCHANGED <<limiterNow, limiters, bucket, lastAccess, callVars, cleaner, doomed, histVars>>

\* The goroutine notices between two cleanups.
EndCleanup ==
  /\ cleaner = "select"
  /\ stopped
  /\ cleaner' = "ended"
  /\ UNCHANGED <<limiterNow, limiters, bucket, lastAccess, callVars, stopped, doomed, histVars>>

LimiterTick ==
  /\ limiterNow < MaxLimiterTime
  /\ limiterNow' = limiterNow + 1
  /\ UNCHANGED <<limiters, bucket, lastAccess, callVars, cleanVars, histVars>>

LimiterStep(c) ==
  \/ Authenticated(c) \/ Load(c) \/ LoadOrStore(c) \/ Allow(c) \/ Exceeded(c)
  \/ UpdateLastAccess(c) \/ Handle(c)

LimiterNext ==
  \/ \E c \in Calls : LimiterStep(c)
  \/ FindStale \/ DeleteLimiter \/ DeleteTimestamp \/ Stop \/ EndCleanup
  \/ LimiterTick

LimiterSpec == LimiterInit /\ [][LimiterNext]_limiterVars

-----------------------------------------------------------------------------
(* Properties *)

\* The cleanups of k that a call of k overlapped, one in progress included.
Overlaps(k) == raced[k] + IF k \in touched THEN 1 ELSE 0

\* The sum of what f has from .. to.
Total(f, from, to) ==
  LET s[m \in from - 1 .. to] == IF m < from THEN 0 ELSE s[m - 1] + f[m]
  IN  s[to]

\* The limit holds: however calls and cleanups interleave, no period up to now lets through
\* more calls of a key than the burst and the rate allow.  Creating a limiter twice costs
\* nothing, and neither does removing one that is not used meanwhile; a cleanup that a
\* call overlaps costs at most the allowance of one limiter more.
RateBounded ==
  \A k \in Keys : \A from \in 0 .. limiterNow :
    Total(granted[k], from, limiterNow)
      <= (Overlaps(k) + 1) * (Burst + Rate * (limiterNow - from))

\* No limiter is forgotten but in one way: the limiter of a key that no call is using
\* has an access time, by which cleanupStaleLimiters will find it, unless a call created
\* it between the two removals of a cleanup, of the old limiter and of the access time,
\* and no call of the key was let through since.
LimiterTracked ==
  \A k \in Keys :
    limiters[k] # 0 /\ Using(k) = {} /\ k \notin orphans => lastAccess[k] # Never

=============================================================================
