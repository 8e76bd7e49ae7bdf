---------------------------- MODULE LimiterProofs ----------------------------
(***************************************************************************)
(* Proofs about RateLimiter, for any keys, calls, burst, rate and          *)
(* threshold: its types, that no limiter is forgotten by the cleanup, and  *)
(* that the limit holds.                                                   *)
(*                                                                         *)
(* First the limiters that calls hold and that are in the map, then sums,  *)
(* then what the limiters of a key have given and may still give.          *)
(***************************************************************************)
EXTENDS RateLimiter, FiniteSetTheorems, WellFoundedInduction, TLAPS

\* The clock is not behind what was counted or recorded with it.
Dated ==
  /\ \A l \in Limiters : bucket[l].last <= limiterNow
  /\ \A k \in Keys : lastAccess[k] <= limiterNow

\* keysToDelete: every key once, and none between two cleanups.
DoomedOnce ==
  /\ cleaner \in {"limiter", "timestamp"} <=> doomed # <<>>
  /\ \A m, n \in DOMAIN doomed : doomed[m] = doomed[n] => m = n

\* The history of a cleanup: a doomed key that a call is using is touched.
DoomedTouched ==
  /\ touched \subseteq Range(doomed)
  /\ \A c \in Calls :
       limiterPc[c] \in {"create", "allow", "access"} /\ key[c] \in Range(doomed)
         => key[c] \in touched

\* A call holds a limiter between getOrCreateLimiter and Allow.
HeldInAllow == \A c \in Calls : held[c] # 0 <=> limiterPc[c] = "allow"

\* A limiter in the map is the limiter of one key, and only calls of that key hold it.
Owned ==
  \A k \in Keys : limiters[k] # 0 =>
    /\ \A j \in Keys : limiters[j] = limiters[k] => j = k
    /\ \A c \in Calls : held[c] = limiters[k] => key[c] = k

\* A limiter without an access time still has tokens for a call that holds it, or a call
\* that had one is about to record its access, unless the cleanup took the time away.
FreshUntilAccess ==
  \A k \in Keys :
    limiters[k] # 0 /\ lastAccess[k] = Never /\ k \notin orphans =>
      \E c \in Calls : \/ key[c] = k /\ limiterPc[c] = "access"
                       \/ held[c] = limiters[k] /\ bucket[limiters[k]].tokens # 0

LimiterInv ==
  /\ LimiterTypeOK /\ Dated /\ DoomedOnce /\ DoomedTouched
  /\ HeldInAllow /\ Owned /\ FreshUntilAccess

\* The constants are numbers, and 0 stands for no limiter.
LEMMA LimiterConstants ==
  /\ Burst \in Nat \ {0} /\ Rate \in Nat \ {0} /\ MaxLimiterTime \in Nat
  /\ Cardinality(Keys) \in Nat /\ Cardinality(Calls) \in Nat
  /\ 0 \notin Limiters /\ Never = -1
  BY RateLimiterAssumption, FS_CardinalityType DEF Limiters, Never

\* There is a limiter that is in no entry and that no call holds.
LEMMA UnusedFree ==
  ASSUME LimiterTypeOK, NEW c \in Calls, held[c] = 0, NEW k \in Keys, limiters[k] = 0
  PROVE  /\ Unused \in Limiters
         /\ \A j \in Keys : limiters[j] # Unused
         /\ \A d \in Calls : held[d] # Unused
<1> DEFINE L == {limiters[j] : j \in Keys}
           H == {held[d] : d \in Calls}
<1>1. IsFiniteSet(L) /\ Cardinality(L) <= Cardinality(Keys)
  <2>1. limiters \in Surjection(Keys, L)
    BY Zenon DEF LimiterTypeOK, Surjection
  <2>2. QED BY <2>1, FS_Surjection, RateLimiterAssumption, Zenon
<1>2. IsFiniteSet(H) /\ Cardinality(H) <= Cardinality(Calls)
  <2>1. held \in Surjection(Calls, H)
    BY Zenon DEF LimiterTypeOK, Surjection
  <2>2. QED BY <2>1, FS_Surjection, RateLimiterAssumption, Zenon
<1>3. 0 \in L /\ 0 \in H
  BY Zenon
<1> HIDE DEF L, H
<1>4. /\ IsFiniteSet(L \cup H)
      /\ Cardinality(L \cup H) <= Cardinality(Keys) + Cardinality(Calls)
  <2>1. L \cap H \in SUBSET L
    OBVIOUS
  <2>2. /\ Cardinality(L) \in Nat /\ Cardinality(H) \in Nat /\ Cardinality(L \cap H) \in Nat
    BY <1>1, <1>2, <2>1, FS_Subset, FS_CardinalityType, Zenon
  <2>3. /\ IsFiniteSet(L \cup H)
        /\ Cardinality(L \cup H) = Cardinality(L) + Cardinality(H) - Cardinality(L \cap H)
    BY <1>1, <1>2, FS_Union, Zenon
  <2>4. QED BY <1>1, <1>2, <2>2, <2>3, LimiterConstants
<1>5. Limiters \subseteq L \cup H => FALSE
  <2> SUFFICES ASSUME Limiters \subseteq L \cup H PROVE FALSE
    OBVIOUS
  <2>1. /\ IsFiniteSet(Limiters)
        /\ Cardinality(Limiters) = Cardinality(Keys) + Cardinality(Calls)
    <3>1. Cardinality(Keys) + Cardinality(Calls) \in Nat
      BY LimiterConstants
    <3>2. QED BY <3>1, FS_Interval DEF Limiters
  <2>2. Cardinality(Limiters) <= Cardinality((L \cup H) \ {0})
    <3>1. Limiters \in SUBSET ((L \cup H) \ {0})
      BY LimiterConstants, Zenon
    <3>2. QED BY <1>4, <3>1, FS_RemoveElement, FS_Subset, Zenon
  <2>3. Cardinality((L \cup H) \ {0}) = Cardinality(L \cup H) - 1
    BY <1>3, <1>4, FS_RemoveElement, Zenon
  <2>4. Cardinality(L \cup H) \in Nat
    BY <1>4, FS_CardinalityType, Zenon
  <2>5. QED BY <1>4, <2>1, <2>2, <2>3, <2>4, LimiterConstants
<1>6. PICK l \in Limiters : l \notin L \cup H
  BY <1>5, Zenon
<1>7. (\A j \in Keys : limiters[j] # l) /\ (\A d \in Calls : held[d] # l)
  BY <1>6, Zenon DEF L, H
<1>8. QED BY <1>7, Zenon DEF Unused

\* What is left of the list of the cleanup after its first key.
LEMMA DoomedTail ==
  ASSUME LimiterInv, doomed # <<>>
  PROVE  /\ Head(doomed) \in Keys /\ Head(doomed) \in Range(doomed)
         /\ Range(Tail(doomed)) = Range(doomed) \ {Head(doomed)}
<1>0. PICK k, t : k = Head(doomed) /\ t = Tail(doomed)
  BY Zenon
<1>1. doomed \in Seq(Keys) /\ \A m, n \in DOMAIN doomed : doomed[m] = doomed[n] => m = n
  BY Zenon DEF LimiterInv, LimiterTypeOK, DoomedOnce
<1>2. /\ k \in Keys /\ t \in Seq(Keys) /\ k = doomed[1] /\ Len(doomed) \in Nat \ {0}
      /\ \A n \in 1 .. Len(doomed) - 1 : t[n] = doomed[n + 1]
      /\ DOMAIN doomed = 1 .. Len(doomed) /\ DOMAIN t = 1 .. Len(doomed) - 1
      /\ 1 \in DOMAIN doomed
  BY <1>0, <1>1
<1>3. k \in Range(doomed)
  BY <1>2, Zenon DEF Range
<1>4. ASSUME NEW x \in Range(t) PROVE x \in Range(doomed) /\ x # k
  <2>1. PICK n \in 1 .. Len(doomed) - 1 : x = t[n]
    BY <1>2, Zenon DEF Range
  <2>2. x = doomed[n + 1] /\ n + 1 \in DOMAIN doomed /\ n + 1 # 1
    BY <1>2, <2>1
  <2>3. QED BY <1>1, <1>2, <2>2, Zenon DEF Range
<1>5. ASSUME NEW x \in Range(doomed), x # k PROVE x \in Range(t)
  <2>1. PICK n \in 1 .. Len(doomed) : x = doomed[n]
    BY <1>2, Zenon DEF Range
  <2>2. n # 1
    BY <1>2, <1>5, <2>1, Zenon
  <2>3. n - 1 \in 1 .. Len(doomed) - 1 /\ (n - 1) + 1 = n
    BY <1>2, <2>2
  <2>4. t[n - 1] = x
    BY <1>2, <2>1, <2>3, Zenon
  <2>5. QED BY <1>2, <2>3, <2>4, Zenon DEF Range
<1>6. QED BY <1>0, <1>2, <1>3, <1>4, <1>5, Zenon

\* A limiter has between none and a burst of tokens, and earns them.
LEMMA TokensBounded ==
  ASSUME LimiterTypeOK, Dated, NEW l \in Limiters
  PROVE  /\ Tokens(l) \in 0 .. Burst
         /\ bucket[l].tokens = Burst => Tokens(l) = Burst
         /\ Tokens(l) = 0 => bucket[l].tokens = 0
<1>1. /\ bucket[l].tokens \in 0 .. Burst /\ bucket[l].last \in Nat /\ limiterNow \in Nat
      /\ bucket[l].last <= limiterNow
  <2>1. bucket[l] \in [tokens : 0 .. Burst, last : 0 .. MaxLimiterTime]
    BY Zenon DEF LimiterTypeOK
  <2>2. QED BY <2>1, LimiterConstants DEF LimiterTypeOK, Dated
<1>2. Rate * (limiterNow - bucket[l].last) \in Nat
  <2>1. ASSUME NEW m \in Nat, NEW n \in Nat PROVE m * n \in Nat
    OBVIOUS
  <2>2. QED BY <1>1, <2>1, LimiterConstants
<1>3. ASSUME NEW e \in Nat PROVE bucket[l].tokens + e \in Nat /\ bucket[l].tokens + e >= bucket[l].tokens
  BY <1>1, LimiterConstants
<1>4. PICK e \in Nat : e = Rate * (limiterNow - bucket[l].last)
  BY <1>2
<1>5. Tokens(l) = IF bucket[l].tokens + e < Burst THEN bucket[l].tokens + e ELSE Burst
  BY <1>4, Zenon DEF Tokens
<1>6. QED BY <1>1, <1>3, <1>5, LimiterConstants

\* A call that comes in, one that is answered, and one that loads the limiter of its key.
LEMMA OutsideInv ==
  ASSUME LimiterInv, NEW c \in Calls, Authenticated(c) \/ Handle(c)
  PROVE  LimiterInv'
<1>1. /\ limiterPc[c] \in {"idle", "handler"}
      /\ limiterPc' = [limiterPc EXCEPT ![c] = limiterPc'[c]] /\ limiterPc'[c] \in {"load", "idle"}
      /\ key' = [key EXCEPT ![c] = key'[c]] /\ key'[c] \in Keys
      /\ UNCHANGED <<limiterNow, limiters, bucket, lastAccess, held, cleaner, stopped, doomed,
                     granted, touched, raced, orphans>>
  BY Zenon DEF LimiterInv, LimiterTypeOK, Authenticated, Handle, Goto, cleanVars, histVars
<1>2. limiterPc \in [Calls -> PcValues] /\ key \in [Calls -> Keys]
  BY Zenon DEF LimiterInv, LimiterTypeOK
<1>3. /\ \A d \in Calls : d # c => limiterPc'[d] = limiterPc[d] /\ key'[d] = key[d]
      /\ limiterPc' \in [Calls -> PcValues] /\ key' \in [Calls -> Keys]
  BY <1>1, <1>2, Zenon DEF PcValues
<1>4. LimiterTypeOK' /\ Dated' /\ DoomedOnce'
  BY <1>1, <1>3, Zenon DEF LimiterInv, LimiterTypeOK, Dated, DoomedOnce
<1>5. DoomedTouched' /\ HeldInAllow'
  BY <1>1, <1>3, Zenon DEF LimiterInv, DoomedTouched, HeldInAllow
<1>6. Owned'
  <2>1. held[c] = 0
    BY <1>1, Zenon DEF LimiterInv, HeldInAllow
  <2>2. QED BY <1>1, <1>3, <2>1 DEF LimiterInv, Owned
<1>7. FreshUntilAccess'
  <2> SUFFICES ASSUME NEW j \in Keys, limiters[j] # 0, lastAccess[j] = Never, j \notin orphans
               PROVE  \E d \in Calls : \/ key'[d] = j /\ limiterPc'[d] = "access"
                                       \/ held[d] = limiters[j] /\ bucket[limiters[j]].tokens # 0
    BY <1>1, Zenon DEF FreshUntilAccess
  <2>1. PICK d \in Calls : \/ key[d] = j /\ limiterPc[d] = "access"
                           \/ held[d] = limiters[j] /\ bucket[limiters[j]].tokens # 0
    BY Zenon DEF LimiterInv, FreshUntilAccess
  <2>2. QED BY <1>1, <1>3, <2>1, Zenon
<1>8. QED BY <1>4, <1>5, <1>6, <1>7, Zenon DEF LimiterInv

\* A call loads the limiter of its key.
LEMMA LoadInv == ASSUME LimiterInv, NEW c \in Calls, Load(c) PROVE LimiterInv'
<1> DEFINE k == key[c]
           to == IF limiters[k] = 0 THEN "create" ELSE "allow"
<1>1. /\ limiterPc[c] = "load" /\ limiterPc' = [limiterPc EXCEPT ![c] = to]
      /\ held' = [held EXCEPT ![c] = limiters[k]]
      /\ touched' = touched \cup ({k} \cap Range(doomed))
      /\ UNCHANGED <<limiterNow, limiters, bucket, lastAccess, key, cleaner, stopped, doomed,
                     granted, raced, orphans>>
  BY Zenon DEF Load, Goto, cleanVars
<1>2. /\ limiterPc \in [Calls -> PcValues] /\ held \in [Calls -> Limiters \cup {0}]
      /\ limiters \in [Keys -> Limiters \cup {0}] /\ k \in Keys
      /\ touched \subseteq Keys
  BY Zenon DEF LimiterInv, LimiterTypeOK
<1>3. /\ \A d \in Calls : d # c => limiterPc'[d] = limiterPc[d] /\ held'[d] = held[d]
      /\ limiterPc'[c] = to /\ held'[c] = limiters[k]
      /\ limiterPc' \in [Calls -> PcValues] /\ held' \in [Calls -> Limiters \cup {0}]
  BY <1>1, <1>2, Zenon DEF PcValues
<1>4. touched \subseteq touched' /\ touched' \subseteq Keys
  BY <1>1, <1>2, Zenon
<1>5. LimiterTypeOK' /\ Dated' /\ DoomedOnce'
  BY <1>1, <1>3, <1>4, Zenon DEF LimiterInv, LimiterTypeOK, Dated, DoomedOnce
<1>6. DoomedTouched'
  BY <1>1, <1>3, <1>4, Zenon DEF LimiterInv, DoomedTouched
<1>7. HeldInAllow'
  BY <1>1, <1>3, Zenon DEF LimiterInv, HeldInAllow
<1>8. Owned'
  BY <1>1, <1>2, <1>3 DEF LimiterInv, Owned
<1>9. FreshUntilAccess'
  <2>1. held[c] = 0
    BY <1>1, Zenon DEF LimiterInv, HeldInAllow
  <2> SUFFICES ASSUME NEW j \in Keys, limiters[j] # 0, lastAccess[j] = Never, j \notin orphans
               PROVE  \E d \in Calls : \/ key[d] = j /\ limiterPc'[d] = "access"
                                       \/ held'[d] = limiters[j] /\ bucket[limiters[j]].tokens # 0
    BY <1>1, Zenon DEF FreshUntilAccess
  <2>2. PICK d \in Calls : \/ key[d] = j /\ limiterPc[d] = "access"
                           \/ held[d] = limiters[j] /\ bucket[limiters[j]].tokens # 0
    BY Zenon DEF LimiterInv, FreshUntilAccess
  <2>3. d # c
    BY <1>1, <2>1, <2>2, Zenon
  <2>4. QED BY <1>3, <2>2, <2>3, Zenon
<1>10. QED BY <1>5, <1>6, <1>7, <1>8, <1>9, Zenon DEF LimiterInv

\* A call stores the limiter that it made, or takes the one it finds.
LEMMA LoadOrStoreInv == ASSUME LimiterInv, NEW c \in Calls, LoadOrStore(c) PROVE LimiterInv'
<1> DEFINE k == key[c]
           l == IF limiters[k] = 0 THEN Unused ELSE limiters[k]
<1>1. /\ limiterPc[c] = "create" /\ limiterPc' = [limiterPc EXCEPT ![c] = "allow"]
      /\ limiters' = [limiters EXCEPT ![k] = l]
      /\ bucket' = IF limiters[k] = 0 THEN [bucket EXCEPT ![l] = NewLimiter] ELSE bucket
      /\ held' = [held EXCEPT ![c] = l]
      /\ touched' = touched \cup ({k} \cap Range(doomed))
      /\ UNCHANGED <<limiterNow, lastAccess, key, cleaner, stopped, doomed, granted, raced,
                     orphans>>
  BY Zenon DEF LoadOrStore, Goto, cleanVars
<1>2. /\ limiterPc \in [Calls -> PcValues] /\ held \in [Calls -> Limiters \cup {0}]
      /\ limiters \in [Keys -> Limiters \cup {0}] /\ k \in Keys
      /\ touched \subseteq Keys /\ held[c] = 0
      /\ bucket \in [Limiters -> [tokens : 0 .. Burst, last : 0 .. MaxLimiterTime]]
      /\ limiterNow \in 0 .. MaxLimiterTime /\ \A d \in Calls : key[d] \in Keys
  BY <1>1, Zenon DEF LimiterInv, LimiterTypeOK, HeldInAllow
<1>3. /\ l \in Limiters /\ l # 0
      /\ limiters[k] = 0 => /\ \A j \in Keys : limiters[j] # l
                            /\ \A d \in Calls : held[d] # l
  <2>1. CASE limiters[k] = 0
    BY <1>2, <2>1, UnusedFree, LimiterConstants, Zenon DEF LimiterInv
  <2>2. CASE limiters[k] # 0
    BY <1>2, <2>2, Zenon
  <2>3. QED BY <2>1, <2>2, Zenon
<1> HIDE DEF l
<1>4. /\ \A d \in Calls : d # c => limiterPc'[d] = limiterPc[d] /\ held'[d] = held[d]
      /\ limiterPc'[c] = "allow" /\ held'[c] = l
      /\ \A j \in Keys : j # k => limiters'[j] = limiters[j]
      /\ limiters'[k] = l
      /\ limiterPc' \in [Calls -> PcValues] /\ held' \in [Calls -> Limiters \cup {0}]
      /\ limiters' \in [Keys -> Limiters \cup {0}]
  BY <1>1, <1>2, <1>3, Zenon DEF PcValues
<1>5. limiters[k] # 0 => l = limiters[k] /\ limiters' = limiters /\ bucket' = bucket
  BY <1>1, <1>2, Zenon DEF l
<1>6. NewLimiter \in [tokens : 0 .. Burst, last : 0 .. MaxLimiterTime]
      /\ NewLimiter.tokens = Burst /\ NewLimiter.last = limiterNow
  BY <1>2, LimiterConstants DEF NewLimiter
<1>7. /\ bucket' \in [Limiters -> [tokens : 0 .. Burst, last : 0 .. MaxLimiterTime]]
      /\ limiters[k] = 0 => bucket'[l] = NewLimiter
      /\ \A m \in Limiters : bucket'[m] = bucket[m] \/ bucket'[m] = NewLimiter
      /\ \A m \in Limiters : m # l => bucket'[m] = bucket[m]
  BY <1>1, <1>2, <1>3, <1>6, Zenon
<1>8. touched \subseteq touched' /\ touched' \subseteq Keys
  BY <1>1, <1>2, Zenon
<1>9. LimiterTypeOK' /\ DoomedOnce'
  BY <1>1, <1>4, <1>7, <1>8, Zenon DEF LimiterInv, LimiterTypeOK, DoomedOnce
<1>10. Dated'
  <2>1. limiterNow <= limiterNow
    BY <1>2, LimiterConstants
  <2>2. QED BY <1>1, <1>6, <1>7, <2>1, Zenon DEF LimiterInv, Dated
<1>11. DoomedTouched'
  BY <1>1, <1>4, <1>8, Zenon DEF LimiterInv, DoomedTouched
<1>12. HeldInAllow'
  BY <1>1, <1>3, <1>4, Zenon DEF LimiterInv, HeldInAllow
<1>13. Owned'
  <2>1. CASE limiters[k] = 0
    BY <1>1, <1>3, <1>4, <2>1 DEF LimiterInv, Owned
  <2>2. CASE limiters[k] # 0
    BY <1>1, <1>2, <1>4, <1>5, <2>2 DEF LimiterInv, Owned
  <2>3. QED BY <2>1, <2>2, Zenon
<1>14. FreshUntilAccess'
  <2> SUFFICES ASSUME NEW j \in Keys, (limiters[j] # 0 /\ lastAccess[j] = Never /\ j \notin orphans)'
               PROVE  \E d \in Calls : \/ key'[d] = j /\ limiterPc'[d] = "access"
                                       \/ held'[d] = limiters'[j] /\ bucket'[limiters'[j]].tokens # 0
    BY Zenon DEF FreshUntilAccess
  <2>1. CASE j = k /\ limiters[k] = 0
    <3>1. held'[c] = limiters'[j] /\ bucket'[limiters'[j]].tokens = Burst
      BY <1>4, <1>6, <1>7, <2>1, Zenon
    <3>2. Burst # 0
      BY LimiterConstants
    <3>3. QED BY <3>1, <3>2, Zenon
  <2>2. CASE j # k \/ limiters[k] # 0
    <3>1. limiters'[j] = limiters[j] /\ limiters[j] # 0 /\ limiters[j] \in Limiters
      BY <1>2, <1>4, <1>5, <2>2, Zenon
    <3>2. bucket'[limiters[j]] = bucket[limiters[j]]
      BY <1>3, <1>5, <1>7, <2>2, <3>1, Zenon
    <3>3. PICK d \in Calls : \/ key[d] = j /\ limiterPc[d] = "access"
                             \/ held[d] = limiters[j] /\ bucket[limiters[j]].tokens # 0
      BY <1>1, <3>1, Zenon DEF LimiterInv, FreshUntilAccess
    <3>4. d # c
      BY <1>1, <1>2, <3>1, <3>3, Zenon
    <3>5. QED BY <1>1, <1>4, <3>1, <3>2, <3>3, <3>4, Zenon
  <2>3. QED BY <2>1, <2>2, Zenon
<1>15. QED BY <1>9, <1>10, <1>11, <1>12, <1>13, <1>14, Zenon DEF LimiterInv

\* A call takes a token.
LEMMA AllowInv == ASSUME LimiterInv, NEW c \in Calls, Allow(c) PROVE LimiterInv'
<1> DEFINE k == key[c]
           l == held[c]
           b == [tokens |-> Tokens(l) - 1, last |-> limiterNow]
<1>1. /\ limiterPc[c] = "allow" /\ limiterPc' = [limiterPc EXCEPT ![c] = "access"]
      /\ Tokens(l) > 0 /\ bucket' = [bucket EXCEPT ![l] = b]
      /\ held' = [held EXCEPT ![c] = 0]
      /\ granted' = [granted EXCEPT ![k][limiterNow] = @ + 1]
      /\ touched' = touched \cup ({k} \cap Range(doomed))
      /\ UNCHANGED <<limiterNow, limiters, lastAccess, key, cleaner, stopped, doomed, raced,
                     orphans>>
  BY Zenon DEF Allow, Goto, cleanVars
<1>2. /\ limiterPc \in [Calls -> PcValues] /\ held \in [Calls -> Limiters \cup {0}]
      /\ limiters \in [Keys -> Limiters \cup {0}] /\ k \in Keys
      /\ touched \subseteq Keys
      /\ bucket \in [Limiters -> [tokens : 0 .. Burst, last : 0 .. MaxLimiterTime]]
      /\ limiterNow \in 0 .. MaxLimiterTime
      /\ granted \in [Keys -> [0 .. MaxLimiterTime -> Nat]]
      /\ \A d \in Calls : key[d] \in Keys
  BY <1>1, Zenon DEF LimiterInv, LimiterTypeOK
<1>3. l \in Limiters /\ l # 0
  BY <1>1, <1>2, Zenon DEF LimiterInv, HeldInAllow
<1>4. b \in [tokens : 0 .. Burst, last : 0 .. MaxLimiterTime] /\ b.last = limiterNow
  <2>1. Tokens(l) \in 0 .. Burst
    BY <1>3, TokensBounded, Zenon DEF LimiterInv
  <2>2. Tokens(l) - 1 \in 0 .. Burst
    BY <1>1, <2>1, LimiterConstants
  <2>3. QED BY <1>2, <2>2, Zenon
<1> HIDE DEF l, b
<1>5. /\ \A d \in Calls : d # c => limiterPc'[d] = limiterPc[d] /\ held'[d] = held[d]
      /\ limiterPc'[c] = "access" /\ held'[c] = 0
      /\ limiterPc' \in [Calls -> PcValues] /\ held' \in [Calls -> Limiters \cup {0}]
      /\ bucket' \in [Limiters -> [tokens : 0 .. Burst, last : 0 .. MaxLimiterTime]]
      /\ bucket'[l] = b /\ \A m \in Limiters : m # l => bucket'[m] = bucket[m]
  BY <1>1, <1>2, <1>3, <1>4, Zenon DEF PcValues
<1>6. granted' \in [Keys -> [0 .. MaxLimiterTime -> Nat]]
  <2> DEFINE g == [granted[k] EXCEPT ![limiterNow] = granted[k][limiterNow] + 1]
  <2>1. granted[k] \in [0 .. MaxLimiterTime -> Nat]
    BY <1>2, Zenon
  <2>2. g \in [0 .. MaxLimiterTime -> Nat]
    <3>1. ASSUME NEW f \in [0 .. MaxLimiterTime -> Nat], NEW t \in 0 .. MaxLimiterTime
          PROVE  [f EXCEPT ![t] = f[t] + 1] \in [0 .. MaxLimiterTime -> Nat]
      OBVIOUS
    <3>2. QED BY <1>2, <2>1, <3>1, Zenon
  <2>3. granted' = [granted EXCEPT ![k] = g]
    BY <1>1, Zenon
  <2> HIDE DEF g
  <2>4. QED BY <1>2, <2>2, <2>3, Zenon
<1>7. touched \subseteq touched' /\ touched' \subseteq Keys
  BY <1>1, <1>2, Zenon
<1>8. LimiterTypeOK' /\ DoomedOnce'
  BY <1>1, <1>5, <1>6, <1>7, Zenon DEF LimiterInv, LimiterTypeOK, DoomedOnce
<1>9. Dated'
  <2>1. limiterNow <= limiterNow
    BY <1>2, LimiterConstants
  <2>2. QED BY <1>1, <1>4, <1>5, <2>1, Zenon DEF LimiterInv, Dated
<1>10. DoomedTouched'
  BY <1>1, <1>5, <1>7, Zenon DEF LimiterInv, DoomedTouched
<1>11. HeldInAllow'
  BY <1>1, <1>5, Zenon DEF LimiterInv, HeldInAllow
<1>12. Owned'
  BY <1>1, <1>5 DEF LimiterInv, Owned
<1>13. FreshUntilAccess'
  <2> SUFFICES ASSUME NEW j \in Keys, (limiters[j] # 0 /\ lastAccess[j] = Never /\ j \notin orphans)'
               PROVE  \E d \in Calls : \/ key'[d] = j /\ limiterPc'[d] = "access"
                                       \/ held'[d] = limiters'[j] /\ bucket'[limiters'[j]].tokens # 0
    BY Zenon DEF FreshUntilAccess
  <2>1. limiters[j] # 0 /\ lastAccess[j] = Never /\ j \notin orphans /\ limiters[j] \in Limiters
    BY <1>1, <1>2, Zenon
  <2>2. CASE j = k
    BY <1>1, <1>5, <2>2, Zenon
  <2>3. CASE j # k
    <3>1. limiters[j] # l
      BY <1>3, <2>1, <2>3, Zenon DEF LimiterInv, Owned, l
    <3>2. PICK d \in Calls : \/ key[d] = j /\ limiterPc[d] = "access"
                             \/ held[d] = limiters[j] /\ bucket[limiters[j]].tokens # 0
      BY <2>1, Zenon DEF LimiterInv, FreshUntilAccess
    <3>3. d # c
      BY <1>1, <2>3, <3>1, <3>2, Zenon DEF l
    <3>4. bucket'[limiters[j]] = bucket[limiters[j]]
      BY <1>5, <2>1, <3>1, Zenon
    <3>5. QED BY <1>1, <1>5, <3>2, <3>3, <3>4, Zenon
  <2>4. QED BY <2>2, <2>3, Zenon
<1>14. QED BY <1>8, <1>9, <1>10, <1>11, <1>12, <1>13, Zenon DEF LimiterInv

\* A call finds no token.
LEMMA ExceededInv == ASSUME LimiterInv, NEW c \in Calls, Exceeded(c) PROVE LimiterInv'
<1>1. /\ limiterPc[c] = "allow" /\ limiterPc' = [limiterPc EXCEPT ![c] = "idle"]
      /\ Tokens(held[c]) = 0 /\ held' = [held EXCEPT ![c] = 0]
      /\ UNCHANGED <<limiterNow, limiters, bucket, lastAccess, key, cleaner, stopped, doomed,
                     granted, touched, raced, orphans>>
  BY Zenon DEF Exceeded, Goto, cleanVars, histVars
<1>2. /\ limiterPc \in [Calls -> PcValues] /\ held \in [Calls -> Limiters \cup {0}]
  BY Zenon DEF LimiterInv, LimiterTypeOK
<1>3. /\ \A d \in Calls : d # c => limiterPc'[d] = limiterPc[d] /\ held'[d] = held[d]
      /\ limiterPc'[c] = "idle" /\ held'[c] = 0
      /\ limiterPc' \in [Calls -> PcValues] /\ held' \in [Calls -> Limiters \cup {0}]
  BY <1>1, <1>2, Zenon DEF PcValues
<1>4. LimiterTypeOK' /\ Dated' /\ DoomedOnce'
  BY <1>1, <1>3, Zenon DEF LimiterInv, LimiterTypeOK, Dated, DoomedOnce
<1>5. DoomedTouched' /\ HeldInAllow' /\ Owned'
  BY <1>1, <1>3 DEF LimiterInv, DoomedTouched, HeldInAllow, Owned
<1>6. FreshUntilAccess'
  <2> SUFFICES ASSUME NEW j \in Keys, limiters[j] # 0, lastAccess[j] = Never, j \notin orphans
               PROVE  \E d \in Calls : \/ key[d] = j /\ limiterPc'[d] = "access"
                                       \/ held'[d] = limiters[j] /\ bucket[limiters[j]].tokens # 0
    BY <1>1, Zenon DEF FreshUntilAccess
  <2>1. PICK d \in Calls : \/ key[d] = j /\ limiterPc[d] = "access"
                           \/ held[d] = limiters[j] /\ bucket[limiters[j]].tokens # 0
    BY Zenon DEF LimiterInv, FreshUntilAccess
  <2>2. held[c] \in Limiters
    BY <1>1, <1>2, Zenon DEF LimiterInv, HeldInAllow
  <2>3. bucket[held[c]].tokens = 0
    BY <1>1, <2>2, TokensBounded, Zenon DEF LimiterInv
  <2>4. d # c
    BY <1>1, <2>1, <2>3, Zenon
  <2>5. QED BY <1>3, <2>1, <2>4, Zenon
<1>7. QED BY <1>4, <1>5, <1>6, Zenon DEF LimiterInv

\* A call stamps its key.
LEMMA UpdateLastAccessInv ==
  ASSUME LimiterInv, NEW c \in Calls, UpdateLastAccess(c)
  PROVE  LimiterInv'
<1> DEFINE k == key[c]
<1>1. /\ limiterPc[c] = "access" /\ limiterPc' = [limiterPc EXCEPT ![c] = "handler"]
      /\ lastAccess' = [lastAccess EXCEPT ![k] = limiterNow]
      /\ touched' = touched \cup ({k} \cap Range(doomed)) /\ orphans' = orphans \ {k}
      /\ UNCHANGED <<limiterNow, limiters, bucket, key, held, cleaner, stopped, doomed, granted, raced>>
  BY Zenon DEF UpdateLastAccess, Goto, cleanVars
<1>2. /\ limiterPc \in [Calls -> PcValues] /\ k \in Keys
      /\ lastAccess \in [Keys -> 0 .. MaxLimiterTime \cup {Never}]
      /\ limiterNow \in 0 .. MaxLimiterTime /\ touched \subseteq Keys
      /\ \A d \in Calls : key[d] \in Keys
  BY Zenon DEF LimiterInv, LimiterTypeOK
<1>3. /\ \A d \in Calls : d # c => limiterPc'[d] = limiterPc[d]
      /\ limiterPc'[c] = "handler" /\ limiterPc' \in [Calls -> PcValues]
      /\ lastAccess' \in [Keys -> 0 .. MaxLimiterTime \cup {Never}]
      /\ lastAccess'[k] = limiterNow /\ \A j \in Keys : j # k => lastAccess'[j] = lastAccess[j]
  BY <1>1, <1>2, Zenon DEF PcValues
<1>4. touched \subseteq touched' /\ touched' \subseteq Keys
  BY <1>1, <1>2, Zenon
<1>5. limiterNow <= limiterNow /\ limiterNow # Never
  BY <1>2, LimiterConstants
<1>6. LimiterTypeOK' /\ Dated' /\ DoomedOnce'
  BY <1>1, <1>3, <1>4, <1>5, Zenon DEF LimiterInv, LimiterTypeOK, Dated, DoomedOnce
<1>7. DoomedTouched'
  BY <1>1, <1>3, <1>4, Zenon DEF LimiterInv, DoomedTouched
<1>8. HeldInAllow' /\ Owned'
  BY <1>1, <1>3 DEF LimiterInv, HeldInAllow, Owned
<1>9. FreshUntilAccess'
  <2> SUFFICES ASSUME NEW j \in Keys, limiters[j] # 0, lastAccess'[j] = Never, j \notin orphans'
               PROVE  \E d \in Calls : \/ key[d] = j /\ limiterPc'[d] = "access"
                                       \/ held[d] = limiters[j] /\ bucket[limiters[j]].tokens # 0
    BY <1>1, Zenon DEF FreshUntilAccess
  <2>1. j # k /\ lastAccess[j] = Never /\ j \notin orphans
    BY <1>1, <1>3, <1>5, Zenon
  <2>2. PICK d \in Calls : \/ key[d] = j /\ limiterPc[d] = "access"
                           \/ held[d] = limiters[j] /\ bucket[limiters[j]].tokens # 0
    BY <2>1, Zenon DEF LimiterInv, FreshUntilAccess
  <2>3. QED BY <1>3, <2>1, <2>2, Zenon
<1>10. QED BY <1>6, <1>7, <1>8, <1>9, Zenon DEF LimiterInv

\* The cleanup lists the stale keys.
LEMMA FindStaleInv == ASSUME LimiterInv, FindStale PROVE LimiterInv'
<1> DEFINE found == {k \in Keys : Stale(k)}
<1>1. /\ cleaner = "select" /\ found # {} /\ cleaner' = "limiter"
      /\ touched' = {k \in found : Using(k) # {}}
      /\ UNCHANGED <<limiterNow, limiters, bucket, lastAccess, limiterPc, key, held, stopped,
                     granted, raced, orphans>>
  BY Zenon DEF FindStale, callVars
<1>2. PICK keys \in [1 .. Cardinality(found) -> found] : Range(keys) = found /\ doomed' = keys
  BY Zenon DEF FindStale
<1> HIDE DEF found
<1>3. found \subseteq Keys
  BY Zenon DEF found
<1>4. IsFiniteSet(found) /\ Cardinality(found) \in Nat
  BY <1>3, FS_Subset, FS_CardinalityType, RateLimiterAssumption, Zenon
<1>5. /\ doomed' \in Seq(Keys) /\ DOMAIN doomed' = 1 .. Cardinality(found)
      /\ Range(doomed') = found
  BY <1>2, <1>3, <1>4
<1>6. doomed' # <<>>
  <2>1. DOMAIN doomed' # {}
    BY <1>1, <1>5, Zenon DEF Range
  <2>2. QED BY <2>1
<1>7. \A m, n \in DOMAIN doomed' : doomed'[m] = doomed'[n] => m = n
  <2>1. keys \in Surjection(1 .. Cardinality(found), found)
    BY <1>2, Zenon DEF Surjection, Range
  <2>2. /\ IsFiniteSet(1 .. Cardinality(found))
        /\ Cardinality(1 .. Cardinality(found)) = Cardinality(found)
    BY <1>4, FS_Interval
  <2>3. keys \in Injection(1 .. Cardinality(found), found)
    BY <2>1, <2>2, FS_Surjection, Zenon
  <2>4. QED BY <1>2, <1>5, <2>3, Zenon DEF Injection, IsInjective
<1>8. touched = {} /\ touched' \subseteq found
  <2>1. doomed = <<>>
    BY <1>1, Zenon DEF LimiterInv, DoomedOnce
  <2>2. QED BY <1>1, <2>1 DEF LimiterInv, DoomedTouched, Range
<1>9. LimiterTypeOK' /\ Dated'
  BY <1>1, <1>3, <1>5, <1>8, Zenon DEF LimiterInv, LimiterTypeOK, Dated
<1>10. DoomedOnce'
  BY <1>1, <1>6, <1>7, Zenon DEF DoomedOnce
<1>11. DoomedTouched'
  BY <1>1, <1>5, <1>8, Zenon DEF DoomedTouched, Using
<1>12. HeldInAllow' /\ Owned'
  BY <1>1, Zenon DEF LimiterInv, HeldInAllow, Owned
<1>13. FreshUntilAccess'
  BY <1>1, Zenon DEF LimiterInv, FreshUntilAccess
<1>14. QED BY <1>9, <1>10, <1>11, <1>12, <1>13, Zenon DEF LimiterInv

\* The cleanup deletes a limiter.
LEMMA DeleteLimiterInv == ASSUME LimiterInv, DeleteLimiter PROVE LimiterInv'
<1> DEFINE k == Head(doomed)
<1>1. /\ cleaner = "limiter" /\ cleaner' = "timestamp"
      /\ limiters' = [limiters EXCEPT ![k] = 0]
      /\ UNCHANGED <<limiterNow, bucket, lastAccess, limiterPc, key, held, stopped, doomed,
                     granted, touched, raced, orphans>>
  BY Zenon DEF DeleteLimiter, callVars, histVars
<1>2. limiters \in [Keys -> Limiters \cup {0}] /\ doomed \in Seq(Keys) /\ doomed # <<>>
  BY <1>1, Zenon DEF LimiterInv, LimiterTypeOK, DoomedOnce
<1>3. k \in Keys /\ k \in Range(doomed)
  BY <1>2 DEF Range
<1>4. /\ limiters' \in [Keys -> Limiters \cup {0}] /\ limiters'[k] = 0
      /\ \A j \in Keys : j # k => limiters'[j] = limiters[j]
  BY <1>1, <1>2, <1>3, Zenon
<1>5. LimiterTypeOK' /\ Dated' /\ DoomedOnce'
  BY <1>1, <1>4, Zenon DEF LimiterInv, LimiterTypeOK, Dated, DoomedOnce
<1>6. DoomedTouched' /\ HeldInAllow' /\ Owned'
  BY <1>1, <1>4, Zenon DEF LimiterInv, DoomedTouched, HeldInAllow, Owned
<1>7. FreshUntilAccess'
  BY <1>1, <1>4, Zenon DEF LimiterInv, FreshUntilAccess
<1>8. QED BY <1>5, <1>6, <1>7, Zenon DEF LimiterInv

\* The cleanup deletes a timestamp.
LEMMA DeleteTimestampInv == ASSUME LimiterInv, DeleteTimestamp PROVE LimiterInv'
<1>0. PICK k : k = Head(doomed)
  OBVIOUS
<1>1. /\ cleaner = "timestamp"
      /\ cleaner' = IF Len(doomed) = 1 THEN "select" ELSE "limiter"
      /\ lastAccess' = [lastAccess EXCEPT ![k] = Never]
      /\ doomed' = Tail(doomed)
      /\ raced' = [raced EXCEPT ![k] = IF k \in touched THEN @ + 1 ELSE @]
      /\ touched' = touched \ {k}
      /\ orphans' = IF limiters[k] # 0 THEN orphans \cup {k} ELSE orphans
      /\ UNCHANGED <<limiterNow, limiters, bucket, limiterPc, key, held, stopped, granted>>
  BY <1>0, Zenon DEF DeleteTimestamp, callVars
<1>2. /\ doomed \in Seq(Keys) /\ doomed # <<>> /\ raced \in [Keys -> Nat] /\ touched \subseteq Keys
      /\ lastAccess \in [Keys -> 0 .. MaxLimiterTime \cup {Never}]
  BY <1>1, Zenon DEF LimiterInv, LimiterTypeOK, DoomedOnce
<1>3. /\ k \in Keys /\ doomed' \in Seq(Keys) /\ Len(doomed') = Len(doomed) - 1
      /\ Len(doomed) \in Nat \ {0} /\ k = doomed[1]
      /\ \A n \in 1 .. Len(doomed) - 1 : doomed'[n] = doomed[n + 1]
      /\ DOMAIN doomed = 1 .. Len(doomed) /\ DOMAIN doomed' = 1 .. Len(doomed) - 1
  BY <1>0, <1>1, <1>2
<1>4. /\ raced' \in [Keys -> Nat] /\ raced'[k] = (IF k \in touched THEN raced[k] + 1 ELSE raced[k])
      /\ \A j \in Keys : j # k => raced'[j] = raced[j]
      /\ lastAccess' \in [Keys -> 0 .. MaxLimiterTime \cup {Never}]
      /\ lastAccess'[k] = Never
      /\ \A j \in Keys : j # k => lastAccess'[j] = lastAccess[j]
  BY <1>1, <1>2, <1>3
<1>5. DoomedOnce'
  <2>1. doomed' # <<>> <=> Len(doomed) # 1
    BY <1>3
  <2>2. \A m, n \in DOMAIN doomed' : doomed'[m] = doomed'[n] => m = n
    <3> SUFFICES ASSUME NEW m \in DOMAIN doomed', NEW n \in DOMAIN doomed', doomed'[m] = doomed'[n]
                 PROVE  m = n
      OBVIOUS
    <3>1. /\ m \in Int /\ n \in Int /\ m + 1 \in DOMAIN doomed /\ n + 1 \in DOMAIN doomed
          /\ doomed[m + 1] = doomed[n + 1]
      BY <1>3
    <3>2. m + 1 = n + 1
      BY <3>1, Zenon DEF LimiterInv, DoomedOnce
    <3>3. QED BY <3>1, <3>2
  <2>3. QED BY <1>1, <2>1, <2>2, Zenon DEF DoomedOnce
<1>6. Range(doomed') = Range(doomed) \ {k}
  BY <1>0, <1>1, <1>2, DoomedTail, Zenon
<1>7. orphans' \subseteq Keys
  BY <1>1, <1>3, Zenon DEF LimiterInv, LimiterTypeOK
<1>8. LimiterTypeOK'
  BY <1>1, <1>2, <1>3, <1>4, <1>7, Zenon DEF LimiterInv, LimiterTypeOK
<1>9. Dated'
  <2>1. Never <= limiterNow
    BY LimiterConstants DEF LimiterInv, LimiterTypeOK
  <2>2. QED BY <1>1, <1>4, <2>1, Zenon DEF LimiterInv, Dated
<1>10. DoomedTouched'
  BY <1>1, <1>6, Zenon DEF LimiterInv, DoomedTouched
<1>11. HeldInAllow' /\ Owned'
  BY <1>1, Zenon DEF LimiterInv, HeldInAllow, Owned
<1>12. FreshUntilAccess'
  BY <1>1, <1>4, Zenon DEF LimiterInv, FreshUntilAccess
<1>13. QED BY <1>5, <1>8, <1>9, <1>10, <1>11, <1>12, Zenon DEF LimiterInv

\* The limiter is stopped, its cleanup ends, time passes.
LEMMA LimiterSurroundingsInv ==
  ASSUME LimiterInv, Stop \/ EndCleanup \/ LimiterTick \/ UNCHANGED limiterVars
  PROVE  LimiterInv'
<1>1. /\ limiterNow' \in 0 .. MaxLimiterTime /\ limiterNow <= limiterNow' /\ stopped' \in BOOLEAN
      /\ cleaner' = cleaner \/ (cleaner = "select" /\ cleaner' = "ended")
      /\ UNCHANGED <<limiters, bucket, lastAccess, limiterPc, key, held, doomed, granted,
                     touched, raced, orphans>>
  <2>1. limiterNow \in 0 .. MaxLimiterTime /\ limiterNow \in Int /\ stopped \in BOOLEAN
    BY LimiterConstants DEF LimiterInv, LimiterTypeOK
  <2>2. CASE Stop
    BY <2>1, <2>2 DEF Stop, callVars, histVars
  <2>3. CASE EndCleanup
    BY <2>1, <2>3 DEF EndCleanup, callVars, histVars
  <2>4. CASE LimiterTick
    BY <2>1, <2>4, LimiterConstants DEF LimiterTick, callVars, cleanVars, histVars
  <2>5. CASE UNCHANGED limiterVars
    BY <2>1, <2>5 DEF limiterVars, callVars, cleanVars, histVars
  <2>6. QED BY <2>2, <2>3, <2>4, <2>5, Zenon
<1>2. LimiterTypeOK'
  BY <1>1, Zenon DEF LimiterInv, LimiterTypeOK
<1>3. Dated'
  <2>1. /\ limiterNow \in Int /\ limiterNow' \in Int
        /\ \A l \in Limiters : bucket[l].last \in Int
        /\ \A k \in Keys : lastAccess[k] \in Int
    BY <1>1, LimiterConstants DEF LimiterInv, LimiterTypeOK
  <2>2. QED BY <1>1, <2>1 DEF LimiterInv, Dated
<1>4. DoomedOnce' /\ DoomedTouched' /\ HeldInAllow' /\ Owned' /\ FreshUntilAccess'
  BY <1>1, Zenon DEF LimiterInv, DoomedOnce, DoomedTouched, HeldInAllow, Owned,
     FreshUntilAccess
<1>5. QED BY <1>2, <1>3, <1>4, Zenon DEF LimiterInv

\* The types of the limiter, that a limiter in the map belongs to one key, and that it has
\* an access time or a call on its way to record one, unless a cleanup took the time away.
THEOREM LimiterInvariant == LimiterSpec => []LimiterInv
<1>1. LimiterInit => LimiterInv
  <2> SUFFICES ASSUME LimiterInit PROVE LimiterInv
    OBVIOUS
  <2>1. LimiterTypeOK
    <3>1. /\ limiterNow \in 0 .. MaxLimiterTime /\ limiters \in [Keys -> Limiters \cup {0}]
          /\ lastAccess \in [Keys -> 0 .. MaxLimiterTime \cup {Never}]
          /\ held \in [Calls -> Limiters \cup {0}] /\ doomed \in Seq(Keys)
          /\ raced \in [Keys -> Nat] /\ touched \subseteq Keys /\ orphans \subseteq Keys
      BY LimiterConstants DEF LimiterInit
    <3>2. bucket \in [Limiters -> [tokens : 0 .. Burst, last : 0 .. MaxLimiterTime]]
      BY LimiterConstants DEF LimiterInit
    <3>3. granted \in [Keys -> [0 .. MaxLimiterTime -> Nat]]
      BY Zenon DEF LimiterInit
    <3>4. /\ limiterPc \in [Calls -> PcValues] /\ key \in [Calls -> Keys]
          /\ cleaner = "select" /\ stopped \in BOOLEAN
      BY Zenon DEF LimiterInit, PcValues
    <3>5. QED BY <3>1, <3>2, <3>3, <3>4, Zenon DEF LimiterTypeOK
  <2>2. Dated
    BY LimiterConstants DEF LimiterInit, Dated
  <2>3. DoomedOnce /\ DoomedTouched
    BY DEF LimiterInit, DoomedOnce, DoomedTouched, Range
  <2>4. HeldInAllow /\ Owned /\ FreshUntilAccess
    BY Zenon DEF LimiterInit, HeldInAllow, Owned, FreshUntilAccess
  <2>5. QED BY <2>1, <2>2, <2>3, <2>4, Zenon DEF LimiterInv
<1>2. LimiterInv /\ [LimiterNext]_limiterVars => LimiterInv'
  BY OutsideInv, LoadInv, LoadOrStoreInv, AllowInv, ExceededInv, UpdateLastAccessInv, FindStaleInv,
     DeleteLimiterInv, DeleteTimestampInv, LimiterSurroundingsInv, Zenon
     DEF LimiterNext, LimiterStep
<1>3. QED BY <1>1, <1>2, PTL DEF LimiterSpec

\* No limiter is forgotten but in the one way, for any keys, calls, burst and rate.
THEOREM LimitersTracked == LimiterSpec => []LimiterTracked
<1>1. LimiterInv => LimiterTracked
  BY Zenon DEF LimiterInv, HeldInAllow, Owned, FreshUntilAccess, LimiterTracked, Using
<1>2. QED BY <1>1, LimiterInvariant, PTL

-----------------------------------------------------------------------------
(* Sums *)

\* A set of numbers that is not empty has a least one: the way to prove by induction.
LEMMA Least ==
  ASSUME NEW T \in SUBSET Nat, T # {}
  PROVE  \E x \in T : \A y \in T : x <= y
<1> DEFINE R == OpToRel(<, Nat)
<1>1. IsWellFoundedOn(R, Nat)
  BY NatLessThanWellFounded, Zenon
<1>2. PICK x \in T : \A y \in T : ~ (<<y, x>> \in R)
  BY <1>1, WFMin, Zenon
<1>3. ASSUME NEW y \in T PROVE ~ (y < x)
  <2>1. y \in Nat /\ x \in Nat
    OBVIOUS
  <2>2. <<y, x>> \in Nat \X Nat
    BY <2>1, Zenon
  <2>3. <<y, x>>[1] = y /\ <<y, x>>[2] = x
    OBVIOUS
  <2>4. (y < x) => <<y, x>> \in R
    BY <2>2, <2>3, Zenon DEF OpToRel
  <2>5. QED BY <2>4, <1>2, Zenon
<1>4. QED BY <1>3

\* The partial sums that Total computes.
Partial(f, a, b, s) ==
  s = [m \in a - 1 .. b |-> IF m < a THEN 0 ELSE s[m - 1] + f[m]]

\* Partial sums of f from a to b.
Sums(f, a, b, s) ==
  s[a - 1] = 0 /\ \A m \in a .. b : s[m] = s[m - 1] + f[m]

\* Total is the last of the partial sums.
LEMMA TotalSums ==
  ASSUME NEW f, NEW a \in Nat, NEW b \in Int, b >= a - 1
  PROVE  \E s : Sums(f, a, b, s) /\ Total(f, a, b) = s[b]
<1>1. \E s : Partial(f, a, a - 1, s)
  <2> DEFINE s == [m \in a - 1 .. a - 1 |-> 0]
  <2>1. s = [m \in a - 1 .. a - 1 |-> IF m < a THEN 0 ELSE s[m - 1] + f[m]]
    OBVIOUS
  <2>2. QED BY <2>1, Zenon DEF Partial
<1>2. \A n \in Nat : n >= a => \E s : Partial(f, a, n, s)
  <2> DEFINE T == {n \in Nat : n >= a /\ ~ \E s : Partial(f, a, n, s)}
  <2> SUFFICES ASSUME T # {} PROVE FALSE
    BY Zenon
  <2>1. PICK n \in T : \A m \in T : n <= m
    <3>1. T \in SUBSET Nat
      BY Zenon
    <3>2. QED BY <3>1, Least, Zenon
  <2>2. n \in Nat /\ n >= a /\ n \in Int /\ n \in a - 1 .. n /\ ~ (n < a) /\ ~ (n <= n - 1)
    BY <2>1
  <2>3. PICK s : Partial(f, a, n - 1, s)
    <3>1. CASE n = a
      BY <1>1, <3>1, Zenon
    <3>2. CASE n # a
      <4>1. n - 1 \in Nat /\ n - 1 >= a
        BY <2>2, <3>2
      <4>2. n - 1 \notin T
        BY <2>1, <2>2, Zenon
      <4>3. QED BY <4>1, <4>2, Zenon
    <3>3. QED BY <3>1, <3>2, Zenon
  <2> DEFINE t == [m \in a - 1 .. n |-> IF m = n THEN s[n - 1] + f[n] ELSE s[m]]
             u == [m \in a - 1 .. n |-> IF m < a THEN 0 ELSE t[m - 1] + f[m]]
  <2>4. ASSUME NEW m \in a - 1 .. n PROVE t[m] = u[m]
    <3>1. \A p \in a - 1 .. n - 1 : s[p] = IF p < a THEN 0 ELSE s[p - 1] + f[p]
      BY <2>3, Zenon DEF Partial
    <3>2. CASE m < a
      <4>1. m # n /\ m \in a - 1 .. n - 1
        BY <2>2, <3>2
      <4>2. QED BY <3>1, <3>2, <4>1, Zenon
    <3>3. CASE ~ (m < a)
      <4>1. m - 1 \in a - 1 .. n /\ m - 1 # n
        BY <2>2, <3>3
      <4>2. t[m - 1] = s[m - 1]
        BY <4>1, Zenon
      <4>3. CASE m = n
        BY <3>3, <4>2, <4>3, Zenon
      <4>4. CASE m # n
        <5>1. m \in a - 1 .. n - 1
          BY <2>2, <4>4
        <5>2. QED BY <3>1, <3>3, <4>2, <4>4, <5>1, Zenon
      <4>5. QED BY <4>3, <4>4, Zenon
    <3>4. QED BY <3>2, <3>3, Zenon
  <2>5. t = u
    BY <2>4, Zenon
  <2>6. Partial(f, a, n, t)
    BY <2>5, Zenon DEF Partial
  <2> HIDE DEF t, u
  <2>7. QED BY <2>1, <2>6, Zenon
<1>3. \E s : Partial(f, a, b, s)
  <2>1. b = a - 1 \/ (b \in Nat /\ b >= a)
    OBVIOUS
  <2>2. QED BY <1>1, <1>2, <2>1, Zenon
<1>4. PICK s : s = CHOOSE t : Partial(f, a, b, t)
  OBVIOUS
<1>5. Partial(f, a, b, s)
  BY <1>3, <1>4, Zenon
<1>6. Total(f, a, b) = s[b]
  BY <1>4, Zenon DEF Total, Partial
<1>7. s[a - 1] = 0
  <2>1. a - 1 \in a - 1 .. b /\ a - 1 < a
    OBVIOUS
  <2>2. QED BY <1>5, <2>1, Zenon DEF Partial
<1>8. ASSUME NEW m \in a .. b PROVE s[m] = s[m - 1] + f[m]
  <2>1. m \in a - 1 .. b /\ ~ (m < a)
    OBVIOUS
  <2>2. QED BY <1>5, <2>1, Zenon DEF Partial
<1>9. QED BY <1>6, <1>7, <1>8, Zenon DEF Sums

\* Sums compare as their terms do.
LEMMA TotalCompared ==
  ASSUME NEW a \in Nat, NEW b \in Int, b >= a - 1, NEW p \in Nat, NEW r \in Nat,
         NEW f, NEW g, NEW h,
         \A m \in a .. b : /\ f[m] \in Nat /\ g[m] \in Nat /\ h[m] \in Nat
                           /\ g[m] <= p * f[m] + r * h[m]
  PROVE  /\ Total(f, a, b) \in Nat
         /\ Total(g, a, b) <= p * Total(f, a, b) + r * Total(h, a, b)
<1>1. PICK sf : Sums(f, a, b, sf) /\ Total(f, a, b) = sf[b]
  BY TotalSums, Zenon
<1>2. PICK sg : Sums(g, a, b, sg) /\ Total(g, a, b) = sg[b]
  BY TotalSums, Zenon
<1>3. PICK sh : Sums(h, a, b, sh) /\ Total(h, a, b) = sh[b]
  BY TotalSums, Zenon
<1> DEFINE P(m) == /\ sf[m] \in Nat /\ sg[m] \in Nat /\ sh[m] \in Nat
                   /\ sg[m] <= p * sf[m] + r * sh[m]
           T == {m \in Nat : m >= a /\ m <= b /\ ~P(m)}
<1>4. P(a - 1)
  <2>1. sf[a - 1] = 0 /\ sg[a - 1] = 0 /\ sh[a - 1] = 0
    BY <1>1, <1>2, <1>3, Zenon DEF Sums
  <2>2. 0 \in Nat /\ 0 <= p * 0 + r * 0
    OBVIOUS
  <2>3. QED BY <2>1, <2>2, Zenon
<1>5. T = {}
  <2> SUFFICES ASSUME T # {} PROVE FALSE
    BY Zenon
  <2>1. PICK m \in T : \A n \in T : m <= n
    <3>1. T \in SUBSET Nat
      BY Zenon
    <3>2. QED BY <3>1, Least, Zenon
  <2>2. m \in a .. b /\ ~ (m <= m - 1) /\ m \in Nat
    BY <2>1
  <2>3. P(m - 1)
    <3>1. CASE m = a
      BY <1>4, <3>1, Zenon
    <3>2. CASE m # a
      <4>1. m - 1 \in Nat /\ m - 1 >= a /\ m - 1 <= b
        BY <2>2, <3>2
      <4>2. m - 1 \notin T
        BY <2>1, <2>2, Zenon
      <4>3. QED BY <4>1, <4>2, Zenon
    <3>3. QED BY <3>1, <3>2, Zenon
  <2>4. /\ sf[m] = sf[m - 1] + f[m] /\ sg[m] = sg[m - 1] + g[m] /\ sh[m] = sh[m - 1] + h[m]
        /\ f[m] \in Nat /\ g[m] \in Nat /\ h[m] \in Nat /\ g[m] <= p * f[m] + r * h[m]
    BY <1>1, <1>2, <1>3, <2>2, Zenon DEF Sums
  <2>5. PICK x \in Nat, y \in Nat, z \in Nat : x = sf[m - 1] /\ y = sg[m - 1] /\ z = sh[m - 1]
    BY <2>3, Zenon
  <2>6. PICK u \in Nat, v \in Nat, w \in Nat : u = f[m] /\ v = g[m] /\ w = h[m]
    BY <2>4, Zenon
  <2>7. y <= p * x + r * z /\ v <= p * u + r * w
    BY <2>3, <2>4, <2>5, <2>6, Zenon
  <2>8. /\ x + u \in Nat /\ y + v \in Nat /\ z + w \in Nat
        /\ y + v <= p * (x + u) + r * (z + w)
    <3>1. p * (x + u) = p * x + p * u /\ r * (z + w) = r * z + r * w
      OBVIOUS
    <3>2. p * x \in Nat /\ p * u \in Nat /\ r * z \in Nat /\ r * w \in Nat
      OBVIOUS
    <3>3. QED BY <2>7, <3>1, <3>2
  <2>9. sf[m] = x + u /\ sg[m] = y + v /\ sh[m] = z + w
    BY <2>4, <2>5, <2>6, Zenon
  <2>10. P(m)
    BY <2>8, <2>9, Zenon
  <2>11. QED BY <2>1, <2>10, Zenon
<1>6. b = a - 1 \/ (b \in Nat /\ b >= a /\ b <= b)
  OBVIOUS
<1>7. P(b)
  BY <1>4, <1>5, <1>6, Zenon
<1>8. QED BY <1>1, <1>2, <1>3, <1>7, Zenon

\* A sum of naturals is one.
LEMMA TotalNat ==
  ASSUME NEW a \in Nat, NEW b \in Int, b >= a - 1, NEW f, \A m \in a .. b : f[m] \in Nat
  PROVE  Total(f, a, b) \in Nat
<1>1. \A m \in a .. b : f[m] <= 1 * f[m] + 0 * f[m]
  OBVIOUS
<1>2. 0 \in Nat /\ 1 \in Nat
  OBVIOUS
<1>3. QED BY <1>1, <1>2, TotalCompared, Zenon

\* Of two sums the one with the larger terms is the larger.
LEMMA TotalMonotone ==
  ASSUME NEW a \in Nat, NEW b \in Int, b >= a - 1, NEW f, NEW g,
         \A m \in a .. b : f[m] \in Nat /\ g[m] \in Nat /\ g[m] <= f[m]
  PROVE  Total(g, a, b) <= Total(f, a, b)
<1>1. \A m \in a .. b : g[m] <= 1 * f[m] + 0 * f[m]
  OBVIOUS
<1>2. 0 \in Nat /\ 1 \in Nat
  OBVIOUS
<1>3. Total(g, a, b) <= 1 * Total(f, a, b) + 0 * Total(f, a, b)
  BY <1>1, <1>2, TotalCompared, Zenon
<1>4. Total(f, a, b) \in Nat /\ Total(g, a, b) \in Nat
  BY TotalNat, Zenon
<1>5. QED BY <1>3, <1>4

\* A sum without the term at i grows no more than the terms do.
LEMMA TotalChanged ==
  ASSUME NEW a \in Nat, NEW b \in Int, NEW i \in a .. b, NEW f, NEW g,
         \A m \in a .. b : /\ f[m] \in Nat /\ g[m] \in Nat
                           /\ m # i => g[m] <= f[m]
  PROVE  Total(g, a, b) + f[i] <= Total(f, a, b) + g[i]
<1>0. b >= a - 1 /\ i \in Nat
  OBVIOUS
<1>1. PICK s : Sums(f, a, b, s) /\ Total(f, a, b) = s[b]
  BY <1>0, TotalSums, Zenon
<1>2. PICK t : Sums(g, a, b, t) /\ Total(g, a, b) = t[b]
  BY <1>0, TotalSums, Zenon
<1>3. f[i] \in Nat /\ g[i] \in Nat
  BY Zenon
<1> DEFINE P(m) == /\ s[m] \in Nat /\ t[m] \in Nat
                   /\ m < i => t[m] <= s[m]
                   /\ m >= i => t[m] + f[i] <= s[m] + g[i]
           T == {m \in Nat : m >= a /\ m <= b /\ ~P(m)}
<1>4. P(a - 1)
  <2>1. s[a - 1] = 0 /\ t[a - 1] = 0
    BY <1>1, <1>2, Zenon DEF Sums
  <2>2. QED BY <2>1
<1>5. T = {}
  <2> SUFFICES ASSUME T # {} PROVE FALSE
    BY Zenon
  <2>1. PICK m \in T : \A n \in T : m <= n
    <3>1. T \in SUBSET Nat
      BY Zenon
    <3>2. QED BY <3>1, Least, Zenon
  <2>2. m \in a .. b /\ ~ (m <= m - 1) /\ m \in Nat
    BY <2>1
  <2>3. P(m - 1)
    <3>1. CASE m = a
      BY <1>4, <3>1, Zenon
    <3>2. CASE m # a
      <4>1. m - 1 \in Nat /\ m - 1 >= a /\ m - 1 <= b
        BY <2>2, <3>2
      <4>2. m - 1 \notin T
        BY <2>1, <2>2, Zenon
      <4>3. QED BY <4>1, <4>2, Zenon
    <3>3. QED BY <3>1, <3>2, Zenon
  <2>4. /\ s[m] = s[m - 1] + f[m] /\ t[m] = t[m - 1] + g[m]
        /\ f[m] \in Nat /\ g[m] \in Nat /\ (m # i => g[m] <= f[m])
    BY <1>1, <1>2, <2>2, Zenon DEF Sums
  <2>5. P(m)
    BY <1>0, <1>3, <2>2, <2>3, <2>4
  <2>6. QED BY <2>1, <2>5, Zenon
<1>6. b \in Nat /\ b >= a /\ b <= b /\ b >= i
  OBVIOUS
<1>7. P(b)
  BY <1>5, <1>6, Zenon
<1>8. QED BY <1>1, <1>2, <1>6, <1>7, Zenon

\* A sum of nothing.
LEMMA TotalEmpty ==
  ASSUME NEW f, NEW a \in Nat
  PROVE  Total(f, a, a - 1) = 0
<1>1. a - 1 \in Int /\ a - 1 >= a - 1
  OBVIOUS
<1>2. PICK s : Sums(f, a, a - 1, s) /\ Total(f, a, a - 1) = s[a - 1]
  BY <1>1, TotalSums, Zenon
<1>3. QED BY <1>2, Zenon DEF Sums

\* The partial sums do not depend on how many there are.
LEMMA SumsAgree ==
  ASSUME NEW a \in Nat, NEW b \in Int, b >= a - 1, NEW f, NEW s, NEW t,
         Sums(f, a, b, s), Sums(f, a, b, t)
  PROVE  s[b] = t[b]
<1> DEFINE T == {m \in Nat : m >= a /\ m <= b /\ s[m] # t[m]}
<1>1. s[a - 1] = t[a - 1]
  BY Zenon DEF Sums
<1>2. T = {}
  <2> SUFFICES ASSUME T # {} PROVE FALSE
    BY Zenon
  <2>1. PICK m \in T : \A n \in T : m <= n
    <3>1. T \in SUBSET Nat
      BY Zenon
    <3>2. QED BY <3>1, Least, Zenon
  <2>2. m \in a .. b /\ ~ (m <= m - 1) /\ m \in Nat
    BY <2>1
  <2>3. s[m - 1] = t[m - 1]
    <3>1. CASE m = a
      BY <1>1, <3>1, Zenon
    <3>2. CASE m # a
      <4>1. m - 1 \in Nat /\ m - 1 >= a /\ m - 1 <= b
        BY <2>2, <3>2
      <4>2. m - 1 \notin T
        BY <2>1, <2>2, Zenon
      <4>3. QED BY <4>1, <4>2, Zenon
    <3>3. QED BY <3>1, <3>2, Zenon
  <2>4. s[m] = t[m]
    BY <2>2, <2>3, Zenon DEF Sums
  <2>5. QED BY <2>1, <2>4, Zenon
<1>3. b = a - 1 \/ (b \in Nat /\ b >= a /\ b <= b)
  OBVIOUS
<1>4. QED BY <1>1, <1>2, <1>3, Zenon

\* The last term.
LEMMA TotalLast ==
  ASSUME NEW a \in Nat, NEW b \in Nat, a <= b, NEW f
  PROVE  Total(f, a, b) = Total(f, a, b - 1) + f[b]
<1>0. /\ b - 1 \in Int /\ b - 1 >= a - 1 /\ b >= a - 1 /\ b \in a .. b /\ b \in Int
      /\ \A m \in a .. b - 1 : m \in a .. b
  OBVIOUS
<1>1. PICK s : Sums(f, a, b, s) /\ Total(f, a, b) = s[b]
  BY <1>0, TotalSums, Zenon
<1>2. PICK n : n = b - 1
  OBVIOUS
<1>3. PICK t : Sums(f, a, n, t) /\ Total(f, a, n) = t[n]
  BY <1>0, <1>2, TotalSums, Zenon
<1>4. s[n] = t[n]
  <2>1. Sums(f, a, n, s)
    BY <1>0, <1>1, <1>2, Zenon DEF Sums
  <2>2. n \in Int /\ n >= a - 1
    BY <1>0, <1>2, Zenon
  <2>3. QED BY <1>3, <2>1, <2>2, SumsAgree
<1>5. s[b] = s[b - 1] + f[b]
  BY <1>0, <1>1, Zenon DEF Sums
<1>6. QED BY <1>1, <1>2, <1>3, <1>4, <1>5, Zenon

-----------------------------------------------------------------------------
(* The limit *)

\* The limiters from which calls of k may still take tokens, as 0 and 1, and their tokens.
InUse(k) == {l \in Limiters : limiters[k] = l \/ \E c \in Calls : key[c] = k /\ held[c] = l}
Uses(k)  == [l \in Limiters |-> IF l \in InUse(k) THEN 1 ELSE 0]
Left(k)  == [l \in Limiters |-> IF l \in InUse(k) THEN Tokens(l) ELSE 0]

OverLimiters(f) == Total(f, 1, Cardinality(Keys) + Cardinality(Calls))

\* The cleanup has found k and not removed its limiter yet.
Pending(k) == k \in Range(doomed) /\ ~(cleaner = "timestamp" /\ k = Head(doomed))

\* Limiters that may still be created for k: one when there is none, and one more when
\* the cleanup is about to remove the limiter of k, which calls may be using.
Marked(k) == IF k \in touched /\ Pending(k) THEN 1 ELSE 0
Spares(k) == Marked(k) + IF limiters[k] = 0 THEN 1 ELSE 0

\* The limiters of k, and the calls it was let through since from with those it may still
\* be let through at once.
Slots(k) == OverLimiters(Uses(k)) + Spares(k)
Claim(k, from) ==
  Total(granted[k], from, limiterNow) + OverLimiters(Left(k)) + Burst * Spares(k)

\* Each limiter of k, in use or to be created, is the first or the cost of one overlap,
\* and each has no more than the burst and the rate allow.
Within(k, from) == Claim(k, from) <= (Overlaps(k) + 1) * (Burst + Rate * (limiterNow - from))
Budget(k) ==
  /\ Slots(k) <= Overlaps(k) + 1
  /\ \A from \in 0 .. limiterNow : Within(k, from)

\* Nothing is let through in the future.
NotYet(k) == \A t \in 0 .. MaxLimiterTime : t > limiterNow => granted[k][t] = 0

\* The tokens of a limiter were not taken after its access time, but for a call that is
\* about to record it.
LastUsed(k) ==
  limiters[k] # 0 /\ lastAccess[k] # Never =>
    \/ bucket[limiters[k]].tokens = Burst
    \/ bucket[limiters[k]].last <= lastAccess[k]
    \/ \E c \in Calls : key[c] = k /\ limiterPc[c] = "access"

\* A limiter that is found stale is full until a call touches it.
DoomedFull(k) ==
  k \in Range(doomed) /\ k \notin touched /\ limiters[k] # 0 => Tokens(limiters[k]) = Burst

\* What is known of the full limiters of every key.
Refilled == \A k \in Keys : NotYet(k) /\ LastUsed(k) /\ DoomedFull(k)

\* The inductive invariant, beside LimiterInv.
RateInv == Refilled /\ \A k \in Keys : Budget(k)

\* The limiters are numbered from 1.
LEMMA LimiterRange ==
  /\ 1 \in Nat /\ Cardinality(Keys) + Cardinality(Calls) \in Int
  /\ Cardinality(Keys) + Cardinality(Calls) >= 1 - 1
  BY LimiterConstants

\* The same facts about sums over all limiters.
LEMMA OverLimitersNat ==
  ASSUME NEW f, \A l \in Limiters : f[l] \in Nat
  PROVE  OverLimiters(f) \in Nat
  BY LimiterRange, TotalNat, Zenon DEF OverLimiters, Limiters

LEMMA OverLimitersMonotone ==
  ASSUME NEW f, NEW g, \A l \in Limiters : f[l] \in Nat /\ g[l] \in Nat /\ g[l] <= f[l]
  PROVE  OverLimiters(g) <= OverLimiters(f)
  BY LimiterRange, TotalMonotone, Zenon DEF OverLimiters, Limiters

LEMMA OverLimitersChanged ==
  ASSUME NEW i \in Limiters, NEW f, NEW g,
         \A l \in Limiters : f[l] \in Nat /\ g[l] \in Nat /\ (l # i => g[l] <= f[l])
  PROVE  OverLimiters(g) + f[i] <= OverLimiters(f) + g[i]
  BY LimiterRange, TotalChanged, Zenon DEF OverLimiters, Limiters

LEMMA OverLimitersCompared ==
  ASSUME NEW p \in Nat, NEW r \in Nat, NEW f, NEW g, NEW h,
         \A l \in Limiters : /\ f[l] \in Nat /\ g[l] \in Nat /\ h[l] \in Nat
                             /\ g[l] <= p * f[l] + r * h[l]
  PROVE  OverLimiters(g) <= p * OverLimiters(f) + r * OverLimiters(h)
  BY LimiterRange, TotalCompared, Zenon DEF OverLimiters, Limiters

\* The types of the sums.
SumTypes ==
  /\ limiterNow \in 0 .. MaxLimiterTime
  /\ \A l \in Limiters : Tokens(l) \in 0 .. Burst /\ (bucket[l].tokens = Burst => Tokens(l) = Burst)
  /\ \A k \in Keys :
       /\ InUse(k) \subseteq Limiters
       /\ \A l \in Limiters : /\ Uses(k)[l] \in {0, 1} /\ Uses(k)[l] = (IF l \in InUse(k) THEN 1 ELSE 0)
                              /\ Left(k)[l] \in Nat /\ Left(k)[l] = IF l \in InUse(k) THEN Tokens(l) ELSE 0
       /\ OverLimiters(Uses(k)) \in Nat /\ OverLimiters(Left(k)) \in Nat
       /\ Marked(k) \in {0, 1} /\ Spares(k) \in Nat /\ Overlaps(k) \in Nat
       /\ \A t \in 0 .. MaxLimiterTime : granted[k][t] \in Nat
       /\ \A from \in 0 .. limiterNow : Total(granted[k], from, limiterNow) \in Nat
       /\ limiters[k] \in Limiters \cup {0} /\ raced[k] \in Nat

\* The invariant of the limiters gives the types of the sums, before a step and after.
LEMMA SumsTyped == LimiterInv => SumTypes
<1> SUFFICES ASSUME LimiterInv PROVE SumTypes
  OBVIOUS
<1>1. /\ limiterNow \in 0 .. MaxLimiterTime /\ granted \in [Keys -> [0 .. MaxLimiterTime -> Nat]]
      /\ raced \in [Keys -> Nat] /\ limiters \in [Keys -> Limiters \cup {0}]
  BY Zenon DEF LimiterInv, LimiterTypeOK
<1>2. \A l \in Limiters : Tokens(l) \in 0 .. Burst /\ (bucket[l].tokens = Burst => Tokens(l) = Burst)
  BY TokensBounded, Zenon DEF LimiterInv
<1>3. ASSUME NEW k \in Keys
      PROVE  /\ InUse(k) \subseteq Limiters
             /\ \A l \in Limiters : /\ Uses(k)[l] \in {0, 1} /\ Uses(k)[l] = (IF l \in InUse(k) THEN 1 ELSE 0)
                                    /\ Left(k)[l] \in Nat /\ Left(k)[l] = IF l \in InUse(k) THEN Tokens(l) ELSE 0
  <2>1. \A n \in 0 .. Burst : n \in Nat
    BY LimiterConstants
  <2>2. 0 \in Nat
    OBVIOUS
  <2>3. InUse(k) \subseteq Limiters
    BY Zenon DEF InUse
  <2>4. QED BY <1>2, <2>1, <2>2, <2>3, Zenon DEF Uses, Left
<1>4. ASSUME NEW k \in Keys PROVE OverLimiters(Uses(k)) \in Nat /\ OverLimiters(Left(k)) \in Nat
  <2>1. \A n \in {0, 1} : n \in Nat
    OBVIOUS
  <2>2. QED BY <1>3, <2>1, OverLimitersNat, Zenon
<1>5. ASSUME NEW k \in Keys PROVE Marked(k) \in {0, 1} /\ Spares(k) \in Nat /\ Overlaps(k) \in Nat
  <2>1. raced[k] \in Nat
    BY <1>1, Zenon
  <2>2. Marked(k) \in {0, 1}
    BY Zenon DEF Marked
  <2>3. QED BY <2>1, <2>2 DEF Spares, Overlaps
<1>6. ASSUME NEW k \in Keys
      PROVE  /\ \A t \in 0 .. MaxLimiterTime : granted[k][t] \in Nat
             /\ \A from \in 0 .. limiterNow : Total(granted[k], from, limiterNow) \in Nat
  <2>1. \A t \in 0 .. MaxLimiterTime : granted[k][t] \in Nat
    BY <1>1, Zenon
  <2>2. ASSUME NEW from \in 0 .. limiterNow
        PROVE  /\ from \in Nat /\ limiterNow \in Int /\ limiterNow >= from - 1
               /\ \A m \in from .. limiterNow : m \in 0 .. MaxLimiterTime
    BY <1>1, LimiterConstants
  <2>3. QED BY <2>1, <2>2, TotalNat, Zenon
<1>7. QED BY <1>1, <1>2, <1>3, <1>4, <1>5, <1>6, Zenon DEF SumTypes

LEMMA SumsTypedAfter == LimiterInv' => SumTypes'
  BY SumsTyped, PTL

\* One more overlap pays for one more limiter.
LEMMA OverlapPays ==
  ASSUME NEW o \in Nat, NEW d \in {0, 1}, NEW x \in Nat, NEW y \in Nat, NEW z \in Nat, NEW b \in Nat,
         x <= (o + 1) * y, z <= x + d * b, b <= y
  PROVE  z <= ((o + d) + 1) * y
<1>1. (o + 1) * y \in Nat /\ ((o + 1) + 1) * y = (o + 1) * y + y
  OBVIOUS
<1>2. CASE d = 0
  BY <1>1, <1>2
<1>3. CASE d = 1
  <2>1. z <= x + b
    BY <1>3
  <2>2. z <= (o + 1) * y + y
    BY <1>1, <2>1
  <2>3. QED BY <1>1, <1>3, <2>2
<1>4. QED BY <1>2, <1>3, Zenon

\* A step that pays with an overlap for what it adds keeps the budget.
LEMMA BudgetStep ==
  ASSUME SumTypes, SumTypes', NEW k \in Keys, Budget(k), limiterNow' = limiterNow,
         NEW d \in {0, 1}, Overlaps(k)' = Overlaps(k) + d, Slots(k)' <= Slots(k) + d,
         \A from \in 0 .. limiterNow : Claim(k, from)' <= Claim(k, from) + d * Burst
  PROVE  Budget(k)'
<1>1. /\ Overlaps(k) \in Nat /\ Slots(k) \in Nat /\ Slots(k)' \in Nat
      /\ \A from \in 0 .. limiterNow : Claim(k, from) \in Nat /\ Claim(k, from)' \in Nat
  <2>1. ASSUME NEW m \in Nat PROVE Burst * m \in Nat
    BY LimiterConstants
  <2>2. /\ Overlaps(k) \in Nat /\ OverLimiters(Uses(k)) \in Nat /\ OverLimiters(Uses(k))' \in Nat
        /\ Spares(k) \in Nat /\ Spares(k)' \in Nat /\ Burst * Spares(k) \in Nat /\ Burst * Spares(k)' \in Nat
        /\ OverLimiters(Left(k)) \in Nat /\ OverLimiters(Left(k))' \in Nat
        /\ \A from \in 0 .. limiterNow : /\ Total(granted[k], from, limiterNow) \in Nat
                                         /\ Total(granted[k], from, limiterNow)' \in Nat
    BY <2>1, Zenon DEF SumTypes
  <2>3. QED BY <2>2 DEF Slots, Claim
<1>2. Slots(k)' <= Overlaps(k)' + 1
  BY <1>1 DEF Budget
<1>3. ASSUME NEW from \in 0 .. limiterNow PROVE Within(k, from)'
  <2>1. PICK y : y = Burst + Rate * (limiterNow - from)
    OBVIOUS
  <2>2. y \in Nat /\ Burst \in Nat /\ Burst <= y
    <3>1. limiterNow - from \in Nat
      BY LimiterConstants DEF SumTypes
    <3>2. ASSUME NEW m \in Nat PROVE Burst + Rate * m \in Nat /\ Burst <= Burst + Rate * m
      BY LimiterConstants
    <3>3. QED BY <2>1, <3>1, <3>2, LimiterConstants, Zenon
  <2>3. Claim(k, from) <= (Overlaps(k) + 1) * y
    BY <2>1, Zenon DEF Budget, Within
  <2>4. Claim(k, from)' <= Claim(k, from) + d * Burst
    BY Zenon
  <2>5. Claim(k, from)' <= ((Overlaps(k) + d) + 1) * y
    BY <1>1, <2>2, <2>3, <2>4, OverlapPays, Zenon
  <2>6. QED BY <2>1, <2>5, Zenon DEF Within
<1>4. QED BY <1>2, <1>3, Zenon DEF Budget

\* No more limiters are in use, and none has more tokens.
LEMMA FewerInUse ==
  ASSUME SumTypes, SumTypes', NEW k \in Keys, InUse(k)' \subseteq InUse(k),
         \A l \in Limiters : l \in InUse(k)' => Tokens(l)' <= Tokens(l)
  PROVE  /\ OverLimiters(Uses(k))' <= OverLimiters(Uses(k))
         /\ OverLimiters(Left(k))' <= OverLimiters(Left(k))
<1>1. ASSUME NEW l \in Limiters
      PROVE  /\ Uses(k)[l] \in Nat /\ Uses(k)'[l] \in Nat /\ Uses(k)'[l] <= Uses(k)[l]
             /\ Left(k)[l] \in Nat /\ Left(k)'[l] \in Nat /\ Left(k)'[l] <= Left(k)[l]
  <2>1. /\ Uses(k)[l] = (IF l \in InUse(k) THEN 1 ELSE 0)
        /\ Uses(k)'[l] = (IF l \in InUse(k)' THEN 1 ELSE 0)
        /\ Left(k)[l] = (IF l \in InUse(k) THEN Tokens(l) ELSE 0)
        /\ Left(k)'[l] = (IF l \in InUse(k)' THEN Tokens(l)' ELSE 0)
        /\ Left(k)[l] \in Nat /\ Left(k)'[l] \in Nat
    BY Zenon DEF SumTypes
  <2>2. l \in InUse(k)' => l \in InUse(k) /\ Tokens(l)' <= Tokens(l)
    BY Zenon
  <2>3. QED BY <2>1, <2>2
<1>2. OverLimiters(Uses(k)') <= OverLimiters(Uses(k)) /\ OverLimiters(Left(k)') <= OverLimiters(Left(k))
  BY <1>1, OverLimitersMonotone, Zenon
<1>3. QED BY <1>2, Zenon

\* One more limiter to be created is a burst more.
LEMMA SparesCost ==
  ASSUME NEW x \in Nat, NEW y \in Nat, NEW d \in {0, 1}, y <= x + d
  PROVE  Burst * x \in Nat /\ Burst * y \in Nat /\ Burst * y <= Burst * x + d * Burst
<1>1. Burst * x \in Nat /\ Burst * y \in Nat /\ Burst * (x + 1) = Burst * x + Burst
  BY LimiterConstants
<1>2. ASSUME NEW m \in Nat, NEW n \in Nat, m <= n PROVE Burst * m <= Burst * n
  <2>1. Burst * n = Burst * m + Burst * (n - m) /\ Burst * (n - m) \in Nat /\ Burst * m \in Nat
    BY <1>2, LimiterConstants
  <2>2. QED BY <2>1
<1>3. CASE d = 0
  BY <1>1, <1>2, <1>3, LimiterConstants
<1>4. CASE d = 1
  <2>1. y <= x + 1 /\ x + 1 \in Nat
    BY <1>4
  <2>2. Burst * y <= Burst * (x + 1)
    BY <1>2, <2>1, Zenon
  <2>3. QED BY <1>1, <1>4, <2>2, LimiterConstants
<1>5. QED BY <1>3, <1>4, Zenon

\* A step that takes nothing and adds at most one limiter to be created keeps the budget.
LEMMA BudgetKept ==
  ASSUME SumTypes, SumTypes', NEW k \in Keys, Budget(k), limiterNow' = limiterNow,
         granted'[k] = granted[k], InUse(k)' \subseteq InUse(k),
         \A l \in Limiters : l \in InUse(k)' => Tokens(l)' <= Tokens(l),
         NEW d \in {0, 1}, Spares(k)' <= Spares(k) + d, Overlaps(k)' = Overlaps(k) + d
  PROVE  Budget(k)'
<1>1. /\ OverLimiters(Uses(k))' <= OverLimiters(Uses(k))
      /\ OverLimiters(Left(k))' <= OverLimiters(Left(k))
  BY FewerInUse, Zenon
<1>2. /\ OverLimiters(Uses(k)) \in Nat /\ OverLimiters(Uses(k))' \in Nat
      /\ Spares(k) \in Nat /\ Spares(k)' \in Nat
      /\ OverLimiters(Left(k)) \in Nat /\ OverLimiters(Left(k))' \in Nat
  BY Zenon DEF SumTypes
<1>3. Slots(k)' <= Slots(k) + d
  BY <1>1, <1>2 DEF Slots
<1>4. /\ Burst * Spares(k) \in Nat /\ Burst * Spares(k)' \in Nat
      /\ Burst * Spares(k)' <= Burst * Spares(k) + d * Burst /\ d * Burst \in Nat
  BY <1>2, SparesCost, LimiterConstants
<1>5. ASSUME NEW from \in 0 .. limiterNow PROVE Claim(k, from)' <= Claim(k, from) + d * Burst
  <2>1. /\ Total(granted[k], from, limiterNow)' = Total(granted[k], from, limiterNow)
        /\ Total(granted[k], from, limiterNow) \in Nat
    BY Zenon DEF SumTypes
  <2>2. QED BY <1>1, <1>2, <1>4, <2>1 DEF Claim
<1>6. QED BY <1>3, <1>5, BudgetStep, Zenon

\* A key that is touched costs an overlap, and the limiter that the cleanup may remove.
LEMMA Touching ==
  ASSUME SumTypes, SumTypes', NEW k \in Keys, raced'[k] = raced[k], touched \subseteq touched',
         k \in touched /\ Pending(k)' => Pending(k)
  PROVE  \E d \in {0, 1} : Marked(k)' <= Marked(k) + d /\ Overlaps(k)' = Overlaps(k) + d
<1>1. raced[k] \in Nat
  BY Zenon DEF SumTypes
<1>2. CASE k \in touched
  <2>1. Overlaps(k)' = Overlaps(k) + 0 /\ Marked(k)' <= Marked(k) + 0
    BY <1>1, <1>2 DEF Overlaps, Marked
  <2>2. QED BY <2>1
<1>3. CASE k \notin touched /\ k \in touched'
  <2>1. Overlaps(k)' = Overlaps(k) + 1 /\ Marked(k)' <= Marked(k) + 1
    BY <1>1, <1>3 DEF Overlaps, Marked
  <2>2. QED BY <2>1
<1>4. CASE k \notin touched'
  <2>1. Overlaps(k)' = Overlaps(k) + 0 /\ Marked(k)' <= Marked(k) + 0
    BY <1>1, <1>4 DEF Overlaps, Marked
  <2>2. QED BY <2>1
<1>5. QED BY <1>2, <1>3, <1>4, Zenon

-----------------------------------------------------------------------------
(* Steps and tokens *)

\* A step that takes no token keeps what is known of the full limiters.
LEMMA QuietRefilled ==
  ASSUME Refilled, UNCHANGED <<limiterNow, limiters, bucket, granted, lastAccess, doomed>>,
         touched \subseteq touched',
         \A c \in Calls : limiterPc[c] = "access" => limiterPc'[c] = "access" /\ key'[c] = key[c]
  PROVE  Refilled'
<1> SUFFICES ASSUME NEW k \in Keys PROVE NotYet(k)' /\ LastUsed(k)' /\ DoomedFull(k)'
  BY Zenon DEF Refilled
<1>1. NotYet(k) /\ LastUsed(k) /\ DoomedFull(k)
  BY Zenon DEF Refilled
<1>2. NotYet(k)'
  BY <1>1, Zenon DEF NotYet
<1>3. LastUsed(k)'
  BY <1>1, Zenon DEF LastUsed
<1>4. DoomedFull(k)'
  BY <1>1, Zenon DEF DoomedFull, Tokens
<1>5. QED BY <1>2, <1>3, <1>4, Zenon

\* A step that takes no token, and after which calls hold no other limiters, keeps the budgets.
LEMMA QuietBudget ==
  ASSUME SumTypes, SumTypes', \A k \in Keys : Budget(k),
         UNCHANGED <<limiterNow, limiters, bucket, granted, raced>>, touched \subseteq touched',
         \A k \in Keys : k \in touched /\ Pending(k)' => Pending(k),
         \A c \in Calls : held'[c] # 0 => \/ held'[c] = limiters[key'[c]]
                                          \/ held'[c] = held[c] /\ key'[c] = key[c]
  PROVE  \A k \in Keys : Budget(k)'
<1> TAKE k \in Keys
<1>1. PICK d \in {0, 1} : Marked(k)' <= Marked(k) + d /\ Overlaps(k)' = Overlaps(k) + d
  BY Touching, Zenon
<1>2. InUse(k)' \subseteq InUse(k)
  BY LimiterConstants, Zenon DEF InUse
<1>3. \A l \in Limiters : Tokens(l)' <= Tokens(l)
  <2>1. \A l \in Limiters : Tokens(l)' = Tokens(l)
    BY Zenon DEF Tokens
  <2>2. \A l \in Limiters : Tokens(l) \in 0 .. Burst
    BY Zenon DEF SumTypes
  <2>3. QED BY <2>1, <2>2, LimiterConstants
<1>4. Spares(k)' <= Spares(k) + d
  <2>1. Marked(k) \in {0, 1} /\ Marked(k)' \in {0, 1}
    BY Zenon DEF SumTypes
  <2>2. QED BY <1>1, <2>1 DEF Spares
<1>5. granted'[k] = granted[k] /\ Budget(k) /\ limiterNow' = limiterNow
  BY Zenon
<1>6. QED BY <1>1, <1>2, <1>3, <1>4, <1>5, BudgetKept, Zenon

\* A call that comes in, loads a limiter, is refused or returns, and the end of the cleanup.
LEMMA QuietRate ==
  ASSUME LimiterInv, LimiterInv', RateInv,
         \/ \E c \in Calls : Authenticated(c) \/ Load(c) \/ Exceeded(c) \/ Handle(c)
         \/ Stop \/ EndCleanup \/ UNCHANGED limiterVars
  PROVE  RateInv'
<1>1. SumTypes /\ SumTypes'
  BY SumsTyped, SumsTypedAfter, Zenon
<1>2. /\ UNCHANGED <<limiterNow, limiters, bucket, granted, raced, lastAccess, doomed>>
      /\ touched \subseteq touched'
      /\ cleaner' = cleaner \/ (cleaner = "select" /\ cleaner' = "ended")
  BY Zenon DEF Authenticated, Load, Exceeded, Handle, Stop, EndCleanup, limiterVars, callVars, cleanVars, histVars
<1>3. /\ limiterPc \in [Calls -> PcValues] /\ key \in [Calls -> Keys]
      /\ held \in [Calls -> Limiters \cup {0}]
  BY Zenon DEF LimiterInv, LimiterTypeOK
<1>4. \A c \in Calls : limiterPc[c] = "access" => limiterPc'[c] = "access" /\ key'[c] = key[c]
  <2>1. ASSUME NEW d \in Calls, Authenticated(d) \/ Load(d) \/ Exceeded(d) \/ Handle(d)
        PROVE  \A c \in Calls : limiterPc[c] = "access" => limiterPc'[c] = "access" /\ key'[c] = key[c]
    BY <1>3, <2>1, Zenon DEF Authenticated, Load, Exceeded, Handle, Goto, histVars
  <2>2. QED BY <2>1, Zenon DEF Stop, EndCleanup, limiterVars, callVars
<1>5. \A c \in Calls : held'[c] # 0 => \/ held'[c] = limiters[key'[c]]
                                       \/ held'[c] = held[c] /\ key'[c] = key[c]
  <2>1. ASSUME NEW d \in Calls, Authenticated(d)
        PROVE  \A c \in Calls : held'[c] # 0 => held'[c] = held[c] /\ key'[c] = key[c]
    BY <1>3, <2>1, Zenon DEF Authenticated, Goto, LimiterInv, HeldInAllow
  <2>2. ASSUME NEW d \in Calls, Load(d)
        PROVE  \A c \in Calls : held'[c] # 0 => \/ held'[c] = limiters[key'[c]]
                                                \/ held'[c] = held[c] /\ key'[c] = key[c]
    BY <1>3, <2>2, Zenon DEF Load
  <2>3. ASSUME NEW d \in Calls, Exceeded(d) \/ Handle(d)
        PROVE  \A c \in Calls : held'[c] # 0 => held'[c] = held[c] /\ key'[c] = key[c]
    BY <1>3, <2>3, Zenon DEF Exceeded, Handle
  <2>4. QED BY <2>1, <2>2, <2>3, Zenon DEF Stop, EndCleanup, limiterVars, callVars
<1>6. \A k \in Keys : Pending(k)' => Pending(k)
  BY <1>2, Zenon DEF Pending
<1>7. Refilled'
  BY <1>2, <1>4, QuietRefilled, Zenon DEF RateInv
<1>8. \A k \in Keys : Budget(k)'
  BY <1>1, <1>2, <1>5, <1>6, QuietBudget, Zenon DEF RateInv
<1>9. QED BY <1>7, <1>8, Zenon DEF RateInv

\* A call stamps its key.
LEMMA UpdateLastAccessRate ==
  ASSUME LimiterInv, LimiterInv', RateInv, NEW c \in Calls, UpdateLastAccess(c)
  PROVE  RateInv'
<1>1. /\ limiterPc[c] = "access" /\ limiterPc' = [limiterPc EXCEPT ![c] = "handler"]
      /\ lastAccess' = [lastAccess EXCEPT ![key[c]] = limiterNow]
      /\ UNCHANGED <<limiterNow, limiters, bucket, key, held, cleaner, doomed, granted, raced>>
      /\ touched \subseteq touched'
  BY Zenon DEF UpdateLastAccess, Goto, cleanVars
<1>2. SumTypes /\ SumTypes'
  BY SumsTyped, SumsTypedAfter, Zenon
<1>3. /\ limiterPc \in [Calls -> PcValues] /\ key \in [Calls -> Keys]
      /\ lastAccess \in [Keys -> 0 .. MaxLimiterTime \cup {Never}]
      /\ limiters \in [Keys -> Limiters \cup {0}]
  BY Zenon DEF LimiterInv, LimiterTypeOK
<1>4. \A k \in Keys : Budget(k)'
  <2>1. \A k \in Keys : Pending(k)' => Pending(k)
    BY <1>1, Zenon DEF Pending
  <2>2. QED BY <1>1, <1>2, <2>1, QuietBudget, Zenon DEF RateInv
<1>5. ASSUME NEW k \in Keys PROVE NotYet(k)' /\ LastUsed(k)' /\ DoomedFull(k)'
  <2>1. NotYet(k) /\ LastUsed(k) /\ DoomedFull(k)
    BY Zenon DEF RateInv, Refilled
  <2>2. NotYet(k)' /\ DoomedFull(k)'
    BY <1>1, <2>1, Zenon DEF NotYet, DoomedFull, Tokens
  <2>3. CASE k = key[c]
    <3>1. lastAccess'[k] = limiterNow
      BY <1>1, <1>3, <2>3, Zenon
    <3>2. limiters[k] # 0 => bucket[limiters[k]].last <= limiterNow
      BY <1>3, Zenon DEF LimiterInv, Dated
    <3>3. LastUsed(k)'
      BY <1>1, <3>1, <3>2, Zenon DEF LastUsed
    <3>4. QED BY <2>2, <3>3, Zenon
  <2>4. CASE k # key[c]
    <3>1. /\ lastAccess'[k] = lastAccess[k]
          /\ \A d \in Calls : key[d] = k /\ limiterPc[d] = "access" => limiterPc'[d] = "access"
      BY <1>1, <1>3, <2>4, Zenon
    <3>2. LastUsed(k)'
      BY <1>1, <2>1, <3>1, Zenon DEF LastUsed
    <3>3. QED BY <2>2, <3>2, Zenon
  <2>5. QED BY <2>3, <2>4, Zenon
<1>6. QED BY <1>4, <1>5, Zenon DEF RateInv, Refilled

\* A limiter that was not used for longer than the threshold is full.
LEMMA StaleFull ==
  ASSUME LimiterInv, NEW k \in Keys, LastUsed(k), Stale(k), Using(k) = {}, limiters[k] # 0
  PROVE  Tokens(limiters[k]) = Burst
<1>1. PICK l \in Limiters : l = limiters[k]
  BY Zenon DEF LimiterInv, LimiterTypeOK
<1>2. bucket[l].tokens = Burst \/ bucket[l].last <= lastAccess[k]
  BY <1>1, Zenon DEF LastUsed, Stale, Using
<1>3. CASE bucket[l].tokens = Burst
  BY <1>1, <1>3, TokensBounded, Zenon DEF LimiterInv
<1>4. CASE bucket[l].last <= lastAccess[k]
  <2>1. /\ bucket[l].tokens \in Nat /\ bucket[l].last \in Nat /\ limiterNow \in Nat
        /\ lastAccess[k] \in Int
    <3>1. bucket[l] \in [tokens : 0 .. Burst, last : 0 .. MaxLimiterTime]
      BY Zenon DEF LimiterInv, LimiterTypeOK
    <3>2. lastAccess[k] \in 0 .. MaxLimiterTime \cup {Never} /\ limiterNow \in 0 .. MaxLimiterTime
      BY Zenon DEF LimiterInv, LimiterTypeOK
    <3>3. QED BY <3>1, <3>2, LimiterConstants
  <2>2. StaleThreshold \in Nat /\ (StaleThreshold + 1) * Rate >= Burst /\ Burst \in Nat /\ Rate \in Nat
    BY RateLimiterAssumption
  <2>3. limiterNow - bucket[l].last >= StaleThreshold + 1
    BY <1>4, <2>1, <2>2 DEF Stale
  <2>4. ASSUME NEW m \in Int, NEW n \in Nat, m >= n PROVE Rate * m >= n * Rate
    <3>1. Rate * m = n * Rate + Rate * (m - n) /\ m - n \in Nat
      BY <2>2, <2>4
    <3>2. Rate * (m - n) \in Nat /\ n * Rate \in Nat
      BY <2>2, <3>1
    <3>3. QED BY <3>1, <3>2
  <2>5. Rate * (limiterNow - bucket[l].last) >= (StaleThreshold + 1) * Rate
    <3>1. limiterNow - bucket[l].last \in Int /\ StaleThreshold + 1 \in Nat
      BY <2>1, <2>2
    <3>2. QED BY <2>3, <2>4, <3>1, Zenon
  <2>6. PICK x \in Int : x = Rate * (limiterNow - bucket[l].last)
    BY <2>1, <2>2
  <2>7. PICK y \in Int : y = (StaleThreshold + 1) * Rate
    BY <2>2
  <2>8. ~ (bucket[l].tokens + x < Burst)
    BY <2>1, <2>2, <2>5, <2>6, <2>7
  <2>9. QED BY <1>1, <2>6, <2>8, Zenon DEF Tokens
<1>5. QED BY <1>2, <1>3, <1>4, Zenon

\* The cleanup lists the stale keys, whose limiters are full.
LEMMA FindStaleRate == ASSUME LimiterInv, LimiterInv', RateInv, FindStale PROVE RateInv'
<1>1. /\ cleaner = "select" /\ touched' = {k \in Keys : Stale(k) /\ Using(k) # {}}
      /\ Range(doomed') = {k \in Keys : Stale(k)}
      /\ UNCHANGED <<limiterNow, limiters, bucket, lastAccess, limiterPc, key, held, granted, raced>>
  BY Zenon DEF FindStale, callVars
<1>2. SumTypes /\ SumTypes'
  BY SumsTyped, SumsTypedAfter, Zenon
<1>3. touched = {}
  <2>1. doomed = <<>>
    BY <1>1, Zenon DEF LimiterInv, DoomedOnce
  <2>2. QED BY <2>1 DEF LimiterInv, DoomedTouched, Range
<1>4. \A k \in Keys : Budget(k)'
  BY <1>1, <1>2, <1>3, QuietBudget, Zenon DEF RateInv
<1>5. ASSUME NEW k \in Keys PROVE NotYet(k)' /\ LastUsed(k)' /\ DoomedFull(k)'
  <2>1. NotYet(k) /\ LastUsed(k)
    BY Zenon DEF RateInv, Refilled
  <2>2. NotYet(k)' /\ LastUsed(k)'
    BY <1>1, <2>1, Zenon DEF NotYet, LastUsed
  <2>3. ASSUME k \in Range(doomed'), k \notin touched', limiters[k] # 0
        PROVE  Tokens(limiters[k]) = Burst
    BY <1>1, <2>1, <2>3, StaleFull, Zenon
  <2>4. DoomedFull(k)'
    BY <1>1, <2>3, Zenon DEF DoomedFull, Tokens
  <2>5. QED BY <2>2, <2>4, Zenon
<1>6. QED BY <1>4, <1>5, Zenon DEF RateInv, Refilled

\* One limiter comes, goes or is taken from; the others of k have no more than before.
LEMMA OneChanges ==
  ASSUME SumTypes, SumTypes', NEW k \in Keys, NEW l \in Limiters,
         \A m \in Limiters : m # l /\ m \in InUse(k)' => m \in InUse(k) /\ Tokens(m)' <= Tokens(m)
  PROVE  /\ OverLimiters(Uses(k))' + (IF l \in InUse(k) THEN 1 ELSE 0)
              <= OverLimiters(Uses(k)) + (IF l \in InUse(k)' THEN 1 ELSE 0)
         /\ OverLimiters(Left(k))' + (IF l \in InUse(k) THEN Tokens(l) ELSE 0)
              <= OverLimiters(Left(k)) + (IF l \in InUse(k)' THEN Tokens(l)' ELSE 0)
<1>1. \A m \in Limiters :
        /\ Uses(k)[m] = (IF m \in InUse(k) THEN 1 ELSE 0)
        /\ Uses(k)'[m] = (IF m \in InUse(k)' THEN 1 ELSE 0)
        /\ Left(k)[m] = (IF m \in InUse(k) THEN Tokens(m) ELSE 0)
        /\ Left(k)'[m] = (IF m \in InUse(k)' THEN Tokens(m)' ELSE 0)
        /\ Left(k)[m] \in Nat /\ Left(k)'[m] \in Nat
  BY Zenon DEF SumTypes
<1>2. ASSUME NEW m \in Limiters
      PROVE  /\ Uses(k)[m] \in Nat /\ Uses(k)'[m] \in Nat /\ (m # l => Uses(k)'[m] <= Uses(k)[m])
             /\ Left(k)[m] \in Nat /\ Left(k)'[m] \in Nat /\ (m # l => Left(k)'[m] <= Left(k)[m])
  <2>1. /\ Uses(k)[m] = (IF m \in InUse(k) THEN 1 ELSE 0)
        /\ Uses(k)'[m] = (IF m \in InUse(k)' THEN 1 ELSE 0)
        /\ Left(k)[m] = (IF m \in InUse(k) THEN Tokens(m) ELSE 0)
        /\ Left(k)'[m] = (IF m \in InUse(k)' THEN Tokens(m)' ELSE 0)
        /\ Left(k)[m] \in Nat /\ Left(k)'[m] \in Nat
        /\ (m # l /\ m \in InUse(k)' => m \in InUse(k) /\ Tokens(m)' <= Tokens(m))
    BY <1>1, Zenon
  <2>2. QED BY <2>1
<1>3. /\ OverLimiters(Uses(k)') + Uses(k)[l] <= OverLimiters(Uses(k)) + Uses(k)'[l]
      /\ OverLimiters(Left(k)') + Left(k)[l] <= OverLimiters(Left(k)) + Left(k)'[l]
  BY <1>2, OverLimitersChanged, Zenon
<1>4. QED BY <1>1, <1>3, Zenon

\* LoadOrStore stores the new limiter l for the key k of c.
Created(c, k, l) ==
  /\ k \in Keys /\ l \in Limiters /\ limiters[k] = 0
  /\ \A j \in Keys : limiters[j] # l
  /\ \A d \in Calls : held[d] # l
  /\ limiters'[k] = l /\ \A j \in Keys : j # k => limiters'[j] = limiters[j]
  /\ held[c] = 0 /\ held'[c] = l /\ \A d \in Calls : d # c => held'[d] = held[d]
  /\ bucket'[l].tokens = Burst
  /\ \A m \in Limiters : m # l => bucket'[m] = bucket[m]
  /\ key[c] = k /\ touched \subseteq touched' /\ (k \in Range(doomed) => k \in touched')
  /\ UNCHANGED <<limiterNow, lastAccess, key, cleaner, doomed, granted, raced>>
  /\ \A d \in Calls : limiterPc[d] = "access" => limiterPc'[d] = "access"

\* LoadOrStore of a key without a limiter does that.
LEMMA Creation ==
  ASSUME LimiterInv, NEW c \in Calls, LoadOrStore(c), limiters[key[c]] = 0
  PROVE  Created(c, key[c], Unused)
<1>0. PICK k, l : k = key[c] /\ l = Unused
  BY Zenon
<1>1. /\ limiterPc[c] = "create" /\ limiterPc' = [limiterPc EXCEPT ![c] = "allow"]
      /\ limiters' = [limiters EXCEPT ![k] = l] /\ bucket' = [bucket EXCEPT ![l] = NewLimiter]
      /\ held' = [held EXCEPT ![c] = l]
      /\ touched' = touched \cup ({k} \cap Range(doomed))
      /\ UNCHANGED <<limiterNow, lastAccess, key, cleaner, doomed, granted, raced>>
  BY <1>0, Zenon DEF LoadOrStore, Goto, cleanVars
<1>2. /\ limiterPc \in [Calls -> PcValues] /\ held \in [Calls -> Limiters \cup {0}] /\ held[c] = 0
      /\ limiters \in [Keys -> Limiters \cup {0}] /\ k \in Keys
      /\ bucket \in [Limiters -> [tokens : 0 .. Burst, last : 0 .. MaxLimiterTime]]
  BY <1>0, <1>1, Zenon DEF LimiterInv, LimiterTypeOK, HeldInAllow
<1>3. l \in Limiters /\ (\A j \in Keys : limiters[j] # l) /\ (\A d \in Calls : held[d] # l)
  BY <1>0, <1>2, UnusedFree, Zenon DEF LimiterInv
<1>4. /\ limiters'[k] = l /\ \A j \in Keys : j # k => limiters'[j] = limiters[j]
      /\ held'[c] = l /\ \A d \in Calls : d # c => held'[d] = held[d]
      /\ bucket'[l] = NewLimiter /\ \A m \in Limiters : m # l => bucket'[m] = bucket[m]
      /\ \A d \in Calls : limiterPc[d] = "access" => limiterPc'[d] = "access"
  BY <1>1, <1>2, <1>3, Zenon
<1>5. bucket'[l].tokens = Burst
  BY <1>4 DEF NewLimiter
<1>6. touched \subseteq touched' /\ (k \in Range(doomed) => k \in touched')
  BY <1>1, Zenon
<1>7. QED BY <1>0, <1>1, <1>2, <1>3, <1>4, <1>5, <1>6, Zenon DEF Created

\* The new limiter is full and the others are as before.
LEMMA CreatedTokens ==
  ASSUME SumTypes', NEW c \in Calls, NEW k, NEW l, Created(c, k, l)
  PROVE  Tokens(l)' = Burst /\ \A m \in Limiters : m # l => Tokens(m)' = Tokens(m)
<1>1. /\ l \in Limiters /\ bucket'[l].tokens = Burst /\ limiterNow' = limiterNow
      /\ \A m \in Limiters : m # l => bucket'[m] = bucket[m]
  BY Zenon DEF Created
<1>2. Tokens(l)' = Burst
  BY <1>1, Zenon DEF SumTypes
<1>3. \A m \in Limiters : m # l => Tokens(m)' = Tokens(m)
  BY <1>1, Zenon DEF Tokens
<1>4. QED BY <1>2, <1>3, Zenon

\* What is known of the full limiters stays.
LEMMA CreatedRefilled ==
  ASSUME SumTypes, SumTypes', Refilled, NEW c \in Calls, NEW k, NEW l, Created(c, k, l)
  PROVE  Refilled'
<1> SUFFICES ASSUME NEW j \in Keys PROVE NotYet(j)' /\ LastUsed(j)' /\ DoomedFull(j)'
  BY Zenon DEF Refilled
<1>1. NotYet(j) /\ LastUsed(j) /\ DoomedFull(j)
  BY Zenon DEF Refilled
<1>2. NotYet(j)'
  BY <1>1, Zenon DEF NotYet, Created
<1>3. CASE j = k
  <2>1. LastUsed(j)'
    BY <1>3, Zenon DEF LastUsed, Created
  <2>2. DoomedFull(j)'
    BY <1>3, Zenon DEF DoomedFull, Created
  <2>3. QED BY <1>2, <2>1, <2>2, Zenon
<1>4. CASE j # k
  <2>1. limiters'[j] = limiters[j] /\ limiters[j] # l /\ (limiters[j] # 0 => limiters[j] \in Limiters)
    BY <1>4, Zenon DEF Created, SumTypes
  <2>2. limiters[j] # 0 => bucket'[limiters[j]] = bucket[limiters[j]]
    BY <2>1, Zenon DEF Created
  <2>3. limiterNow' = limiterNow
    BY Zenon DEF Created
  <2>4. limiters[j] # 0 => Tokens(limiters[j])' = Tokens(limiters[j])
    BY <2>1, <2>2, <2>3, Zenon DEF Tokens
  <2>5. LastUsed(j)'
    BY <1>1, <2>1, <2>2, Zenon DEF LastUsed, Created
  <2>6. DoomedFull(j)'
    BY <1>1, <2>1, <2>4, Zenon DEF DoomedFull, Created
  <2>7. QED BY <1>2, <2>5, <2>6, Zenon
<1>5. QED BY <1>3, <1>4, Zenon

\* The other keys keep their budgets.
LEMMA CreatedOthers ==
  ASSUME SumTypes, SumTypes', NEW c \in Calls, NEW k, NEW l, Created(c, k, l),
         NEW j \in Keys, j # k, Budget(j), NEW d \in {0, 1},
         Marked(j)' <= Marked(j) + d, Overlaps(j)' = Overlaps(j) + d
  PROVE  Budget(j)'
<1>1. InUse(j)' \subseteq InUse(j) /\ l \notin InUse(j)'
  <2>1. \A e \in Calls : key[e] = j => held'[e] = held[e] /\ held[e] # l
    BY Zenon DEF Created
  <2>2. limiters'[j] = limiters[j] /\ limiters[j] # l /\ key' = key
    BY Zenon DEF Created
  <2>3. QED BY <2>1, <2>2, Zenon DEF InUse
<1>2. \A m \in Limiters : m \in InUse(j)' => Tokens(m)' <= Tokens(m)
  <2>1. \A m \in Limiters : m \in InUse(j)' => Tokens(m)' = Tokens(m)
    BY <1>1, CreatedTokens, Zenon
  <2>2. \A m \in Limiters : Tokens(m) \in 0 .. Burst
    BY Zenon DEF SumTypes
  <2>3. QED BY <2>1, <2>2, LimiterConstants
<1>3. Spares(j)' <= Spares(j) + d
  <2>1. Marked(j) \in {0, 1} /\ Marked(j)' \in {0, 1}
    BY Zenon DEF SumTypes
  <2>2. limiters'[j] = limiters[j]
    BY Zenon DEF Created
  <2>3. QED BY <2>1, <2>2 DEF Spares
<1>4. granted'[j] = granted[j] /\ limiterNow' = limiterNow
  BY Zenon DEF Created
<1>5. QED BY <1>1, <1>2, <1>3, <1>4, BudgetKept, Zenon

\* The key keeps its budget: the limiter was one to be created.
LEMMA CreatedOwn ==
  ASSUME SumTypes, SumTypes', NEW c \in Calls, NEW k, NEW l, Created(c, k, l),
         Budget(k), NEW d \in {0, 1}, Marked(k)' <= Marked(k) + d, Overlaps(k)' = Overlaps(k) + d
  PROVE  Budget(k)'
<1>1. k \in Keys /\ l \in Limiters /\ limiters[k] = 0 /\ limiters'[k] = l /\ l # 0
  BY LimiterConstants, Zenon DEF Created
<1>2. l \notin InUse(k) /\ \A m \in Limiters : m # l /\ m \in InUse(k)' => m \in InUse(k)
  <2>1. \A e \in Calls : held[e] # l /\ (held'[e] = held[e] \/ held'[e] = l)
    BY Zenon DEF Created
  <2>2. key' = key
    BY Zenon DEF Created
  <2>3. QED BY <1>1, <2>1, <2>2, Zenon DEF InUse
<1>3. l \in InUse(k)'
  BY <1>1, Zenon DEF InUse
<1>4. Tokens(l)' = Burst /\ \A m \in Limiters : m # l => Tokens(m)' <= Tokens(m)
  <2>1. Tokens(l)' = Burst /\ \A m \in Limiters : m # l => Tokens(m)' = Tokens(m)
    BY CreatedTokens, Zenon
  <2>2. \A m \in Limiters : Tokens(m) \in 0 .. Burst
    BY Zenon DEF SumTypes
  <2>3. QED BY <2>1, <2>2, LimiterConstants
<1>5. /\ OverLimiters(Uses(k))' + (IF l \in InUse(k) THEN 1 ELSE 0)
           <= OverLimiters(Uses(k)) + (IF l \in InUse(k)' THEN 1 ELSE 0)
      /\ OverLimiters(Left(k))' + (IF l \in InUse(k) THEN Tokens(l) ELSE 0)
           <= OverLimiters(Left(k)) + (IF l \in InUse(k)' THEN Tokens(l)' ELSE 0)
  BY <1>1, <1>2, <1>4, OneChanges, Zenon
<1>6. /\ OverLimiters(Uses(k)) \in Nat /\ OverLimiters(Uses(k))' \in Nat
      /\ OverLimiters(Left(k)) \in Nat /\ OverLimiters(Left(k))' \in Nat
      /\ Spares(k) \in Nat /\ Spares(k)' \in Nat
      /\ Marked(k) \in {0, 1} /\ Marked(k)' \in {0, 1}
  BY <1>1, Zenon DEF SumTypes
<1>7. /\ OverLimiters(Uses(k))' + 0 <= OverLimiters(Uses(k)) + 1
      /\ OverLimiters(Left(k))' + 0 <= OverLimiters(Left(k)) + Burst
  BY <1>2, <1>3, <1>4, <1>5, Zenon
<1>8. Spares(k)' + 1 <= Spares(k) + d
  BY <1>1, <1>6 DEF Spares
<1>9. Slots(k)' <= Slots(k) + d
  BY <1>6, <1>7, <1>8 DEF Slots
<1>10. /\ Burst * Spares(k) \in Nat /\ Burst * Spares(k)' \in Nat /\ d * Burst \in Nat
       /\ Burst * Spares(k)' + Burst <= Burst * Spares(k) + d * Burst
  <2>1. Spares(k)' + 1 \in Nat
    BY <1>6
  <2>2. Burst * Spares(k) \in Nat /\ Burst * (Spares(k)' + 1) <= Burst * Spares(k) + d * Burst
    BY <1>6, <1>8, <2>1, SparesCost, Zenon
  <2>3. Burst * (Spares(k)' + 1) = Burst * Spares(k)' + Burst /\ Burst * Spares(k)' \in Nat /\ d * Burst \in Nat
    BY <1>6, LimiterConstants
  <2>4. QED BY <2>2, <2>3, Zenon
<1>11. ASSUME NEW from \in 0 .. limiterNow PROVE Claim(k, from)' <= Claim(k, from) + d * Burst
  <2>1. /\ Total(granted[k], from, limiterNow)' = Total(granted[k], from, limiterNow)
        /\ Total(granted[k], from, limiterNow) \in Nat
    BY <1>1, Zenon DEF SumTypes, Created
  <2>2. QED BY <1>6, <1>7, <1>10, <2>1, LimiterConstants DEF Claim
<1>12. limiterNow' = limiterNow
  BY Zenon DEF Created
<1>13. QED BY <1>1, <1>9, <1>11, <1>12, BudgetStep, Zenon

\* A call stores the limiter that it made, or takes the one it finds.
LEMMA LoadOrStoreRate ==
  ASSUME LimiterInv, LimiterInv', RateInv, NEW c \in Calls, LoadOrStore(c)
  PROVE  RateInv'
<1>0. PICK k \in Keys : k = key[c]
  BY Zenon DEF LimiterInv, LimiterTypeOK
<1>1. SumTypes /\ SumTypes'
  BY SumsTyped, SumsTypedAfter, Zenon
<1>2. /\ limiterPc[c] = "create" /\ limiterPc' = [limiterPc EXCEPT ![c] = "allow"]
      /\ touched \subseteq touched'
      /\ UNCHANGED <<limiterNow, lastAccess, key, cleaner, doomed, granted, raced>>
  BY Zenon DEF LoadOrStore, Goto, cleanVars
<1>3. \A j \in Keys : Pending(j)' => Pending(j)
  BY <1>2, Zenon DEF Pending
<1>4. CASE limiters[k] # 0
  <2>1. /\ limiterPc \in [Calls -> PcValues] /\ held \in [Calls -> Limiters \cup {0}]
        /\ limiters \in [Keys -> Limiters \cup {0}]
    BY Zenon DEF LimiterInv, LimiterTypeOK
  <2>2. bucket' = bucket /\ limiters' = limiters /\ held' = [held EXCEPT ![c] = limiters[k]]
    BY <1>0, <1>4, <2>1, Zenon DEF LoadOrStore
  <2>3. /\ \A d \in Calls : limiterPc[d] = "access" => limiterPc'[d] = "access"
        /\ \A d \in Calls : held'[d] # 0 => \/ held'[d] = limiters[key'[d]]
                                            \/ held'[d] = held[d] /\ key'[d] = key[d]
    BY <1>0, <1>2, <2>1, <2>2, Zenon
  <2>4. Refilled'
    BY <1>2, <2>2, <2>3, QuietRefilled, Zenon DEF RateInv
  <2>5. \A j \in Keys : Budget(j)'
    BY <1>1, <1>2, <1>3, <2>2, <2>3, QuietBudget, Zenon DEF RateInv
  <2>6. QED BY <2>4, <2>5, Zenon DEF RateInv
<1>5. CASE limiters[k] = 0
  <2>1. PICK l : Created(c, k, l)
    BY <1>0, <1>5, Creation, Zenon
  <2>2. Refilled'
    BY <1>1, <2>1, CreatedRefilled, Zenon DEF RateInv
  <2>3. ASSUME NEW j \in Keys PROVE Budget(j)'
    <3>1. PICK d \in {0, 1} : Marked(j)' <= Marked(j) + d /\ Overlaps(j)' = Overlaps(j) + d
      BY <1>1, <1>2, <1>3, Touching, Zenon
    <3>2. Budget(j)
      BY Zenon DEF RateInv
    <3>3. CASE j = k
      BY <1>1, <2>1, <3>1, <3>2, <3>3, CreatedOwn, Zenon
    <3>4. CASE j # k
      BY <1>1, <2>1, <3>1, <3>2, <3>4, CreatedOthers, Zenon
    <3>5. QED BY <3>3, <3>4, Zenon
  <2>4. QED BY <2>2, <2>3, Zenon DEF RateInv
<1>6. QED BY <1>4, <1>5, Zenon

\* A token that is taken.
LEMMA TokenTaken ==
  ASSUME NEW l \in Limiters, NEW n \in 1 .. Burst, limiterNow' = limiterNow, limiterNow \in Nat,
         bucket'[l] = [tokens |-> n - 1, last |-> limiterNow]
  PROVE  Tokens(l)' = n - 1
<1>1. bucket'[l].tokens = n - 1 /\ bucket'[l].last = limiterNow
  OBVIOUS
<1>2. Rate * (limiterNow - limiterNow) = 0 /\ (n - 1) + 0 = n - 1 /\ n - 1 < Burst
  BY LimiterConstants
<1>3. QED BY <1>1, <1>2, Zenon DEF Tokens

\* Allow takes a token of the limiter l that c holds for the key k.
Taken(c, k, l) ==
  /\ k \in Keys /\ l \in Limiters /\ k = key[c] /\ l = held[c]
  /\ limiterPc'[c] = "access" /\ held'[c] = 0
  /\ \A d \in Calls : d # c => held'[d] = held[d] /\ limiterPc'[d] = limiterPc[d]
  /\ \A m \in Limiters : m # l => bucket'[m] = bucket[m]
  /\ Tokens(l) > 0 /\ Tokens(l)' = Tokens(l) - 1
  /\ \A m \in Limiters : m # l => Tokens(m)' = Tokens(m)
  /\ \A j \in Keys : j # k => granted'[j] = granted[j]
  /\ granted'[k][limiterNow] = granted[k][limiterNow] + 1
  /\ \A t \in 0 .. MaxLimiterTime : t # limiterNow => granted'[k][t] = granted[k][t]
  /\ touched \subseteq touched' /\ (k \in Range(doomed) => k \in touched')
  /\ UNCHANGED <<limiterNow, limiters, lastAccess, key, cleaner, doomed, raced>>

\* Allow does that when there is a token.
LEMMA Taking ==
  ASSUME LimiterInv, SumTypes, NEW c \in Calls, Allow(c)
  PROVE  Taken(c, key[c], held[c])
<1>0. PICK k \in Keys, l \in Limiters : k = key[c] /\ l = held[c]
  <2>1. held[c] \in Limiters /\ key[c] \in Keys
    BY Zenon DEF LimiterInv, LimiterTypeOK, HeldInAllow, Allow, Goto
  <2>2. QED BY <2>1, Zenon
<1>1. /\ limiterPc' = [limiterPc EXCEPT ![c] = "access"]
      /\ Tokens(l) > 0 /\ bucket' = [bucket EXCEPT ![l] = [tokens |-> Tokens(l) - 1, last |-> limiterNow]]
      /\ held' = [held EXCEPT ![c] = 0]
      /\ granted' = [granted EXCEPT ![k][limiterNow] = @ + 1]
      /\ touched' = touched \cup ({k} \cap Range(doomed)) /\ touched \subseteq touched'
      /\ UNCHANGED <<limiterNow, limiters, lastAccess, key, cleaner, doomed, raced>>
  BY <1>0, Zenon DEF Allow, Goto, cleanVars
<1>2. /\ limiterPc \in [Calls -> PcValues] /\ held \in [Calls -> Limiters \cup {0}]
      /\ bucket \in [Limiters -> [tokens : 0 .. Burst, last : 0 .. MaxLimiterTime]]
      /\ granted \in [Keys -> [0 .. MaxLimiterTime -> Nat]]
      /\ limiterNow \in 0 .. MaxLimiterTime
  BY Zenon DEF LimiterInv, LimiterTypeOK
<1>3. /\ \A d \in Calls : d # c => held'[d] = held[d] /\ limiterPc'[d] = limiterPc[d]
      /\ held'[c] = 0 /\ limiterPc'[c] = "access"
      /\ bucket'[l] = [tokens |-> Tokens(l) - 1, last |-> limiterNow]
      /\ \A m \in Limiters : m # l => bucket'[m] = bucket[m]
  BY <1>1, <1>2, Zenon
<1>4. Tokens(l)' = Tokens(l) - 1
  <2>1. Tokens(l) \in 0 .. Burst
    BY Zenon DEF SumTypes
  <2>2. Tokens(l) \in 1 .. Burst /\ limiterNow \in Nat
    BY <1>1, <1>2, <2>1, LimiterConstants
  <2>3. PICK n \in 1 .. Burst : n = Tokens(l)
    BY <2>2, Zenon
  <2>4. Tokens(l)' = n - 1
    BY <1>1, <1>3, <2>2, <2>3, TokenTaken, Zenon
  <2>5. QED BY <2>3, <2>4, Zenon
<1>5. \A m \in Limiters : m # l => Tokens(m)' = Tokens(m)
  <2>1. limiterNow' = limiterNow
    BY <1>1, Zenon
  <2>2. QED BY <1>3, <2>1, Zenon DEF Tokens
<1>6. /\ \A j \in Keys : j # k => granted'[j] = granted[j]
      /\ granted'[k][limiterNow] = granted[k][limiterNow] + 1
      /\ \A t \in 0 .. MaxLimiterTime : t # limiterNow => granted'[k][t] = granted[k][t]
  <2>1. granted[k] \in [0 .. MaxLimiterTime -> Nat]
    BY <1>2, Zenon
  <2>2. granted'[k] = [granted[k] EXCEPT ![limiterNow] = granted[k][limiterNow] + 1]
    BY <1>1, <1>2, Zenon
  <2>3. QED BY <1>1, <1>2, <2>1, <2>2, Zenon
<1>7. /\ Tokens(l) > 0 /\ touched \subseteq touched' /\ (k \in Range(doomed) => k \in touched')
      /\ UNCHANGED <<limiterNow, limiters, lastAccess, key, cleaner, doomed, raced>>
  BY <1>1, Zenon
<1>8. Taken(c, k, l)
  BY <1>0, <1>3, <1>4, <1>5, <1>6, <1>7, Zenon DEF Taken
<1>9. QED BY <1>0, <1>8, Zenon

\* What is known of the full limiters stays.
LEMMA TakenRefilled ==
  ASSUME LimiterInv, SumTypes, Refilled, NEW c \in Calls, NEW k, NEW l, Taken(c, k, l)
  PROVE  Refilled'
<1> SUFFICES ASSUME NEW j \in Keys PROVE NotYet(j)' /\ LastUsed(j)' /\ DoomedFull(j)'
  BY Zenon DEF Refilled
<1>1. NotYet(j) /\ LastUsed(j) /\ DoomedFull(j)
  BY Zenon DEF Refilled
<1>2. NotYet(j)'
  <2>1. ~ (limiterNow > limiterNow)
    BY LimiterConstants DEF SumTypes
  <2>2. /\ limiterNow' = limiterNow /\ (j # k => granted'[j] = granted[j])
        /\ \A t \in 0 .. MaxLimiterTime : t # limiterNow => granted'[k][t] = granted[k][t]
    BY Zenon DEF Taken
  <2>3. QED BY <1>1, <2>1, <2>2, Zenon DEF NotYet
<1>3. CASE j = k
  <2>1. LastUsed(j)'
    BY <1>3, Zenon DEF LastUsed, Taken
  <2>2. DoomedFull(j)'
    BY <1>3, Zenon DEF DoomedFull, Taken
  <2>3. QED BY <1>2, <2>1, <2>2, Zenon
<1>4. CASE j # k
  <2>1. limiters[j] # 0 => limiters[j] \in Limiters /\ limiters[j] # l
    <3>1. limiters[j] # 0 /\ held[c] = limiters[j] => key[c] = j
      BY Zenon DEF LimiterInv, Owned
    <3>2. QED BY <1>4, <3>1, Zenon DEF SumTypes, Taken
  <2>2. limiters' = limiters /\ limiterNow' = limiterNow
    BY Zenon DEF Taken
  <2>3. limiters[j] # 0 => bucket'[limiters[j]] = bucket[limiters[j]]
    BY <2>1, Zenon DEF Taken
  <2>4. limiters[j] # 0 => Tokens(limiters[j])' = Tokens(limiters[j])
    BY <2>2, <2>3, Zenon DEF Tokens
  <2>5. LastUsed(j)'
    BY <1>1, <1>4, <2>3, Zenon DEF LastUsed, Taken
  <2>6. DoomedFull(j)'
    BY <1>1, <2>4, Zenon DEF DoomedFull, Taken
  <2>7. QED BY <1>2, <2>5, <2>6, Zenon
<1>5. QED BY <1>3, <1>4, Zenon

\* No more limiters are in use, and none has more tokens.
LEMMA TakenInUse ==
  ASSUME SumTypes, NEW c \in Calls, NEW k, NEW l, Taken(c, k, l), NEW j \in Keys
  PROVE  InUse(j)' \subseteq InUse(j) /\ \A m \in Limiters : Tokens(m)' <= Tokens(m)
<1>1. \A m \in Limiters : \A d \in Calls : held'[d] = m => held[d] = m
  BY LimiterConstants, Zenon DEF Taken
<1>2. limiters' = limiters /\ key' = key
  BY Zenon DEF Taken
<1>3. InUse(j)' \subseteq InUse(j)
  BY <1>1, <1>2, Zenon DEF InUse
<1>4. \A m \in Limiters : Tokens(m) \in 0 .. Burst
  BY Zenon DEF SumTypes
<1>5. Tokens(l)' = Tokens(l) - 1 /\ \A m \in Limiters : m # l => Tokens(m)' = Tokens(m)
  BY Zenon DEF Taken
<1>6. \A m \in Limiters : Tokens(m)' <= Tokens(m)
  BY <1>4, <1>5, LimiterConstants
<1>7. QED BY <1>3, <1>6, Zenon

\* One more call is let through now.
LEMMA TakenGranted ==
  ASSUME SumTypes, SumTypes', NEW c \in Calls, NEW k, NEW l, Taken(c, k, l), NEW from \in 0 .. limiterNow
  PROVE  Total(granted[k], from, limiterNow)' = Total(granted[k], from, limiterNow) + 1
<1>0. /\ k \in Keys /\ limiterNow' = limiterNow
      /\ granted'[k][limiterNow] = granted[k][limiterNow] + 1
      /\ \A t \in 0 .. MaxLimiterTime : t # limiterNow => granted'[k][t] = granted[k][t]
      /\ limiterNow \in 0 .. MaxLimiterTime
      /\ \A t \in 0 .. MaxLimiterTime : granted[k][t] \in Nat /\ granted'[k][t] \in Nat
  <2>1. /\ k \in Keys /\ limiterNow' = limiterNow
        /\ granted'[k][limiterNow] = granted[k][limiterNow] + 1
        /\ \A t \in 0 .. MaxLimiterTime : t # limiterNow => granted'[k][t] = granted[k][t]
    BY Zenon DEF Taken
  <2>2. /\ limiterNow \in 0 .. MaxLimiterTime
        /\ \A t \in 0 .. MaxLimiterTime : granted[k][t] \in Nat /\ granted'[k][t] \in Nat
    BY <2>1, Zenon DEF SumTypes
  <2>3. QED BY <2>1, <2>2, Zenon
<1>1. /\ from \in Nat /\ limiterNow \in Nat /\ from <= limiterNow
      /\ limiterNow - 1 \in Int /\ limiterNow - 1 >= from - 1
      /\ \A m \in from .. limiterNow - 1 : m \in 0 .. MaxLimiterTime /\ m # limiterNow
  BY <1>0, LimiterConstants
<1>2. /\ Total(granted[k], from, limiterNow) = Total(granted[k], from, limiterNow - 1) + granted[k][limiterNow]
      /\ Total(granted'[k], from, limiterNow) = Total(granted'[k], from, limiterNow - 1) + granted'[k][limiterNow]
  BY <1>1, TotalLast, Zenon
<1>3. \A m \in from .. limiterNow - 1 : granted'[k][m] = granted[k][m] /\ granted[k][m] \in Nat
  BY <1>0, <1>1, Zenon
<1>4. \A m \in from .. limiterNow - 1 : /\ granted[k][m] \in Nat /\ granted'[k][m] \in Nat
                                        /\ granted'[k][m] <= granted[k][m] /\ granted[k][m] <= granted'[k][m]
  <2>1. \A x \in Nat : x <= x
    OBVIOUS
  <2>2. QED BY <1>3, <2>1, Zenon
<1>5. /\ Total(granted'[k], from, limiterNow - 1) <= Total(granted[k], from, limiterNow - 1)
      /\ Total(granted[k], from, limiterNow - 1) <= Total(granted'[k], from, limiterNow - 1)
  BY <1>1, <1>4, TotalMonotone, Zenon
<1>6. Total(granted'[k], from, limiterNow - 1) \in Nat /\ Total(granted[k], from, limiterNow - 1) \in Nat
  BY <1>1, <1>4, TotalNat, Zenon
<1>7. granted[k][limiterNow] \in Nat
  BY <1>0, Zenon
<1>8. Total(granted[k], from, limiterNow)' = Total(granted'[k], from, limiterNow)
  BY <1>0, Zenon
<1>9. QED BY <1>0, <1>2, <1>5, <1>6, <1>7, <1>8

\* The key keeps its budget: what it gives was left.
LEMMA TakenOwn ==
  ASSUME SumTypes, SumTypes', NEW c \in Calls, NEW k, NEW l, Taken(c, k, l), Budget(k),
         NEW d \in {0, 1}, Spares(k)' <= Spares(k) + d, Overlaps(k)' = Overlaps(k) + d
  PROVE  Budget(k)'
<1>1. /\ k \in Keys /\ l \in Limiters /\ l \in InUse(k) /\ limiterNow' = limiterNow
      /\ Tokens(l) > 0 /\ Tokens(l)' = Tokens(l) - 1
  BY Zenon DEF Taken, InUse
<1>2. InUse(k)' \subseteq InUse(k) /\ \A m \in Limiters : Tokens(m)' <= Tokens(m)
  BY <1>1, TakenInUse, Zenon
<1>3. OverLimiters(Uses(k))' <= OverLimiters(Uses(k))
  BY <1>1, <1>2, FewerInUse, Zenon
<1>4. OverLimiters(Left(k))' + (IF l \in InUse(k) THEN Tokens(l) ELSE 0)
        <= OverLimiters(Left(k)) + (IF l \in InUse(k)' THEN Tokens(l)' ELSE 0)
  BY <1>1, <1>2, OneChanges, Zenon
<1>5. /\ OverLimiters(Uses(k)) \in Nat /\ OverLimiters(Uses(k))' \in Nat
      /\ OverLimiters(Left(k)) \in Nat /\ OverLimiters(Left(k))' \in Nat
      /\ Spares(k) \in Nat /\ Spares(k)' \in Nat /\ Tokens(l) \in 0 .. Burst
  BY <1>1, Zenon DEF SumTypes
<1>6. OverLimiters(Left(k))' + 1 <= OverLimiters(Left(k))
  BY <1>1, <1>4, <1>5, LimiterConstants
<1>7. Slots(k)' <= Slots(k) + d
  BY <1>3, <1>5 DEF Slots
<1>8. d * Burst \in Nat
  BY LimiterConstants
<1>9. /\ Burst * Spares(k) \in Nat /\ Burst * Spares(k)' \in Nat
      /\ Burst * Spares(k)' <= Burst * Spares(k) + d * Burst
  BY <1>5, SparesCost, Zenon
<1>10. ASSUME NEW from \in 0 .. limiterNow PROVE Claim(k, from)' <= Claim(k, from) + d * Burst
  <2>1. /\ Total(granted[k], from, limiterNow)' = Total(granted[k], from, limiterNow) + 1
        /\ Total(granted[k], from, limiterNow) \in Nat
    BY <1>1, TakenGranted, Zenon DEF SumTypes
  <2>2. QED BY <1>5, <1>6, <1>8, <1>9, <2>1 DEF Claim
<1>11. QED BY <1>1, <1>7, <1>10, BudgetStep, Zenon

\* A call takes a token.
LEMMA AllowRate ==
  ASSUME LimiterInv, LimiterInv', RateInv, NEW c \in Calls, Allow(c)
  PROVE  RateInv'
<1>1. SumTypes /\ SumTypes'
  BY SumsTyped, SumsTypedAfter, Zenon
<1>2. PICK k, l : Taken(c, k, l)
  BY <1>1, Taking, Zenon
<1>3. Refilled'
  BY <1>1, <1>2, TakenRefilled, Zenon DEF RateInv
<1>4. /\ touched \subseteq touched'
      /\ UNCHANGED <<limiterNow, limiters, cleaner, doomed, raced>>
      /\ \A j \in Keys : j # k => granted'[j] = granted[j]
  BY <1>2, Zenon DEF Taken
<1>5. ASSUME NEW j \in Keys PROVE Budget(j)'
  <2>1. Pending(j)' => Pending(j)
    BY <1>4, Zenon DEF Pending
  <2>2. PICK d \in {0, 1} : Marked(j)' <= Marked(j) + d /\ Overlaps(j)' = Overlaps(j) + d
    BY <1>1, <1>4, <2>1, Touching, Zenon
  <2>3. Marked(j) \in {0, 1} /\ Marked(j)' \in {0, 1}
    BY <1>1, Zenon DEF SumTypes
  <2>4. Spares(j)' <= Spares(j) + d
    BY <1>4, <2>2, <2>3 DEF Spares
  <2>5. Budget(j)
    BY Zenon DEF RateInv
  <2>6. CASE j = k
    BY <1>1, <1>2, <2>2, <2>4, <2>5, <2>6, TakenOwn, Zenon
  <2>7. CASE j # k
    <3>1. InUse(j)' \subseteq InUse(j) /\ \A m \in Limiters : Tokens(m)' <= Tokens(m)
      BY <1>1, <1>2, TakenInUse, Zenon
    <3>2. granted'[j] = granted[j] /\ limiterNow' = limiterNow
      BY <1>4, <2>7, Zenon
    <3>3. QED BY <1>1, <2>2, <2>4, <2>5, <3>1, <3>2, BudgetKept, Zenon
  <2>8. QED BY <2>6, <2>7, Zenon
<1>6. QED BY <1>3, <1>5, Zenon DEF RateInv

\* The cleanup removes the full limiter of a key that no call has touched.
LEMMA FullRemoved ==
  ASSUME LimiterInv, SumTypes, SumTypes', NEW k \in Keys, Budget(k), DoomedFull(k),
         k \in Range(doomed), k \notin touched, limiters[k] # 0, limiters'[k] = 0,
         UNCHANGED <<limiterNow, bucket, key, held, granted, touched, raced>>
  PROVE  Budget(k)'
<1>1. PICK l \in Limiters : l = limiters[k]
  BY Zenon DEF SumTypes
<1>2. Tokens(l) = Burst
  BY <1>1, Zenon DEF DoomedFull
<1>3. l \in InUse(k) /\ l \notin InUse(k)' /\ InUse(k)' \subseteq InUse(k)
  <2>1. \A c \in Calls : key[c] = k => held[c] = 0
    BY Zenon DEF LimiterInv, HeldInAllow, DoomedTouched
  <2>2. QED BY <1>1, <2>1, LimiterConstants, Zenon DEF InUse
<1>4. \A m \in Limiters : Tokens(m)' <= Tokens(m)
  <2>1. \A m \in Limiters : Tokens(m)' = Tokens(m) /\ Tokens(m) \in 0 .. Burst
    BY Zenon DEF Tokens, SumTypes
  <2>2. QED BY <2>1, LimiterConstants
<1>5. /\ OverLimiters(Uses(k))' + (IF l \in InUse(k) THEN 1 ELSE 0)
           <= OverLimiters(Uses(k)) + (IF l \in InUse(k)' THEN 1 ELSE 0)
      /\ OverLimiters(Left(k))' + (IF l \in InUse(k) THEN Tokens(l) ELSE 0)
           <= OverLimiters(Left(k)) + (IF l \in InUse(k)' THEN Tokens(l)' ELSE 0)
  BY <1>3, <1>4, OneChanges, Zenon
<1>6. /\ OverLimiters(Uses(k)) \in Nat /\ OverLimiters(Uses(k))' \in Nat
      /\ OverLimiters(Left(k)) \in Nat /\ OverLimiters(Left(k))' \in Nat
      /\ Spares(k) \in Nat /\ Spares(k)' \in Nat /\ Overlaps(k) \in Nat
  BY Zenon DEF SumTypes
<1>7. /\ OverLimiters(Uses(k))' + 1 <= OverLimiters(Uses(k)) + 0
      /\ OverLimiters(Left(k))' + Burst <= OverLimiters(Left(k)) + 0
  BY <1>2, <1>3, <1>5, Zenon
<1>8. Spares(k)' = Spares(k) + 1
  <2>1. k \notin touched'
    BY Zenon
  <2>2. QED BY <2>1 DEF Spares, Marked
<1>9. Slots(k)' <= Slots(k) + 0
  BY <1>6, <1>7, <1>8 DEF Slots
<1>10. Burst * Spares(k)' = Burst * Spares(k) + Burst /\ Burst * Spares(k) \in Nat
  BY <1>6, <1>8, LimiterConstants
<1>11. ASSUME NEW from \in 0 .. limiterNow PROVE Claim(k, from)' <= Claim(k, from) + 0 * Burst
  <2>1. /\ Total(granted[k], from, limiterNow)' = Total(granted[k], from, limiterNow)
        /\ Total(granted[k], from, limiterNow) \in Nat
    BY Zenon DEF SumTypes
  <2>2. QED BY <1>6, <1>7, <1>10, <2>1, LimiterConstants DEF Claim
<1>12. Overlaps(k)' = Overlaps(k) + 0 /\ 0 \in {0, 1}
  <2>1. Overlaps(k)' = Overlaps(k)
    BY Zenon DEF Overlaps
  <2>2. QED BY <1>6, <2>1
<1>13. QED BY <1>9, <1>11, <1>12, BudgetStep, Zenon

\* The cleanup deletes a limiter: a full one, or one of a key that was touched.
LEMMA DeleteLimiterRate ==
  ASSUME LimiterInv, LimiterInv', RateInv, DeleteLimiter
  PROVE  RateInv'
<1>0. PICK k : k = Head(doomed)
  OBVIOUS
<1>1. /\ cleaner = "limiter" /\ cleaner' = "timestamp" /\ limiters' = [limiters EXCEPT ![k] = 0]
      /\ UNCHANGED <<limiterNow, bucket, lastAccess, limiterPc, key, held, doomed, granted, touched, raced>>
  BY <1>0, Zenon DEF DeleteLimiter, callVars, histVars
<1>2. SumTypes /\ SumTypes'
  BY SumsTyped, SumsTypedAfter, Zenon
<1>3. k \in Keys /\ k \in Range(doomed)
  <2>1. doomed # <<>>
    BY <1>1, Zenon DEF LimiterInv, DoomedOnce
  <2>2. QED BY <1>0, <2>1, DoomedTail, Zenon
<1>4. limiters'[k] = 0 /\ \A j \in Keys : j # k => limiters'[j] = limiters[j]
  <2>1. limiters \in [Keys -> Limiters \cup {0}]
    BY Zenon DEF LimiterInv, LimiterTypeOK
  <2>2. QED BY <1>1, <1>3, <2>1, Zenon
<1>5. ASSUME NEW j \in Keys PROVE NotYet(j)' /\ LastUsed(j)' /\ DoomedFull(j)'
  <2>1. NotYet(j) /\ LastUsed(j) /\ DoomedFull(j)
    BY Zenon DEF RateInv, Refilled
  <2>2. NotYet(j)' /\ LastUsed(j)'
    BY <1>1, <1>4, <2>1, Zenon DEF NotYet, LastUsed
  <2>3. DoomedFull(j)'
    BY <1>1, <1>4, <2>1, Zenon DEF DoomedFull, Tokens
  <2>4. QED BY <2>2, <2>3, Zenon
<1>6. ASSUME NEW j \in Keys, j # k \/ k \in touched \/ limiters[k] = 0 PROVE Budget(j)'
  <2>1. Marked(j) \in {0, 1} /\ Marked(j)' \in {0, 1} /\ Overlaps(j) \in Nat
    BY <1>2, Zenon DEF SumTypes
  <2>2. Spares(j)' <= Spares(j) + 0
    <3>1. CASE j # k
      <4>1. Marked(j)' = Marked(j)
        BY <1>0, <1>1, <3>1, Zenon DEF Marked, Pending
      <4>2. limiters'[j] = limiters[j]
        BY <1>4, <3>1, Zenon
      <4>3. QED BY <2>1, <4>1, <4>2 DEF Spares
    <3>2. CASE j = k
      <4>1. Marked(k)' = 0 /\ (k \in touched => Marked(k) = 1) /\ (k \notin touched => Marked(k) = 0)
        BY <1>0, <1>1, <1>3, Zenon DEF Marked, Pending
      <4>2. QED BY <1>4, <1>6, <2>1, <3>2, <4>1 DEF Spares
    <3>3. QED BY <3>1, <3>2, Zenon
  <2>3. Overlaps(j)' = Overlaps(j) + 0 /\ 0 \in {0, 1}
    <3>1. Overlaps(j)' = Overlaps(j)
      BY <1>1, Zenon DEF Overlaps
    <3>2. QED BY <2>1, <3>1
  <2>4. InUse(j)' \subseteq InUse(j)
    BY <1>1, <1>4, LimiterConstants, Zenon DEF InUse
  <2>5. \A m \in Limiters : Tokens(m)' <= Tokens(m)
    <3>1. \A m \in Limiters : Tokens(m)' = Tokens(m) /\ Tokens(m) \in 0 .. Burst
      BY <1>1, <1>2, Zenon DEF Tokens, SumTypes
    <3>2. QED BY <3>1, LimiterConstants
  <2>6. granted'[j] = granted[j] /\ Budget(j) /\ limiterNow' = limiterNow
    BY <1>1, Zenon DEF RateInv
  <2>7. QED BY <1>2, <2>2, <2>3, <2>4, <2>5, <2>6, BudgetKept, Zenon
<1>7. CASE k \notin touched /\ limiters[k] # 0
  <2>1. Budget(k) /\ DoomedFull(k)
    BY <1>3, Zenon DEF RateInv, Refilled
  <2>2. Budget(k)'
    BY <1>1, <1>2, <1>3, <1>4, <1>7, <2>1, FullRemoved, Zenon
  <2>3. QED BY <1>5, <1>6, <2>2, Zenon DEF RateInv, Refilled
<1>8. CASE k \in touched \/ limiters[k] = 0
  BY <1>5, <1>6, <1>8, Zenon DEF RateInv, Refilled
<1>9. QED BY <1>7, <1>8, Zenon


\* The cleanup deletes a timestamp, and counts the overlap of a key that was touched.
LEMMA DeleteTimestampRate ==
  ASSUME LimiterInv, LimiterInv', RateInv, DeleteTimestamp
  PROVE  RateInv'
<1>0. PICK k : k = Head(doomed)
  OBVIOUS
<1>1. /\ cleaner = "timestamp" /\ cleaner' # "timestamp"
      /\ lastAccess' = [lastAccess EXCEPT ![k] = Never]
      /\ doomed' = Tail(doomed)
      /\ raced' = [raced EXCEPT ![k] = IF k \in touched THEN @ + 1 ELSE @]
      /\ touched' = touched \ {k}
      /\ UNCHANGED <<limiterNow, limiters, bucket, limiterPc, key, held, granted>>
  BY <1>0, Zenon DEF DeleteTimestamp, callVars
<1>2. SumTypes /\ SumTypes'
  BY SumsTyped, SumsTypedAfter, Zenon
<1>3. k \in Keys /\ Range(doomed') = Range(doomed) \ {k}
  <2>1. doomed # <<>>
    BY <1>1, Zenon DEF LimiterInv, DoomedOnce
  <2>2. QED BY <1>0, <1>1, <2>1, DoomedTail, Zenon
<1>4. /\ raced \in [Keys -> Nat]
      /\ lastAccess'[k] = Never /\ \A j \in Keys : j # k => lastAccess'[j] = lastAccess[j]
      /\ \A j \in Keys : j # k => raced'[j] = raced[j]
      /\ raced'[k] = IF k \in touched THEN raced[k] + 1 ELSE raced[k]
  <2>1. raced \in [Keys -> Nat] /\ lastAccess \in [Keys -> 0 .. MaxLimiterTime \cup {Never}]
    BY Zenon DEF LimiterInv, LimiterTypeOK
  <2>2. QED BY <1>1, <1>3, <2>1, Zenon
<1>5. ASSUME NEW j \in Keys PROVE NotYet(j)' /\ LastUsed(j)' /\ DoomedFull(j)'
  <2>1. NotYet(j) /\ LastUsed(j) /\ DoomedFull(j)
    BY Zenon DEF RateInv, Refilled
  <2>2. NotYet(j)'
    BY <1>1, <2>1, Zenon DEF NotYet
  <2>3. LastUsed(j)'
    BY <1>1, <1>4, <2>1, Zenon DEF LastUsed
  <2>4. DoomedFull(j)'
    BY <1>1, <1>3, <2>1, Zenon DEF DoomedFull, Tokens
  <2>5. QED BY <2>2, <2>3, <2>4, Zenon
<1>6. ASSUME NEW j \in Keys PROVE Budget(j)'
  <2>1. InUse(j)' \subseteq InUse(j)
    BY <1>1, Zenon DEF InUse
  <2>2. \A l \in Limiters : Tokens(l)' <= Tokens(l)
    <3>1. \A l \in Limiters : Tokens(l)' = Tokens(l) /\ Tokens(l) \in 0 .. Burst
      BY <1>1, <1>2, Zenon DEF Tokens, SumTypes
    <3>2. QED BY <3>1, LimiterConstants
  <2>3. Overlaps(j)' = Overlaps(j) + 0
    <3>1. raced[j] \in Nat
      BY <1>4, Zenon
    <3>2. CASE j = k
      <4>1. raced'[j] = (IF j \in touched THEN raced[j] + 1 ELSE raced[j]) /\ j \notin touched'
        BY <1>1, <1>4, <3>2, Zenon
      <4>2. QED BY <3>1, <4>1 DEF Overlaps
    <3>3. CASE j # k
      <4>1. raced'[j] = raced[j] /\ (j \in touched' <=> j \in touched)
        BY <1>1, <1>4, <3>3, Zenon
      <4>2. QED BY <3>1, <4>1 DEF Overlaps
    <3>4. QED BY <3>2, <3>3, Zenon
  <2>4. Spares(j)' <= Spares(j) + 0
    <3>1. Marked(j) \in {0, 1} /\ Marked(j)' \in {0, 1}
      BY <1>2, Zenon DEF SumTypes
    <3>2. j \in touched' /\ Pending(j)' => j \in touched /\ Pending(j)
      BY <1>0, <1>1, <1>3, Zenon DEF Pending
    <3>3. limiters'[j] = limiters[j]
      BY <1>1, Zenon
    <3>4. QED BY <3>1, <3>2, <3>3 DEF Spares, Marked
  <2>5. granted'[j] = granted[j] /\ Budget(j) /\ limiterNow' = limiterNow /\ 0 \in {0, 1}
    BY <1>1, Zenon DEF RateInv
  <2>6. QED BY <1>2, <2>1, <2>2, <2>3, <2>4, <2>5, BudgetKept, Zenon
<1>7. QED BY <1>5, <1>6, Zenon DEF RateInv, Refilled

\* A limiter earns at most the rate in a unit of time.
LEMMA TokensEarned ==
  ASSUME LimiterInv, LimiterTick, NEW l \in Limiters
  PROVE  Tokens(l)' <= Tokens(l) + Rate /\ (Tokens(l) = Burst => Tokens(l)' = Burst)
<1>1. /\ bucket[l].tokens \in Nat /\ bucket[l].last \in Nat /\ limiterNow \in Nat
      /\ bucket[l].last <= limiterNow
  BY LimiterConstants DEF LimiterInv, LimiterTypeOK, Dated
<1>2. PICK n \in Nat : n = limiterNow - bucket[l].last
  BY <1>1
<1>3. bucket' = bucket /\ limiterNow' = limiterNow + 1 /\ limiterNow' - bucket[l].last = n + 1
  BY <1>1, <1>2 DEF LimiterTick
<1>4. PICK x \in Nat : x = Rate * n
  BY LimiterConstants
<1>5. Rate * (n + 1) = x + Rate
  BY <1>4, LimiterConstants
<1>6. /\ Tokens(l) = (IF bucket[l].tokens + x < Burst THEN bucket[l].tokens + x ELSE Burst)
      /\ Tokens(l)' = (IF bucket[l].tokens + (x + Rate) < Burst THEN bucket[l].tokens + (x + Rate) ELSE Burst)
  BY <1>2, <1>3, <1>4, <1>5, Zenon DEF Tokens
<1>7. QED BY <1>1, <1>6, LimiterConstants

\* A full limiter stays full.
LEMMA TickRefilled ==
  ASSUME LimiterInv, SumTypes, SumTypes', Refilled, LimiterTick
  PROVE  Refilled'
<1>1. /\ limiterNow' = limiterNow + 1
      /\ UNCHANGED <<limiters, bucket, lastAccess, limiterPc, key, cleaner, doomed, granted, touched>>
  BY Zenon DEF LimiterTick, callVars, cleanVars, histVars
<1>2. \A t \in 0 .. MaxLimiterTime : t > limiterNow + 1 => t > limiterNow
  BY LimiterConstants DEF SumTypes
<1>3. ASSUME NEW k \in Keys PROVE NotYet(k)' /\ LastUsed(k)' /\ DoomedFull(k)'
  <2>1. NotYet(k) /\ LastUsed(k) /\ DoomedFull(k)
    BY Zenon DEF Refilled
  <2>2. NotYet(k)' /\ LastUsed(k)'
    BY <1>1, <1>2, <2>1, Zenon DEF NotYet, LastUsed
  <2>3. limiters[k] # 0 => limiters[k] \in Limiters
    BY Zenon DEF SumTypes
  <2>4. PICK l : l = limiters[k] /\ l = limiters'[k]
    BY <1>1, Zenon
  <2>5. DoomedFull(k)'
    BY <1>1, <2>1, <2>3, <2>4, TokensEarned, Zenon DEF DoomedFull
  <2>6. QED BY <2>2, <2>5, Zenon
<1>4. QED BY <1>3, Zenon DEF Refilled

\* All limiters in use earn at most the rate each, and none has more than the burst.
LEMMA TickLeft ==
  ASSUME LimiterInv, SumTypes, SumTypes', LimiterTick, NEW k \in Keys, InUse(k)' = InUse(k)
  PROVE  /\ OverLimiters(Left(k))' <= OverLimiters(Left(k)) + Rate * OverLimiters(Uses(k))
         /\ OverLimiters(Left(k))' <= Burst * OverLimiters(Uses(k))
<1>1. PICK u \in Nat, x \in Nat, z \in Nat :
        u = OverLimiters(Uses(k)) /\ x = OverLimiters(Left(k)) /\ z = OverLimiters(Left(k)')
  <2>1. /\ OverLimiters(Uses(k)) \in Nat /\ OverLimiters(Left(k)) \in Nat
        /\ OverLimiters(Left(k))' \in Nat
    BY Zenon DEF SumTypes
  <2>2. QED BY <2>1, Zenon
<1>2. ASSUME NEW l \in Limiters
      PROVE  /\ Left(k)[l] \in Nat /\ Left(k)'[l] \in Nat /\ Uses(k)[l] \in Nat
             /\ Left(k)'[l] <= 1 * Left(k)[l] + Rate * Uses(k)[l]
             /\ Left(k)'[l] <= 0 * Left(k)[l] + Burst * Uses(k)[l]
  <2>1. /\ Uses(k)[l] = (IF l \in InUse(k) THEN 1 ELSE 0)
        /\ Left(k)[l] = (IF l \in InUse(k) THEN Tokens(l) ELSE 0)
        /\ Left(k)'[l] = (IF l \in InUse(k) THEN Tokens(l)' ELSE 0)
        /\ Tokens(l) \in 0 .. Burst /\ Tokens(l)' \in 0 .. Burst
    BY Zenon DEF SumTypes
  <2>2. Tokens(l)' <= Tokens(l) + Rate
    BY TokensEarned, Zenon
  <2>3. CASE l \in InUse(k)
    BY <2>1, <2>2, <2>3, LimiterConstants
  <2>4. CASE l \notin InUse(k)
    BY <2>1, <2>4, LimiterConstants
  <2>5. QED BY <2>3, <2>4, Zenon
<1>3. 0 \in Nat /\ 1 \in Nat /\ Rate \in Nat /\ Burst \in Nat
  BY LimiterConstants
<1>4. z <= 1 * x + Rate * u /\ z <= 0 * x + Burst * u
  BY <1>1, <1>2, <1>3, OverLimitersCompared, Zenon
<1>5. Rate * u \in Nat /\ Burst * u \in Nat
  BY <1>3
<1>6. z <= x + Rate * u /\ z <= Burst * u
  BY <1>4, <1>5
<1>7. QED BY <1>1, <1>6, Zenon

\* Nothing is granted yet at a new time.
LEMMA TickGranted ==
  ASSUME SumTypes, SumTypes', limiterNow' = limiterNow + 1, NEW k \in Keys, NotYet(k),
         NEW from \in 0 .. limiterNow + 1
  PROVE  Total(granted[k], from, limiterNow + 1) = Total(granted[k], from, limiterNow) + 0
<1>1. PICK n : n = limiterNow + 1
  OBVIOUS
<1>2. /\ from \in Nat /\ n \in Nat /\ from <= n /\ n - 1 = limiterNow
      /\ n \in 0 .. MaxLimiterTime /\ n > limiterNow
  BY <1>1, LimiterConstants DEF SumTypes
<1>3. granted[k][n] = 0
  BY <1>2, Zenon DEF NotYet
<1>4. Total(granted[k], from, n) = Total(granted[k], from, n - 1) + granted[k][n]
  BY <1>2, TotalLast, Zenon
<1>5. QED BY <1>1, <1>2, <1>3, <1>4, Zenon

\* u limiters that earn the rate and have x tokens and w given before.
LEMMA AllowanceEarned ==
  ASSUME NEW o \in Nat, NEW u \in Nat, NEW w \in Nat, NEW x \in Nat, NEW z \in Nat, NEW b \in Nat,
         NEW n \in Nat, u <= o + 1, z <= x + Rate * u, w + x + b <= (o + 1) * (Burst + Rate * n)
  PROVE  w + 0 + z + b <= (o + 1) * (Burst + Rate * (n + 1))
<1>1. PICK y \in Nat : y = (o + 1) * (Burst + Rate * n)
  BY LimiterConstants
<1>2. (o + 1) * (Burst + Rate * (n + 1)) = y + (o + 1) * Rate
  <2>1. Burst + Rate * (n + 1) = (Burst + Rate * n) + Rate
    BY LimiterConstants
  <2>2. PICK v \in Nat : v = Burst + Rate * n
    BY LimiterConstants
  <2>3. (o + 1) * (v + Rate) = (o + 1) * v + (o + 1) * Rate
    BY LimiterConstants
  <2>4. QED BY <1>1, <2>1, <2>2, <2>3, Zenon
<1>3. Rate * u <= (o + 1) * Rate /\ Rate * u \in Nat /\ (o + 1) * Rate \in Nat
  <2>1. (o + 1) * Rate = Rate * u + Rate * (o + 1 - u) /\ o + 1 - u \in Nat
    BY LimiterConstants
  <2>2. Rate * (o + 1 - u) \in Nat /\ Rate * u \in Nat
    BY <2>1, LimiterConstants
  <2>3. QED BY <2>1, <2>2
<1>4. PICK p \in Nat, q \in Nat : p = Rate * u /\ q = (o + 1) * Rate
  BY <1>3, Zenon
<1>5. z <= x + p /\ p <= q /\ w + x + b <= y
  BY <1>1, <1>3, <1>4, Zenon
<1>6. w + 0 + z + b <= y + q
  BY <1>5
<1>7. QED BY <1>2, <1>4, <1>6, Zenon

\* u limiters that have z tokens, at a time when nothing is given yet.
LEMMA AllowanceFresh ==
  ASSUME NEW o \in Nat, NEW u \in Nat, NEW s \in Nat, NEW z \in Nat, u + s <= o + 1, z <= Burst * u
  PROVE  0 + 0 + z + Burst * s <= (o + 1) * (Burst + Rate * 0)
<1>1. (o + 1) * (Burst + Rate * 0) = Burst * (o + 1) /\ Burst * (o + 1) \in Nat
  BY LimiterConstants
<1>2. PICK r \in Nat : o + 1 = u + s + r
  <2>1. (o + 1) - (u + s) \in Nat /\ o + 1 = u + s + ((o + 1) - (u + s))
    OBVIOUS
  <2>2. QED BY <2>1, Zenon
<1>3. Burst * (u + s + r) = Burst * u + Burst * s + Burst * r
  BY LimiterConstants
<1>4. Burst * u \in Nat /\ Burst * s \in Nat /\ Burst * r \in Nat
  BY LimiterConstants
<1>5. z + Burst * s <= Burst * (o + 1)
  BY <1>2, <1>3, <1>4
<1>6. QED BY <1>1, <1>4, <1>5

\* Time passes.
LEMMA TickRate ==
  ASSUME LimiterInv, LimiterInv', RateInv, LimiterTick
  PROVE  RateInv'
<1>1. /\ limiterNow' = limiterNow + 1
      /\ UNCHANGED <<limiters, bucket, lastAccess, limiterPc, key, held, cleaner, doomed,
                     granted, touched, raced>>
  BY Zenon DEF LimiterTick, callVars, cleanVars, histVars
<1>2. SumTypes /\ SumTypes'
  BY SumsTyped, SumsTypedAfter, Zenon
<1>3. Refilled'
  BY <1>2, TickRefilled, Zenon DEF RateInv
<1>4. ASSUME NEW k \in Keys PROVE Budget(k)'
  <2>1. InUse(k)' = InUse(k)
    BY <1>1, Zenon DEF InUse
  <2>2. Spares(k)' = Spares(k) /\ Overlaps(k)' = Overlaps(k) /\ Uses(k)' = Uses(k)
    BY <1>1, <2>1, Zenon DEF Spares, Marked, Pending, Overlaps, Uses
  <2>3. PICK o \in Nat, u \in Nat, s \in Nat, x \in Nat, z \in Nat :
          /\ o = Overlaps(k) /\ u = OverLimiters(Uses(k)) /\ s = Spares(k)
          /\ x = OverLimiters(Left(k)) /\ z = OverLimiters(Left(k)')
    <3>1. /\ Overlaps(k) \in Nat /\ OverLimiters(Uses(k)) \in Nat /\ Spares(k) \in Nat
          /\ OverLimiters(Left(k)) \in Nat /\ OverLimiters(Left(k))' \in Nat
      BY <1>2, Zenon DEF SumTypes
    <3>2. QED BY <3>1, Zenon
  <2>4. u + s <= o + 1
    BY <2>3, Zenon DEF RateInv, Budget, Slots
  <2>5. Slots(k)' <= Overlaps(k)' + 1
    BY <2>2, <2>3, <2>4, Zenon DEF Slots
  <2>6. z <= x + Rate * u /\ z <= Burst * u
    BY <1>2, <2>1, <2>3, TickLeft, Zenon
  <2>7. ASSUME NEW from \in 0 .. limiterNow + 1 PROVE Within(k, from)'
    <3>1. PICK w : w = Total(granted[k], from, limiterNow)
      OBVIOUS
    <3>2. Claim(k, from)' = w + 0 + z + Burst * s
      <4>1. NotYet(k)
        BY Zenon DEF RateInv, Refilled
      <4>2. Total(granted[k], from, limiterNow + 1) = w + 0
        BY <1>1, <1>2, <3>1, <4>1, TickGranted, Zenon
      <4>3. QED BY <1>1, <2>2, <2>3, <4>2, Zenon DEF Claim
    <3>3. limiterNow \in Nat
      BY <1>2, LimiterConstants DEF SumTypes
    <3>4. SUFFICES w + 0 + z + Burst * s <= (o + 1) * (Burst + Rate * ((limiterNow + 1) - from))
      BY <1>1, <2>2, <2>3, <3>2, Zenon DEF Within
    <3>5. CASE from = limiterNow + 1
      <4>1. from \in Nat /\ from - 1 = limiterNow /\ (limiterNow + 1) - from = 0
        BY <3>3, <3>5
      <4>2. w = 0
        BY <3>1, <4>1, TotalEmpty, Zenon
      <4>3. 0 + 0 + z + Burst * s <= (o + 1) * (Burst + Rate * 0)
        BY <2>4, <2>6, AllowanceFresh, Zenon
      <4>4. QED BY <4>1, <4>2, <4>3, Zenon
    <3>6. CASE from # limiterNow + 1
      <4>1. from \in 0 .. limiterNow /\ limiterNow - from \in Nat
        BY <3>3, <3>6
      <4>2. PICK n \in Nat : n = limiterNow - from
        BY <4>1, Zenon
      <4>3. (limiterNow + 1) - from = n + 1
        BY <3>3, <4>1, <4>2
      <4>4. w \in Nat
        BY <1>2, <3>1, <4>1, Zenon DEF SumTypes
      <4>5. PICK b \in Nat : b = Burst * s
        BY LimiterConstants
      <4>6. w + x + b <= (o + 1) * (Burst + Rate * n) /\ u <= o + 1
        <5>1. w + x + b <= (o + 1) * (Burst + Rate * n)
          BY <2>3, <3>1, <4>1, <4>2, <4>5, Zenon DEF RateInv, Budget, Within, Claim
        <5>2. QED BY <2>4, <5>1
      <4>7. w + 0 + z + b <= (o + 1) * (Burst + Rate * (n + 1))
        BY <2>6, <4>4, <4>6, AllowanceEarned, Zenon
      <4>8. QED BY <4>3, <4>5, <4>7, Zenon
    <3>7. QED BY <3>5, <3>6, Zenon
  <2>8. QED BY <1>1, <2>5, <2>7, Zenon DEF Budget
<1>5. QED BY <1>3, <1>4, Zenon DEF RateInv

\* The limiters of a key have taken and may take no more than the burst and the rate allow,
\* once and once more for every cleanup that a call of the key overlapped.
THEOREM RateInvariant == LimiterSpec => [](LimiterInv /\ RateInv)
<1>1. LimiterInit /\ LimiterInv => RateInv
  <2> SUFFICES ASSUME LimiterInit, LimiterInv, NEW k \in Keys
               PROVE  NotYet(k) /\ LastUsed(k) /\ DoomedFull(k) /\ Budget(k)
    BY Zenon DEF RateInv, Refilled
  <2>1. SumTypes
    BY SumsTyped, Zenon
  <2>2. NotYet(k) /\ LastUsed(k) /\ DoomedFull(k)
    BY Zenon DEF LimiterInit, NotYet, LastUsed, DoomedFull
  <2>3. InUse(k) = {}
    BY LimiterConstants, Zenon DEF LimiterInit, InUse
  <2>4. OverLimiters(Uses(k)) = 0 /\ OverLimiters(Left(k)) = 0
    <3>1. \A l \in Limiters : /\ Uses(k)[l] = 0 /\ Left(k)[l] = 0
      BY <2>1, <2>3, Zenon DEF SumTypes
    <3>2. \A l \in Limiters : /\ Uses(k)[l] \in Nat /\ Uses(k)[l] <= 0 * Uses(k)[l] + 0 * Uses(k)[l]
                              /\ Left(k)[l] \in Nat /\ Left(k)[l] <= 0 * Left(k)[l] + 0 * Left(k)[l]
      <4>1. 0 \in Nat /\ 0 <= 0 * 0 + 0 * 0
        OBVIOUS
      <4>2. QED BY <3>1, <4>1, Zenon
    <3>3. 0 \in Nat
      OBVIOUS
    <3>4. PICK u \in Nat, x \in Nat : u = OverLimiters(Uses(k)) /\ x = OverLimiters(Left(k))
      BY <2>1, Zenon DEF SumTypes
    <3>5. u <= 0 * u + 0 * u /\ x <= 0 * x + 0 * x
      BY <3>2, <3>3, <3>4, OverLimitersCompared, Zenon
    <3>6. u = 0 /\ x = 0
      BY <3>5
    <3>7. QED BY <3>4, <3>6, Zenon
  <2>5. Spares(k) = 1 /\ Overlaps(k) = 0
    <3>1. limiters[k] = 0 /\ raced[k] = 0 /\ touched = {}
      BY Zenon DEF LimiterInit
    <3>2. QED BY <3>1 DEF Spares, Marked, Overlaps
  <2>6. Slots(k) <= Overlaps(k) + 1
    BY <2>4, <2>5 DEF Slots
  <2>7. ASSUME NEW from \in 0 .. limiterNow PROVE Within(k, from)
    <3>1. limiterNow = 0 /\ from = 0 /\ granted[k][0] = 0
      BY LimiterConstants DEF LimiterInit
    <3>2. Total(granted[k], 0, 0) = Total(granted[k], 0, 0 - 1) + granted[k][0]
      <4>1. 0 \in Nat /\ 0 <= 0
        OBVIOUS
      <4>2. QED BY <4>1, TotalLast, Zenon
    <3>3. Total(granted[k], 0, 0 - 1) = 0
      BY TotalEmpty
    <3>4. Claim(k, from) = 0 + 0 + 0 + Burst * 1
      BY <2>4, <2>5, <3>1, <3>2, <3>3, Zenon DEF Claim
    <3>5. QED BY <2>5, <3>1, <3>4, LimiterConstants DEF Within
  <2>8. QED BY <2>2, <2>6, <2>7, Zenon DEF Budget
<1>2. LimiterInv /\ LimiterInv' /\ RateInv /\ [LimiterNext]_limiterVars => RateInv'
  BY QuietRate, LoadOrStoreRate, AllowRate, UpdateLastAccessRate, FindStaleRate, DeleteLimiterRate,
     DeleteTimestampRate, TickRate, Zenon
     DEF LimiterNext, LimiterStep
<1>3. QED BY <1>1, <1>2, LimiterInvariant, PTL DEF LimiterSpec

\* The limit holds, for any keys, calls, burst and rate: no period lets through more calls
\* of a key than the burst and the rate allow, but for the cleanups that calls overlapped.
THEOREM RatesBounded == LimiterSpec => []RateBounded
<1>1. LimiterInv /\ RateInv => RateBounded
  <2> SUFFICES ASSUME LimiterInv, RateInv, NEW k \in Keys, NEW from \in 0 .. limiterNow
               PROVE  Total(granted[k], from, limiterNow)
                        <= (Overlaps(k) + 1) * (Burst + Rate * (limiterNow - from))
    BY Zenon DEF RateBounded
  <2>1. /\ Overlaps(k) \in Nat /\ OverLimiters(Left(k)) \in Nat /\ Spares(k) \in Nat
        /\ Total(granted[k], from, limiterNow) \in Nat /\ limiterNow \in 0 .. MaxLimiterTime
    BY SumsTyped, Zenon DEF SumTypes
  <2>2. Burst * Spares(k) \in Nat
    BY <2>1, LimiterConstants
  <2>3. PICK y : y = (Overlaps(k) + 1) * (Burst + Rate * (limiterNow - from))
    OBVIOUS
  <2>4. y \in Int
    <3>1. PICK n \in Int : n = limiterNow - from
      BY <2>1, LimiterConstants
    <3>2. (Overlaps(k) + 1) * (Burst + Rate * n) \in Int
      BY <2>1, LimiterConstants
    <3>3. QED BY <2>3, <3>1, <3>2, Zenon
  <2>5. Total(granted[k], from, limiterNow) + OverLimiters(Left(k)) + Burst * Spares(k) <= y
    BY <2>3, Zenon DEF RateInv, Budget, Within, Claim
  <2>6. Total(granted[k], from, limiterNow) <= y
    BY <2>1, <2>2, <2>4, <2>5
  <2>7. QED BY <2>3, <2>6, Zenon
<1>2. QED BY <1>1, RateInvariant, PTL

==============================================================================
