----------------------------- MODULE ReplayProofs -----------------------------
(***************************************************************************)
(* Proofs about the event store and about replays, for any retention,      *)
(* length of a minute, lag of events, requests and sizes of the channel    *)
(* and of batches.                                                         *)
(*                                                                         *)
(* First what the loops over slices compute, by the least number of steps  *)
(* at which they would not; then the invariant of the store's list and     *)
(* index; then the result of a query, which that invariant orders, and its *)
(* pages; last the replays, each of which streams a snapshot of the store. *)
(***************************************************************************)
EXTENDS Replay, WellFoundedInduction, TLAPS

-----------------------------------------------------------------------------
(* Numbers and slices *)

\* A set of numbers that is not empty has a least one: the way to prove by induction.
LEMMA Least ==
  ASSUME NEW T \in SUBSET Nat, T # {}
  PROVE  \E x \in T : \A y \in T : x <= y
<1> DEFINE R == OpToRel(<, Nat)
<1>1. IsWellFoundedOn(R, Nat)
  BY NatLessThanWellFounded, Zenon
<1>2. PICK x \in T : \A y \in T : ~ (<<y, x>> \in R)
  BY <1>1, WFMin, Zenon
<1>3. ASSUME NEW y \in T PROVE ~ (y < x)
  <2>1. y \in Nat /\ x \in Nat
    OBVIOUS
  <2>2. <<y, x>> \in Nat \X Nat
    BY <2>1, Zenon
  <2>3. <<y, x>>[1] = y /\ <<y, x>>[2] = x
    OBVIOUS
  <2>4. (y < x) => <<y, x>> \in R
    BY <2>2, <2>3, Zenon DEF OpToRel
  <2>5. QED BY <2>4, <1>2, Zenon
<1>4. QED BY <1>3

\* There are not more elements than places for them.
LEMMA Pigeonhole ==
  ASSUME NEW n \in Nat, NEW m \in Nat, NEW f \in [1 .. n -> 1 .. m],
         \A j, k \in 1 .. n : f[j] = f[k] => j = k
  PROVE  n <= m
<1> DEFINE Into(x, y, g) == g \in [1 .. y -> 1 .. x] /\ \A j, k \in 1 .. y : g[j] = g[k] => j = k
           T == {x \in Nat : \E y \in Nat : y > x /\ \E g : Into(x, y, g)}
<1>1. T = {}
  <2> SUFFICES ASSUME T # {} PROVE FALSE
    BY Zenon
  <2>1. T \in SUBSET Nat
    BY Zenon
  <2>2. PICK x \in T : \A z \in T : x <= z
    BY <2>1, Least, Zenon
  <2>3. PICK y \in Nat : y > x /\ \E g : Into(x, y, g)
    BY <2>2, Zenon
  <2>4. PICK g : Into(x, y, g)
    BY <2>3, Zenon
  <2> DEFINE h == [k \in 1 .. y - 1 |-> IF g[k] = x THEN g[y] ELSE g[k]]
  <2>5. /\ x \in Nat /\ y \in 1 .. y /\ y - 1 \in Nat
        /\ \A k \in 1 .. y - 1 : k \in 1 .. y /\ k # y
    BY <2>2, <2>3
  <2>6. \A k \in 1 .. y : g[k] \in 1 .. x
    BY <2>4, Zenon
  <2>7. x - 1 \in Nat /\ x - 1 < x /\ y - 1 > x - 1 /\ \A z \in 1 .. x : z # x => z \in 1 .. x - 1
    <3>1. g[y] \in 1 .. x
      BY <2>5, <2>6, Zenon
    <3>2. QED BY <2>3, <2>5, <3>1
  <2>8. ASSUME NEW k \in 1 .. y - 1 PROVE h[k] \in 1 .. x - 1
    BY <2>5, <2>6, <2>4, <2>7, Zenon
  <2>9. ASSUME NEW j \in 1 .. y - 1, NEW k \in 1 .. y - 1, h[j] = h[k] PROVE j = k
    BY <2>4, <2>5, <2>9, Zenon
  <2>10. Into(x - 1, y - 1, h)
    BY <2>8, <2>9, Zenon
  <2> HIDE DEF h, Into
  <2>11. x - 1 \in T
    BY <2>5, <2>7, <2>10, Zenon
  <2>12. x <= x - 1
    BY <2>2, <2>11, Zenon
  <2>13. QED BY <2>5, <2>12
<1>2. Into(m, n, f)
  BY Zenon
<1> HIDE DEF Into
<1>3. ~ (n > m)
  BY <1>1, <1>2, Zenon
<1>4. QED BY <1>3

\* The results of the loop of Concat, after each of the first n slices.
Results(ss, n, f) ==
  f = [m \in 0 .. n |-> IF m = 0 THEN <<>> ELSE f[m - 1] \o ss[m]]

\* Concat computes what its loop does, one slice after the other.
LEMMA ConcatSteps ==
  ASSUME NEW ss, NEW l \in Nat
  PROVE  \E f : /\ f[0] = <<>>
                /\ \A m \in 1 .. l : f[m] = f[m - 1] \o ss[m]
                /\ Concat(ss, l) = f[l]
<1>1. \A n \in Nat : \E f : Results(ss, n, f)
  <2> DEFINE T == {n \in Nat : ~ \E f : Results(ss, n, f)}
  <2> SUFFICES ASSUME T # {} PROVE FALSE
    OBVIOUS
  <2>1. PICK n \in T : \A m \in T : n <= m
    BY Least, Zenon
  <2>2. CASE n = 0
    <3> DEFINE f == [m \in 0 .. 0 |-> <<>>]
    <3>1. f = [m \in 0 .. 0 |-> IF m = 0 THEN <<>> ELSE f[m - 1] \o ss[m]]
      OBVIOUS
    <3>2. QED BY <2>2, <3>1, Zenon DEF Results
  <2>3. CASE n # 0
    <3>1. n \in Nat /\ n - 1 \in Nat /\ ~ (n - 1 >= n)
      BY <2>3
    <3>2. PICK f : Results(ss, n - 1, f)
      BY <2>1, <3>1, Zenon
    <3> DEFINE g == [m \in 0 .. n |-> IF m = n THEN f[n - 1] \o ss[n] ELSE f[m]]
               h == [m \in 0 .. n |-> IF m = 0 THEN <<>> ELSE g[m - 1] \o ss[m]]
    <3>3. ASSUME NEW m \in 0 .. n PROVE g[m] = h[m]
      <4>1. \A p \in 0 .. n - 1 : f[p] = IF p = 0 THEN <<>> ELSE f[p - 1] \o ss[p]
        BY <3>2, Zenon DEF Results
      <4>2. CASE m = 0
        BY <2>3, <4>1, <4>2, <3>1
      <4>3. CASE m # 0
        <5>1. m - 1 \in 0 .. n - 1 /\ m - 1 \in 0 .. n /\ m - 1 # n
          BY <3>1, <4>3
        <5>2. g[m - 1] = f[m - 1]
          BY <5>1, Zenon
        <5>3. h[m] = f[m - 1] \o ss[m]
          BY <4>3, <5>2, Zenon
        <5>4. CASE m = n
          BY <5>3, <5>4, Zenon
        <5>5. CASE m # n
          <6>1. m \in 0 .. n - 1
            BY <3>1, <5>5
          <6>2. QED BY <4>1, <4>3, <5>3, <5>5, <6>1, Zenon
        <5>6. QED BY <5>4, <5>5, Zenon
      <4>4. QED BY <4>2, <4>3, Zenon
    <3>4. g = h
      BY <3>3, Zenon
    <3>5. Results(ss, n, g)
      BY <3>4, Zenon DEF Results
    <3>6. QED BY <3>5, Zenon
  <2>4. QED BY <2>2, <2>3, Zenon
<1>2. PICK f : f = CHOOSE g : Results(ss, l, g)
  OBVIOUS
<1>3. Results(ss, l, f)
  BY <1>1, <1>2, Zenon
<1>4. Concat(ss, l) = f[l]
  BY <1>2, Zenon DEF Concat, Results
<1>5. f[0] = <<>>
  BY <1>3 DEF Results
<1>6. ASSUME NEW m \in 1 .. l PROVE f[m] = f[m - 1] \o ss[m]
  <2>1. m \in 0 .. l /\ m # 0
    OBVIOUS
  <2>2. QED BY <1>3, <2>1, Zenon DEF Results
<1>7. QED BY <1>4, <1>5, <1>6, Zenon

\* Where the elements of c come from: the j-th one is element b[j] of the slice a[j].
Placed(ss, n, c, a, b) ==
  /\ \A j \in 1 .. Len(c) :
       a[j] \in 1 .. n /\ b[j] \in 1 .. Len(ss[a[j]]) /\ c[j] = ss[a[j]][b[j]]
  /\ \A m \in 1 .. n : \A p \in 1 .. Len(ss[m]) : \E j \in 1 .. Len(c) : a[j] = m /\ b[j] = p
  /\ \A j, k \in 1 .. Len(c) : j < k => a[j] < a[k] \/ (a[j] = a[k] /\ b[j] < b[k])

\* Concat has the elements of all slices, in their order.
LEMMA ConcatPlaced ==
  ASSUME NEW E, NEW l \in Nat, NEW ss, \A m \in 1 .. l : ss[m] \in Seq(E)
  PROVE  Concat(ss, l) \in Seq(E) /\ \E a, b : Placed(ss, l, Concat(ss, l), a, b)
<1>2. PICK f : /\ f[0] = <<>>
               /\ \A m \in 1 .. l : f[m] = f[m - 1] \o ss[m]
               /\ Concat(ss, l) = f[l]
  BY ConcatSteps, Zenon
<1> DEFINE P(n) == f[n] \in Seq(E) /\ \E a, b : Placed(ss, n, f[n], a, b)
           T == {n \in 0 .. l : ~P(n)}
<1>3. T = {}
  <2> SUFFICES ASSUME T # {} PROVE FALSE
    OBVIOUS
  <2>1. T \in SUBSET Nat
    OBVIOUS
  <2>2. PICK n \in T : \A m \in T : n <= m
    BY <2>1, Least, Zenon
  <2>3. CASE n = 0
    <3>1. f[0] \in Seq(E) /\ Len(f[0]) = 0
      BY <1>2
    <3>2. Placed(ss, 0, f[0], <<>>, <<>>)
      BY <3>1 DEF Placed
    <3>3. QED BY <2>2, <2>3, <3>1, <3>2, Zenon
  <2>4. CASE n # 0
    <3>1. n \in 1 .. l /\ n - 1 \in 0 .. l /\ ~ (n - 1 >= n) /\ n \in Nat
      BY <2>4
    <3>2. P(n - 1)
      BY <2>2, <3>1, Zenon
    <3>3. PICK a, b : Placed(ss, n - 1, f[n - 1], a, b)
      BY <3>2, Zenon
    <3>4. PICK c : c = f[n - 1]
      OBVIOUS
    <3>5. PICK d : d = ss[n]
      OBVIOUS
    <3>6. c \in Seq(E) /\ d \in Seq(E) /\ f[n] = c \o d
      BY <1>2, <3>1, <3>2, <3>4, <3>5, Zenon
    <3>7. /\ Len(c) \in Nat /\ Len(d) \in Nat /\ f[n] \in Seq(E) /\ Len(f[n]) = Len(c) + Len(d)
          /\ \A j \in 1 .. Len(c) : f[n][j] = c[j]
          /\ \A j \in 1 .. Len(c) + Len(d) : j > Len(c) => f[n][j] = d[j - Len(c)]
      BY <3>6
    <3> DEFINE A == [j \in 1 .. Len(c) + Len(d) |-> IF j <= Len(c) THEN a[j] ELSE n]
               B == [j \in 1 .. Len(c) + Len(d) |-> IF j <= Len(c) THEN b[j] ELSE j - Len(c)]
    <3>8. ASSUME NEW j \in 1 .. Len(c) + Len(d)
          PROVE  /\ j \in Int
                 /\ j <= Len(c) => j \in 1 .. Len(c) /\ A[j] = a[j] /\ B[j] = b[j]
                 /\ j > Len(c) => A[j] = n /\ B[j] = j - Len(c) /\ B[j] \in 1 .. Len(d)
      BY <3>7
    <3> HIDE DEF A, B
    <3>9. \A j \in 1 .. Len(c) :
            /\ a[j] \in 1 .. n - 1 /\ b[j] \in 1 .. Len(ss[a[j]]) /\ c[j] = ss[a[j]][b[j]]
      BY <3>3, <3>4, Zenon DEF Placed
    <3>10. ASSUME NEW j \in 1 .. Len(f[n])
           PROVE  A[j] \in 1 .. n /\ B[j] \in 1 .. Len(ss[A[j]]) /\ f[n][j] = ss[A[j]][B[j]]
      <4>0. j \in 1 .. Len(c) + Len(d)
        BY <3>7, Zenon
      <4>1. CASE j <= Len(c)
        <5>1. j \in 1 .. Len(c) /\ A[j] = a[j] /\ B[j] = b[j] /\ f[n][j] = c[j]
          BY <3>7, <3>8, <4>0, <4>1, Zenon
        <5>2. a[j] \in 1 .. n
          BY <3>1, <3>9, <5>1
        <5>3. QED BY <3>9, <5>1, <5>2, Zenon
      <4>2. CASE j > Len(c)
        <5>1. /\ A[j] = n /\ B[j] = j - Len(c) /\ B[j] \in 1 .. Len(d)
              /\ f[n][j] = d[j - Len(c)]
          BY <3>7, <3>8, <4>0, <4>2, Zenon
        <5>2. n \in 1 .. n
          BY <3>1
        <5>3. QED BY <3>5, <5>1, <5>2, Zenon
      <4>3. QED BY <3>7, <3>8, <4>0, <4>1, <4>2
    <3>11. ASSUME NEW m \in 1 .. n, NEW p \in 1 .. Len(ss[m])
           PROVE  \E j \in 1 .. Len(f[n]) : A[j] = m /\ B[j] = p
      <4>1. CASE m = n
        <5>1. p \in 1 .. Len(d) /\ Len(c) + p \in 1 .. Len(c) + Len(d) /\ Len(c) + p > Len(c)
              /\ (Len(c) + p) - Len(c) = p
          BY <3>5, <3>7, <4>1
        <5>2. QED BY <3>7, <3>8, <4>1, <5>1, Zenon
      <4>2. CASE m # n
        <5>1. m \in 1 .. n - 1
          BY <3>1, <4>2
        <5>2. PICK j \in 1 .. Len(c) : a[j] = m /\ b[j] = p
          BY <3>3, <3>4, <5>1 DEF Placed
        <5>3. j \in 1 .. Len(c) + Len(d) /\ j <= Len(c)
          BY <3>7
        <5>4. QED BY <3>7, <3>8, <5>2, <5>3, Zenon
      <4>3. QED BY <4>1, <4>2, Zenon
    <3>12. ASSUME NEW j \in 1 .. Len(f[n]), NEW k \in 1 .. Len(f[n]), j < k
           PROVE  A[j] < A[k] \/ (A[j] = A[k] /\ B[j] < B[k])
      <4>0. j \in 1 .. Len(c) + Len(d) /\ k \in 1 .. Len(c) + Len(d)
        BY <3>7, Zenon
      <4>1. CASE k <= Len(c)
        <5>1. j <= Len(c)
          BY <3>7, <3>8, <3>12, <4>0, <4>1
        <5>2. QED BY <3>3, <3>4, <3>8, <3>12, <4>0, <4>1, <5>1 DEF Placed
      <4>2. CASE j <= Len(c) /\ k > Len(c)
        <5>1. A[j] \in 1 .. n - 1 /\ A[k] = n
          BY <3>8, <3>9, <4>0, <4>2, Zenon
        <5>2. QED BY <3>1, <5>1
      <4>3. CASE j > Len(c)
        <5>1. k > Len(c) /\ j - Len(c) < k - Len(c)
          BY <3>7, <3>12, <4>0, <4>3
        <5>2. QED BY <3>8, <4>0, <4>3, <5>1, Zenon
      <4>4. QED BY <3>7, <3>8, <4>0, <4>1, <4>2, <4>3
    <3>13. Placed(ss, n, f[n], A, B)
      BY <3>10, <3>11, <3>12, Zenon DEF Placed
    <3>14. QED BY <2>2, <3>7, <3>13, Zenon
  <2>5. QED BY <2>3, <2>4, Zenon
<1>4. QED BY <1>2, <1>3

\* Where the elements of r come from: the j-th one is element a[j] of s.
Picked(s, K, r, a) ==
  /\ \A j \in 1 .. Len(r) : a[j] \in 1 .. Len(s) /\ s[a[j]] \in K /\ r[j] = s[a[j]]
  /\ \A m \in 1 .. Len(s) : s[m] \in K => \E j \in 1 .. Len(r) : a[j] = m
  /\ \A j, k \in 1 .. Len(r) : j < k => a[j] < a[k]

\* Filter has the elements that are in K, in the order of s.
LEMMA FilterPicked ==
  ASSUME NEW E, NEW s \in Seq(E), NEW K
  PROVE  Filter(s, K) \in Seq(E) /\ \E a : Picked(s, K, Filter(s, K), a)
<1>1. PICK ss : ss = [n \in DOMAIN s |-> IF s[n] \in K THEN <<s[n]>> ELSE <<>>]
  BY Zenon
<1>2. DOMAIN s = 1 .. Len(s) /\ Len(s) \in Nat /\ \A n \in 1 .. Len(s) : s[n] \in E
  OBVIOUS
<1>3. ASSUME NEW n \in 1 .. Len(s)
      PROVE  /\ ss[n] \in Seq(E)
             /\ s[n] \in K => Len(ss[n]) = 1 /\ ss[n][1] = s[n]
             /\ s[n] \notin K => Len(ss[n]) = 0
  BY <1>1, <1>2
<1>5. PICK r : r = Filter(s, K)
  OBVIOUS
<1>6. r = Concat(ss, Len(s))
  BY <1>1, <1>5, Zenon DEF Filter
<1>7. r \in Seq(E) /\ \E a, b : Placed(ss, Len(s), r, a, b)
  BY <1>2, <1>3, <1>6, ConcatPlaced, Zenon
<1>8. PICK a, b : Placed(ss, Len(s), r, a, b)
  BY <1>7, Zenon
<1>9. ASSUME NEW j \in 1 .. Len(r)
      PROVE  a[j] \in 1 .. Len(s) /\ s[a[j]] \in K /\ r[j] = s[a[j]] /\ b[j] = 1
  <2>1. a[j] \in 1 .. Len(s) /\ b[j] \in 1 .. Len(ss[a[j]]) /\ r[j] = ss[a[j]][b[j]]
    BY <1>8, Zenon DEF Placed
  <2>2. s[a[j]] \in K
    BY <1>3, <2>1
  <2>3. QED BY <1>3, <2>1, <2>2
<1>10. ASSUME NEW m \in 1 .. Len(s), s[m] \in K PROVE \E j \in 1 .. Len(r) : a[j] = m
  <2>1. 1 \in 1 .. Len(ss[m])
    BY <1>3, <1>10
  <2>2. QED BY <1>8, <2>1, Zenon DEF Placed
<1>11. ASSUME NEW j \in 1 .. Len(r), NEW k \in 1 .. Len(r), j < k PROVE a[j] < a[k]
  <2>1. b[j] = 1 /\ b[k] = 1
    BY <1>9, Zenon
  <2>2. a[j] < a[k] \/ (a[j] = a[k] /\ b[j] < b[k])
    BY <1>8, <1>11, Zenon DEF Placed
  <2>3. QED BY <2>1, <2>2
<1>12. Picked(s, K, r, a)
  BY <1>9, <1>10, <1>11, Zenon DEF Picked
<1>13. QED BY <1>5, <1>7, <1>12, Zenon

-----------------------------------------------------------------------------
(* The event store *)

\* Events in the order they were stored.
Sorted(s) == \A j, k \in 1 .. Len(s) : j < k => s[j].id < s[k].id

\* The elements of a slice.
LEMMA RangeElements ==
  ASSUME NEW E, NEW s \in Seq(E)
  PROVE  /\ \A x : x \in Range(s) <=> \E n \in 1 .. Len(s) : x = s[n]
         /\ Range(s) \subseteq E
         /\ Len(s) = 0 => Range(s) = {}
  BY DEF Range

\* A loop that filters events keeps their order and loses none that it should keep.
LEMMA FilterEvents ==
  ASSUME NEW s \in Seq(Event), Sorted(s), NEW K
  PROVE  /\ Filter(s, K) \in Seq(Event) /\ Sorted(Filter(s, K))
         /\ Range(Filter(s, K)) = Range(s) \cap K
<1>1. PICK r : r = Filter(s, K)
  OBVIOUS
<1>2. r \in Seq(Event) /\ \E a : Picked(s, K, r, a)
  BY <1>1, FilterPicked, Zenon
<1>3. PICK a : Picked(s, K, r, a)
  BY <1>2, Zenon
<1>4. Sorted(r)
  <2> SUFFICES ASSUME NEW j \in 1 .. Len(r), NEW k \in 1 .. Len(r), j < k
               PROVE  r[j].id < r[k].id
    BY Zenon DEF Sorted
  <2>1. a[j] \in 1 .. Len(s) /\ a[k] \in 1 .. Len(s) /\ a[j] < a[k]
    BY <1>3, Zenon DEF Picked
  <2>2. s[a[j]].id < s[a[k]].id
    BY <2>1, Zenon DEF Sorted
  <2>3. QED BY <1>3, <2>2, Zenon DEF Picked
<1>5. Range(r) = Range(s) \cap K
  <2>1. ASSUME NEW x \in Range(r) PROVE x \in Range(s) \cap K
    <3>1. PICK j \in 1 .. Len(r) : x = r[j]
      BY <1>2, RangeElements, Zenon
    <3>2. a[j] \in 1 .. Len(s) /\ x = s[a[j]] /\ x \in K
      BY <1>3, <3>1, Zenon DEF Picked
    <3>3. QED BY <3>2, RangeElements, Zenon
  <2>2. ASSUME NEW x \in Range(s), x \in K PROVE x \in Range(r)
    <3>1. PICK m \in 1 .. Len(s) : x = s[m]
      BY RangeElements, Zenon
    <3>2. PICK j \in 1 .. Len(r) : a[j] = m
      BY <1>3, <2>2, <3>1, Zenon DEF Picked
    <3>3. x = r[j]
      BY <1>3, <3>1, <3>2, Zenon DEF Picked
    <3>4. QED BY <1>2, <3>3, RangeElements, Zenon
  <2>3. QED BY <2>1, <2>2, Zenon
<1>6. QED BY <1>1, <1>2, <1>4, <1>5, Zenon

\* An event stored last is the newest.
LEMMA AppendEvent ==
  ASSUME NEW s \in Seq(Event), Sorted(s), NEW e \in Event, \A x \in Range(s) : x.id < e.id
  PROVE  /\ Append(s, e) \in Seq(Event) /\ Sorted(Append(s, e))
         /\ Range(Append(s, e)) = Range(s) \cup {e}
<1>1. PICK r : r = Append(s, e)
  BY Zenon
<1>2. /\ r \in Seq(Event) /\ Len(s) \in Nat /\ Len(r) = Len(s) + 1 /\ r[Len(s) + 1] = e
      /\ \A n \in 1 .. Len(s) : r[n] = s[n]
  BY <1>1
<1>3. \A n \in 1 .. Len(r) : n \in 1 .. Len(s) \/ n = Len(s) + 1
  BY <1>2
<1>4. Range(r) = Range(s) \cup {e}
  <2>1. \A n \in 1 .. Len(s) : n \in 1 .. Len(r)
    BY <1>2
  <2>2. Len(s) + 1 \in 1 .. Len(r)
    BY <1>2
  <2>3. QED BY <1>2, <1>3, <2>1, <2>2, RangeElements
<1>5. Sorted(r)
  <2> SUFFICES ASSUME NEW j \in 1 .. Len(r), NEW k \in 1 .. Len(r), j < k
               PROVE  r[j].id < r[k].id
    BY Zenon DEF Sorted
  <2>1. j \in 1 .. Len(s)
    BY <1>2
  <2>2. CASE k \in 1 .. Len(s)
    BY <1>2, <2>1, <2>2, Zenon DEF Sorted
  <2>3. CASE k = Len(s) + 1
    <3>1. s[j] \in Range(s)
      BY <2>1, RangeElements, Zenon
    <3>2. QED BY <1>2, <2>1, <2>3, <3>1, Zenon
  <2>4. QED BY <1>3, <2>2, <2>3, Zenon
<1>6. QED BY <1>1, <1>2, <1>4, <1>5, Zenon

\* Minutes are in the order of the times in them, and one is no longer than Minute.
LEMMA Buckets ==
  ASSUME NEW t \in Nat, NEW u \in Nat
  PROVE  /\ Bucket(t) \in Int
         /\ t <= u => Bucket(t) <= Bucket(u)
         /\ Bucket(t) <= Bucket(u) => t - Minute < u
<1>1. Minute \in Nat \ {0}
  BY EventStoreAssumption
<1>2. ASSUME NEW m \in Nat \ {0}, NEW v \in Nat
      PROVE  v \div m \in Int /\ m * (v \div m) <= v /\ v < m * (v \div m) + m
  OBVIOUS
<1>3. PICK x, y : x = Bucket(t) /\ y = Bucket(u)
  OBVIOUS
<1>4. /\ x \in Int /\ Minute * x <= t /\ t < Minute * x + Minute
      /\ y \in Int /\ Minute * y <= u /\ u < Minute * y + Minute
  BY <1>1, <1>2, <1>3, Zenon DEF Bucket
<1>5. t <= u => x <= y
  <2> SUFFICES ASSUME t <= u PROVE x <= y
    OBVIOUS
  <2>1. Minute * x < Minute * (y + 1)
    BY <1>1, <1>4
  <2>2. x < y + 1
    BY <1>1, <1>4, <2>1
  <2>3. QED BY <1>4, <2>2
<1>6. x <= y => t - Minute < u
  <2> SUFFICES ASSUME x <= y PROVE t - Minute < u
    OBVIOUS
  <2>1. Minute * x <= Minute * y
    BY <1>1, <1>4
  <2>2. QED BY <1>1, <1>4, <2>1
<1>7. QED BY <1>3, <1>4, <1>5, <1>6, Zenon

\* What the assumptions on the constants say.
LEMMA StoreConstants ==
  /\ MaxRetention \in Nat /\ Minute \in Nat \ {0} /\ MaxLag \in Nat /\ MaxEvents \in Nat
  /\ MaxStoreTime \in Nat /\ MaxLag < MaxRetention /\ MaxRetention <= MaxStoreTime
  BY EventStoreAssumption

\* What the lists of the store hold.  The IDs are the order in which events were stored; the
\* index has only events since the last Clear, in that order, and every event of the list;
\* the list has every such event that was not expired at the last cleanup.
Kept ==
  /\ \A k \in 1 .. Len(accepted) : accepted[k].id = k
  /\ Sorted(events) /\ Sorted(index)
  /\ \A e \in Range(index) : e.id \in cleared + 1 .. Len(accepted) /\ accepted[e.id] = e
  /\ Range(events) \subseteq Range(index)
  /\ \A k \in cleared + 1 .. Len(accepted) :
       accepted[k].ts > lastCleanup - MaxRetention => accepted[k] \in Range(events)

\* The inductive invariant of the store.
StoreInv ==
  /\ StoreTypeOK
  /\ MaxRetention <= storeNow /\ MaxRetention <= lastCleanup
  /\ Kept
  /\ IndexBounded

\* Storing an event, with and without the cleanup.
LEMMA StoreStep ==
  ASSUME StoreInv, NEW src \in Sources, NEW lag \in 0 .. MaxLag, Store(src, lag)
  PROVE  StoreInv'
<1>1. PICK e : e = [id |-> Len(accepted) + 1, ts |-> storeNow - lag, src |-> src]
  BY Zenon
<1>2. PICK es : es = Append(events, e)
  BY Zenon
<1>3. PICK ix : ix = Append(index, e)
  BY Zenon
<1> DEFINE cleanup == storeNow - lastCleanup > Minute
<1>4. /\ Len(accepted) < MaxEvents /\ accepted' = Append(accepted, e)
      /\ events' = IF cleanup THEN Filter(es, {x \in Event : KeptEvent(x)}) ELSE es
      /\ index' = IF cleanup THEN Filter(ix, {x \in Event : KeptBucket(x)}) ELSE ix
      /\ lastCleanup' = IF cleanup THEN storeNow ELSE lastCleanup
      /\ storeNow' = storeNow /\ cleared' = cleared
  BY <1>1, <1>2, <1>3, Zenon DEF Store
<1>5. /\ events \in Seq(Event) /\ index \in Seq(Event) /\ accepted \in Seq(Event)
      /\ storeNow \in 0 .. MaxStoreTime /\ storeNow \in Nat
      /\ lastCleanup \in Nat /\ lastCleanup <= storeNow
      /\ MaxRetention <= storeNow /\ MaxRetention <= lastCleanup
      /\ cleared \in 0 .. Len(accepted) /\ Len(accepted) \in Nat
  BY StoreConstants DEF StoreInv, StoreTypeOK
<1>6. /\ e \in Event /\ e.id = Len(accepted) + 1 /\ e.ts \in Nat
      /\ e.ts > storeNow - MaxRetention /\ e.ts <= storeNow
  <2>1. Len(accepted) + 1 \in 1 .. MaxEvents /\ storeNow - lag \in 0 .. MaxStoreTime
        /\ storeNow - lag > storeNow - MaxRetention /\ storeNow - lag <= storeNow
    BY <1>4, <1>5, StoreConstants
  <2>2. QED BY <1>1, <2>1 DEF Event
<1>7. \A x \in Range(index) : x.id < e.id
  BY <1>5, <1>6 DEF StoreInv, Kept
<1>8. /\ ix \in Seq(Event) /\ Sorted(ix) /\ Range(ix) = Range(index) \cup {e}
  BY <1>3, <1>5, <1>6, <1>7, AppendEvent, Zenon DEF StoreInv, Kept
<1>9. /\ es \in Seq(Event) /\ Sorted(es) /\ Range(es) = Range(events) \cup {e}
  BY <1>2, <1>5, <1>6, <1>7, AppendEvent, Zenon DEF StoreInv, Kept
<1>10. /\ accepted' \in Seq(Event) /\ Len(accepted') = Len(accepted) + 1
       /\ accepted'[Len(accepted) + 1] = e
       /\ \A k \in 1 .. Len(accepted) : accepted'[k] = accepted[k]
       /\ \A k \in 1 .. Len(accepted) + 1 : k \in 1 .. Len(accepted) \/ k = Len(accepted) + 1
  BY <1>4, <1>5, <1>6
<1>11. /\ events' \in Seq(Event) /\ Sorted(events')
       /\ Range(events') = {x \in Range(es) : cleanup => KeptEvent(x)}
  <2>1. CASE cleanup
    <3>1. Range(events') = Range(es) \cap {x \in Event : KeptEvent(x)}
      BY <1>4, <1>9, <2>1, FilterEvents, Zenon
    <3>2. Range(es) \subseteq Event
      BY <1>9, RangeElements, Zenon
    <3>3. QED BY <1>4, <1>9, <2>1, <3>1, <3>2, FilterEvents, Zenon
  <2>2. CASE ~cleanup
    BY <1>4, <1>9, <2>2, Zenon
  <2>3. QED BY <2>1, <2>2, Zenon
<1>12. /\ index' \in Seq(Event) /\ Sorted(index')
       /\ Range(index') = {x \in Range(ix) : cleanup => KeptBucket(x)}
  <2>1. CASE cleanup
    <3>1. Range(index') = Range(ix) \cap {x \in Event : KeptBucket(x)}
      BY <1>4, <1>8, <2>1, FilterEvents, Zenon
    <3>2. Range(ix) \subseteq Event
      BY <1>8, RangeElements, Zenon
    <3>3. QED BY <1>4, <1>8, <2>1, <3>1, <3>2, FilterEvents, Zenon
  <2>2. CASE ~cleanup
    BY <1>4, <1>8, <2>2, Zenon
  <2>3. QED BY <2>1, <2>2, Zenon
<1>13. \A x \in Event : x.ts \in Nat
  BY StoreConstants DEF Event
<1>14. lastCleanup' \in Nat /\ lastCleanup' <= storeNow /\ MaxRetention <= lastCleanup'
       /\ lastCleanup <= lastCleanup' /\ (cleanup => lastCleanup' = storeNow)
  BY <1>4, <1>5
<1>15. StoreTypeOK'
  <2>1. cleared' \in 0 .. Len(accepted') /\ storeNow' \in 0 .. MaxStoreTime
        /\ lastCleanup' \in 0 .. storeNow'
    BY <1>4, <1>5, <1>10, <1>14
  <2>2. QED BY <1>10, <1>11, <1>12, <2>1, Zenon DEF StoreTypeOK
<1>16. IndexBounded'
  <2> SUFFICES ASSUME NEW x \in Range(index')
               PROVE  x.ts > lastCleanup' - MaxRetention - Minute
    BY Zenon DEF IndexBounded
  <2>1. x \in Event /\ x.ts \in Nat
    BY <1>12, <1>13, RangeElements, Zenon
  <2>2. CASE cleanup
    <3>1. KeptBucket(x) /\ CutoffTime \in Nat /\ CutoffTime = storeNow - MaxRetention
      BY <1>5, <1>12, <2>2, StoreConstants DEF CutoffTime
    <3>2. CutoffTime - Minute < x.ts
      BY <2>1, <3>1, Buckets, Zenon DEF KeptBucket
    <3>3. QED BY <1>14, <2>1, <2>2, <3>1, <3>2, StoreConstants, Zenon
  <2>3. CASE ~cleanup
    <3>1. CASE x \in Range(index)
      BY <1>4, <2>3, <3>1, Zenon DEF StoreInv, IndexBounded
    <3>2. CASE x = e
      <4>1. x.ts > storeNow - MaxRetention
        BY <1>6, <3>2, Zenon
      <4>2. QED BY <1>5, <1>14, <2>1, <4>1, StoreConstants
    <3>3. QED BY <1>8, <1>12, <3>1, <3>2, Zenon
  <2>4. QED BY <2>2, <2>3, Zenon
<1>17. Kept'
  <2>1. \A k \in 1 .. Len(accepted') : accepted'[k].id = k
    BY <1>6, <1>10, Zenon DEF StoreInv, Kept
  <2>2. ASSUME NEW x \in Range(index')
        PROVE  x.id \in cleared + 1 .. Len(accepted') /\ accepted'[x.id] = x
    <3>1. CASE x \in Range(index)
      <4>1. x.id \in cleared + 1 .. Len(accepted) /\ accepted[x.id] = x
        BY <3>1, Zenon DEF StoreInv, Kept
      <4>2. x.id \in 1 .. Len(accepted) /\ x.id \in cleared + 1 .. Len(accepted) + 1
        BY <1>5, <4>1
      <4>3. QED BY <1>10, <4>1, <4>2, Zenon
    <3>2. CASE x = e
      BY <1>5, <1>6, <1>10, <3>2
    <3>3. QED BY <1>8, <1>12, <3>1, <3>2, Zenon
  <2>3. Range(events') \subseteq Range(index')
    <3> SUFFICES ASSUME NEW x \in Range(events') PROVE x \in Range(index')
      OBVIOUS
    <3>1. x \in Range(es) /\ x \in Range(ix) /\ x \in Event /\ x.ts \in Nat
      BY <1>8, <1>9, <1>11, <1>13, RangeElements, Zenon DEF StoreInv, Kept
    <3>2. cleanup => KeptBucket(x)
      <4> SUFFICES ASSUME cleanup PROVE KeptBucket(x)
        OBVIOUS
      <4>1. x.ts > CutoffTime /\ CutoffTime \in Nat
        BY <1>5, <1>11, StoreConstants DEF KeptEvent, CutoffTime
      <4>2. CutoffTime <= x.ts /\ Bucket(CutoffTime) \in Int /\ Bucket(x.ts) \in Int
        BY <3>1, <4>1, Buckets
      <4>3. Bucket(CutoffTime) <= Bucket(x.ts)
        BY <3>1, <4>1, <4>2, Buckets, Zenon
      <4>4. QED BY <4>2, <4>3, Zenon DEF KeptBucket
    <3>3. QED BY <1>12, <3>1, <3>2, Zenon
  <2>4. ASSUME NEW k \in cleared + 1 .. Len(accepted'),
               accepted'[k].ts > lastCleanup' - MaxRetention
        PROVE  accepted'[k] \in Range(events')
    <3>1. k \in 1 .. Len(accepted') /\ (k \in cleared + 1 .. Len(accepted) \/ k = Len(accepted) + 1)
      BY <1>5, <1>10
    <3>2. accepted'[k] \in Event /\ accepted'[k].ts \in Nat
      BY <1>10, <1>13, <3>1
    <3>3. accepted'[k].ts > lastCleanup - MaxRetention
      BY <1>5, <1>14, <2>4, <3>2, StoreConstants
    <3>4. accepted'[k] \in Range(es)
      <4>1. CASE k = Len(accepted) + 1
        BY <1>9, <1>10, <4>1, Zenon
      <4>2. CASE k \in cleared + 1 .. Len(accepted)
        <5>1. accepted'[k] = accepted[k]
          BY <1>5, <1>10, <4>2
        <5>2. QED BY <1>9, <3>3, <4>2, <5>1, Zenon DEF StoreInv, Kept
      <4>3. QED BY <3>1, <4>1, <4>2, Zenon
    <3>5. cleanup => KeptEvent(accepted'[k])
      BY <1>14, <2>4, Zenon DEF KeptEvent, CutoffTime
    <3>6. QED BY <1>11, <3>4, <3>5, Zenon
  <2>5. QED BY <1>4, <1>11, <1>12, <2>1, <2>2, <2>3, <2>4, Zenon DEF Kept
<1>18. QED BY <1>4, <1>5, <1>14, <1>15, <1>16, <1>17, Zenon DEF StoreInv

\* Clear leaves nothing that the invariant asks for.
LEMMA ClearStep == ASSUME StoreInv, Clear PROVE StoreInv'
<1>1. /\ events' = <<>> /\ index' = <<>> /\ cleared' = Len(accepted)
      /\ UNCHANGED <<storeNow, lastCleanup, accepted>>
  BY Zenon DEF Clear
<1>2. /\ accepted \in Seq(Event) /\ Len(accepted) \in Nat
      /\ events' \in Seq(Event) /\ index' \in Seq(Event) /\ Len(events') = 0 /\ Len(index') = 0
  BY <1>1 DEF StoreInv, StoreTypeOK
<1>3. Range(events') = {} /\ Range(index') = {}
  BY <1>2, RangeElements, Zenon
<1>4. StoreTypeOK' /\ IndexBounded'
  BY <1>1, <1>2, <1>3 DEF StoreInv, StoreTypeOK, IndexBounded
<1>5. Kept'
  BY <1>1, <1>2, <1>3 DEF StoreInv, Kept, Sorted
<1>6. QED BY <1>1, <1>4, <1>5, Zenon DEF StoreInv

\* The clock moves on; nothing expires before the next cleanup.
LEMMA StoreTickStep == ASSUME StoreInv, StoreTick \/ UNCHANGED storeVars PROVE StoreInv'
<1>1. /\ storeNow' \in 0 .. MaxStoreTime /\ storeNow <= storeNow'
      /\ UNCHANGED <<lastCleanup, events, index, accepted, cleared>>
  BY StoreConstants DEF StoreInv, StoreTypeOK, StoreTick, storeVars
<1>2. storeNow \in Nat /\ storeNow' \in Nat /\ lastCleanup \in 0 .. storeNow'
  BY <1>1, StoreConstants DEF StoreInv, StoreTypeOK
<1>3. MaxRetention <= storeNow'
  BY <1>1, <1>2, StoreConstants DEF StoreInv
<1>4. StoreTypeOK' /\ IndexBounded'
  BY <1>1, <1>2, Zenon DEF StoreInv, StoreTypeOK, IndexBounded
<1>5. Kept'
  BY <1>1, Zenon DEF StoreInv, Kept, Sorted
<1>6. QED BY <1>1, <1>3, <1>4, <1>5, Zenon DEF StoreInv

\* A step of the store keeps its invariant.
LEMMA StoreNextInv == ASSUME StoreInv, [StoreNext]_storeVars PROVE StoreInv'
  BY StoreStep, ClearStep, StoreTickStep, Zenon DEF StoreNext

\* A new store satisfies it.
LEMMA StoreInitInv == StoreInit => StoreInv
<1> SUFFICES ASSUME StoreInit PROVE StoreInv
  OBVIOUS
<1>1. /\ storeNow = MaxRetention /\ lastCleanup = storeNow /\ cleared = 0
      /\ events = <<>> /\ index = <<>> /\ accepted = <<>>
  BY Zenon DEF StoreInit
<1>2. /\ events \in Seq(Event) /\ index \in Seq(Event) /\ accepted \in Seq(Event)
      /\ Len(events) = 0 /\ Len(index) = 0 /\ Len(accepted) = 0
  BY <1>1
<1>3. Range(events) = {} /\ Range(index) = {}
  BY <1>2, RangeElements, Zenon
<1>4. StoreTypeOK
  BY <1>1, <1>2, StoreConstants DEF StoreTypeOK
<1>5. Kept /\ IndexBounded
  BY <1>1, <1>2, <1>3 DEF Kept, Sorted, IndexBounded
<1>6. QED BY <1>1, <1>4, <1>5, StoreConstants DEF StoreInv

\* InMemoryEventStore keeps what its invariant says, for any retention, length of a minute
\* and lag of events, whatever calls of Store and Clear it gets.
THEOREM StoreInvariant == StoreSpec => []StoreInv
<1>1. QED BY StoreInitInv, StoreNextInv, PTL DEF StoreSpec

\* Store loses no event before its time: one within the retention period, stored since the
\* last Clear, is found by GetByID, whatever cleanups ran.
THEOREM RetainedToExpiry == StoreSpec => []RetainedUntilExpiry
<1>1. StoreInv => RetainedUntilExpiry
  <2> SUFFICES ASSUME StoreInv, NEW k \in cleared + 1 .. Len(accepted),
                      accepted[k].ts > storeNow - MaxRetention
               PROVE  GetByID(k) = {accepted[k]}
    BY Zenon DEF RetainedUntilExpiry
  <2>1. /\ lastCleanup \in Nat /\ lastCleanup <= storeNow /\ storeNow \in Nat
        /\ cleared \in Nat /\ Len(accepted) \in Nat /\ k \in 1 .. Len(accepted)
        /\ accepted \in Seq(Event)
    BY StoreConstants DEF StoreInv, StoreTypeOK
  <2>2. accepted[k].ts \in Nat
    <3>1. accepted[k] \in Event
      BY <2>1
    <3>2. QED BY <3>1, StoreConstants DEF Event
  <2>3. accepted[k].ts > lastCleanup - MaxRetention
    BY <2>1, <2>2, StoreConstants
  <2>4. accepted[k] \in Range(events) /\ accepted[k].id = k
    BY <2>1, <2>3, Zenon DEF StoreInv, Kept
  <2>5. \A e \in Range(events) : accepted[e.id] = e
    BY Zenon DEF StoreInv, Kept
  <2>6. QED BY <2>4, <2>5, Zenon DEF GetByID
<1>2. QED BY <1>1, StoreInvariant, PTL

\* The list and timeBuckets agree, up to what the last cleanup expired.
THEOREM IndexCovers == StoreSpec => []IndexCoversEvents
<1>1. StoreInv => IndexCoversEvents
  <2> SUFFICES ASSUME StoreInv, NEW e \in Range(index) \ Range(events)
               PROVE  e.ts <= lastCleanup - MaxRetention
    BY Zenon DEF StoreInv, Kept, IndexCoversEvents
  <2>1. e.id \in cleared + 1 .. Len(accepted) /\ accepted[e.id] = e
    BY Zenon DEF StoreInv, Kept
  <2>2. ~ (e.ts > lastCleanup - MaxRetention)
    BY <2>1, Zenon DEF StoreInv, Kept
  <2>3. e.ts \in Nat /\ lastCleanup \in Int
    <3>1. index \in Seq(Event) /\ lastCleanup \in Int
      BY StoreConstants DEF StoreInv, StoreTypeOK
    <3>2. e \in Event
      BY <3>1, RangeElements, Zenon
    <3>3. QED BY <3>1, <3>2, StoreConstants DEF Event
  <2>4. QED BY <2>2, <2>3, StoreConstants
<1>2. QED BY <1>1, StoreInvariant, PTL

\* timeBuckets does not grow without bound: cleanup leaves nothing that is older than the
\* retention period by a minute.
THEOREM IndexStaysBounded == StoreSpec => []IndexBounded
<1>1. StoreInv => IndexBounded
  BY Zenon DEF StoreInv
<1>2. QED BY <1>1, StoreInvariant, PTL

-----------------------------------------------------------------------------
(* Queries *)

\* The events of a range, by minute and within a minute in the order they were stored.
ByMinute(s) ==
  \A j, k \in 1 .. Len(s) : j < k =>
    \/ Bucket(s[j].ts) < Bucket(s[k].ts)
    \/ (Bucket(s[j].ts) = Bucket(s[k].ts) /\ s[j].id < s[k].id)

\* The result of queryByTime: the minutes one after the other, each filtered.
LEMMA QueryByMinute ==
  ASSUME StoreInv, NEW q, q.start \in Nat, q.end \in Nat, q.start <= q.end
  PROVE  /\ QueryByTime(q) \in Seq(Event)
         /\ Range(QueryByTime(q)) = {e \in Range(index) : Selected(q, e)}
         /\ ByMinute(QueryByTime(q))
<1> DEFINE first == Bucket(q.start)
           In(k) == {e \in Event : Bucket(e.ts) = first + k - 1 /\ Selected(q, e)}
<1>1. PICK ss : ss = [k \in 1 .. Scanned(q) |-> Filter(index, In(k))]
  BY Zenon
<1>2. PICK l : l = Scanned(q)
  OBVIOUS
<1>3. PICK r : r = QueryByTime(q)
  OBVIOUS
<1>4. r = Concat(ss, l)
  BY <1>1, <1>2, <1>3, Zenon DEF QueryByTime
<1>5. first \in Int /\ Bucket(q.end) \in Int /\ l = Bucket(q.end) - first + 1 /\ l \in Nat
  <2>1. first \in Int /\ Bucket(q.end) \in Int /\ first <= Bucket(q.end)
    BY Buckets, Zenon
  <2> HIDE DEF first
  <2>2. l = Bucket(q.end) - first + 1
    BY <1>2, Zenon DEF Scanned, first
  <2>3. QED BY <2>1, <2>2
<1>6. index \in Seq(Event) /\ Sorted(index)
  BY Zenon DEF StoreInv, StoreTypeOK, Kept
<1>7. ASSUME NEW k \in 1 .. l
      PROVE  ss[k] \in Seq(Event) /\ Sorted(ss[k]) /\ Range(ss[k]) = Range(index) \cap In(k)
  <2>1. ss[k] = Filter(index, In(k))
    BY <1>1, <1>2, Zenon
  <2> HIDE DEF In
  <2>2. QED BY <1>6, <2>1, FilterEvents, Zenon
<1>8. r \in Seq(Event) /\ \E a, b : Placed(ss, l, r, a, b)
  BY <1>4, <1>5, <1>7, ConcatPlaced, Zenon
<1>9. PICK a, b : Placed(ss, l, r, a, b)
  BY <1>8, Zenon
<1>10. ASSUME NEW j \in 1 .. Len(r)
       PROVE  /\ a[j] \in 1 .. l /\ b[j] \in 1 .. Len(ss[a[j]]) /\ r[j] = ss[a[j]][b[j]]
              /\ r[j] \in Range(index) /\ Bucket(r[j].ts) = first + a[j] - 1 /\ Selected(q, r[j])
  <2>1. a[j] \in 1 .. l /\ b[j] \in 1 .. Len(ss[a[j]]) /\ r[j] = ss[a[j]][b[j]]
    BY <1>9, Zenon DEF Placed
  <2>2. ss[a[j]] \in Seq(Event) /\ Range(ss[a[j]]) = Range(index) \cap In(a[j])
    BY <1>7, <2>1, Zenon
  <2>3. r[j] \in Range(ss[a[j]])
    BY <2>1, <2>2, RangeElements, Zenon
  <2>4. r[j] \in Range(index) /\ r[j] \in In(a[j])
    BY <2>2, <2>3, Zenon
  <2>5. QED BY <2>1, <2>4, Zenon
<1>11. Range(r) = {e \in Range(index) : Selected(q, e)}
  <2>1. ASSUME NEW x \in Range(r) PROVE x \in Range(index) /\ Selected(q, x)
    <3>1. PICK j \in 1 .. Len(r) : x = r[j]
      BY <1>8, RangeElements, Zenon
    <3>2. QED BY <1>10, <3>1, Zenon
  <2>2. ASSUME NEW x \in Range(index), Selected(q, x) PROVE x \in Range(r)
    <3>1. x \in Event /\ x.ts \in Nat
      <4>1. x \in Event
        BY <1>6, RangeElements, Zenon
      <4>2. QED BY <4>1, StoreConstants DEF Event
    <3>2. q.start <= x.ts /\ x.ts <= q.end
      BY <2>2, Zenon DEF Selected
    <3>3. /\ Bucket(x.ts) \in Int /\ first <= Bucket(x.ts) /\ Bucket(x.ts) <= Bucket(q.end)
      BY <3>1, <3>2, Buckets, Zenon
    <3>4. PICK k : k = Bucket(x.ts) - first + 1
      OBVIOUS
    <3>5. k \in 1 .. l /\ Bucket(x.ts) = first + k - 1
      <4> HIDE DEF first
      <4>1. QED BY <1>5, <3>3, <3>4
    <3>6. x \in Range(ss[k]) /\ ss[k] \in Seq(Event)
      BY <1>7, <2>2, <3>1, <3>5, Zenon
    <3>7. PICK p \in 1 .. Len(ss[k]) : x = ss[k][p]
      BY <3>6, RangeElements, Zenon
    <3>8. PICK j \in 1 .. Len(r) : a[j] = k /\ b[j] = p
      BY <1>9, <3>5, <3>7, Zenon DEF Placed
    <3>9. x = r[j]
      BY <1>10, <3>7, <3>8, Zenon
    <3>10. QED BY <1>8, <3>9, RangeElements, Zenon
  <2>3. QED BY <2>1, <2>2, Zenon
<1>12. ByMinute(r)
  <2> SUFFICES ASSUME NEW j \in 1 .. Len(r), NEW k \in 1 .. Len(r), j < k
               PROVE  \/ Bucket(r[j].ts) < Bucket(r[k].ts)
                      \/ (Bucket(r[j].ts) = Bucket(r[k].ts) /\ r[j].id < r[k].id)
    BY Zenon DEF ByMinute
  <2> HIDE DEF first
  <2>1. /\ a[j] \in 1 .. l /\ Bucket(r[j].ts) = first + a[j] - 1
        /\ a[k] \in 1 .. l /\ Bucket(r[k].ts) = first + a[k] - 1
    BY <1>10, Zenon
  <2>2. CASE a[j] < a[k]
    BY <1>5, <2>1, <2>2
  <2>3. CASE a[j] = a[k] /\ b[j] < b[k]
    <3>1. /\ b[j] \in 1 .. Len(ss[a[j]]) /\ r[j] = ss[a[j]][b[j]]
          /\ b[k] \in 1 .. Len(ss[a[j]]) /\ r[k] = ss[a[j]][b[k]]
      BY <1>10, <2>3, Zenon
    <3>2. Sorted(ss[a[j]])
      BY <1>7, <2>1, Zenon
    <3>3. QED BY <2>1, <2>3, <3>1, <3>2, Zenon DEF Sorted
  <2>4. QED BY <1>9, <2>2, <2>3, Zenon DEF Placed
<1>13. QED BY <1>3, <1>8, <1>11, <1>12, Zenon

\* The range of a query.
LEMMA QueryRange ==
  ASSUME StoreInv, NEW q \in Queries
  PROVE  q.start \in Nat /\ q.end \in Nat /\ q.start <= q.end
<1>1. q \in [start : 0 .. storeNow, end : 0 .. storeNow,
             filter : {{}} \cup {{src} : src \in Sources}] /\ q.start <= q.end
  BY Zenon DEF Queries
<1>2. storeNow \in Nat
  BY StoreConstants DEF StoreInv, StoreTypeOK
<1>3. QED BY <1>1, <1>2

\* queryByTime is exact, for any retention and any times and lags of events: it returns the
\* indexed events of the range that the filter admits, by minute and in the order stored.
THEOREM QueriesAreExact == StoreSpec => []QueriesExact
<1>1. StoreInv => QueriesExact
  <2> SUFFICES ASSUME StoreInv, NEW q \in Queries
               PROVE  /\ Range(QueryByTime(q)) = {e \in Range(index) : Selected(q, e)}
                      /\ \A j, k \in DOMAIN QueryByTime(q) : j < k =>
                           \/ Bucket(QueryByTime(q)[j].ts) < Bucket(QueryByTime(q)[k].ts)
                           \/ /\ Bucket(QueryByTime(q)[j].ts) = Bucket(QueryByTime(q)[k].ts)
                              /\ QueryByTime(q)[j].id < QueryByTime(q)[k].id
    BY Zenon DEF QueriesExact
  <2>1. q.start \in Nat /\ q.end \in Nat /\ q.start <= q.end
    BY QueryRange, Zenon
  <2>2. PICK r : r = QueryByTime(q)
    OBVIOUS
  <2>3. /\ r \in Seq(Event) /\ ByMinute(r)
        /\ Range(r) = {e \in Range(index) : Selected(q, e)}
    BY <2>1, <2>2, QueryByMinute, Zenon
  <2>4. DOMAIN r = 1 .. Len(r)
    BY <2>3
  <2>5. QED BY <2>2, <2>3, <2>4, Zenon DEF ByMinute
<1>2. QED BY <1>1, StoreInvariant, PTL

-----------------------------------------------------------------------------
(* Pages *)

\* Slices with the same elements are equal.
LEMMA SameSequence ==
  ASSUME NEW E, NEW u \in Seq(E), NEW w \in Seq(E), Len(u) = Len(w),
         \A n \in 1 .. Len(u) : u[n] = w[n]
  PROVE  u = w
  OBVIOUS

\* Two slices of s, the second from where the first ends.
LEMMA SubSeqJoin ==
  ASSUME NEW E, NEW s \in Seq(E), NEW x \in 0 .. Len(s), NEW y \in x .. Len(s)
  PROVE  SubSeq(s, 1, x) \o SubSeq(s, x + 1, y) = SubSeq(s, 1, y)
<1>1. Len(s) \in Nat /\ x \in Nat /\ y \in Nat /\ x <= y /\ y <= Len(s)
  OBVIOUS
<1>2. PICK u, v, w : u = SubSeq(s, 1, x) /\ v = SubSeq(s, x + 1, y) /\ w = SubSeq(s, 1, y)
  BY Zenon
<1>3. u \in Seq(E) /\ Len(u) = x /\ \A n \in 1 .. x : u[n] = s[n]
  BY <1>1, <1>2
<1>4. w \in Seq(E) /\ Len(w) = y /\ \A n \in 1 .. y : w[n] = s[n]
  BY <1>1, <1>2
<1>5. v \in Seq(E) /\ Len(v) = y - x /\ \A n \in 1 .. y - x : v[n] = s[x + n]
  BY <1>1, <1>2
<1>6. PICK r : r = u \o v
  BY Zenon
<1>7. x + (y - x) = y
  BY <1>1
<1>8. r \in Seq(E) /\ Len(r) = y /\ \A n \in 1 .. y : r[n] = IF n <= x THEN u[n] ELSE v[n - x]
  <2>1. /\ r \in Seq(E) /\ Len(r) = Len(u) + Len(v)
        /\ \A n \in 1 .. Len(r) : r[n] = IF n <= Len(u) THEN u[n] ELSE v[n - Len(u)]
    <3>1. u \in Seq(E) /\ v \in Seq(E)
      BY <1>3, <1>5, Zenon
    <3>2. QED BY <1>6, <3>1
  <2>2. Len(r) = y
    BY <1>3, <1>5, <1>7, <2>1, Zenon
  <2>3. QED BY <1>3, <2>1, <2>2, Zenon
<1>9. ASSUME NEW n \in 1 .. y PROVE r[n] = w[n]
  <2>1. CASE n <= x
    <3>1. n \in 1 .. x
      BY <1>1, <2>1
    <3>2. QED BY <1>3, <1>4, <1>8, <2>1, <3>1, Zenon
  <2>2. CASE ~ (n <= x)
    <3>1. n - x \in 1 .. y - x /\ x + (n - x) = n
      BY <1>1, <2>2
    <3>2. v[n - x] = s[n]
      BY <1>5, <3>1, Zenon
    <3>3. QED BY <1>4, <1>8, <2>2, <3>2, Zenon
  <2>3. QED BY <2>1, <2>2, Zenon
<1>10. r = w
  BY <1>4, <1>8, <1>9, SameSequence, Zenon
<1>11. QED BY <1>2, <1>6, <1>10, Zenon

\* The page that starts after the first x events.
PageFrom(all, x, size) ==
  IF x >= Len(all) THEN <<>>
  ELSE SubSeq(all, x + 1, IF x + size > Len(all) THEN Len(all) ELSE x + size)

\* The pages of a slice, one after the other, are the slice.
LEMMA PagesMakeUp ==
  ASSUME NEW all \in Seq(Event), NEW size \in Nat \ {0}, NEW l \in Nat, Len(all) <= l,
         NEW pages, \A n \in 1 .. l : pages[n] = PageFrom(all, (n - 1) * size, size)
  PROVE  Concat(pages, l) = all
<1> DEFINE Upto(x) == SubSeq(all, 1, IF x < Len(all) THEN x ELSE Len(all))
<1>1. Len(all) \in Nat /\ \A m, n \in Nat : m * n \in Nat
  OBVIOUS
<1>2. ASSUME NEW x \in Nat PROVE Upto(x) \o PageFrom(all, x, size) = Upto(x + size)
  <2>1. CASE x >= Len(all)
    <3>1. Upto(x) = SubSeq(all, 1, Len(all)) /\ Upto(x + size) = SubSeq(all, 1, Len(all))
      BY <1>1, <2>1
    <3>2. SubSeq(all, 1, Len(all)) \in Seq(Event)
      BY <1>1
    <3>3. SubSeq(all, 1, Len(all)) \o <<>> = SubSeq(all, 1, Len(all))
      BY <3>2
    <3>4. QED BY <2>1, <3>1, <3>3, Zenon DEF PageFrom
  <2>2. CASE x < Len(all)
    <3>1. PICK y : y = IF x + size > Len(all) THEN Len(all) ELSE x + size
      OBVIOUS
    <3>2. x \in 0 .. Len(all) /\ y \in x .. Len(all)
      BY <1>1, <2>2, <3>1
    <3>3. Upto(x) = SubSeq(all, 1, x) /\ Upto(x + size) = SubSeq(all, 1, y)
      <4>1. (IF x + size < Len(all) THEN x + size ELSE Len(all)) = y
        <5>1. ASSUME NEW z \in Nat, NEW l0 \in Nat
              PROVE  (IF z < l0 THEN z ELSE l0) = (IF z > l0 THEN l0 ELSE z)
          OBVIOUS
        <5>2. x + size \in Nat
          OBVIOUS
        <5>3. QED BY <1>1, <3>1, <5>1, <5>2, Zenon
      <4>2. QED BY <2>2, <4>1, Zenon
    <3>4. PageFrom(all, x, size) = SubSeq(all, x + 1, y)
      BY <1>1, <2>2, <3>1 DEF PageFrom
    <3>5. QED BY <3>2, <3>3, <3>4, SubSeqJoin, Zenon
  <2>3. QED BY <1>1, <2>1, <2>2
<1>3. PICK f : /\ f[0] = <<>>
               /\ \A m \in 1 .. l : f[m] = f[m - 1] \o pages[m]
               /\ Concat(pages, l) = f[l]
  BY ConcatSteps, Zenon
<1> DEFINE T == {n \in 0 .. l : f[n] # Upto(n * size)}
<1>4. T = {}
  <2> SUFFICES ASSUME T # {} PROVE FALSE
    OBVIOUS
  <2>1. T \in SUBSET Nat
    OBVIOUS
  <2>2. PICK n \in T : \A m \in T : n <= m
    BY <2>1, Least, Zenon
  <2>3. CASE n = 0
    <3>1. n * size = 0
      BY <2>3
    <3>2. Upto(0) = <<>>
      <4>1. (IF 0 < Len(all) THEN 0 ELSE Len(all)) = 0
        BY <1>1
      <4>2. SubSeq(all, 1, 0) = <<>>
        OBVIOUS
      <4>3. QED BY <4>1, <4>2, Zenon
    <3>3. QED BY <1>3, <2>2, <2>3, <3>1, <3>2, Zenon
  <2>4. CASE n # 0
    <3>1. n \in 1 .. l /\ n - 1 \in 0 .. l /\ n - 1 \in Nat /\ ~ (n - 1 >= n)
      BY <2>4
    <3>2. PICK x : x = (n - 1) * size
      OBVIOUS
    <3>3. x \in Nat /\ n * size = x + size
      BY <1>1, <3>1, <3>2
    <3> HIDE DEF Upto
    <3>4. f[n - 1] = Upto(x)
      BY <2>2, <3>1, <3>2, Zenon
    <3>5. f[n] = f[n - 1] \o PageFrom(all, x, size)
      BY <1>3, <3>1, <3>2, Zenon
    <3>6. f[n] = Upto(n * size)
      BY <1>2, <3>3, <3>4, <3>5, Zenon
    <3>7. QED BY <2>2, <3>6, Zenon
  <2>5. QED BY <2>3, <2>4, Zenon
<1>5. l * size >= l
  <2>1. l * (size - 1) \in Nat
    BY <1>1
  <2>2. l * size = l * (size - 1) + l
    OBVIOUS
  <2>3. QED BY <2>1, <2>2
<1>6. Upto(l * size) = all
  <2>1. PICK x : x = l * size
    OBVIOUS
  <2>2. x \in Nat /\ x >= l
    BY <1>1, <1>5, <2>1, Zenon
  <2>3. Upto(x) = SubSeq(all, 1, Len(all))
    <3>1. ~ (x < Len(all))
      BY <1>1, <2>2
    <3>2. QED BY <3>1, Zenon
  <2>4. SubSeq(all, 1, Len(all)) = all
    BY <1>1
  <2>5. QED BY <2>1, <2>3, <2>4, Zenon
<1>7. l \in 0 .. l
  OBVIOUS
<1>8. QED BY <1>3, <1>4, <1>6, <1>7, Zenon

\* A slice without duplicates is not longer than one with all of its elements.
LEMMA DistinctWithin ==
  ASSUME NEW s \in Seq(Event), NEW t \in Seq(Event), Range(s) \subseteq Range(t),
         \A j, k \in 1 .. Len(s) : s[j] = s[k] => j = k
  PROVE  Len(s) <= Len(t)
<1> DEFINE f == [j \in 1 .. Len(s) |-> CHOOSE k \in 1 .. Len(t) : t[k] = s[j]]
<1>1. ASSUME NEW j \in 1 .. Len(s) PROVE f[j] \in 1 .. Len(t) /\ t[f[j]] = s[j]
  <2>1. s[j] \in Range(s)
    BY RangeElements, Zenon
  <2>2. \E k \in 1 .. Len(t) : t[k] = s[j]
    BY <2>1, RangeElements, Zenon
  <2>3. QED BY <2>2, Zenon
<1>2. f \in [1 .. Len(s) -> 1 .. Len(t)]
  BY <1>1, Zenon
<1> HIDE DEF f
<1>3. \A j, k \in 1 .. Len(s) : f[j] = f[k] => j = k
  BY <1>1, Zenon
<1>4. Len(s) \in Nat /\ Len(t) \in Nat
  OBVIOUS
<1>5. QED BY <1>2, <1>3, <1>4, Pigeonhole, Zenon

\* The result of a query has no event twice, and so no more than were ever stored.
LEMMA QueryDistinct ==
  ASSUME StoreInv, NEW r \in Seq(Event), ByMinute(r), Range(r) \subseteq Range(index)
  PROVE  /\ Len(r) <= MaxEvents
         /\ \A j, k \in 1 .. Len(r) : r[j] = r[k] => j = k
<1>1. ASSUME NEW j \in 1 .. Len(r)
      PROVE  /\ accepted[r[j].id] = r[j] /\ r[j].id \in 1 .. MaxEvents
             /\ r[j].id \in Int /\ Bucket(r[j].ts) \in Int
  <2>1. r[j] \in Range(index) /\ r[j] \in Event
    BY RangeElements, Zenon
  <2>2. r[j].ts \in Nat /\ r[j].id \in 1 .. MaxEvents
    BY <2>1, StoreConstants DEF Event
  <2>3. QED BY <2>1, <2>2, Buckets DEF StoreInv, Kept
<1>2. ASSUME NEW j \in 1 .. Len(r), NEW k \in 1 .. Len(r), r[j].id = r[k].id PROVE j = k
  <2>1. r[j] = r[k]
    BY <1>1, <1>2, Zenon
  <2>2. ~ (j < k) /\ ~ (k < j)
    <3>1. ASSUME NEW m \in 1 .. Len(r), NEW n \in 1 .. Len(r), r[m] = r[n] PROVE ~ (m < n)
      <4>1. ~ (Bucket(r[m].ts) < Bucket(r[n].ts)) /\ ~ (r[m].id < r[n].id)
        BY <1>1, <3>1
      <4>2. QED BY <4>1, Zenon DEF ByMinute
    <3>2. QED BY <2>1, <3>1, Zenon
  <2>3. QED BY <2>2
<1>3. Len(r) <= MaxEvents
  <2> DEFINE f == [j \in 1 .. Len(r) |-> r[j].id]
  <2>1. f \in [1 .. Len(r) -> 1 .. MaxEvents] /\ \A j, k \in 1 .. Len(r) : f[j] = f[k] => j = k
    BY <1>1, <1>2, Zenon
  <2>2. Len(r) \in Nat
    OBVIOUS
  <2> HIDE DEF f
  <2>3. QED BY <2>1, <2>2, StoreConstants, Pigeonhole, Zenon
<1>4. QED BY <1>2, <1>3, Zenon

\* The pages of QueryWithPagination make up the result of the query, for any size of a page,
\* and Count counts no event that the query does not return.
THEOREM PagesAreComplete == StoreSpec => []PagesComplete
<1>1. StoreInv => PagesComplete
  <2> SUFFICES ASSUME StoreInv, NEW q \in Queries, q.filter = {}
               PROVE  /\ \A size \in 1 .. MaxEvents :
                           QueryByTime(q) =
                             Concat([n \in 1 .. MaxEvents |-> Page(q, size, n)], MaxEvents)
                      /\ Count(q.start, q.end) <= Len(QueryByTime(q))
    BY Zenon DEF PagesComplete
  <2>1. q.start \in Nat /\ q.end \in Nat /\ q.start <= q.end
    BY QueryRange, Zenon
  <2>2. PICK all : all = QueryByTime(q)
    OBVIOUS
  <2>3. /\ all \in Seq(Event) /\ ByMinute(all)
        /\ Range(all) = {e \in Range(index) : Selected(q, e)}
    BY <2>1, <2>2, QueryByMinute, Zenon
  <2>4. Len(all) <= MaxEvents /\ \A j, k \in 1 .. Len(all) : all[j] = all[k] => j = k
    BY <2>3, QueryDistinct, Zenon
  <2>5. ASSUME NEW size \in 1 .. MaxEvents
        PROVE  all = Concat([n \in 1 .. MaxEvents |-> Page(q, size, n)], MaxEvents)
    <3>1. PICK pages : pages = [n \in 1 .. MaxEvents |-> Page(q, size, n)]
      BY Zenon
    <3>2. ASSUME NEW n \in 1 .. MaxEvents
          PROVE  pages[n] = PageFrom(all, (n - 1) * size, size)
      BY <2>2, <3>1, Zenon DEF Page, PageFrom
    <3>3. MaxEvents \in Nat /\ size \in Nat \ {0}
      BY StoreConstants
    <3>4. Concat(pages, MaxEvents) = all
      BY <2>3, <2>4, <3>2, <3>3, PagesMakeUp, Zenon
    <3>5. QED BY <3>1, <3>4, Zenon
  <2>6. Count(q.start, q.end) <= Len(all)
    <3> DEFINE K == {e \in Event : q.start < e.ts /\ e.ts < q.end}
    <3>1. PICK c : c = Filter(events, K)
      BY Zenon
    <3>2. /\ events \in Seq(Event) /\ Sorted(events) /\ Range(events) \subseteq Range(index)
      BY Zenon DEF StoreInv, StoreTypeOK, Kept
    <3>3. c \in Seq(Event) /\ Sorted(c) /\ Range(c) = Range(events) \cap K
      <4> HIDE DEF K
      <4>1. QED BY <3>1, <3>2, FilterEvents, Zenon
    <3>4. \A j, k \in 1 .. Len(c) : c[j] = c[k] => j = k
      <4> SUFFICES ASSUME NEW j \in 1 .. Len(c), NEW k \in 1 .. Len(c), c[j] = c[k] PROVE j = k
        OBVIOUS
      <4>1. c[j] \in Event
        BY <3>3
      <4>2. c[j].id \in Int
        BY <4>1, StoreConstants DEF Event
      <4>3. ~ (j < k) /\ ~ (k < j)
        BY <3>3, <4>2 DEF Sorted
      <4>4. QED BY <4>3
    <3>5. Range(c) \in SUBSET Range(all)
      <4> SUFFICES ASSUME NEW x \in Range(c) PROVE x \in Range(all)
        OBVIOUS
      <4>1. x \in Range(index) /\ x \in Event /\ q.start < x.ts /\ x.ts < q.end
        BY <3>2, <3>3, Zenon
      <4>2. x.ts \in Nat
        BY <4>1, StoreConstants DEF Event
      <4>3. Selected(q, x)
        BY <2>1, <4>1, <4>2 DEF Selected
      <4>4. QED BY <2>3, <4>1, <4>3, Zenon
    <3>6. Len(c) <= Len(all)
      BY <2>3, <3>3, <3>4, <3>5, DistinctWithin, Zenon
    <3>7. Count(q.start, q.end) = Len(c)
      BY <3>1, Zenon DEF Count
    <3>8. QED BY <3>6, <3>7, Zenon
  <2>7. QED BY <2>2, <2>5, <2>6, Zenon
<1>2. QED BY <1>1, StoreInvariant, PTL

-----------------------------------------------------------------------------
(* Replays *)

\* One replay: h and g are where its handler and its goroutine are, q its request, s the
\* snapshot, n how much of it was streamed, o the channel, t what was sent, c whether its
\* context is done.
Streamed(h, g, q, s, n, o, t, c) ==
  /\ n \in 0 .. Len(s) /\ Len(o) <= BufferSize
  /\ h = "idle" => g = "none"
  /\ g = "query" => q.start <= q.end
  /\ g \in {"none", "query"} => Len(s) = 0 /\ Len(o) = 0
  /\ g \in {"check", "send", "ticker"} => n < Len(s)
  /\ g = "closed" /\ ~c => n = Len(s)
  /\ q.limit > 0 => Len(s) <= q.limit
  /\ ByMinute(s) /\ \A k \in 1 .. Len(s) : Selected(q, s[k])
  /\ Len(t) <= n /\ \A k \in 1 .. Len(t) : t[k] = s[k]
  /\ h = "recv" => Len(t) + Len(o) = n /\ \A k \in 1 .. Len(o) : o[k] = s[Len(t) + k]

\* The types of the variables of replays.
ReplayTypes ==
  /\ hpc \in [Replays -> HandlerPcs]
  /\ gpc \in [Replays -> GoroutinePcs]
  /\ req \in [Replays -> ReplayRequests]
  /\ snapshot \in [Replays -> Seq(Event)]
  /\ i \in [Replays -> Nat]
  /\ out \in [Replays -> Seq(Event)]
  /\ got \in [Replays -> Seq(Event)]
  /\ canceled \in [Replays -> BOOLEAN]

\* What holds of replay r.
StreamedBy(r) ==
  Streamed(hpc[r], gpc[r], req[r], snapshot[r], i[r], out[r], got[r], canceled[r])

\* The inductive invariant of the replays, with that of the store they read from.
ReplayInv ==
  /\ StoreInv
  /\ ReplayTypes
  /\ \A r \in Replays : StreamedBy(r)

\* No replay has begun.
LEMMA ReplayInitInv == Init => ReplayInv
<1> SUFFICES ASSUME Init PROVE ReplayInv
  OBVIOUS
<1>1. StoreInv
  BY StoreInitInv, Zenon DEF Init
<1>2. ReplayTypes
  BY DEF Init, ReplayTypes, HandlerPcs, GoroutinePcs
<1>3. ASSUME NEW r \in Replays PROVE StreamedBy(r)
  <2>1. /\ hpc[r] = "idle" /\ gpc[r] = "none" /\ i[r] = 0 /\ snapshot[r] = <<>>
        /\ out[r] = <<>> /\ got[r] = <<>> /\ req[r] \in ReplayRequests
    BY Zenon DEF Init
  <2>2. Len(snapshot[r]) = 0 /\ Len(got[r]) = 0 /\ Len(out[r]) = 0
    BY <2>1, Zenon
  <2>3. req[r].limit \in Nat /\ BufferSize \in Nat
    BY <2>1, ReplayAssumption, Zenon
  <2>4. QED BY <2>1, <2>2, <2>3 DEF StreamedBy, Streamed, ByMinute
<1>4. QED BY <1>1, <1>2, <1>3, Zenon DEF ReplayInv

\* What is known of a replay and its request.
LEMMA Known ==
  ASSUME ReplayInv, NEW r \in Replays
  PROVE  /\ hpc[r] \in HandlerPcs /\ gpc[r] \in GoroutinePcs /\ req[r] \in ReplayRequests
         /\ snapshot[r] \in Seq(Event) /\ i[r] \in Nat /\ out[r] \in Seq(Event)
         /\ got[r] \in Seq(Event) /\ canceled[r] \in BOOLEAN
         /\ req[r].start \in Nat /\ req[r].end \in Nat /\ req[r].limit \in Nat
         /\ Len(snapshot[r]) \in Nat /\ Len(got[r]) \in Nat /\ Len(out[r]) \in Nat
         /\ Streamed(hpc[r], gpc[r], req[r], snapshot[r], i[r], out[r], got[r], canceled[r])
<1>1. /\ hpc[r] \in HandlerPcs /\ gpc[r] \in GoroutinePcs /\ req[r] \in ReplayRequests
      /\ snapshot[r] \in Seq(Event) /\ i[r] \in Nat /\ out[r] \in Seq(Event)
      /\ got[r] \in Seq(Event) /\ canceled[r] \in BOOLEAN
  BY Zenon DEF ReplayInv, ReplayTypes
<1>2. req[r].start \in Nat /\ req[r].end \in Nat /\ req[r].limit \in Nat
  BY <1>1, ReplayAssumption, Zenon
<1>3. Len(snapshot[r]) \in Nat /\ Len(got[r]) \in Nat /\ Len(out[r]) \in Nat
  BY <1>1
<1>4. QED BY <1>1, <1>2, <1>3, Zenon DEF ReplayInv, StreamedBy

\* The step of replay r that leaves it with these values.
Becomes(r, h, g, s, n, o, t, c) ==
  /\ h \in HandlerPcs /\ g \in GoroutinePcs /\ s \in Seq(Event) /\ n \in Nat
  /\ o \in Seq(Event) /\ t \in Seq(Event) /\ c \in BOOLEAN
  /\ hpc' = [hpc EXCEPT ![r] = h] /\ gpc' = [gpc EXCEPT ![r] = g]
  /\ snapshot' = [snapshot EXCEPT ![r] = s] /\ i' = [i EXCEPT ![r] = n]
  /\ out' = [out EXCEPT ![r] = o] /\ got' = [got EXCEPT ![r] = t]
  /\ canceled' = [canceled EXCEPT ![r] = c]
  /\ req' = req /\ UNCHANGED storeVars

\* A step of one replay leaves the store and the others as they were.
LEMMA OneReplay ==
  ASSUME ReplayInv, NEW r \in Replays,
         NEW h, NEW g, NEW s, NEW n, NEW o, NEW t, NEW c,
         Becomes(r, h, g, s, n, o, t, c), Streamed(h, g, req[r], s, n, o, t, c)
  PROVE  ReplayInv'
<1>1. StoreInv'
  BY StoreNextInv, Zenon DEF ReplayInv, Becomes
<1>2. ASSUME NEW f, NEW S, f \in [Replays -> S], NEW v \in S
      PROVE  /\ [f EXCEPT ![r] = v] \in [Replays -> S]
             /\ [f EXCEPT ![r] = v][r] = v
             /\ \A u \in Replays \ {r} : [f EXCEPT ![r] = v][u] = f[u]
  BY <1>2, Zenon
<1>3. ReplayTypes'
  BY <1>2, Zenon DEF ReplayInv, ReplayTypes, Becomes
<1>4. /\ hpc'[r] = h /\ gpc'[r] = g /\ snapshot'[r] = s /\ i'[r] = n /\ out'[r] = o
      /\ got'[r] = t /\ canceled'[r] = c /\ req'[r] = req[r]
  BY DEF ReplayInv, ReplayTypes, Becomes
<1>5. ASSUME NEW u \in Replays \ {r} PROVE StreamedBy(u)'
  <2>1. /\ hpc'[u] = hpc[u] /\ gpc'[u] = gpc[u] /\ snapshot'[u] = snapshot[u] /\ i'[u] = i[u]
        /\ out'[u] = out[u] /\ got'[u] = got[u] /\ canceled'[u] = canceled[u] /\ req'[u] = req[u]
    BY DEF ReplayInv, ReplayTypes, Becomes
  <2>2. QED BY <2>1, Zenon DEF ReplayInv, StreamedBy
<1>6. StreamedBy(r)'
  BY <1>4, Zenon DEF StreamedBy
<1>7. QED BY <1>1, <1>3, <1>5, <1>6, Zenon DEF ReplayInv

\* A function of the replays set to the value it has is unchanged.
LEMMA SameValue ==
  ASSUME ReplayInv, NEW r \in Replays
  PROVE  /\ hpc = [hpc EXCEPT ![r] = hpc[r]] /\ gpc = [gpc EXCEPT ![r] = gpc[r]]
         /\ snapshot = [snapshot EXCEPT ![r] = snapshot[r]] /\ i = [i EXCEPT ![r] = i[r]]
         /\ out = [out EXCEPT ![r] = out[r]] /\ got = [got EXCEPT ![r] = got[r]]
         /\ canceled = [canceled EXCEPT ![r] = canceled[r]]
<1>1. ASSUME NEW f, NEW S, f \in [Replays -> S] PROVE f = [f EXCEPT ![r] = f[r]]
  BY <1>1, Zenon
<1>2. QED BY <1>1, Zenon DEF ReplayInv, ReplayTypes

\* The client cancels.
LEMMA CancelStep == ASSUME ReplayInv, NEW r \in Replays, Cancel(r) PROVE ReplayInv'
<1>1. hpc[r] = "recv" /\ canceled' = [canceled EXCEPT ![r] = TRUE]
      /\ UNCHANGED <<storeVars, hpc, gpc, req, snapshot, i, out, got>>
  BY Zenon DEF Cancel
<1>2. Streamed(hpc[r], gpc[r], req[r], snapshot[r], i[r], out[r], got[r], TRUE)
  BY Known, Zenon DEF Streamed
<1>3. Becomes(r, hpc[r], gpc[r], snapshot[r], i[r], out[r], got[r], TRUE)
  BY <1>1, Known, SameValue, Zenon DEF Becomes
<1>4. QED BY <1>2, <1>3, OneReplay, Zenon

\* The handler refuses the request or starts the goroutine.
LEMMA BeginStep == ASSUME ReplayInv, NEW r \in Replays, ReplayEvents(r) PROVE ReplayInv'
<1>1. hpc[r] = "idle" /\ UNCHANGED <<storeVars, req, snapshot, i, out, got, canceled>>
  BY Zenon DEF ReplayEvents
<1>2. gpc[r] = "none" /\ Len(snapshot[r]) = 0 /\ i[r] = 0 /\ Len(got[r]) = 0
  <2>1. /\ gpc[r] = "none" /\ Len(snapshot[r]) = 0
        /\ i[r] \in 0 .. Len(snapshot[r]) /\ Len(got[r]) <= i[r]
    BY <1>1, Known, Zenon DEF Streamed
  <2>2. i[r] \in Nat /\ Len(got[r]) \in Nat
    BY Known, Zenon
  <2>3. QED BY <2>1, <2>2
<1>3. CASE req[r].start > req[r].end
  <2>1. hpc' = [hpc EXCEPT ![r] = "failed"] /\ UNCHANGED gpc
    BY <1>3, Zenon DEF ReplayEvents
  <2>2. Streamed("failed", gpc[r], req[r], snapshot[r], i[r], out[r], got[r], canceled[r])
    BY Known, Zenon DEF Streamed
  <2>3. Becomes(r, "failed", gpc[r], snapshot[r], i[r], out[r], got[r], canceled[r])
    BY <1>1, <2>1, Known, SameValue, Zenon DEF Becomes, HandlerPcs
  <2>4. QED BY <2>2, <2>3, OneReplay, Zenon
<1>4. CASE ~ (req[r].start > req[r].end)
  <2>1. hpc' = [hpc EXCEPT ![r] = "recv"] /\ gpc' = [gpc EXCEPT ![r] = "query"]
    BY <1>4, Zenon DEF ReplayEvents
  <2>2. req[r].start <= req[r].end
    BY <1>4, Known
  <2>3. Len(out[r]) = 0 /\ Len(out[r]) <= BufferSize
    BY <1>2, Known, Zenon DEF Streamed
  <2>4. ByMinute(snapshot[r]) /\ (req[r].limit > 0 => Len(snapshot[r]) <= req[r].limit)
    BY Known, Zenon DEF Streamed
  <2>5. Streamed("recv", "query", req[r], snapshot[r], i[r], out[r], got[r], canceled[r])
    BY <1>2, <2>2, <2>3, <2>4 DEF Streamed
  <2>6. Becomes(r, "recv", "query", snapshot[r], i[r], out[r], got[r], canceled[r])
    BY <1>1, <2>1, Known, SameValue, Zenon DEF Becomes, HandlerPcs, GoroutinePcs
  <2>7. QED BY <2>5, <2>6, OneReplay, Zenon
<1>5. QED BY <1>3, <1>4, Zenon

\* Returning with an event or none taken from the channel.
LEMMA ReturnStep ==
  ASSUME ReplayInv, NEW r \in Replays, NEW status \in {"ok", "failed"}, Return(r, status),
         (out[r] # <<>> /\ out' = [out EXCEPT ![r] = Tail(out[r])]) \/ UNCHANGED out
  PROVE  ReplayInv'
<1>1. /\ hpc[r] = "recv" /\ hpc' = [hpc EXCEPT ![r] = status]
      /\ canceled' = [canceled EXCEPT ![r] = TRUE]
      /\ UNCHANGED <<storeVars, gpc, req, snapshot, i, got>>
  BY Zenon DEF Return
<1>2. PICK o : /\ o \in Seq(Event) /\ out' = [out EXCEPT ![r] = o]
               /\ (Len(out[r]) = 0 => Len(o) = 0) /\ Len(o) <= BufferSize
  <2>1. CASE out[r] # <<>> /\ out' = [out EXCEPT ![r] = Tail(out[r])]
    <3>1. out[r] \in Seq(Event) /\ Len(out[r]) <= BufferSize
      BY Known, Zenon DEF Streamed
    <3>2. Tail(out[r]) \in Seq(Event) /\ Len(out[r]) # 0 /\ Len(Tail(out[r])) <= BufferSize
      BY <2>1, <3>1, ReplayAssumption
    <3>3. QED BY <2>1, <3>2, Zenon
  <2>2. CASE UNCHANGED out
    BY <2>2, Known, SameValue, Zenon DEF Streamed
  <2>3. QED BY <2>1, <2>2, Zenon
<1>3. Streamed(status, gpc[r], req[r], snapshot[r], i[r], o, got[r], TRUE)
  BY <1>2, Known, Zenon DEF Streamed
<1>4. Becomes(r, status, gpc[r], snapshot[r], i[r], o, got[r], TRUE)
  BY <1>1, <1>2, Known, SameValue, Zenon DEF Becomes, HandlerPcs
<1>5. QED BY <1>3, <1>4, OneReplay, Zenon

\* t and, after it, o are the beginning of s.
Prefix(s, t, o) ==
  /\ \A k \in 1 .. Len(t) : t[k] = s[k]
  /\ \A k \in 1 .. Len(o) : o[k] = s[Len(t) + k]

\* What the head of a slice leaves.
LEMMA Shifted ==
  ASSUME NEW E, NEW s \in Seq(E), s # <<>>
  PROVE  /\ Tail(s) \in Seq(E) /\ Len(Tail(s)) = Len(s) - 1 /\ Len(s) > 0
         /\ Head(s) = s[1] /\ Head(s) \in E /\ \A k \in 1 .. Len(s) - 1 : Tail(s)[k] = s[k + 1]
  OBVIOUS

\* The head of the channel moved to the end of what was sent: together they are the same.
LEMMA SentOn ==
  ASSUME NEW s, NEW t \in Seq(Event), NEW o \in Seq(Event), o # <<>>, Prefix(s, t, o)
  PROVE  /\ Append(t, Head(o)) \in Seq(Event) /\ Tail(o) \in Seq(Event) /\ Len(o) # 0
         /\ Len(Append(t, Head(o))) + Len(Tail(o)) = Len(t) + Len(o)
         /\ Prefix(s, Append(t, Head(o)), Tail(o))
<1>1. PICK u, v, x, y : u = Append(t, Head(o)) /\ v = Tail(o) /\ x = Len(t) /\ y = Len(o)
  BY Zenon
<1>2. x \in Nat /\ y \in Nat
  BY <1>1
<1>3. /\ v \in Seq(Event) /\ Len(v) = y - 1 /\ y > 0 /\ \A k \in 1 .. y - 1 : v[k] = o[k + 1]
      /\ Head(o) = o[1] /\ Head(o) \in Event
  BY <1>1, Shifted, Zenon
<1>4. u \in Seq(Event) /\ Len(u) = x + 1 /\ u[x + 1] = o[1] /\ \A k \in 1 .. x : u[k] = t[k]
  <2>1. /\ Append(t, Head(o)) \in Seq(Event) /\ Len(Append(t, Head(o))) = Len(t) + 1
        /\ Append(t, Head(o))[Len(t) + 1] = Head(o)
        /\ \A k \in 1 .. Len(t) : Append(t, Head(o))[k] = t[k]
    BY <1>3
  <2>2. QED BY <1>1, <1>3, <2>1, Zenon
<1>5. 1 \in 1 .. y /\ (x + 1) + (y - 1) = x + y /\ y # 0
  BY <1>2, <1>3
<1>6. o[1] = s[x + 1]
  BY <1>1, <1>5, Zenon DEF Prefix
<1>7. \A k \in 1 .. x + 1 : k \in 1 .. x \/ k = x + 1
  BY <1>2
<1>8. \A k \in 1 .. y - 1 : k + 1 \in 1 .. y /\ x + (k + 1) = (x + 1) + k
  BY <1>2
<1>9. \A k \in 1 .. x + 1 : u[k] = s[k]
  BY <1>1, <1>4, <1>6, <1>7, Zenon DEF Prefix
<1>10. ASSUME NEW k \in 1 .. y - 1 PROVE v[k] = s[(x + 1) + k]
  <2>1. o[k + 1] = s[x + (k + 1)]
    BY <1>1, <1>8, Zenon DEF Prefix
  <2>2. QED BY <1>3, <1>8, <2>1, Zenon
<1>11. Prefix(s, u, v)
  BY <1>3, <1>4, <1>9, <1>10, Zenon DEF Prefix
<1>12. Len(u) + Len(v) = Len(t) + Len(o)
  BY <1>1, <1>3, <1>4, <1>5, Zenon
<1>13. QED BY <1>1, <1>3, <1>4, <1>5, <1>11, <1>12, Zenon

\* The handler sends the head of the channel.
LEMMA SendStep == ASSUME ReplayInv, NEW r \in Replays, StreamSend(r) PROVE ReplayInv'
<1>1. /\ hpc[r] = "recv" /\ out[r] # <<>> /\ out' = [out EXCEPT ![r] = Tail(out[r])]
      /\ got' = [got EXCEPT ![r] = Append(got[r], Head(out[r]))]
      /\ UNCHANGED <<storeVars, hpc, gpc, req, snapshot, i, canceled>>
  BY Zenon DEF StreamSend
<1>2. PICK o, t : o = Tail(out[r]) /\ t = Append(got[r], Head(out[r]))
  BY Zenon
<1>3. Len(got[r]) + Len(out[r]) = i[r] /\ Prefix(snapshot[r], got[r], out[r])
  BY <1>1, Known, Zenon DEF Streamed, Prefix
<1>4. /\ t \in Seq(Event) /\ o \in Seq(Event) /\ Len(out[r]) # 0 /\ Len(t) + Len(o) = i[r]
      /\ Prefix(snapshot[r], t, o)
  <2>1. /\ got[r] \in Seq(Event) /\ out[r] \in Seq(Event) /\ out[r] # <<>>
        /\ Prefix(snapshot[r], got[r], out[r])
    BY <1>1, <1>3, Known, Zenon
  <2>2. /\ Append(got[r], Head(out[r])) \in Seq(Event) /\ Tail(out[r]) \in Seq(Event)
        /\ Len(out[r]) # 0 /\ Prefix(snapshot[r], Append(got[r], Head(out[r])), Tail(out[r]))
        /\ Len(Append(got[r], Head(out[r]))) + Len(Tail(out[r])) = Len(got[r]) + Len(out[r])
    BY <2>1, SentOn, Zenon
  <2>3. QED BY <1>2, <1>3, <2>2, Zenon
<1>5. Len(t) <= i[r] /\ Len(o) <= BufferSize
  <2>1. Len(t) \in Nat /\ Len(o) \in Nat /\ Len(t) + Len(o) = i[r]
    BY <1>4
  <2>2. Len(o) = Len(out[r]) - 1
    BY <1>1, <1>2, Known, Shifted, Zenon
  <2>3. Len(out[r]) <= BufferSize /\ Len(out[r]) \in Nat
    BY Known, Zenon DEF Streamed
  <2>4. QED BY <2>1, <2>2, <2>3, ReplayAssumption
<1>6. ~ (gpc[r] \in {"none", "query"})
  BY <1>4, Known, Zenon DEF Streamed
<1>7. Streamed(hpc[r], gpc[r], req[r], snapshot[r], i[r], o, t, canceled[r])
  BY <1>1, <1>4, <1>5, <1>6, Known, Zenon DEF Streamed, Prefix
<1>8. Becomes(r, hpc[r], gpc[r], snapshot[r], i[r], o, t, canceled[r])
  BY <1>1, <1>2, <1>4, Known, SameValue, Zenon DEF Becomes
<1>9. QED BY <1>7, <1>8, OneReplay, Zenon

\* The goroutine moves on, or ends because the context is done.
LEMMA GotoStep ==
  ASSUME ReplayInv, NEW r \in Replays, NEW g \in GoroutinePcs, gpc' = [gpc EXCEPT ![r] = g],
         UNCHANGED <<storeVars, hpc, req, snapshot, i, out, got, canceled>>,
         gpc[r] \in {"check", "send", "ticker"},
         g \in {"check", "send", "ticker"} \/ (g = "closed" /\ canceled[r])
  PROVE  ReplayInv'
<1>1. i[r] < Len(snapshot[r]) /\ g # "none" /\ g # "query" /\ hpc[r] # "idle"
  BY Known, Zenon DEF Streamed
<1>2. Streamed(hpc[r], g, req[r], snapshot[r], i[r], out[r], got[r], canceled[r])
  BY <1>1, Known, Zenon DEF Streamed
<1>3. Becomes(r, hpc[r], g, snapshot[r], i[r], out[r], got[r], canceled[r])
  BY Known, SameValue, Zenon DEF Becomes
<1>4. QED BY <1>2, <1>3, OneReplay, Zenon

\* The prefix of a result that a limit leaves has what the query promises.
LEMMA LimitedResult ==
  ASSUME NEW q, q.limit \in Nat, NEW s \in Seq(Event), ByMinute(s),
         \A k \in 1 .. Len(s) : Selected(q, s[k])
  PROVE  /\ Limited(q, s) \in Seq(Event) /\ ByMinute(Limited(q, s))
         /\ q.limit > 0 => Len(Limited(q, s)) <= q.limit
         /\ \A k \in 1 .. Len(Limited(q, s)) : Selected(q, Limited(q, s)[k])
<1>1. PICK t : t = Limited(q, s)
  OBVIOUS
<1>2. Len(s) \in Nat
  OBVIOUS
<1>3. CASE q.limit > 0 /\ Len(s) > q.limit
  <2>1. t = SubSeq(s, 1, q.limit)
    BY <1>1, <1>3, Zenon DEF Limited
  <2>2. /\ t \in Seq(Event) /\ Len(t) = q.limit
        /\ \A k \in 1 .. q.limit : t[k] = s[k] /\ k \in 1 .. Len(s)
    BY <1>2, <1>3, <2>1
  <2>3. ByMinute(t)
    BY <2>2, Zenon DEF ByMinute
  <2>4. Len(t) <= q.limit
    BY <2>2
  <2>5. QED BY <1>1, <2>2, <2>3, <2>4, Zenon
<1>4. CASE ~ (q.limit > 0 /\ Len(s) > q.limit)
  <2>1. t = s
    BY <1>1, <1>4, Zenon DEF Limited
  <2>2. q.limit > 0 => Len(t) <= q.limit
    BY <1>2, <1>4, <2>1
  <2>3. QED BY <1>1, <2>1, <2>2, Zenon
<1>5. QED BY <1>3, <1>4, Zenon

\* The goroutine takes its snapshot of the store.
LEMMA QueryStep == ASSUME ReplayInv, NEW r \in Replays, QueryEvents(r) PROVE ReplayInv'
<1>1. PICK s : s = Limited(req[r], QueryByTime(req[r]))
  OBVIOUS
<1>2. /\ gpc[r] = "query" /\ gpc' = [gpc EXCEPT ![r] = AtLoop(0, s)]
      /\ snapshot' = [snapshot EXCEPT ![r] = s]
      /\ UNCHANGED <<storeVars, hpc, req, i, out, got, canceled>>
  BY <1>1, Zenon DEF QueryEvents, Goto
<1>3. /\ req[r].start <= req[r].end /\ Len(snapshot[r]) = 0
      /\ Len(out[r]) = 0 /\ Len(out[r]) <= BufferSize
      /\ i[r] \in 0 .. Len(snapshot[r]) /\ Len(got[r]) <= i[r] /\ hpc[r] # "idle"
  BY <1>2, Known, Zenon DEF Streamed
<1>4. i[r] = 0 /\ Len(got[r]) = 0
  <2>1. Len(got[r]) \in Nat
    BY Known, Zenon
  <2>2. QED BY <1>3, <2>1
<1>5. PICK all : all = QueryByTime(req[r])
  OBVIOUS
<1>6. all \in Seq(Event) /\ ByMinute(all) /\ \A k \in 1 .. Len(all) : Selected(req[r], all[k])
  <2>1. /\ all \in Seq(Event) /\ ByMinute(all)
        /\ Range(all) = {e \in Range(index) : Selected(req[r], e)}
    BY <1>3, <1>5, Known, QueryByMinute, Zenon DEF ReplayInv
  <2>2. ASSUME NEW k \in 1 .. Len(all) PROVE Selected(req[r], all[k])
    <3>1. all[k] \in Range(all)
      BY <2>1, RangeElements, Zenon
    <3>2. QED BY <2>1, <3>1, Zenon
  <2>3. QED BY <2>1, <2>2, Zenon
<1>7. /\ s \in Seq(Event) /\ ByMinute(s) /\ (req[r].limit > 0 => Len(s) <= req[r].limit)
      /\ \A k \in 1 .. Len(s) : Selected(req[r], s[k])
  BY <1>1, <1>5, <1>6, Known, LimitedResult, Zenon
<1>8. PICK g : g = AtLoop(0, s)
  OBVIOUS
<1>9. Len(s) \in Nat /\ ((g = "check" /\ 0 < Len(s)) \/ (g = "closed" /\ 0 = Len(s)))
  <2>1. Len(s) \in Nat
    BY <1>7
  <2>2. QED BY <1>8, <2>1 DEF AtLoop
<1>10. Streamed(hpc[r], g, req[r], s, i[r], out[r], got[r], canceled[r])
  BY <1>3, <1>4, <1>7, <1>9 DEF Streamed
<1>11. Becomes(r, hpc[r], g, s, i[r], out[r], got[r], canceled[r])
  BY <1>2, <1>7, <1>8, <1>9, Known, SameValue, Zenon DEF Becomes, GoroutinePcs
<1>12. QED BY <1>10, <1>11, OneReplay, Zenon

\* The goroutine puts the next event of the snapshot into the channel.
LEMMA SendEventStep == ASSUME ReplayInv, NEW r \in Replays, SendEvent(r) PROVE ReplayInv'
<1>1. PICK g, o : /\ g = IF (i[r] + 1) % BatchSize = 0 /\ i[r] + 1 < Len(snapshot[r])
                         THEN "ticker" ELSE AtLoop(i[r] + 1, snapshot[r])
                  /\ o = Append(out[r], snapshot[r][i[r] + 1])
  BY Zenon
<1>2. /\ gpc[r] = "send" /\ gpc' = [gpc EXCEPT ![r] = g] /\ Len(out[r]) < BufferSize
      /\ i' = [i EXCEPT ![r] = i[r] + 1] /\ out' = [out EXCEPT ![r] = o]
      /\ UNCHANGED <<storeVars, hpc, req, snapshot, got, canceled>>
  BY <1>1, Zenon DEF SendEvent, Goto
<1>3. PICK n, l : n = i[r] + 1 /\ l = Len(snapshot[r])
  BY Zenon
<1>4. /\ i[r] \in Nat /\ l \in Nat /\ i[r] < l /\ hpc[r] # "idle"
      /\ Len(got[r]) \in Nat /\ Len(got[r]) <= i[r]
  BY <1>2, <1>3, Known, Zenon DEF Streamed
<1>5. n \in Nat /\ n \in 1 .. l /\ n \in 0 .. l /\ Len(got[r]) <= n
  BY <1>3, <1>4
<1>6. (g \in {"ticker", "check"} /\ n < l) \/ (g = "closed" /\ n = l)
  <2>1. l \in Nat
    BY <1>4, Zenon
  <2>2. ~ (n < l) => n = l
    BY <1>5, <2>1
  <2>3. QED BY <1>1, <1>3, <2>2, Zenon DEF AtLoop
<1>7. /\ o \in Seq(Event) /\ Len(o) = Len(out[r]) + 1 /\ o[Len(out[r]) + 1] = snapshot[r][n]
      /\ \A k \in 1 .. Len(out[r]) : o[k] = out[r][k]
  <2>1. snapshot[r] \in Seq(Event) /\ out[r] \in Seq(Event)
    BY Known, Zenon
  <2>2. snapshot[r][n] \in Event
    BY <1>3, <1>5, <2>1
  <2>3. QED BY <1>1, <1>3, <2>1, <2>2
<1>8. ASSUME hpc[r] = "recv"
      PROVE  Len(got[r]) + Len(o) = n /\ \A k \in 1 .. Len(o) : o[k] = snapshot[r][Len(got[r]) + k]
  <2>1. PICK x, y : x = Len(got[r]) /\ y = Len(out[r])
    BY Zenon
  <2>2. x \in Nat /\ y \in Nat /\ x + y = i[r] /\ \A k \in 1 .. y : out[r][k] = snapshot[r][x + k]
    BY <1>8, <2>1, Known, Zenon DEF Streamed
  <2>3. Len(o) = y + 1
    BY <1>7, <2>1, Zenon
  <2>4. x + (y + 1) = n /\ \A k \in 1 .. y + 1 : k \in 1 .. y \/ k = y + 1
    BY <1>3, <2>2
  <2>5. QED BY <1>7, <2>1, <2>2, <2>3, <2>4, Zenon
<1>9. Streamed(hpc[r], g, req[r], snapshot[r], n, o, got[r], canceled[r])
  <2>1. g \notin {"none", "query"}
    BY <1>6, Zenon
  <2>2. Len(out[r]) \in Nat /\ Len(out[r]) < BufferSize /\ Len(o) = Len(out[r]) + 1
    BY <1>2, <1>7, Known, Zenon
  <2>3. Len(o) <= BufferSize
    BY <2>2, ReplayAssumption
  <2>4. QED BY <1>3, <1>4, <1>5, <1>6, <1>8, <2>1, <2>3, Known, Zenon DEF Streamed
<1>10. Becomes(r, hpc[r], g, snapshot[r], n, o, got[r], canceled[r])
  BY <1>2, <1>3, <1>5, <1>6, <1>7, Known, SameValue, Zenon DEF Becomes, GoroutinePcs
<1>11. QED BY <1>9, <1>10, OneReplay, Zenon

\* A step of the store, of a client, of a handler or of a goroutine keeps the invariant.
LEMMA ReplayNextInv == ASSUME ReplayInv, [Next]_vars PROVE ReplayInv'
<1>1. CASE StoreNext /\ UNCHANGED replayVars
  <2>1. StoreInv'
    BY <1>1, StoreNextInv, Zenon DEF ReplayInv
  <2>2. ReplayTypes' /\ \A r \in Replays : StreamedBy(r)'
    BY <1>1, Zenon DEF ReplayInv, ReplayTypes, StreamedBy, replayVars
  <2>3. QED BY <2>1, <2>2, Zenon DEF ReplayInv
<1>2. ASSUME NEW r \in Replays, Cancel(r) \/ ReplayEvents(r) PROVE ReplayInv'
  BY <1>2, CancelStep, BeginStep, Zenon
<1>3. ASSUME NEW r \in Replays, HandlerStep(r) PROVE ReplayInv'
  <2>1. CASE StreamSend(r)
    BY <2>1, SendStep, Zenon
  <2>2. CASE StreamSendFail(r)
    BY <2>2, ReturnStep, Zenon DEF StreamSendFail
  <2>3. CASE ChannelClosed(r) \/ ContextDone(r)
    BY <2>3, ReturnStep, Zenon DEF ChannelClosed, ContextDone
  <2>4. QED BY <1>3, <2>1, <2>2, <2>3, Zenon DEF HandlerStep
<1>4. ASSUME NEW r \in Replays, GoroutineStep(r) PROVE ReplayInv'
  <2>1. CASE QueryEvents(r)
    BY <2>1, QueryStep, Zenon
  <2>2. CASE SendEvent(r)
    BY <2>2, SendEventStep, Zenon
  <2>3. CASE CheckContext(r)
    <3>1. CASE canceled[r]
      BY <2>3, <3>1, GotoStep, Zenon DEF CheckContext, Goto, GoroutinePcs
    <3>2. CASE ~canceled[r]
      BY <2>3, <3>2, GotoStep, Zenon DEF CheckContext, Goto, GoroutinePcs
    <3>3. QED BY <3>1, <3>2, Zenon
  <2>4. CASE SendCanceled(r)
    BY <2>4, GotoStep, Zenon DEF SendCanceled, Goto, GoroutinePcs
  <2>5. CASE RateLimiterTick(r)
    <3>1. i[r] < Len(snapshot[r])
      BY <2>5, Known, Zenon DEF RateLimiterTick, Goto, Streamed
    <3>2. gpc' = [gpc EXCEPT ![r] = "check"]
      BY <2>5, <3>1, Zenon DEF RateLimiterTick, Goto, AtLoop
    <3>3. QED BY <2>5, <3>2, GotoStep, Zenon DEF RateLimiterTick, Goto, GoroutinePcs
  <2>6. QED BY <1>4, <2>1, <2>2, <2>3, <2>4, <2>5, Zenon DEF GoroutineStep
<1>5. CASE UNCHANGED vars
  <2>1. StoreInv'
    BY <1>5, StoreNextInv, Zenon DEF ReplayInv, vars
  <2>2. ReplayTypes' /\ \A r \in Replays : StreamedBy(r)'
    BY <1>5, Zenon DEF ReplayInv, ReplayTypes, StreamedBy, replayVars, vars
  <2>3. QED BY <2>1, <2>2, Zenon DEF ReplayInv
<1>6. QED BY <1>1, <1>2, <1>3, <1>4, <1>5, Zenon DEF Next

\* The replays and the store they read from: what each has streamed is the beginning of
\* its snapshot, of which the channel holds the end.
THEOREM ReplayInvariant == Spec => []ReplayInv
  BY ReplayInitInv, ReplayNextInv, PTL DEF Spec

\* Type correctness of a replay and its store: the channel holds no more than its buffer and
\* the goroutine does not run past the snapshot.
THEOREM TypeCorrect == Spec => []TypeOK
<1>1. ReplayInv => TypeOK
  <2> SUFFICES ASSUME ReplayInv PROVE TypeOK
    BY Zenon
  <2>1. \A r \in Replays : i[r] \in 0 .. Len(snapshot[r]) /\ Len(out[r]) <= BufferSize
    BY Known, Zenon DEF Streamed
  <2>2. QED BY <2>1, Zenon DEF ReplayInv, StoreInv, ReplayTypes, TypeOK
<1>2. QED BY <1>1, ReplayInvariant, PTL

\* A replay sends what its query returned, in that order, up to the limit and without
\* omission or repetition, whatever the store does meanwhile.
THEOREM ReplaysFaithful == Spec => []ReplayFaithful
<1>1. ReplayInv => ReplayFaithful
  <2> SUFFICES ASSUME ReplayInv, NEW r \in Replays
               PROVE  /\ hpc[r] = "recv" => got[r] \o out[r] = SubSeq(snapshot[r], 1, i[r])
                      /\ hpc[r] = "recv" /\ gpc[r] = "closed" /\ ~canceled[r] =>
                           i[r] = Len(snapshot[r])
                      /\ req[r].limit > 0 => Len(got[r]) <= req[r].limit
                      /\ \A n \in DOMAIN got[r] : Selected(req[r], got[r][n])
                      /\ \A m, n \in DOMAIN got[r] : m < n => got[r][m] # got[r][n]
    BY Zenon DEF ReplayFaithful
  <2>1. PICK s, t, o, n : s = snapshot[r] /\ t = got[r] /\ o = out[r] /\ n = i[r]
    OBVIOUS
  <2>2. /\ s \in Seq(Event) /\ t \in Seq(Event) /\ o \in Seq(Event) /\ n \in Nat
        /\ req[r].limit \in Nat
        /\ Len(s) \in Nat /\ Len(t) \in Nat /\ Len(o) \in Nat
        /\ Streamed(hpc[r], gpc[r], req[r], s, n, o, t, canceled[r])
    BY <2>1, Known, Zenon
  <2>3. n \in 0 .. Len(s) /\ Len(t) <= n /\ \A k \in 1 .. Len(t) : t[k] = s[k]
    BY <2>2, Zenon DEF Streamed
  <2>4. ASSUME hpc[r] = "recv" PROVE t \o o = SubSeq(s, 1, n)
    <3>1. Len(t) + Len(o) = n /\ \A k \in 1 .. Len(o) : o[k] = s[Len(t) + k]
      BY <2>2, <2>4, Zenon DEF Streamed
    <3>2. PICK u, v : u = t \o o /\ v = SubSeq(s, 1, n)
      BY Zenon
    <3>3. /\ u \in Seq(Event) /\ Len(u) = n
          /\ \A k \in 1 .. n : u[k] = IF k <= Len(t) THEN t[k] ELSE o[k - Len(t)]
      BY <2>2, <3>1, <3>2
    <3>4. v \in Seq(Event) /\ Len(v) = n /\ \A k \in 1 .. n : v[k] = s[k]
      BY <2>2, <2>3, <3>2
    <3>5. ASSUME NEW k \in 1 .. n PROVE u[k] = v[k]
      <4>1. CASE k <= Len(t)
        <5>1. k \in 1 .. Len(t)
          BY <2>2, <4>1
        <5>2. QED BY <2>3, <3>3, <3>4, <4>1, <5>1, Zenon
      <4>2. CASE ~ (k <= Len(t))
        <5>1. k - Len(t) \in 1 .. Len(o) /\ Len(t) + (k - Len(t)) = k
          BY <2>2, <3>1, <4>2
        <5>2. QED BY <3>1, <3>3, <3>4, <4>2, <5>1, Zenon
      <4>3. QED BY <4>1, <4>2, Zenon
    <3>6. u = v
      BY <3>3, <3>4, <3>5
    <3>7. QED BY <3>2, <3>6, Zenon
  <2>5. gpc[r] = "closed" /\ ~canceled[r] => n = Len(s)
    BY <2>2, Zenon DEF Streamed
  <2>6. ASSUME req[r].limit > 0 PROVE Len(t) <= req[r].limit
    <3>1. Len(s) <= req[r].limit
      BY <2>2, <2>6, Zenon DEF Streamed
    <3>2. QED BY <2>2, <2>3, <3>1
  <2>7. DOMAIN t = 1 .. Len(t) /\ \A k \in 1 .. Len(t) : k \in 1 .. Len(s)
    BY <2>2, <2>3
  <2>8. \A k \in DOMAIN t : Selected(req[r], t[k])
    BY <2>2, <2>3, <2>7, Zenon DEF Streamed
  <2>9. ASSUME NEW j \in DOMAIN t, NEW k \in DOMAIN t, j < k, t[j] = t[k] PROVE FALSE
    <3>1. s[j] = s[k] /\ j \in 1 .. Len(s) /\ k \in 1 .. Len(s)
      BY <2>3, <2>7, <2>9, Zenon
    <3>2. \/ Bucket(s[j].ts) < Bucket(s[j].ts)
          \/ (Bucket(s[j].ts) = Bucket(s[j].ts) /\ s[j].id < s[j].id)
      BY <2>2, <2>9, <3>1, Zenon DEF Streamed, ByMinute
    <3>3. s[j].ts \in Nat /\ s[j].id \in Nat
      <4>1. s[j] \in Event
        BY <2>2, <3>1
      <4>2. QED BY <4>1, StoreConstants DEF Event
    <3>4. Bucket(s[j].ts) \in Int
      BY <3>3, Buckets, Zenon
    <3>5. QED BY <3>2, <3>3, <3>4
  <2>10. QED BY <2>1, <2>4, <2>5, <2>6, <2>8, <2>9, Zenon
<1>2. QED BY <1>1, ReplayInvariant, PTL

=============================================================================
