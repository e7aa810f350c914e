--------------------------- MODULE RateLimitProofs ---------------------------
(***************************************************************************)
(* Proofs about RateLimit, for any limit, any window and any set of keys:  *)
(* types, the honesty of Retry-After, that the Map forgets, and how many   *)
(* requests get through at the turn of a window.                           *)
(***************************************************************************)
EXTENDS RateLimit, SumTheorems

\* A window that is still open ends no later than the wait its key was told.
RetryCovers == \A k \in Keys : Live(k) => WindowTicks - buckets[k].age <= retry[k]

\* Between two sweeps a bucket is at most a window older than the last sweep.
SweptLately ==
  sinceSweep < WindowTicks =>
    \A k \in Keys : buckets[k].kept => buckets[k].age < WindowTicks + sinceSweep

IInv == TypeOK /\ RetryCovers /\ SweptLately

\* Rounding up to whole seconds never loses a tick, and adds less than one second.
LEMMA RoundedUp ==
  ASSUME NEW n \in Nat, NEW s \in Nat \ {0}
  PROVE  /\ ((n + s - 1) \div s) * s \in Nat
         /\ ((n + s - 1) \div s) * s >= n
         /\ ((n + s - 1) \div s) * s <= n + s - 1
<1> DEFINE m == n + s - 1
           q == m \div s
<1>1. m \in Nat
  OBVIOUS
<1>2. q \in Int /\ m = s * q + (m % s) /\ m % s \in 0..(s - 1)
  BY <1>1
<1>3. q * s <= m /\ q * s > m - s
  BY <1>1, <1>2
<1> QED
  BY <1>1, <1>2, <1>3

\* The wait a refusal announces, in ticks.
LEMMA Announced ==
  ASSUME NEW age \in 0..(WindowTicks - 1)
  PROVE  /\ ResetInSeconds(age) * SecondTicks \in 0..(NotTold - 1)
         /\ WindowTicks - age <= ResetInSeconds(age) * SecondTicks
<1>1. WindowTicks - age \in Nat /\ WindowTicks \in Nat /\ SecondTicks \in Nat \ {0}
  BY TimeAssumption
<1>2. /\ ResetInSeconds(age) * SecondTicks \in Nat
      /\ ResetInSeconds(age) * SecondTicks >= WindowTicks - age
      /\ ResetInSeconds(age) * SecondTicks <= WindowTicks - age + SecondTicks - 1
  BY <1>1, RoundedUp DEF ResetInSeconds
<1> QED
  BY <1>1, <1>2 DEF NotTold

\* What sweeping leaves: well-typed buckets, no live one lost, none too old.
LEMMA Sweeping ==
  ASSUME IInv
  PROVE  /\ Swept.map \in [Keys -> Bucket]
         /\ Swept.since \in 0..(WindowTicks - 1)
         /\ \A k \in Keys : Swept.map[k] = buckets[k] \/ Swept.map[k] = Absent
         /\ \A k \in Keys : Swept.map[k].kept => Swept.map[k].age < WindowTicks + Swept.since
<1>1. Absent \in Bucket
  BY TimeAssumption, LimitAssumption DEF Absent, Bucket, Age
<1>2. sinceSweep \in 0..WindowTicks /\ WindowTicks \in Nat \ {0} /\ buckets \in [Keys -> Bucket]
  BY TimeAssumption DEF IInv, TypeOK
<1>3. CASE sinceSweep < WindowTicks
  BY <1>2, <1>3 DEF Swept, IInv, SweptLately
<1>4. CASE ~(sinceSweep < WindowTicks)
  <2>1. Swept.since = 0
    BY <1>4 DEF Swept
  <2>2. Swept.map = [k \in Keys |-> IF buckets[k].age >= WindowTicks THEN Absent ELSE buckets[k]]
    BY <1>4 DEF Swept
  <2>3. \A k \in Keys : buckets[k].age \in Nat /\ ~Absent.kept
    BY <1>2 DEF Bucket, Age, Absent
  <2> QED
    BY <1>1, <1>2, <2>1, <2>2, <2>3
<1> QED
  BY <1>3, <1>4

LEMMA InitIInv == Init => IInv
<1> SUFFICES ASSUME Init PROVE IInv
  OBVIOUS
<1>1. TypeOK
  BY LimitAssumption, TimeAssumption DEF Init, TypeOK, Bucket, Age, Absent, NotTold
<1>2. RetryCovers /\ SweptLately
  BY DEF Init, RetryCovers, SweptLately, Live, Absent
<1> QED
  BY <1>1, <1>2 DEF IInv

\* A tick of the clock keeps the invariant.
LEMMA TickKeeps ==
  ASSUME IInv, Tick PROVE IInv'
<1> USE TimeAssumption, LimitAssumption
<1>1. /\ buckets \in [Keys -> Bucket] /\ sinceSweep \in 0..WindowTicks
      /\ recent \in [Keys -> [0..(WindowTicks - 1) -> Nat]] /\ retry \in [Keys -> 0..NotTold]
  BY DEF IInv, TypeOK
<1>2. \A k \in Keys : /\ buckets[k].kept \in BOOLEAN /\ buckets[k].age \in Age
                      /\ buckets[k].count \in 0..(Limit + 1)
                      /\ retry[k] \in 0..NotTold
  BY <1>1 DEF Bucket
<1>3. \A k \in Keys : buckets'[k] = Older(buckets[k])
  BY DEF Tick
<1>4. \A k \in Keys :
        /\ buckets'[k] \in Bucket
        /\ buckets'[k].kept = buckets[k].kept
        /\ buckets[k].kept => buckets'[k].age = AtMost(buckets[k].age + 1, 2 * WindowTicks)
  <2> TAKE k \in Keys
  <2>1. buckets'[k] = [buckets[k] EXCEPT !.age = IF buckets[k].kept
                         THEN AtMost(buckets[k].age + 1, 2 * WindowTicks) ELSE buckets[k].age]
    BY <1>3 DEF Older
  <2>2. buckets[k] \in Bucket
    BY <1>1
  <2>3. AtMost(buckets[k].age + 1, 2 * WindowTicks) \in Age
    BY <1>2 DEF AtMost, Age
  <2> QED
    BY <2>1, <2>2, <2>3 DEF Bucket
<1>5. TypeOK'
  <2>1. buckets' \in [Keys -> Bucket]
    BY <1>4 DEF Tick
  <2>2. sinceSweep' \in 0..WindowTicks
    BY <1>1 DEF Tick, AtMost
  <2>3. recent' \in [Keys -> [0..(WindowTicks - 1) -> Nat]]
    BY <1>1 DEF Tick
  <2>4. retry' \in [Keys -> 0..NotTold]
    BY <1>1 DEF Tick, NotTold
  <2> QED
    BY <2>1, <2>2, <2>3, <2>4 DEF TypeOK
<1>6. RetryCovers'
  <2> SUFFICES ASSUME NEW k \in Keys, Live(k)'
               PROVE  WindowTicks - buckets'[k].age <= retry'[k]
    BY DEF RetryCovers
  <2>1. buckets[k].kept /\ buckets'[k].age < WindowTicks
    BY <1>4 DEF Live
  <2>2. buckets'[k].age = buckets[k].age + 1 /\ buckets[k].age < WindowTicks
    BY <1>2, <1>4, <2>1 DEF AtMost, Age
  <2>3. WindowTicks - buckets[k].age <= retry[k]
    BY <2>1, <2>2 DEF IInv, RetryCovers, Live
  <2>4. retry'[k] = IF retry[k] \in {0, NotTold} THEN retry[k] ELSE retry[k] - 1
    BY DEF Tick
  <2> QED
    BY <1>2, <2>2, <2>3, <2>4 DEF Age, NotTold
<1>7. SweptLately'
  <2> SUFFICES ASSUME sinceSweep' < WindowTicks, NEW k \in Keys, buckets'[k].kept
               PROVE  buckets'[k].age < WindowTicks + sinceSweep'
    BY DEF SweptLately
  <2>1. sinceSweep' = sinceSweep + 1 /\ sinceSweep < WindowTicks
    BY <1>1 DEF Tick, AtMost
  <2>2. buckets[k].kept /\ buckets[k].age < WindowTicks + sinceSweep
    BY <1>4, <2>1 DEF IInv, SweptLately
  <2> QED
    BY <1>1, <1>2, <1>4, <2>1, <2>2 DEF AtMost, Age
<1> QED
  BY <1>5, <1>6, <1>7 DEF IInv

\* A request keeps the invariant, and leaves no old key in the Map.
LEMMA HitKeeps ==
  ASSUME IInv, NEW r \in Requests, Hit(r)
  PROVE  /\ IInv'
         /\ \A k \in Keys : buckets'[k].kept => buckets'[k].age < 2 * WindowTicks
<1> USE TimeAssumption, LimitAssumption
<1> DEFINE h == KeyOf(r)
           old == Swept.map[h]
           b == Counted(old)
<1>1. /\ buckets \in [Keys -> Bucket] /\ sinceSweep \in 0..WindowTicks
      /\ recent \in [Keys -> [0..(WindowTicks - 1) -> Nat]] /\ retry \in [Keys -> 0..NotTold]
  BY DEF IInv, TypeOK
<1>2. h \in Keys
  BY KeyAssumption
<1>3. /\ Swept.map \in [Keys -> Bucket] /\ Swept.since \in 0..(WindowTicks - 1)
      /\ \A k \in Keys : Swept.map[k] = buckets[k] \/ Swept.map[k] = Absent
      /\ \A k \in Keys : Swept.map[k].kept => Swept.map[k].age < WindowTicks + Swept.since
  BY Sweeping
<1>4. /\ buckets' = [Swept.map EXCEPT ![h] = b]
      /\ sinceSweep' = Swept.since
  BY DEF Hit
<1>5. /\ b \in Bucket /\ b.kept /\ b.age < WindowTicks
      /\ ~Renewed(old) => old.kept /\ b.age = old.age
  <2>1. old \in Bucket
    BY <1>2, <1>3
  <2> QED
    BY <2>1 DEF Counted, Renewed, Bucket, Age, AtMost
<1>6. /\ buckets'[h] = b
      /\ \A k \in Keys \ {h} : buckets'[k] = buckets[k] \/ buckets'[k] = Absent
      /\ \A k \in Keys \ {h} : buckets'[k] = Swept.map[k]
  BY <1>2, <1>3, <1>4
<1>7. \A k \in Keys \ {h} : retry'[k] = retry[k]
  BY <1>1 DEF Hit
<1>8. retry'[h] = IF b.count > Limit THEN ResetInSeconds(b.age) * SecondTicks
                  ELSE IF Renewed(old) THEN NotTold ELSE retry[h]
  BY <1>1, <1>2 DEF Hit
<1>9. /\ ResetInSeconds(b.age) * SecondTicks \in 0..(NotTold - 1)
      /\ WindowTicks - b.age <= ResetInSeconds(b.age) * SecondTicks
  BY <1>5, Announced DEF Bucket, Age
<1>10. TypeOK'
  <2>1. buckets' \in [Keys -> Bucket]
    BY <1>3, <1>4, <1>5
  <2>2. sinceSweep' \in 0..WindowTicks
    BY <1>3, <1>4
  <2>3. recent' \in [Keys -> [0..(WindowTicks - 1) -> Nat]]
    <3>1. \/ recent' = recent
          \/ recent' = [recent EXCEPT ![Owner(r)] = [recent[Owner(r)] EXCEPT ![0] = @ + 1]]
      BY DEF Hit
    <3>2. Owner(r) \in Keys
      BY <1>2 DEF Owner, KeyOf
    <3>3. [recent[Owner(r)] EXCEPT ![0] = @ + 1] \in [0..(WindowTicks - 1) -> Nat]
      BY <1>1, <3>2
    <3> QED
      BY <1>1, <3>1, <3>2, <3>3
  <2>4. retry' \in [Keys -> 0..NotTold]
    <3>1. NotTold \in 0..NotTold /\ 0..(NotTold - 1) \subseteq 0..NotTold
      BY DEF NotTold
    <3>2. \/ retry' = [retry EXCEPT ![h] = ResetInSeconds(b.age) * SecondTicks]
          \/ retry' = [retry EXCEPT ![h] = NotTold]
          \/ retry' = retry
      BY DEF Hit
    <3> QED
      BY <1>1, <1>9, <3>1, <3>2
  <2> QED
    BY <2>1, <2>2, <2>3, <2>4 DEF TypeOK
<1>11. RetryCovers'
  <2> SUFFICES ASSUME NEW k \in Keys, Live(k)'
               PROVE  WindowTicks - buckets'[k].age <= retry'[k]
    BY DEF RetryCovers
  <2>1. CASE k # h
    BY <1>6, <1>7, <2>1 DEF IInv, RetryCovers, Live, Absent
  <2>2. CASE k = h /\ b.count > Limit
    BY <1>6, <1>8, <1>9, <2>2
  <2>3. CASE k = h /\ ~(b.count > Limit) /\ Renewed(old)
    BY <1>5, <1>6, <1>8, <2>3 DEF NotTold, Bucket, Age
  <2>4. CASE k = h /\ ~(b.count > Limit) /\ ~Renewed(old)
    <3>1. old = buckets[h] /\ Live(h)
      BY <1>2, <1>3, <1>5, <2>4 DEF Absent, Renewed, Live, Bucket, Age
    <3> QED
      BY <1>2, <1>5, <1>6, <1>8, <2>4, <3>1 DEF IInv, RetryCovers
  <2> QED
    BY <2>1, <2>2, <2>3, <2>4
<1>12. \A k \in Keys : buckets'[k].kept => buckets'[k].age < WindowTicks + sinceSweep'
  <2> TAKE k \in Keys
  <2>1. CASE k = h
    BY <1>3, <1>4, <1>5, <1>6, <2>1 DEF Bucket, Age
  <2>2. CASE k # h
    BY <1>3, <1>4, <1>6, <2>2
  <2> QED
    BY <2>1, <2>2
<1>13. \A k \in Keys : buckets'[k].kept => buckets'[k].age < 2 * WindowTicks
  BY <1>3, <1>4, <1>10, <1>12, SMTT(30) DEF TypeOK, Bucket, Age
<1> QED
  BY <1>10, <1>11, <1>12, <1>13 DEF IInv, SweptLately

LEMMA StepKeeps == IInv /\ [Next]_vars => IInv'
<1> SUFFICES ASSUME IInv, [Next]_vars PROVE IInv'
  OBVIOUS
<1>1. CASE Tick
  BY <1>1, TickKeeps
<1>2. ASSUME NEW r \in Requests, Hit(r) PROVE IInv'
  BY <1>2, HitKeeps
<1>3. CASE UNCHANGED vars
  BY <1>3 DEF vars, IInv, TypeOK, RetryCovers, SweptLately, Live
<1> QED
  BY <1>1, <1>2, <1>3 DEF Next

LEMMA Invariance == Spec => []IInv
  BY InitIInv, StepKeeps, PTL DEF Spec

\* The types of the store and of the books kept about it.
THEOREM RateTypes == Spec => []TypeOK
<1>1. IInv => TypeOK
  BY DEF IInv
<1> QED
  BY <1>1, Invariance, PTL

\* Waiting the announced Retry-After always outlasts the window that refused,
\* for every window length and whatever part of a second is left of it.
THEOREM RetrySafe == Spec => []RetryHonored
<1>1. IInv => RetryHonored
  BY TimeAssumption DEF IInv, TypeOK, RetryCovers, RetryHonored, Live, Bucket, Age
<1> QED
  BY <1>1, Invariance, PTL

\* No request leaves a key two windows old in the Map, for any number of keys.
THEOREM ForgetsSafe == Spec => MapForgets
<1>1. IInv /\ [Next]_vars =>
        [(\E r \in Requests : Hit(r)) =>
           \A k \in Keys : buckets'[k].kept => buckets'[k].age < 2 * WindowTicks]_vars
  BY HitKeeps
<1> QED
  BY <1>1, Invariance, PTL DEF Spec, MapForgets

-----------------------------------------------------------------------------
(* The burst at the turn of a window.                                      *)

Past == 0..WindowTicks - 1

\* The times since the window of a bucket began, and those before.
Within(b) == {a \in Past : a <= b.age}
Before(b) == Past \ Within(b)

\* What was accepted of a key's owner against its bucket: within the window as
\* many as it counted, before it no more than the limit, and none at all since
\* the window was over.
Burst(b, accepted) ==
  IF b.kept
  THEN /\ Total(accepted, Within(b)) <= AtMost(b.count, Limit)
       /\ Total(accepted, Before(b)) <= Limit
       /\ b.age >= WindowTicks => accepted[0] = 0
  ELSE accepted[0] = 0 /\ Total(accepted, Past) <= Limit

BurstInv == \A k \in Keys : Burst(buckets[k], recent[k])

LEMMA PastIs ==
  /\ IsFiniteSet(Past) /\ 0 \in Past
  /\ \A a \in Past : a \in Nat /\ a < WindowTicks /\ (a # 0 => a - 1 \in Past)
<1>1. IsFiniteSet(0..WindowTicks - 1)
  BY TimeAssumption, FS_Interval
<1> QED
  BY <1>1, TimeAssumption DEF Past

\* As time passes, what was counted at some times is counted at the next ones.
LEMMA Shifted ==
  ASSUME NEW f \in [Past -> Nat], NEW g \in [Past -> Nat], g[0] = 0,
         \A a \in Past : a # 0 => g[a] = f[a - 1],
         NEW S \in SUBSET Past, NEW T \in SUBSET Past, \A a \in T : a = 0 \/ a - 1 \in S
  PROVE  Total(g, T) <= Total(f, S)
<1> DEFINE R == T \ {0}
           h == [a \in R |-> a - 1]
           I == {h[a] : a \in R}
<1>1. IsFiniteSet(S) /\ IsFiniteSet(T) /\ IsFiniteSet(R)
  BY PastIs, FS_Subset
<1>2. \A a \in R : a \in Nat /\ a \in Past /\ h[a] = a - 1 /\ a - 1 \in Past /\ a - 1 \in S
  BY PastIs
<1>3. \A a \in R : h[a] \in S /\ g[a] = f[h[a]] /\ f[h[a]] \in Nat /\ g[a] \in Int
  BY <1>2
<1>4. \A a, c \in R : h[a] = h[c] => a = c
  BY <1>2
<1> HIDE DEF h, R
<1>5. Total(f, I) = Total(g, R)
  <2>1. \A a \in R : g[a] \in Int /\ f[h[a]] = g[a]
    BY <1>3
  <2> QED
    BY <1>1, <1>4, <2>1, TotalRenamed
<1>6. Total(f, I) <= Total(f, S)
  <2>1. I \in SUBSET S /\ \A a \in S : f[a] \in Nat
    BY <1>3
  <2> HIDE DEF I
  <2> QED
    BY <1>1, <2>1, TotalPart
<1>7. Total(g, T) = Total(g, R)
  <2>1. CASE 0 \in T
    <3>1. \A a \in T : g[a] \in Int
      OBVIOUS
    <3>2. Total(g, T) = g[0] + Total(g, T \ {0}) /\ Total(g, T \ {0}) \in Int
      BY <1>1, <2>1, <3>1, TotalStep
    <3> QED
      BY <3>2 DEF R
  <2>2. CASE 0 \notin T
    <3>1. R = T
      BY <2>2 DEF R
    <3> QED
      BY <3>1
  <2> QED
    BY <2>1, <2>2
<1> QED
  BY <1>5, <1>6, <1>7

\* The two parts of the past.
LEMMA PastParts ==
  ASSUME NEW f \in [Past -> Nat], NEW b
  PROVE  /\ Total(f, Past) = Total(f, Within(b)) + Total(f, Before(b))
         /\ Total(f, Within(b)) \in Nat /\ Total(f, Before(b)) \in Nat /\ Total(f, Past) \in Nat
<1>1. /\ Within(b) \in SUBSET Past /\ Before(b) \in SUBSET Past
      /\ Past = Within(b) \union Before(b) /\ Within(b) \intersect Before(b) = {}
  BY DEF Within, Before
<1>2. IsFiniteSet(Within(b)) /\ IsFiniteSet(Before(b)) /\ IsFiniteSet(Past)
  BY <1>1, PastIs, FS_Subset
<1>3. \A a \in Within(b) \union Before(b) : f[a] \in Int
  BY <1>1
<1>4. Total(f, Past) = Total(f, Within(b)) + Total(f, Before(b))
  BY <1>1, <1>2, <1>3, TotalDisjoint
<1>5. \A a \in Past : f[a] \in Nat
  OBVIOUS
<1> QED
  BY <1>1, <1>2, <1>4, <1>5, TotalPart

\* A bucket that is gone, or whose window is over, leaves room for one burst only.
LEMMA BurstOfOld ==
  ASSUME NEW b \in Bucket, NEW f \in [Past -> Nat], Burst(b, f), Renewed(b)
  PROVE  f[0] = 0 /\ Total(f, Past) <= Limit
<1>1. CASE ~b.kept
  BY <1>1 DEF Burst
<1>2. CASE b.kept
  <2>1. b.age >= WindowTicks /\ b.age \in Nat /\ b.count \in Nat /\ Limit \in Nat
    BY <1>2, LimitAssumption, TimeAssumption DEF Renewed, Bucket, Age
  <2>2. Within(b) = Past
    BY <2>1, PastIs, TimeAssumption DEF Within
  <2>3. AtMost(b.count, Limit) <= Limit /\ AtMost(b.count, Limit) \in Nat
    BY <2>1 DEF AtMost
  <2>4. f[0] = 0 /\ Total(f, Past) <= AtMost(b.count, Limit) /\ Total(f, Past) \in Nat
    BY <1>2, <2>1, <2>2, PastParts DEF Burst
  <2> QED
    BY <2>1, <2>3, <2>4
<1> QED
  BY <1>1, <1>2

LEMMA BurstOfAbsent ==
  ASSUME NEW f, f[0] = 0, Total(f, Past) <= Limit
  PROVE  Burst(Absent, f)
  BY DEF Burst, Absent

LEMMA BurstAges ==
  ASSUME NEW b \in Bucket, NEW f \in [Past -> Nat], Burst(b, f),
         NEW g, g = [a \in Past |-> IF a = 0 THEN 0 ELSE f[a - 1]]
  PROVE  Burst(Older(b), g)
<1> DEFINE c == Older(b)
<1>1. /\ g \in [Past -> Nat] /\ g[0] = 0 /\ \A a \in Past : a # 0 => g[a] = f[a - 1]
  BY PastIs
<1>2. /\ c.kept = b.kept /\ c.count = b.count
      /\ b.kept => c.age = AtMost(b.age + 1, 2 * WindowTicks)
  BY DEF Older, Bucket
<1>3. /\ b.age \in Nat /\ b.age <= 2 * WindowTicks /\ b.count \in Nat /\ Limit \in Nat
      /\ WindowTicks \in Nat /\ WindowTicks > 0
  BY LimitAssumption, TimeAssumption DEF Bucket, Age
<1> HIDE DEF c
<1>4. CASE b.kept
  <2>1. Total(g, Within(c)) <= Total(f, Within(b))
    <3>1. \A a \in Within(c) : a = 0 \/ a - 1 \in Within(b)
      BY <1>2, <1>3, <1>4, PastIs DEF Within, AtMost
    <3>2. Within(c) \in SUBSET Past /\ Within(b) \in SUBSET Past
      BY DEF Within
    <3> QED
      BY <1>1, <3>1, <3>2, Shifted
  <2>2. Total(g, Before(c)) <= Total(f, Before(b))
    <3>1. \A a \in Before(c) : a = 0 \/ a - 1 \in Before(b)
      BY <1>2, <1>3, <1>4, PastIs DEF Within, Before, AtMost
    <3>2. Before(c) \in SUBSET Past /\ Before(b) \in SUBSET Past
      BY DEF Before
    <3> QED
      BY <1>1, <3>1, <3>2, Shifted
  <2>3. /\ Total(g, Within(c)) \in Nat /\ Total(f, Within(b)) \in Nat
        /\ Total(g, Before(c)) \in Nat /\ Total(f, Before(b)) \in Nat
    BY <1>1, PastParts
  <2>4. Total(f, Within(b)) <= AtMost(b.count, Limit) /\ Total(f, Before(b)) <= Limit
    BY <1>4 DEF Burst
  <2>5. AtMost(b.count, Limit) \in Nat
    BY <1>3 DEF AtMost
  <2>6. Total(g, Within(c)) <= AtMost(b.count, Limit) /\ Total(g, Before(c)) <= Limit
    BY <1>3, <2>1, <2>2, <2>3, <2>4, <2>5
  <2> QED
    BY <1>1, <1>2, <1>4, <2>6 DEF Burst, c
<1>5. CASE ~b.kept
  <2>1. f[0] = 0 /\ Total(f, Past) <= Limit
    BY <1>5 DEF Burst
  <2>2. Total(g, Past) <= Total(f, Past)
    <3>1. \A a \in Past : a = 0 \/ a - 1 \in Past
      BY PastIs
    <3> QED
      BY <1>1, <3>1, Shifted
  <2>3. Total(g, Past) \in Nat /\ Total(f, Past) \in Nat
    BY <1>1, PastParts
  <2>4. Total(g, Past) <= Limit
    BY <1>3, <2>1, <2>2, <2>3
  <2> QED
    BY <1>1, <1>2, <1>5, <2>4 DEF Burst, c
<1> QED
  BY <1>4, <1>5

LEMMA OneMore ==
  ASSUME NEW f \in [Past -> Nat], NEW g, g = [f EXCEPT ![0] = @ + 1], NEW S \in SUBSET Past
  PROVE  Total(g, S) = IF 0 \in S THEN Total(f, S) + 1 ELSE Total(f, S)
<1>1. /\ IsFiniteSet(S) /\ IsFiniteSet(S \ {0}) /\ \A a \in S : f[a] \in Int /\ g[a] \in Int
      /\ \A a \in S \ {0} : f[a] \in Int /\ f[a] = g[a]
  BY PastIs, FS_Subset
<1>2. Total(f, S \ {0}) = Total(g, S \ {0})
  BY <1>1, TotalSame
<1>3. CASE 0 \in S
  <2>1. /\ Total(f, S) = f[0] + Total(f, S \ {0}) /\ Total(f, S \ {0}) \in Int
        /\ Total(g, S) = g[0] + Total(g, S \ {0})
    BY <1>1, <1>3, TotalStep
  <2>2. g[0] = f[0] + 1 /\ f[0] \in Nat
    BY PastIs
  <2> QED
    BY <1>2, <1>3, <2>1, <2>2
<1>4. CASE 0 \notin S
  <2>1. S \ {0} = S
    BY <1>4
  <2> QED
    BY <1>2, <1>4, <2>1
<1> QED
  BY <1>3, <1>4

\* A request that is refused adds nothing, one that is accepted is counted.
LEMMA BurstCounts ==
  ASSUME NEW b \in Bucket, NEW f \in [Past -> Nat], Burst(b, f),
         NEW g, g = [f EXCEPT ![0] = @ + 1]
  PROVE  IF Counted(b).count > Limit THEN Burst(Counted(b), f) ELSE Burst(Counted(b), g)
<1> DEFINE c == Counted(b)
<1>1. /\ Limit \in Nat /\ Limit > 0 /\ WindowTicks \in Nat /\ WindowTicks > 0
      /\ b.age \in Nat /\ b.count \in Nat /\ b.count <= Limit + 1
  BY LimitAssumption, TimeAssumption DEF Bucket, Age
<1>2. /\ c.kept /\ c.age = (IF Renewed(b) THEN 0 ELSE b.age)
      /\ c.count = (IF Renewed(b) THEN 1 ELSE AtMost(b.count + 1, Limit + 1))
  BY DEF Counted
<1> HIDE DEF c
<1>3. Within(c) \in SUBSET Past /\ Before(c) \in SUBSET Past /\ 0 \in Within(c) /\ 0 \notin Before(c)
  BY <1>1, <1>2, PastIs DEF Within, Before
<1>4. Total(g, Within(c)) = Total(f, Within(c)) + 1 /\ Total(g, Before(c)) = Total(f, Before(c))
  BY <1>3, OneMore
<1>5. Total(f, Within(c)) \in Nat /\ Total(f, Before(c)) \in Nat
  BY PastParts
<1>6. CASE Renewed(b)
  <2>1. f[0] = 0 /\ Total(f, Past) <= Limit
    BY <1>6, BurstOfOld
  <2>2. c.count = 1 /\ c.age = 0 /\ AtMost(c.count, Limit) = 1 /\ ~(c.count > Limit)
    BY <1>1, <1>2, <1>6 DEF AtMost
  <2>3. Within(c) = {0}
    BY <1>1, <2>2, PastIs DEF Within
  <2>4. Total(f, Within(c)) = 0
    BY <2>1, <2>3, TotalOfOne
  <2>5. Total(f, Before(c)) <= Limit
    <3>1. Total(f, Past) = Total(f, Within(c)) + Total(f, Before(c))
      BY PastParts
    <3> QED
      BY <1>5, <2>1, <2>4, <3>1
  <2>6. Total(g, Within(c)) <= AtMost(c.count, Limit) /\ Total(g, Before(c)) <= Limit
    BY <1>4, <2>2, <2>4, <2>5
  <2>7. ~(c.age >= WindowTicks)
    BY <1>1, <2>2
  <2> QED
    BY <1>2, <2>2, <2>6, <2>7 DEF Burst, c
<1>7. CASE ~Renewed(b)
  <2>1. b.kept /\ c.age = b.age /\ ~(c.age >= WindowTicks) /\ c.count = AtMost(b.count + 1, Limit + 1)
    BY <1>1, <1>2, <1>7 DEF Renewed
  <2>2. Within(c) = Within(b) /\ Before(c) = Before(b)
    BY <2>1 DEF Within, Before
  <2>3. Total(f, Within(c)) <= AtMost(b.count, Limit) /\ Total(f, Before(c)) <= Limit
    BY <2>1, <2>2 DEF Burst
  <2>4. CASE c.count > Limit
    <3>1. AtMost(b.count, Limit) = Limit /\ AtMost(c.count, Limit) = Limit
      BY <1>1, <2>1, <2>4 DEF AtMost
    <3> QED
      BY <1>2, <2>1, <2>3, <2>4, <3>1 DEF Burst, c
  <2>5. CASE ~(c.count > Limit)
    <3>1. /\ c.count = b.count + 1 /\ AtMost(b.count, Limit) = b.count
          /\ AtMost(c.count, Limit) = b.count + 1
      BY <1>1, <2>1, <2>5 DEF AtMost
    <3>2. Total(g, Within(c)) <= AtMost(c.count, Limit) /\ Total(g, Before(c)) <= Limit
      BY <1>1, <1>4, <1>5, <2>3, <3>1
    <3> QED
      BY <1>2, <2>1, <2>5, <3>2 DEF Burst, c
  <2> QED
    BY <2>4, <2>5
<1> QED
  BY <1>6, <1>7

LEMMA InitBurst == Init => BurstInv
<1> SUFFICES ASSUME Init, NEW k \in Keys PROVE Burst(buckets[k], recent[k])
  BY DEF BurstInv
<1>1. buckets[k] = Absent /\ recent[k] = [a \in Past |-> 0]
  BY DEF Init, Past
<1>2. recent[k][0] = 0 /\ \A a \in Past : recent[k][a] \in Int /\ recent[k][a] <= 0
  BY <1>1, PastIs
<1>3. IsFiniteSet(Past) /\ 0 \in Int /\ Cardinality(Past) \in Nat /\ Total(recent[k], Past) \in Int
  BY <1>2, PastIs, FS_CardinalityType, TotalStep
<1>4. Total(recent[k], Past) <= 0 * Cardinality(Past)
  BY <1>2, <1>3, TotalBounds
<1>5. Total(recent[k], Past) <= Limit
  BY <1>3, <1>4, LimitAssumption
<1> QED
  BY <1>1, <1>2, <1>5, BurstOfAbsent

LEMMA BurstStep == IInv /\ BurstInv /\ [Next]_vars => BurstInv'
<1> SUFFICES ASSUME IInv, BurstInv, [Next]_vars PROVE BurstInv'
  OBVIOUS
<1>1. /\ buckets \in [Keys -> Bucket] /\ recent \in [Keys -> [Past -> Nat]]
      /\ \A k \in Keys : Burst(buckets[k], recent[k])
  BY DEF IInv, TypeOK, BurstInv, Past
<1>2. CASE Tick
  <2>1. ASSUME NEW k \in Keys
        PROVE  /\ buckets'[k] = Older(buckets[k])
               /\ recent'[k] = [a \in Past |-> IF a = 0 THEN 0 ELSE recent[k][a - 1]]
    BY <1>2 DEF Tick, Past
  <2>2. ASSUME NEW k \in Keys  PROVE  Burst(buckets'[k], recent'[k])
    <3> DEFINE g == [a \in Past |-> IF a = 0 THEN 0 ELSE recent[k][a - 1]]
    <3>1. buckets[k] \in Bucket /\ recent[k] \in [Past -> Nat] /\ Burst(buckets[k], recent[k])
      BY <1>1
    <3>2. Burst(Older(buckets[k]), g)
      BY <3>1, BurstAges
    <3> QED
      BY <2>1, <3>2
  <2> QED
    BY <2>2 DEF BurstInv
<1>3. ASSUME NEW r \in Requests, Hit(r)  PROVE  BurstInv'
  <2> DEFINE h == KeyOf(r)
             old == Swept.map[h]
             c == Counted(old)
             more == [recent[h] EXCEPT ![0] = @ + 1]
  <2>1. h \in Keys /\ Owner(r) = h
    BY KeyAssumption DEF Owner, KeyOf
  <2>2. ASSUME NEW k \in Keys  PROVE  Swept.map[k] \in Bucket /\ Burst(Swept.map[k], recent[k])
    <3>1. Swept.map \in [Keys -> Bucket]
      BY Sweeping
    <3>2. \/ Swept.map[k] = buckets[k]
          \/ Swept.map[k] = Absent /\ buckets[k].age >= WindowTicks
      BY <1>1 DEF Swept
    <3>3. buckets[k].age >= WindowTicks => Burst(Absent, recent[k])
      BY <1>1, BurstOfOld, BurstOfAbsent DEF Renewed
    <3> QED
      BY <1>1, <3>1, <3>2, <3>3
  <2>3. /\ buckets' = [Swept.map EXCEPT ![h] = c]
        /\ recent' = IF c.count > Limit THEN recent ELSE [recent EXCEPT ![h] = more]
    BY <1>3, <2>1 DEF Hit
  <2>4. Swept.map \in [Keys -> Bucket]
    BY Sweeping
  <2>5. IF c.count > Limit THEN Burst(c, recent[h]) ELSE Burst(c, more)
    BY <1>1, <2>1, <2>2, BurstCounts
  <2> HIDE DEF c, more, h
  <2>6. ASSUME NEW k \in Keys  PROVE  Burst(buckets'[k], recent'[k])
    <3>1. CASE k = h
      BY <1>1, <2>1, <2>3, <2>4, <2>5, <3>1
    <3>2. CASE k # h
      BY <1>1, <2>2, <2>3, <2>4, <3>2
    <3> QED
      BY <3>1, <3>2
  <2> QED
    BY <2>6 DEF BurstInv
<1>4. CASE UNCHANGED vars
  BY <1>4 DEF vars, BurstInv
<1> QED
  BY <1>2, <1>3, <1>4 DEF Next

\* Whatever mix of e-mails and addresses the requests carry, no account gets more
\* than twice the limit through within a window, for any limit and window.
THEOREM BurstSafe == Spec => []BurstBounded
<1>1. IInv /\ BurstInv => BurstBounded
  <2> SUFFICES ASSUME IInv, BurstInv, NEW k \in Keys PROVE AcceptedRecently(k) <= 2 * Limit
    BY DEF BurstBounded
  <2> DEFINE b == buckets[k]
             f == recent[k]
  <2>1. b \in Bucket /\ f \in [Past -> Nat] /\ Burst(b, f) /\ Limit \in Nat
    BY LimitAssumption DEF IInv, TypeOK, BurstInv, Past
  <2>2. AcceptedRecently(k) = Total(f, Past)
    BY DEF AcceptedRecently, Total, MapThenSumSet, MapThenFoldSet, Past
  <2> HIDE DEF b, f
  <2>3. /\ Total(f, Past) = Total(f, Within(b)) + Total(f, Before(b))
        /\ Total(f, Within(b)) \in Nat /\ Total(f, Before(b)) \in Nat /\ Total(f, Past) \in Nat
    BY <2>1, PastParts
  <2>4. CASE b.kept
    <3>1. AtMost(b.count, Limit) <= Limit /\ AtMost(b.count, Limit) \in Nat
      BY <2>1 DEF AtMost, Bucket
    <3> QED
      BY <2>1, <2>2, <2>3, <2>4, <3>1 DEF Burst
  <2>5. CASE ~b.kept
    BY <2>1, <2>2, <2>3, <2>5 DEF Burst
  <2> QED
    BY <2>4, <2>5
<1> QED
  BY <1>1, InitBurst, BurstStep, Invariance, PTL DEF Spec
=============================================================================
