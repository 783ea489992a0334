--------------------------- MODULE IngressProofs ---------------------------
(***************************************************************************)
(* What MCIngress checks on small instances, for every value of the        *)
(* constants, beginning with the rate limiter.                             *)
(***************************************************************************)
EXTENDS Routing, Limiter, DnsFrontend, Certificates, Identity, FiniteSetTheorems,
        WellFoundedInduction, TLAPS

\* The limiter.  A query's time lags behind the clock by MaxLag at most, and as
\* long as the limits stand a bucket is in debt by no more than what is earned
\* in such a lag, and brought up to the time it is not in debt at all.
LagBounded ==
  \A q \in Asker : asking[q].asks => /\ asking[q].now <= clock
                                     /\ clock - asking[q].now <= MaxLag
DebtBounded ==
  ~changed =>
    \A k \in Prefix : bucket[k].exists =>
      /\ bucket[k].ts <= clock
      /\ bucket[k].tokens + limit.qps * (clock - bucket[k].ts) >= 0
      /\ bucket[k].tokens + limit.qps * MaxLag >= 0

LimiterInv == LimiterTypeOK /\ LagBounded /\ DebtBounded
-----------------------------------------------------------------------------
\* Arithmetic of earning.

\* What is earned in a lag.
LEMMA Earned ==
  ASSUME NEW q \in Nat, NEW c \in Int, NEW n \in Int, NEW s \in Int
  PROVE  /\ q * (c - s) = q * (c - n) + q * (n - s)
         /\ q * (c + 1 - s) = q * (c - s) + q
         /\ q * (c - s) \in Int
OBVIOUS

\* A tick earns the rate once more.
LEMMA TickOf ==
  ASSUME NEW q \in Nat, NEW c \in Int, NEW d \in Int, NEW s \in Int, d = c + 1
  PROVE  q * (d - s) = q * (c - s) + q
OBVIOUS

\* Products with a rate grow with the other factor.
LEMMA Monotone ==
  ASSUME NEW q \in Nat, NEW x \in Int, NEW y \in Int, x <= y
  PROVE  q * x <= q * y
<1>1. y - x \in Nat
  OBVIOUS
<1>2. q * (y - x) >= 0
  BY <1>1
<1>3. q * (y - x) = q * y - q * x
  OBVIOUS
<1> QED
  BY <1>2, <1>3

\* A bucket that gc deletes lacks the grace at most: it has earned since its time
\* what is earned while it is idle, and owes at most one lag.
LEMMA DeletedLacksGrace ==
  ASSUME NEW q \in Nat, NEW b \in Nat, NEW g \in Nat, NEW m \in Nat,
         NEW tok \in Int, NEW ts \in Int, NEW n \in Int, NEW c \in Int,
         tok + q * m >= 0, n - ts > g, n <= c
  PROVE  tok + q * (c - ts) + (b - q * (g + 1 - 2 * m)) >= b + q * m
<1>1. q * (g + 1) <= q * (c - ts)
  BY Monotone
<1>2. q * (g + 1 - 2 * m) = q * (g + 1) - q * m - q * m
  OBVIOUS
<1>3. q * m \in Int /\ q * (g + 1) \in Int /\ q * (c - ts) \in Int
  OBVIOUS
<1> QED
  BY <1>1, <1>2, <1>3
-----------------------------------------------------------------------------
BucketRow == [exists : BOOLEAN, tokens : Int, ts : 0..MaxClock]

\* What a bucket says when brought up to the time, and when it is capped.
Brought(b) == b.tokens + limit.qps * (clock - b.ts)
Capped(b) == IF ~b.exists \/ Brought(b) > Cap THEN Cap ELSE Brought(b)
Solvent(b) ==
  b.exists => /\ b.ts <= clock /\ Brought(b) >= 0
              /\ b.tokens + limit.qps * MaxLag >= 0

\* What the types and the assumptions say about the limits.
LEMMA LimitType ==
  ASSUME LimiterTypeOK
  PROVE  /\ limit.qps \in Nat \ {0} /\ limit.burst \in Nat \ {0}
         /\ GcIdle \in Nat /\ MaxLag \in Nat /\ MaxClock \in Nat /\ clock \in 0..MaxClock
         /\ limit.qps * MaxLag \in Nat /\ Cap \in Nat
         /\ limit.qps * (GcIdle + 1 - 2 * MaxLag) \in Int
         /\ Grace \in Nat /\ Grace >= limit.burst - limit.qps * (GcIdle + 1 - 2 * MaxLag)
<1>1. /\ limit.qps \in Nat \ {0} /\ limit.burst \in Nat \ {0}
      /\ GcIdle \in Nat /\ MaxLag \in Nat /\ MaxClock \in Nat /\ clock \in 0..MaxClock
  BY LimiterAssumption DEF LimiterTypeOK
<1>2. limit.qps * MaxLag \in Nat
  BY <1>1
<1>3. limit.qps * (GcIdle + 1 - 2 * MaxLag) \in Int
  BY <1>1
<1> DEFINE earned == limit.qps * (GcIdle + 1 - 2 * MaxLag)
<1>4. Grace = IF limit.burst - earned > 0 THEN limit.burst - earned ELSE 0
  BY DEF Grace
<1> HIDE DEF earned
<1>5. Grace \in Nat /\ Grace >= limit.burst - earned
  BY <1>1, <1>3, <1>4 DEF earned
<1> QED
  BY <1>1, <1>2, <1>3, <1>5 DEF Cap, earned

\* gc raises the level of a bucket it deletes, by the grace at most, and no other.
LEMMA CollectedKeeps ==
  ASSUME LimiterTypeOK, NEW b \in BucketRow, Solvent(b), NEW n \in 0..MaxClock, n <= clock
  PROVE  /\ Collected(b, n) \in BucketRow /\ Solvent(Collected(b, n))
         /\ Capped(b) \in Int /\ Capped(Collected(b, n)) \in Int
         /\ Capped(b) <= Capped(Collected(b, n))
         /\ Capped(Collected(b, n)) <=
              Capped(b) + (IF b.exists /\ ~Collected(b, n).exists THEN Grace ELSE 0)
<1>0. Brought(b) \in Int /\ Cap \in Nat /\ Grace \in Nat
  BY LimitType DEF Brought, BucketRow
<1>1. CASE b.exists /\ n - b.ts > GcIdle
  <2>1. Collected(b, n) = NoBucket
    BY <1>1 DEF Collected
  <2>2. Brought(b) + Grace >= Cap
    <3>1. b.tokens \in Int /\ b.ts \in Int /\ n \in Int /\ clock \in Int
      BY LimitType DEF BucketRow
    <3>2. b.tokens + limit.qps * MaxLag >= 0
      BY <1>1 DEF Solvent
    <3>3. Brought(b) + (limit.burst - limit.qps * (GcIdle + 1 - 2 * MaxLag)) >= Cap
      BY <1>1, <3>1, <3>2, LimitType, DeletedLacksGrace DEF Brought, Cap
    <3> QED
      BY <1>0, <3>3, LimitType
  <2>3. NoBucket \in BucketRow /\ ~NoBucket.exists
    BY LimitType DEF NoBucket, BucketRow
  <2>4. Capped(NoBucket) = Cap
    BY <2>3 DEF Capped
  <2>5. Capped(b) \in Int /\ Capped(b) <= Cap /\ Cap <= Capped(b) + Grace
    BY <1>0, <1>1, <2>2 DEF Capped
  <2> QED
    BY <1>0, <1>1, <2>1, <2>3, <2>4, <2>5 DEF Solvent
<1>2. CASE ~(b.exists /\ n - b.ts > GcIdle)
  <2>1. Collected(b, n) = b
    BY <1>2 DEF Collected
  <2>2. Capped(b) \in Int
    BY <1>0 DEF Capped
  <2> QED
    BY <1>0, <2>1, <2>2
<1> QED
  BY <1>1, <1>2

\* Refilling and taking a token: a refusal changes no level, an admission costs
\* a token or more.
LEMMA RefilledKeeps ==
  ASSUME LimiterTypeOK, NEW b \in BucketRow, Solvent(b),
         NEW n \in 0..MaxClock, n <= clock, clock - n <= MaxLag,
         NEW r, r = Refilled(b, n)
  PROVE  /\ r \in BucketRow /\ Solvent(r)
         /\ r.tokens < 1 => Capped(r) = Capped(b)
         /\ r.tokens >= 1 =>
              /\ [r EXCEPT !.tokens = @ - 1] \in BucketRow /\ Solvent([r EXCEPT !.tokens = @ - 1])
              /\ Capped([r EXCEPT !.tokens = @ - 1]) \in 0..(Capped(b) - 1)
<1> DEFINE Q == limit.qps
           lag == Q * (clock - n)
           earned == b.tokens + Q * (n - b.ts)
<1>1. /\ Q \in Nat \ {0} /\ limit.burst \in Nat \ {0} /\ clock \in Int /\ n \in Int
      /\ MaxLag \in Nat /\ Q * MaxLag \in Nat /\ Cap = limit.burst + Q * MaxLag /\ Cap \in Nat
      /\ b.tokens \in Int /\ b.ts \in 0..MaxClock /\ b.exists \in BOOLEAN /\ MaxClock \in Nat
  BY LimitType DEF Cap, BucketRow
<1>2. lag \in Nat /\ lag <= Q * MaxLag
  <2>1. clock - n \in Nat
    BY <1>1
  <2>2. Q * (clock - n) \in Nat
    BY <1>1, <2>1
  <2> QED
    BY <1>1, <2>1, <2>2, Monotone
<1>3. earned \in Int /\ Brought(b) = earned + lag
  BY <1>1, Earned DEF Brought
<1>4. /\ r.exists = TRUE /\ r.ts = n /\ r.tokens \in Int /\ r \in BucketRow
      /\ r.tokens = IF ~b.exists \/ earned > limit.burst THEN limit.burst ELSE earned
  <2>1. CASE ~b.exists
    BY <1>1, <2>1 DEF Refilled, BucketRow
  <2>2. CASE b.exists
    BY <1>1, <1>3, <2>2 DEF Refilled, BucketRow
  <2> QED
    BY <2>1, <2>2
<1>5. Brought(r) = r.tokens + lag
  BY <1>4 DEF Brought
<1> HIDE DEF Q, lag, earned
<1>6. Brought(r) <= Cap /\ Brought(r) >= 0 /\ Brought(r) \in Int
  <2>1. CASE ~b.exists \/ earned > limit.burst
    BY <1>1, <1>2, <1>4, <1>5, <2>1
  <2>2. CASE b.exists /\ ~(earned > limit.burst)
    BY <1>1, <1>2, <1>3, <1>4, <1>5, <2>2 DEF Solvent
  <2> QED
    BY <1>1, <2>1, <2>2
<1>7. Solvent(r)
  BY <1>1, <1>2, <1>4, <1>5, <1>6 DEF Solvent, Q
<1>8. Capped(r) = Brought(r)
  BY <1>1, <1>4, <1>6 DEF Capped
<1>9. Brought(r) <= Capped(b) /\ Capped(b) \in Int
  BY <1>1, <1>2, <1>3, <1>4, <1>5, <1>6 DEF Capped
<1>10. ASSUME r.tokens < 1 PROVE Capped(r) = Capped(b)
  <2>1. b.exists /\ ~(earned > limit.burst)
    BY <1>1, <1>4, <1>10
  <2>2. Brought(b) = Brought(r)
    BY <1>3, <1>4, <1>5, <2>1
  <2> QED
    BY <1>1, <1>6, <1>8, <2>1, <2>2 DEF Capped
<1>11. ASSUME r.tokens >= 1
       PROVE  /\ [r EXCEPT !.tokens = @ - 1] \in BucketRow /\ Solvent([r EXCEPT !.tokens = @ - 1])
              /\ Capped([r EXCEPT !.tokens = @ - 1]) \in 0..(Capped(b) - 1)
  <2> DEFINE s == [r EXCEPT !.tokens = @ - 1]
  <2>1. s \in BucketRow /\ s.tokens = r.tokens - 1 /\ s.ts = n /\ s.exists = TRUE
    BY <1>4 DEF BucketRow
  <2> HIDE DEF s
  <2>2. Brought(s) = r.tokens - 1 + lag
    BY <2>1 DEF Brought, lag, Q
  <2>3. Brought(s) = Brought(r) - 1 /\ Brought(s) >= 0 /\ s.tokens >= 0
    BY <1>2, <1>4, <1>5, <1>11, <2>1, <2>2
  <2>4. Solvent(s)
    <3>1. s.tokens + Q * MaxLag >= 0
      BY <1>1, <1>4, <2>1, <2>3
    <3> QED
      BY <1>1, <2>1, <2>3, <3>1 DEF Solvent, Q
  <2>5. Capped(s) = Brought(s)
    BY <1>1, <1>6, <2>1, <2>3 DEF Capped
  <2>6. Capped(s) \in 0..(Capped(b) - 1)
    BY <1>6, <1>9, <2>3, <2>5
  <2> QED
    BY <2>1, <2>4, <2>6 DEF s
<1> QED
  BY <1>4, <1>7, <1>10, <1>11
-----------------------------------------------------------------------------
\* Every step of the limiter.

\* The level a prefix is judged by is its bucket brought up to date, capped.
LEMMA LevelIsCapped ==
  ASSUME NEW k \in Prefix
  PROVE  Level(k) = Capped(bucket[k])
BY DEF Level, Capped, Brought

\* The empty limiter forgets nothing.
LEMMA LimiterInvInit == LimiterInit => LimiterInv
<1> SUFFICES ASSUME LimiterInit PROVE LimiterInv
  OBVIOUS
<1>1. LimiterTypeOK
  <2>1. NoBucket \in BucketRow /\ NotAsking \in [asks : BOOLEAN, now : 0..MaxClock]
    BY LimiterAssumption DEF NoBucket, NotAsking, BucketRow
  <2>2. bucket \in [Prefix -> BucketRow] /\ asking \in [Asker -> [asks : BOOLEAN, now : 0..MaxClock]]
    BY <2>1 DEF LimiterInit
  <2>3. /\ clock \in 0..MaxClock /\ limit \in Limit /\ last \in 0..MaxClock /\ since \in 0..MaxClock
        /\ admitted \in [Prefix -> Nat] /\ deleted \in [Prefix -> Nat]
    BY LimiterAssumption DEF LimiterInit
  <2>4. changed \in BOOLEAN
    BY DEF LimiterInit
  <2> QED
    BY <2>2, <2>3, <2>4 DEF LimiterTypeOK, BucketRow
<1>2. LagBounded /\ DebtBounded
  BY DEF LimiterInit, LagBounded, DebtBounded, NotAsking, NoBucket
<1> QED
  BY <1>1, <1>2 DEF LimiterInv

\* A query's turn at the lock, seen bucket by bucket.
LEMMA TakeOfBuckets ==
  ASSUME LimiterInv, NEW q \in Asker, NEW k \in Prefix, Take(q, k)
  PROVE  \E n \in 0..MaxClock, due \in BOOLEAN :
           LET kept(p) == IF due THEN Collected(bucket[p], n) ELSE bucket[p]
               b == Refilled(kept(k), n)
           IN /\ n <= clock /\ clock - n <= MaxLag
              /\ UNCHANGED <<clock, limit, since, changed>>
              /\ asking' = [asking EXCEPT ![q] = NotAsking]
              /\ last' = IF due THEN n ELSE last
              /\ deleted' = [p \in Prefix |-> IF bucket[p].exists /\ ~kept(p).exists
                                              THEN deleted[p] + 1 ELSE deleted[p]]
              /\ \A p \in Prefix \ {k} : bucket'[p] = kept(p)
              /\ bucket' = [p \in Prefix |-> bucket'[p]]
              /\ b.tokens < 1 => bucket'[k] = b /\ admitted' = admitted
              /\ ~(b.tokens < 1) => /\ bucket'[k] = [b EXCEPT !.tokens = @ - 1]
                                   /\ admitted' = [admitted EXCEPT ![k] = @ + 1]
<1> DEFINE n == asking[q].now
           due == n - last > GcPeriod
<1>1. n \in 0..MaxClock /\ n <= clock /\ clock - n <= MaxLag
  BY DEF Take, LimiterInv, LimiterTypeOK, LagBounded
<1>2. due \in BOOLEAN
  OBVIOUS
<1> QED
  BY <1>1, <1>2 DEF Take

\* ... and level by level.
LEMMA TakeOfLevels ==
  ASSUME LimiterInv, NEW q \in Asker, NEW k \in Prefix, Take(q, k), ~changed
  PROVE  /\ bucket' \in [Prefix -> BucketRow]
         /\ DebtBounded'
         /\ \E A \in {{}, {k}}, F \in SUBSET Prefix :
              /\ admitted' = [p \in Prefix |-> IF p \in A THEN admitted[p] + 1 ELSE admitted[p]]
              /\ deleted' = [p \in Prefix |-> IF p \in F THEN deleted[p] + 1 ELSE deleted[p]]
              /\ \A p \in Prefix :
                   /\ Level(p)' \in 0..Cap
                   /\ Level(p)' + (IF p \in A THEN 1 ELSE 0) <=
                        Level(p) + (IF p \in F THEN Grace ELSE 0)
                   /\ p \notin A => Level(p)' >= Level(p)
<1>1. PICK n \in 0..MaxClock, due \in BOOLEAN :
           LET kept(p) == IF due THEN Collected(bucket[p], n) ELSE bucket[p]
               b == Refilled(kept(k), n)
           IN /\ n <= clock /\ clock - n <= MaxLag
              /\ UNCHANGED <<clock, limit, since, changed>>
              /\ asking' = [asking EXCEPT ![q] = NotAsking]
              /\ last' = IF due THEN n ELSE last
              /\ deleted' = [p \in Prefix |-> IF bucket[p].exists /\ ~kept(p).exists
                                              THEN deleted[p] + 1 ELSE deleted[p]]
              /\ \A p \in Prefix \ {k} : bucket'[p] = kept(p)
              /\ bucket' = [p \in Prefix |-> bucket'[p]]
              /\ b.tokens < 1 => bucket'[k] = b /\ admitted' = admitted
              /\ ~(b.tokens < 1) => /\ bucket'[k] = [b EXCEPT !.tokens = @ - 1]
                                   /\ admitted' = [admitted EXCEPT ![k] = @ + 1]
  BY TakeOfBuckets
<1> DEFINE kept(p) == IF due THEN Collected(bucket[p], n) ELSE bucket[p]
           b == Refilled(kept(k), n)
<1>2. LimiterTypeOK /\ bucket \in [Prefix -> BucketRow]
  BY DEF LimiterInv, LimiterTypeOK, BucketRow
<1>3. \A p \in Prefix : bucket[p] \in BucketRow /\ Solvent(bucket[p])
  BY <1>2 DEF LimiterInv, DebtBounded, Solvent, Brought
<1> DEFINE F == {p \in Prefix : bucket[p].exists /\ ~kept(p).exists}
<1>4. ASSUME NEW p \in Prefix
      PROVE  /\ kept(p) \in BucketRow /\ Solvent(kept(p))
             /\ Capped(bucket[p]) \in Int /\ Capped(kept(p)) \in Int
             /\ Capped(bucket[p]) <= Capped(kept(p))
             /\ Capped(kept(p)) <= Capped(bucket[p]) + (IF p \in F THEN Grace ELSE 0)
  <2>1. Capped(bucket[p]) \in Int /\ Grace \in Nat
    BY <1>1, <1>2, <1>3, CollectedKeeps, LimitType
  <2>2. CASE due
    <3>1. kept(p) = Collected(bucket[p], n)
      BY <2>2
    <3> HIDE DEF kept
    <3>2. p \in F <=> bucket[p].exists /\ ~Collected(bucket[p], n).exists
      BY <3>1
    <3> HIDE DEF F
    <3> QED
      BY <1>1, <1>2, <1>3, <2>1, <3>1, <3>2, CollectedKeeps
  <2>3. CASE ~due
    <3>1. kept(p) = bucket[p]
      BY <2>3
    <3> HIDE DEF kept, F
    <3> QED
      BY <1>3, <2>1, <3>1
  <2> QED
    BY <2>2, <2>3
<1> HIDE DEF kept
<1>5. /\ b \in BucketRow /\ Solvent(b)
      /\ b.tokens < 1 => Capped(b) = Capped(kept(k))
      /\ b.tokens >= 1 =>
           /\ [b EXCEPT !.tokens = @ - 1] \in BucketRow /\ Solvent([b EXCEPT !.tokens = @ - 1])
           /\ Capped([b EXCEPT !.tokens = @ - 1]) \in 0..(Capped(kept(k)) - 1)
  BY <1>1, <1>2, <1>4, RefilledKeeps
<1>6. /\ \A p \in Prefix \ {k} : bucket'[p] = kept(p)
      /\ bucket' = [p \in Prefix |-> bucket'[p]]
      /\ b.tokens < 1 => bucket'[k] = b /\ admitted' = admitted
      /\ ~(b.tokens < 1) => /\ bucket'[k] = [b EXCEPT !.tokens = @ - 1]
                           /\ admitted' = [admitted EXCEPT ![k] = @ + 1]
  BY <1>1 DEF kept
<1>forgiven. F \in SUBSET Prefix /\ deleted' = [p \in Prefix |-> IF p \in F THEN deleted[p] + 1 ELSE deleted[p]]
  BY <1>1 DEF kept
<1> HIDE DEF b, F
<1>7. b.tokens < 1 \/ b.tokens >= 1
  BY <1>5 DEF BucketRow
<1>8. ~(b.tokens < 1) => b.tokens >= 1
  BY <1>7
<1>9. /\ \A p \in Prefix : bucket'[p] \in BucketRow /\ Solvent(bucket'[p])
      /\ bucket' \in [Prefix -> BucketRow]
  BY <1>4, <1>5, <1>6, <1>8
<1>10. \A p \in Prefix : Level(p) = Capped(bucket[p]) /\ Level(p)' = Capped(bucket'[p])
  BY <1>1 DEF Level, Capped, Brought, Cap
<1>11. /\ \A p \in Prefix : Capped(bucket'[p]) \in 0..Cap
       /\ admitted \in [Prefix -> Nat] /\ Grace \in Nat
  <2>1. ASSUME NEW x \in BucketRow, Solvent(x) PROVE Capped(x) \in 0..Cap
    BY <1>2, <2>1, LimitType DEF Capped, Solvent, Brought, BucketRow
  <2> QED
    BY <1>2, <1>9, <2>1, LimitType DEF LimiterTypeOK
<1>12. \E A \in {{}, {k}} :
         /\ admitted' = [p \in Prefix |-> IF p \in A THEN admitted[p] + 1 ELSE admitted[p]]
         /\ \A p \in Prefix :
              /\ Capped(bucket'[p]) + (IF p \in A THEN 1 ELSE 0) <= Capped(kept(p))
              /\ p \notin A => Capped(bucket'[p]) >= Capped(kept(p))
  <2>1. CASE b.tokens < 1
    <3>1. admitted' = [p \in Prefix |-> IF p \in {} THEN admitted[p] + 1 ELSE admitted[p]]
      BY <1>6, <1>11, <2>1
    <3>2. \A p \in Prefix : Capped(bucket'[p]) = Capped(kept(p))
      BY <1>5, <1>6, <2>1
    <3>3. \A p \in Prefix : Capped(kept(p)) \in Int
      BY <1>4
    <3> QED
      BY <3>1, <3>2, <3>3
  <2>2. CASE ~(b.tokens < 1)
    <3>1. admitted' = [p \in Prefix |-> IF p \in {k} THEN admitted[p] + 1 ELSE admitted[p]]
      BY <1>6, <1>11, <2>2
    <3>2. Capped(bucket'[k]) + 1 <= Capped(kept(k))
      <4>1. Capped(bucket'[k]) \in 0..(Capped(kept(k)) - 1) /\ Capped(kept(k)) \in Int
        BY <1>4, <1>5, <1>6, <1>8, <2>2
      <4> QED
        BY <4>1
    <3>3. \A p \in Prefix \ {k} : Capped(bucket'[p]) = Capped(kept(p)) /\ Capped(kept(p)) \in Int
      BY <1>4, <1>6
    <3> QED
      BY <3>1, <3>2, <3>3
  <2> QED
    BY <2>1, <2>2
<1>14. PICK A \in {{}, {k}} :
         /\ admitted' = [p \in Prefix |-> IF p \in A THEN admitted[p] + 1 ELSE admitted[p]]
         /\ \A p \in Prefix :
              /\ Capped(bucket'[p]) + (IF p \in A THEN 1 ELSE 0) <= Capped(kept(p))
              /\ p \notin A => Capped(bucket'[p]) >= Capped(kept(p))
  BY <1>12
<1>15. ASSUME NEW p \in Prefix
       PROVE  /\ Level(p)' \in 0..Cap
              /\ Level(p)' + (IF p \in A THEN 1 ELSE 0) <= Level(p) + (IF p \in F THEN Grace ELSE 0)
              /\ p \notin A => Level(p)' >= Level(p)
  <2>1. Level(p) = Capped(bucket[p]) /\ Level(p)' = Capped(bucket'[p])
    BY <1>10
  <2>2. /\ Capped(bucket[p]) \in Int /\ Capped(kept(p)) \in Int
        /\ Capped(bucket[p]) <= Capped(kept(p))
        /\ Capped(kept(p)) <= Capped(bucket[p]) + (IF p \in F THEN Grace ELSE 0)
    BY <1>4
  <2>3. /\ Capped(bucket'[p]) + (IF p \in A THEN 1 ELSE 0) <= Capped(kept(p))
        /\ p \notin A => Capped(bucket'[p]) >= Capped(kept(p))
        /\ Capped(bucket'[p]) \in 0..Cap /\ Capped(bucket'[p]) \in Int /\ Grace \in Nat
    BY <1>11, <1>14
  <2> HIDE DEF kept
  <2> QED
    BY <2>1, <2>2, <2>3
<1>13. DebtBounded'
  BY <1>1, <1>9 DEF DebtBounded, Solvent, Brought
<1> QED
  BY <1>9, <1>13, <1>forgiven, <1>14, <1>15

\* Every step keeps LimiterInv.
LEMMA LimiterStep == LimiterInv /\ [LimiterNext]_limiterVars => LimiterInv'
<1> SUFFICES ASSUME LimiterInv, [LimiterNext]_limiterVars PROVE LimiterInv'
  OBVIOUS
<1> USE LimiterAssumption
<1>1. CASE ClockTicks
  <2>1. clock' = clock + 1 /\ UNCHANGED <<limit, bucket, last, asking, since, admitted, deleted, changed>>
    BY <1>1 DEF ClockTicks
  <2>2. LimiterTypeOK'
    BY <1>1, <2>1 DEF LimiterInv, LimiterTypeOK, ClockTicks
  <2>3. LagBounded'
    BY <1>1, <2>1 DEF LimiterInv, LimiterTypeOK, LagBounded, ClockTicks
  <2>4. DebtBounded'
    <3>1. ASSUME ~changed, NEW k \in Prefix, bucket[k].exists
          PROVE  /\ bucket[k].ts <= clock'
                 /\ bucket[k].tokens + limit.qps * (clock' - bucket[k].ts) >= 0
                 /\ bucket[k].tokens + limit.qps * MaxLag >= 0
      <4>1. /\ bucket[k].ts \in Int /\ bucket[k].tokens \in Int /\ limit.qps \in Nat
            /\ clock \in Int /\ clock' \in Int /\ clock' = clock + 1
        BY <2>1, LimitType DEF LimiterInv, LimiterTypeOK
      <4>2. /\ bucket[k].ts <= clock
            /\ bucket[k].tokens + limit.qps * (clock - bucket[k].ts) >= 0
            /\ bucket[k].tokens + limit.qps * MaxLag >= 0
        BY <3>1 DEF LimiterInv, DebtBounded
      <4>3. limit.qps * (clock' - bucket[k].ts) = limit.qps * (clock - bucket[k].ts) + limit.qps
        BY <4>1, TickOf
      <4>4. limit.qps * (clock - bucket[k].ts) \in Int /\ limit.qps * (clock' - bucket[k].ts) \in Int
        BY <4>1
      <4> QED
        BY <4>1, <4>2, <4>3, <4>4
    <3>2. CASE changed
      BY <2>1, <3>2 DEF DebtBounded
    <3>3. CASE ~changed
      BY <2>1, <3>1, <3>3 DEF DebtBounded
    <3> QED
      BY <3>2, <3>3
  <2> QED
    BY <2>2, <2>3, <2>4 DEF LimiterInv
<1>2. CASE Observes
  BY <1>2 DEF Observes, LimiterInv, LimiterTypeOK, LagBounded, DebtBounded
<1>3. ASSUME NEW l \in Limit, Configure(l) PROVE LimiterInv'
  BY <1>3 DEF Configure, LimiterInv, LimiterTypeOK, LagBounded, DebtBounded
<1>4. ASSUME NEW q \in Asker, Stamp(q) PROVE LimiterInv'
  <2>1. /\ asking' = [asking EXCEPT ![q] = [asks |-> TRUE, now |-> clock]]
        /\ UNCHANGED <<clock, limit, bucket, last, since, admitted, deleted, changed>>
    BY <1>4 DEF Stamp
  <2>2. LimiterTypeOK' /\ DebtBounded'
    BY <2>1 DEF LimiterInv, LimiterTypeOK, DebtBounded
  <2>3. LagBounded'
    BY <2>1 DEF LimiterInv, LimiterTypeOK, LagBounded
  <2> QED
    BY <2>2, <2>3 DEF LimiterInv
<1>5. ASSUME NEW q \in Asker, NEW k \in Prefix, Take(q, k) PROVE LimiterInv'
  <2>1. PICK n \in 0..MaxClock, due \in BOOLEAN :
           LET kept(p) == IF due THEN Collected(bucket[p], n) ELSE bucket[p]
               b == Refilled(kept(k), n)
           IN /\ n <= clock /\ clock - n <= MaxLag
              /\ UNCHANGED <<clock, limit, since, changed>>
              /\ asking' = [asking EXCEPT ![q] = NotAsking]
              /\ last' = IF due THEN n ELSE last
              /\ deleted' = [p \in Prefix |-> IF bucket[p].exists /\ ~kept(p).exists
                                              THEN deleted[p] + 1 ELSE deleted[p]]
              /\ \A p \in Prefix \ {k} : bucket'[p] = kept(p)
              /\ bucket' = [p \in Prefix |-> bucket'[p]]
              /\ b.tokens < 1 => bucket'[k] = b /\ admitted' = admitted
              /\ ~(b.tokens < 1) => /\ bucket'[k] = [b EXCEPT !.tokens = @ - 1]
                                   /\ admitted' = [admitted EXCEPT ![k] = @ + 1]
    BY <1>5, TakeOfBuckets
  <2>2. NotAsking \in [asks : BOOLEAN, now : 0..MaxClock] /\ ~NotAsking.asks
    BY DEF NotAsking
  <2>3. /\ clock' = clock /\ limit' = limit /\ since' = since /\ changed' = changed
        /\ last' \in 0..MaxClock
        /\ asking' \in [Asker -> [asks : BOOLEAN, now : 0..MaxClock]]
        /\ admitted' \in [Prefix -> Nat] /\ deleted' \in [Prefix -> Nat]
    <3>1. clock' = clock /\ limit' = limit /\ since' = since /\ changed' = changed
      BY <2>1
    <3>2. last' \in 0..MaxClock
      BY <2>1 DEF LimiterInv, LimiterTypeOK
    <3>3. asking' \in [Asker -> [asks : BOOLEAN, now : 0..MaxClock]]
      BY <2>1, <2>2 DEF LimiterInv, LimiterTypeOK
    <3>4. admitted' \in [Prefix -> Nat]
      BY <2>1 DEF LimiterInv, LimiterTypeOK
    <3>5. deleted \in [Prefix -> Nat]
      BY DEF LimiterInv, LimiterTypeOK
    <3>6. deleted' \in [Prefix -> Nat]
      BY <2>1, <3>5
    <3> QED
      BY <3>1, <3>2, <3>3, <3>4, <3>6
  <2>4. bucket' \in [Prefix -> BucketRow]
    <3>1. \A x \in BucketRow : Collected(x, n) \in BucketRow
      BY DEF Collected, BucketRow, NoBucket
    <3>2. \A x \in BucketRow : Refilled(x, n) \in BucketRow
      BY LimitType DEF LimiterInv, Refilled, BucketRow
    <3>3. \A x \in BucketRow : [x EXCEPT !.tokens = @ - 1] \in BucketRow
      BY DEF BucketRow
    <3>4. bucket \in [Prefix -> BucketRow]
      BY DEF LimiterInv, LimiterTypeOK, BucketRow
    <3>5. \A p \in Prefix : bucket'[p] \in BucketRow
      BY <2>1, <3>1, <3>2, <3>3, <3>4
    <3> QED
      BY <2>1, <3>5
  <2>5. LimiterTypeOK'
    BY <2>3, <2>4 DEF LimiterInv, LimiterTypeOK, BucketRow
  <2>6. LagBounded'
    BY <2>1, <2>2 DEF LimiterInv, LimiterTypeOK, LagBounded
  <2>7. DebtBounded'
    BY <1>5, <2>3, TakeOfLevels DEF DebtBounded
  <2> QED
    BY <2>5, <2>6, <2>7 DEF LimiterInv
<1>6. CASE UNCHANGED limiterVars
  BY <1>6 DEF limiterVars, LimiterInv, LimiterTypeOK, LagBounded, DebtBounded
<1> QED
  BY <1>1, <1>2, <1>3, <1>4, <1>5, <1>6 DEF LimiterNext

\* LimiterInv holds throughout.
LEMMA LimiterInvariant == LimiterSpec => []LimiterInv
BY LimiterInvInit, LimiterStep, PTL DEF LimiterSpec

\* A tick of the clock earns every prefix what it earns in the limiter that
\* keeps every bucket.
LEMMA TickEarns ==
  ASSUME LimiterInv, ClockTicks, ~changed
  PROVE  \A k \in Prefix :
           Level(k)' = IF Level(k) + limit.qps > Cap THEN Cap ELSE Level(k) + limit.qps
<1> USE LimiterAssumption
<1>1. clock' = clock + 1 /\ limit' = limit /\ bucket' = bucket
  BY DEF ClockTicks
<1>2. limit.qps \in Nat /\ limit.burst \in Nat /\ Cap \in Int /\ clock \in Int /\ clock' \in Int
  BY <1>1, LimitType DEF Cap, LimiterInv, LimiterTypeOK
<1>3. ASSUME NEW k \in Prefix
      PROVE  Level(k)' = IF Level(k) + limit.qps > Cap THEN Cap ELSE Level(k) + limit.qps
  <2>1. bucket[k].tokens \in Int /\ bucket[k].ts \in Int
    BY DEF LimiterInv, LimiterTypeOK
  <2>2. limit.qps * (clock' - bucket[k].ts) = limit.qps * (clock - bucket[k].ts) + limit.qps
    <3>1. /\ bucket[k].ts \in Int /\ limit.qps \in Nat
          /\ clock \in Int /\ clock' \in Int /\ clock' = clock + 1
      BY <1>1, <1>2, <2>1
    <3> QED
      BY <3>1, TickOf
  <2>3. limit.qps * (clock - bucket[k].ts) \in Int
    BY <1>2, <2>1
  <2>4. Cap' = Cap
    BY <1>1 DEF Cap
  <2>5. /\ Level(k) = IF ~bucket[k].exists
                         \/ bucket[k].tokens + limit.qps * (clock - bucket[k].ts) > Cap
                      THEN Cap ELSE bucket[k].tokens + limit.qps * (clock - bucket[k].ts)
        /\ Level(k)' = IF ~bucket[k].exists
                          \/ bucket[k].tokens + limit.qps * (clock' - bucket[k].ts) > Cap
                       THEN Cap ELSE bucket[k].tokens + limit.qps * (clock' - bucket[k].ts)
    BY <1>1, <2>4 DEF Level
  <2> QED
    BY <1>2, <2>1, <2>2, <2>3, <2>5
<1> QED
  BY <1>3

\* allow implements the limiter that keeps every bucket for ever and forgives a
\* grace: in whatever order its queries take the lock, a query it admits is one
\* the eternal bucket of that prefix has a token for, and what gc deletes was short
\* of full by the grace at most.  For every rate, burst, idle time and lag.
THEOREM LimiterForgetsLittle == LimiterSpec => ForgetsLittle
<1> USE LimiterAssumption
<1>1. LimiterInit => Eternal!BucketInit
  <2> SUFFICES ASSUME LimiterInit PROVE Eternal!BucketInit
    OBVIOUS
  <2>1. limit.qps \in Nat /\ Cap \in Nat /\ Grace \in Nat
    BY LimiterInvInit, LimitType DEF LimiterInv
  <2>2. \A k \in Prefix : Level(k) = Cap
    BY DEF LimiterInit, Level, NoBucket
  <2> QED
    BY <2>1, <2>2 DEF LimiterInit, Eternal!BucketInit, Eternal!Rates
<1>2. LimiterInv /\ [LimiterNext]_limiterVars => [Eternal!BucketNext]_Eternal!bucketVars
  <2> SUFFICES ASSUME LimiterInv, [LimiterNext]_limiterVars
               PROVE  [Eternal!BucketNext]_Eternal!bucketVars
    OBVIOUS
  <2>1. CASE changed'
    BY <2>1 DEF Eternal!BucketNext
  <2>2. CASE ~changed' /\ ClockTicks
    <3>1. ~changed /\ Cap' = Cap /\ Grace' = Grace
      BY <2>2 DEF ClockTicks, Cap, Grace
    <3>2. Eternal!Earn
      BY <2>2, <3>1, TickEarns DEF ClockTicks, Eternal!Earn
    <3> QED
      BY <3>2 DEF Eternal!BucketNext
  <2>3. CASE ~changed' /\ Observes
    <3>1. Cap' = Cap /\ Grace' = Grace /\ \A k \in Prefix : Level(k)' = Level(k)
      BY <2>3 DEF Observes, Cap, Grace, Level
    <3>2. Eternal!Recount
      BY <2>3, <3>1 DEF Observes, Eternal!Recount
    <3> QED
      BY <3>2 DEF Eternal!BucketNext
  <2>4. ASSUME ~changed', NEW l \in Limit, Configure(l) PROVE FALSE
    BY <2>4 DEF Configure
  <2>5. ASSUME NEW q \in Asker, Stamp(q) PROVE UNCHANGED Eternal!bucketVars
    <3>1. Cap' = Cap /\ Grace' = Grace /\ \A k \in Prefix : Level(k)' = Level(k)
      BY <2>5 DEF Stamp, Cap, Grace, Level
    <3> QED
      BY <2>5, <3>1 DEF Stamp, Eternal!bucketVars
  <2>6. ASSUME ~changed', NEW q \in Asker, NEW k \in Prefix, Take(q, k)
        PROVE  [Eternal!BucketNext]_Eternal!bucketVars
    <3>1. ~changed /\ Cap' = Cap /\ Grace' = Grace /\ UNCHANGED <<clock, limit, since, changed>>
      BY <2>6 DEF Take, Cap, Grace
    <3>2. PICK A \in {{}, {k}}, F \in SUBSET Prefix :
            /\ admitted' = [p \in Prefix |-> IF p \in A THEN admitted[p] + 1 ELSE admitted[p]]
            /\ deleted' = [p \in Prefix |-> IF p \in F THEN deleted[p] + 1 ELSE deleted[p]]
            /\ \A p \in Prefix :
                 /\ Level(p)' \in 0..Cap
                 /\ Level(p)' + (IF p \in A THEN 1 ELSE 0) <=
                      Level(p) + (IF p \in F THEN Grace ELSE 0)
                 /\ p \notin A => Level(p)' >= Level(p)
      BY <2>6, <3>1, TakeOfLevels
    <3>3. Eternal!Serve(A, F)
      BY <3>1, <3>2 DEF Eternal!Serve, Eternal!Counted
    <3>4. A \in {{}} \cup {{x} : x \in Prefix}
      OBVIOUS
    <3> QED
      BY <3>3, <3>4 DEF Eternal!BucketNext
  <2>7. CASE UNCHANGED limiterVars
    <3>1. Cap' = Cap /\ Grace' = Grace /\ \A k \in Prefix : Level(k)' = Level(k)
      BY <2>7 DEF limiterVars, Cap, Grace, Level
    <3> QED
      BY <2>7, <3>1 DEF limiterVars, Eternal!bucketVars
  <2> QED
    BY <2>1, <2>2, <2>3, <2>4, <2>5, <2>6, <2>7 DEF LimiterNext
<1> QED
  BY <1>1, <1>2, LimiterInvariant, PTL DEF LimiterSpec, ForgetsLittle, Eternal!BucketSpec

EternalProofs ==
  INSTANCE TokenBucketProofs
    WITH rate <- [qps |-> limit.qps, cap |-> Cap, grace |-> Grace],
         level <- [k \in Prefix |-> Level(k)],
         forgiven <- deleted,
         loose <- changed

\* allow keeps the rate: as long as the limits stand, no prefix is admitted more
\* often since the observer began to count than the burst, what is earned in the
\* longest lag and since, and a grace for each time its bucket was deleted.  What
\* is proved of the limiter that keeps its buckets holds of this one.
THEOREM LimiterKeepsRate == LimiterSpec => []Eternal!RateKept
<1>1. EternalProofs!BucketSpec => []EternalProofs!RateKept
  BY EternalProofs!BucketKeepsRate
<1>2. /\ Eternal!BucketInit => EternalProofs!BucketInit
      /\ [Eternal!BucketNext]_Eternal!bucketVars => [EternalProofs!BucketNext]_EternalProofs!bucketVars
  BY DEF Eternal!BucketInit, EternalProofs!BucketInit, Eternal!BucketNext,
         EternalProofs!BucketNext, Eternal!bucketVars, EternalProofs!bucketVars,
         Eternal!Earn, EternalProofs!Earn, Eternal!Recount, EternalProofs!Recount,
         Eternal!Serve, EternalProofs!Serve, Eternal!Counted,
         EternalProofs!Counted, Eternal!Rates, EternalProofs!Rates
<1>3. EternalProofs!RateKept => Eternal!RateKept
  BY DEF Eternal!RateKept, EternalProofs!RateKept
<1> QED
  BY <1>1, <1>2, <1>3, LimiterForgetsLittle, PTL
  DEF ForgetsLittle, Eternal!BucketSpec, EternalProofs!BucketSpec
-----------------------------------------------------------------------------
\* The DNS front end.
QueryRow == [step : {"idle", "limit", "lookup", "synthesize", "forward", "exchange", "retry"},
             qtype : Qtype, proto : {"udp", "tcp"}, open : BOOLEAN]

\* A query that is marked as hidden all along is hidden by
\* the table as it is now, and while it is with the resolver it is an MX query.
DnsInv ==
  /\ router \in DnsRevision
  /\ query \in [DnsQuery -> QueryRow]
  /\ \A q \in DnsQuery : query[q].open \/ Hides(router, query[q].qtype)
  /\ OriginStaysHidden

\* A step of one query that does not touch the table: the invariant holds after
\* it if it is not led to the resolver against the table.
LEMMA QueryStep ==
  ASSUME DnsInv, NEW q \in DnsQuery,
         NEW from \in {"limit", "lookup", "synthesize", "forward", "exchange", "retry"},
         NEW to \in {"idle", "lookup", "synthesize", "forward", "exchange", "retry"},
         To(q, from, to),
         to \in {"forward", "exchange", "retry"} /\ query[q].qtype \in Covered => query[q].open
  PROVE  DnsInv'
<1>1. /\ router' = router
      /\ query' = [query EXCEPT ![q] = IF to = "idle" THEN NoQuery ELSE [@ EXCEPT !.step = to]]
  BY DEF To
<1>2. NoQuery \in QueryRow /\ NoQuery.open
  BY DEF NoQuery, Qtype, Covered, QueryRow
<1>3. query' \in [DnsQuery -> QueryRow]
  BY <1>1, <1>2 DEF DnsInv, QueryRow
<1>4. /\ \A p \in DnsQuery \ {q} : query'[p] = query[p]
      /\ to = "idle" => query'[q] = NoQuery
      /\ to # "idle" => query'[q] = [query[q] EXCEPT !.step = to]
  BY <1>1 DEF DnsInv, QueryRow
<1>5. to # "idle" => /\ query'[q].open = query[q].open
                     /\ query'[q].qtype = query[q].qtype
                     /\ query'[q].step = to
  BY <1>4 DEF DnsInv, QueryRow
<1>6. \A p \in DnsQuery : query'[p].open \/ Hides(router', query'[p].qtype)
  BY <1>1, <1>2, <1>4, <1>5 DEF DnsInv, QueryRow
<1>7. OriginStaysHidden'
  BY <1>2, <1>4, <1>5 DEF DnsInv, QueryRow, OriginStaysHidden
<1> QED
  BY <1>1, <1>3, <1>6, <1>7 DEF DnsInv, QueryRow

\* Every step of a query, a reload or a fault keeps DnsInv.
LEMMA DnsInvStep == DnsInv /\ [DnsNext]_dnsVars => DnsInv'
<1> SUFFICES ASSUME DnsInv, [DnsNext]_dnsVars PROVE DnsInv'
  OBVIOUS
<1> USE DnsAssumption
<1>1. ASSUME NEW r \in DnsRevision, RouterApply(r) PROVE DnsInv'
  <2>1. /\ router' = r
        /\ query' = [q \in DnsQuery |-> [query[q] EXCEPT !.open = @ \/ ~Hides(r, query[q].qtype)]]
    BY <1>1 DEF RouterApply
  <2>2. \A q \in DnsQuery : /\ query'[q].step = query[q].step
                            /\ query'[q].qtype = query[q].qtype
                            /\ query'[q].proto = query[q].proto
                            /\ query'[q].open = (query[q].open \/ ~Hides(r, query[q].qtype))
    BY <2>1 DEF DnsInv, QueryRow
  <2>3. query' \in [DnsQuery -> QueryRow]
    BY <2>1 DEF DnsInv, QueryRow
  <2>4. \A q \in DnsQuery : /\ query[q].open => query'[q].open
                            /\ query'[q].open \/ Hides(router', query'[q].qtype)
    BY <2>1, <2>2
  <2>5. OriginStaysHidden'
    BY <2>2, <2>4 DEF DnsInv, QueryRow, OriginStaysHidden
  <2> QED
    BY <2>1, <2>3, <2>4, <2>5 DEF DnsInv, QueryRow
<1>2. CASE ServerReload
  BY <1>2 DEF ServerReload, DnsInv, QueryRow, OriginStaysHidden
<1>3. ASSUME NEW q \in DnsQuery, NEW t \in Qtype, NEW p \in {"udp", "tcp"}, Arrive(q, t, p)
      PROVE  DnsInv'
  <2>1. /\ router' = router
        /\ query' = [query EXCEPT ![q] = [step |-> "limit", qtype |-> t, proto |-> p,
                                          open |-> ~Hides(router, t)]]
    BY <1>3 DEF Arrive
  <2>2. Hides(router, t) \in BOOLEAN
    BY DEF Hides, DnsInv, QueryRow
  <2>3. query' \in [DnsQuery -> QueryRow]
    BY <2>1, <2>2 DEF DnsInv, QueryRow
  <2> QED
    BY <2>1, <2>3 DEF DnsInv, QueryRow, OriginStaysHidden
<1>4. ASSUME NEW q \in DnsQuery, Limited(q) PROVE DnsInv'
  BY <1>4, QueryStep DEF Limited
<1>5. ASSUME NEW q \in DnsQuery, LookUp(q) PROVE DnsInv'
  <2>1. CASE router.managed
    BY <1>5, <2>1, QueryStep DEF LookUp
  <2>2. CASE ~router.managed
    <3>1. query[q].open
      BY <2>2 DEF DnsInv, QueryRow, Hides
    <3> QED
      BY <1>5, <2>2, <3>1, QueryStep DEF LookUp
  <2> QED
    BY <2>1, <2>2
<1>6. ASSUME NEW q \in DnsQuery, Synthesize(q) PROVE DnsInv'
  <2>1. CASE Answers(query[q].qtype)
    BY <1>6, <2>1, QueryStep DEF Synthesize
  <2>2. CASE ~Answers(query[q].qtype)
    <3>1. query[q].qtype \in Covered => query[q].open
      BY <2>2 DEF DnsInv, QueryRow, Hides, Answers, Covered
    <3> QED
      BY <1>6, <2>2, <3>1, QueryStep DEF Synthesize
  <2> QED
    BY <2>1, <2>2
<1>7. ASSUME NEW q \in DnsQuery, Forward(q) \/ Exchange(q) PROVE DnsInv'
  <2>1. query[q].step \in {"forward", "exchange", "retry"} /\ query[q].qtype \in Covered => query[q].open
    BY DEF DnsInv, QueryRow, OriginStaysHidden
  <2>2. \A from, to : To(q, from, to) => query[q].step = from
    BY DEF To
  <2> QED
    BY <1>7, <2>1, <2>2, QueryStep DEF Forward, Exchange
<1>8. CASE UNCHANGED dnsVars
  BY <1>8 DEF dnsVars, DnsInv, QueryRow, OriginStaysHidden
<1> QED
  BY <1>1, <1>2, <1>3, <1>4, <1>5, <1>6, <1>7, <1>8 DEF DnsNext

\* Whatever revisions its three reads of the table see, a query of a type that
\* synthesize covers is forwarded only if a revision in force since it came lets
\* it, for any number of queries, revisions and slots.
THEOREM FrontEndHidesOrigin == DnsSpec => []OriginStaysHidden
<1>1. DnsInit => DnsInv
  <2> SUFFICES ASSUME DnsInit PROVE DnsInv
    OBVIOUS
  <2>1. \A q \in DnsQuery : query[q] = NoQuery
    BY DEF DnsInit
  <2>2. query \in [DnsQuery -> QueryRow]
    BY DEF DnsInit, NoQuery, Qtype, Covered, QueryRow
  <2> QED
    BY <2>1, <2>2 DEF DnsInit, DnsInv, QueryRow, NoQuery, OriginStaysHidden
<1> QED
  BY <1>1, DnsInvStep, PTL DEF DnsSpec, DnsInv
-----------------------------------------------------------------------------
\* The certificate.  The key on disk is the last one issued, and the chain is
\* behind it while an issue is under way.
DiskInv ==
  /\ disk.key = issued /\ disk.chain <= issued
  /\ issuing => disk.chain < issued

\* The pair in memory is of no earlier version than its mtime says.
LoadedInv ==
  /\ loaded.mtime <= loaded.cert
  /\ front.state = "tls" => disk.chain # 0 /\ loaded.cert # 0

\* A handshake has taken the mtime of a chain that was on disk and reads one no
\* older; as long as it wants a version, that one is whole on disk.
HandInv ==
  \A c \in Client :
    LET h == hand[c] IN
    /\ h.step # "idle" => front.state = "tls" /\ h.mtime # 0 /\ h.mtime <= disk.chain
    /\ h.step \in {"chain", "key"} => h.mtime <= h.chain
    /\ h.want # 0 => /\ h.step # "idle" /\ h.want = h.mtime
                     /\ disk.key = h.want /\ disk.chain = h.want /\ ~issuing
                     /\ h.step \in {"chain", "key"} => h.chain = h.want

CertInv == CertTypeOK /\ DiskInv /\ LoadedInv /\ HandInv /\ RenewalServed

HandRow == [step : {"idle", "stat", "chain", "key", "served"}, mtime : Version,
            chain : Version, want : Version, served : Version]

\* Every step of a renewal, a crash or a listener keeps CertInv.
LEMMA CertInvStep == CertInv /\ [CertNext]_certVars => CertInv'
<1> SUFFICES ASSUME CertInv, [CertNext]_certVars PROVE CertInv'
  OBVIOUS
<1> USE CertAssumption
<1>0. /\ disk \in [key : Version, chain : Version] /\ issued \in Version
      /\ loaded \in [cert : Version, mtime : Version]
      /\ hand \in [Client -> HandRow]
      /\ front \in [state : {"down", "plain", "tls"}, starts : 0..MaxStarts]
      /\ NoHand \in HandRow
  BY DEF CertInv, CertTypeOK, HandRow, NoHand, Version
<1>1. ASSUME NEW force \in BOOLEAN, IssueKey(force) PROVE CertInv'
  <2>1. /\ issued' = issued + 1 /\ disk' = [disk EXCEPT !.key = issued + 1]
        /\ hand' = [c \in Client |-> [hand[c] EXCEPT !.want = 0]]
        /\ UNCHANGED <<front, loaded>> /\ issued < MaxIssues
    BY <1>1 DEF IssueKey
  <2>2. CertTypeOK'
    BY <1>0, <1>1 DEF CertInv, CertTypeOK, IssueKey, Version, HandRow
  <2>3. DiskInv' /\ LoadedInv'
    BY <1>0, <2>1 DEF CertInv, DiskInv, LoadedInv, Version
  <2>4. \A c \in Client : /\ hand'[c].step = hand[c].step /\ hand'[c].mtime = hand[c].mtime
                          /\ hand'[c].chain = hand[c].chain /\ hand'[c].served = hand[c].served
                          /\ hand'[c].want = 0
    BY <1>0, <2>1 DEF HandRow
  <2>5. HandInv'
    BY <1>0, <2>1, <2>4 DEF CertInv, HandInv, Version
  <2>6. RenewalServed'
    BY <1>0, <2>4 DEF CertInv, RenewalServed, HandRow, Version
  <2> QED
    BY <2>2, <2>3, <2>5, <2>6 DEF CertInv
<1>2. CASE IssueChain
  <2>1. disk' = [disk EXCEPT !.chain = issued] /\ UNCHANGED <<issued, front, loaded, hand>>
        /\ issuing /\ ~issuing'
    BY <1>2 DEF IssueChain
  <2>2. CertTypeOK'
    BY <1>0, <1>2 DEF CertInv, CertTypeOK, IssueChain, Version
  <2>3. DiskInv' /\ LoadedInv'
    BY <1>0, <2>1 DEF CertInv, DiskInv, LoadedInv, Version
  <2>4. HandInv'
    BY <1>0, <2>1 DEF CertInv, HandInv, DiskInv, Version, HandRow
  <2>5. RenewalServed'
    BY <2>1 DEF CertInv, RenewalServed
  <2> QED
    BY <2>2, <2>3, <2>4, <2>5 DEF CertInv
<1>3. CASE IssueBreaks \/ TimePasses
  <2>1. UNCHANGED <<disk, issued, front, loaded, hand>> /\ (issuing' => issuing)
    BY <1>3 DEF IssueBreaks, TimePasses
  <2>2. issuing' \in BOOLEAN /\ expiring' \in BOOLEAN
    BY <1>3 DEF IssueBreaks, TimePasses, CertInv, CertTypeOK
  <2>3. CertTypeOK'
    BY <2>1, <2>2 DEF CertInv, CertTypeOK
  <2>4. DiskInv' /\ LoadedInv' /\ HandInv' /\ RenewalServed'
    BY <2>1 DEF CertInv, DiskInv, LoadedInv, HandInv, RenewalServed
  <2> QED
    BY <2>3, <2>4 DEF CertInv
<1>4. CASE Start
  <2>1. CertTypeOK'
    BY <1>0, <1>4 DEF CertInv, CertTypeOK, Start, Version, HandRow
  <2>2. DiskInv' /\ LoadedInv'
    BY <1>0, <1>4 DEF CertInv, DiskInv, LoadedInv, Start, Whole, Version
  <2>3. HandInv' /\ RenewalServed'
    BY <1>4 DEF Start, HandInv, RenewalServed, NoHand
  <2> QED
    BY <2>1, <2>2, <2>3 DEF CertInv
<1>5. ASSUME NEW c \in Client, Stat(c) PROVE CertInv'
  <2>1. CertTypeOK'
    BY <1>0, <1>5 DEF CertInv, CertTypeOK, Stat, Whole, NoHand, Version, HandRow
  <2>2. DiskInv' /\ LoadedInv'
    BY <1>0, <1>5 DEF CertInv, DiskInv, LoadedInv, HandInv, Stat, Whole, NoHand, Version, HandRow
  <2>3. HandInv'
    BY <1>0, <1>5 DEF CertInv, HandInv, LoadedInv, DiskInv, Stat, Whole, NoHand, Version, HandRow
  <2>4. RenewalServed'
    BY <1>0, <1>5 DEF CertInv, HandInv, LoadedInv, RenewalServed, Stat, Whole, NoHand, Version, HandRow
  <2> QED
    BY <2>1, <2>2, <2>3, <2>4 DEF CertInv
<1>6. ASSUME NEW c \in Client, Cached(c) PROVE CertInv'
  <2>1. CertTypeOK'
    BY <1>0, <1>6 DEF CertInv, CertTypeOK, Cached, Serves, Version, HandRow
  <2>2. DiskInv' /\ LoadedInv'
    BY <1>0, <1>6 DEF CertInv, DiskInv, LoadedInv, HandInv, Cached, Serves, Version, HandRow
  <2>3. HandInv'
    BY <1>0, <1>6 DEF CertInv, HandInv, LoadedInv, DiskInv, Cached, Serves, Version, HandRow
  <2>4. RenewalServed'
    BY <1>0, <1>6 DEF CertInv, HandInv, LoadedInv, RenewalServed, Cached, Serves, Version, HandRow
  <2> QED
    BY <2>1, <2>2, <2>3, <2>4 DEF CertInv
<1>7. ASSUME NEW c \in Client, ReadChain(c) PROVE CertInv'
  <2>1. CertTypeOK'
    BY <1>0, <1>7 DEF CertInv, CertTypeOK, ReadChain, Version, HandRow
  <2>2. DiskInv' /\ LoadedInv'
    BY <1>0, <1>7 DEF CertInv, DiskInv, LoadedInv, HandInv, ReadChain, Version, HandRow
  <2>3. HandInv'
    BY <1>0, <1>7 DEF CertInv, HandInv, LoadedInv, DiskInv, ReadChain, Version, HandRow
  <2>4. RenewalServed'
    BY <1>0, <1>7 DEF CertInv, HandInv, LoadedInv, RenewalServed, ReadChain, Version, HandRow
  <2> QED
    BY <2>1, <2>2, <2>3, <2>4 DEF CertInv
<1>8. ASSUME NEW c \in Client, ReadKey(c) PROVE CertInv'
  <2>1. CertTypeOK'
    BY <1>0, <1>8 DEF CertInv, CertTypeOK, ReadKey, Serves, Version, HandRow
  <2>2. DiskInv' /\ LoadedInv'
    BY <1>0, <1>8 DEF CertInv, DiskInv, LoadedInv, HandInv, ReadKey, Serves, Version, HandRow
  <2>3. HandInv'
    BY <1>0, <1>8 DEF CertInv, HandInv, LoadedInv, DiskInv, ReadKey, Serves, Version, HandRow
  <2>4. RenewalServed'
    BY <1>0, <1>8 DEF CertInv, HandInv, LoadedInv, RenewalServed, ReadKey, Serves, Version, HandRow
  <2> QED
    BY <2>1, <2>2, <2>3, <2>4 DEF CertInv
<1>9. ASSUME NEW c \in Client, Store(c) PROVE CertInv'
  <2>1. CertTypeOK'
    BY <1>0, <1>9 DEF CertInv, CertTypeOK, Store, Serves, Version, HandRow
  <2>2. DiskInv' /\ LoadedInv'
    BY <1>0, <1>9 DEF CertInv, DiskInv, LoadedInv, HandInv, Store, Serves, Version, HandRow
  <2>3. HandInv'
    BY <1>0, <1>9 DEF CertInv, HandInv, LoadedInv, DiskInv, Store, Serves, Version, HandRow
  <2>4. RenewalServed'
    BY <1>0, <1>9 DEF CertInv, HandInv, LoadedInv, RenewalServed, Store, Serves, Version, HandRow
  <2> QED
    BY <2>1, <2>2, <2>3, <2>4 DEF CertInv
<1>10. ASSUME NEW c \in Client, Done(c) PROVE CertInv'
  <2>1. CertTypeOK'
    BY <1>0, <1>10 DEF CertInv, CertTypeOK, Done, NoHand, Version, HandRow
  <2>2. DiskInv' /\ LoadedInv'
    BY <1>0, <1>10 DEF CertInv, DiskInv, LoadedInv, HandInv, Done, NoHand, Version, HandRow
  <2>3. HandInv'
    BY <1>0, <1>10 DEF CertInv, HandInv, LoadedInv, DiskInv, Done, NoHand, Version, HandRow
  <2>4. RenewalServed'
    BY <1>0, <1>10 DEF CertInv, HandInv, LoadedInv, RenewalServed, Done, NoHand, Version, HandRow
  <2> QED
    BY <2>1, <2>2, <2>3, <2>4 DEF CertInv
<1>11. CASE UNCHANGED certVars
  BY <1>11 DEF certVars, CertInv, CertTypeOK, DiskInv, LoadedInv, HandInv, RenewalServed
<1> QED
  BY <1>1, <1>2, <1>3, <1>4, <1>5, <1>6, <1>7, <1>8, <1>9, <1>10, <1>11 DEF CertNext

\* A handshake that begins when an issue is complete gets that certificate or a
\* newer one, and every handshake gets one, for any number of handshakes, issues
\* and restarts: no order of the reads and stores keeps an old pair alive.
THEOREM RenewalIsServed == CertSpec => []RenewalServed
<1>1. CertInit => CertInv
  <2> SUFFICES ASSUME CertInit PROVE CertInv
    OBVIOUS
  <2>1. 0 \in Version
    BY CertAssumption DEF Version
  <2>2. hand \in [Client -> HandRow]
    BY <2>1 DEF CertInit, NoHand, HandRow
  <2>3. CertTypeOK
    <3>1. issuing \in BOOLEAN /\ expiring \in BOOLEAN
      BY DEF CertInit
    <3> QED
      BY <2>1, <2>2, <3>1, CertAssumption DEF CertInit, CertTypeOK, HandRow
  <2>4. DiskInv /\ LoadedInv
    BY DEF CertInit, DiskInv, LoadedInv
  <2>5. HandInv /\ RenewalServed
    BY DEF CertInit, HandInv, RenewalServed, NoHand
  <2> QED
    BY <2>3, <2>4, <2>5 DEF CertInv
<1> QED
  BY <1>1, CertInvStep, PTL DEF CertSpec, CertInv
-----------------------------------------------------------------------------
\* The identity.  While the files are written, the ones before the present one
\* are whole and of the bundle at hand.
WritingInv ==
  agent.step \in {"truncate", "fill"} =>
    /\ agent.i \in 1..4 /\ agent.bundle \in Bundle
    /\ \A j \in 1..4 : j < agent.i => ident[Files[j]].of = agent.bundle /\ ident[Files[j]].whole
    /\ agent.step = "fill" => ident[Files[agent.i]].of = agent.bundle

\* The last file comes last: a node without it is not provisioned, and one with
\* it is.
LastInv ==
  /\ ~Provisioned => ident["panel.fp"].of = Nobody
  /\ agent.step = "truncate" \/ (agent.step = "fill" /\ agent.i < 4) => ident["panel.fp"].of = Nobody

\* Before the files are complete no node id is saved, and none remembered, unless
\* the node had an identity before.
UnknownInv ==
  ~removed /\ (~Provisioned \/ agent.step \in {"truncate", "fill", "remember"})
    => nodeID = Nobody /\ savedID = Nobody

WrittenInv ==
  /\ agent.step \in {"remember", "save"} =>
       /\ agent.bundle \in Bundle
       /\ \A f \in File : ident[f].of = agent.bundle /\ ident[f].whole
  /\ agent.step = "save" => nodeID = NodeOf[agent.bundle]

\* From the writing of a file to saveState nothing is saved; and an agent that
\* serves under another id than the saved one has it from the bundle.
SavingInv ==
  /\ agent.step \in {"fill", "remember", "save"} => unsaved
  /\ agent.step = "serve" /\ Provisioned /\ nodeID # savedID
       => nodeID = NodeOf[ident["node.key"].of]

IdentityInv ==
  IdentityTypeOK /\ WritingInv /\ LastInv /\ UnknownInv /\ WrittenInv /\ SavingInv
    /\ IdentityOfOneBundle

\* The files of a bundle have different names, written in this order.
LEMMA FilesInOrder ==
  /\ File = {"node.key", "node.crt", "ca.crt", "panel.fp"}
  /\ Files[1] = "node.key" /\ Files[2] = "node.crt" /\ Files[3] = "ca.crt" /\ Files[4] = "panel.fp"
  /\ \A i \in 1..4 : Files[i] \in File /\ (Files[i] = "panel.fp" <=> i = 4)
  /\ \A i, j \in 1..4 : i # j => Files[i] # Files[j]
<1>1. 1..4 = {1, 2, 3, 4}
  OBVIOUS
<1>2. Files[1] = "node.key" /\ Files[2] = "node.crt" /\ Files[3] = "ca.crt" /\ Files[4] = "panel.fp"
  BY DEF Files
<1>3. File = {Files[1], Files[2], Files[3], Files[4]}
  BY <1>1 DEF File
<1> QED
  BY <1>1, <1>2, <1>3

\* Filling a file changes only that it is whole.
LEMMA FilledRow ==
  ASSUME NEW B, NEW x \in [of : B, whole : BOOLEAN]
  PROVE  /\ [x EXCEPT !.whole = TRUE] \in [of : B, whole : BOOLEAN]
         /\ [x EXCEPT !.whole = TRUE].of = x.of
         /\ [x EXCEPT !.whole = TRUE].whole
<1>1. [x EXCEPT !.whole = TRUE] \in [of : B, whole : BOOLEAN]
  OBVIOUS
<1>2. [x EXCEPT !.whole = TRUE].of = x.of
  OBVIOUS
<1>3. [x EXCEPT !.whole = TRUE].whole
  OBVIOUS
<1> QED
  BY <1>1, <1>2, <1>3

\* Every step of provisioning, a crash or a start keeps IdentityInv.
LEMMA IdentityInvStep == IdentityInv /\ [IdentityNext]_identityVars => IdentityInv'
<1> SUFFICES ASSUME IdentityInv, [IdentityNext]_identityVars PROVE IdentityInv'
  OBVIOUS
<1> USE IdentityAssumption
<1>0. /\ ident \in [File -> [of : Bundle \cup {Nobody}, whole : BOOLEAN]]
      /\ agent \in [step : {"off", "truncate", "fill", "remember", "save", "serve"},
                    bundle : Bundle \cup {Nobody}, i : 0..4]
  BY DEF IdentityInv, IdentityTypeOK
<1>1. ASSUME NEW b \in Bundle, Boot(b) PROVE IdentityInv'
  <2>1. ident' = ident /\ savedID' = savedID /\ nodeID' = savedID /\ agent.step = "off"
        /\ removed' = removed /\ unsaved' = unsaved /\ Provisioned' = Provisioned
    BY <1>1 DEF Boot, Provisioned
  <2>2. IdentityTypeOK'
    BY <1>0, <1>1 DEF Boot, IdentityInv, IdentityTypeOK, Off
  <2>3. \/ ~Provisioned /\ agent' = [step |-> "truncate", bundle |-> b, i |-> 1]
        \/ Provisioned /\ agent' = [step |-> "serve", bundle |-> Nobody, i |-> 0]
        \/ Provisioned /\ agent' = [step |-> "off", bundle |-> Nobody, i |-> 0]
    BY <1>1 DEF Boot, Off
  <2>4. WritingInv' /\ LastInv' /\ UnknownInv' /\ WrittenInv' /\ SavingInv'
    BY <2>1, <2>3 DEF IdentityInv, WritingInv, LastInv, UnknownInv, WrittenInv, SavingInv
  <2>5. IdentityOfOneBundle'
    BY <2>1 DEF IdentityInv, IdentityOfOneBundle
  <2> QED
    BY <2>2, <2>4, <2>5 DEF IdentityInv
<1>2. CASE TruncateFile
  <2>1. /\ agent.step = "truncate" /\ agent.i \in 1..4 /\ agent.bundle \in Bundle
        /\ ident' = [ident EXCEPT ![Files[agent.i]] = [of |-> agent.bundle, whole |-> FALSE]]
        /\ agent' = [agent EXCEPT !.step = "fill"]
        /\ UNCHANGED <<nodeID, savedID, boots, removed>> /\ unsaved'
        /\ ~removed => nodeID = Nobody /\ savedID = Nobody
    BY <1>2 DEF TruncateFile, IdentityInv, WritingInv, UnknownInv
  <2>2. /\ agent'.step = "fill" /\ agent'.i = agent.i /\ agent'.bundle = agent.bundle
        /\ \A j \in 1..4 : ident'[Files[j]] = IF j = agent.i THEN [of |-> agent.bundle, whole |-> FALSE]
                                              ELSE ident[Files[j]]
    BY <1>0, <2>1, FilesInOrder
  <2>3. IdentityTypeOK'
    BY <1>0, <2>1, FilesInOrder DEF IdentityInv, IdentityTypeOK
  <2>4. WritingInv'
    BY <2>1, <2>2 DEF IdentityInv, WritingInv
  <2>5. agent.i < 4 => ident'["panel.fp"].of = Nobody /\ ~Provisioned'
    BY <2>1, <2>2, FilesInOrder DEF IdentityInv, LastInv, Provisioned
  <2>6. agent.i = 4 => \A f \in File : ident'[f].of = agent.bundle /\ (ident'[f].whole \/ f = "panel.fp")
    BY <2>1, <2>2, FilesInOrder DEF IdentityInv, WritingInv
  <2>7. agent.i = 4 => Provisioned'
    BY <2>1, <2>6 DEF Provisioned
  <2>8. LastInv' /\ UnknownInv' /\ WrittenInv' /\ SavingInv'
    BY <2>1, <2>2, <2>5, <2>7 DEF LastInv, UnknownInv, WrittenInv, SavingInv
  <2>9. IdentityOfOneBundle'
    BY <2>1, <2>5, <2>6 DEF IdentityOfOneBundle
  <2> QED
    BY <2>3, <2>4, <2>8, <2>9 DEF IdentityInv
<1>3. CASE FillFile
  <2>1. /\ agent.step = "fill" /\ agent.i \in 1..4 /\ agent.bundle \in Bundle
        /\ ident' = [ident EXCEPT ![Files[agent.i]].whole = TRUE]
        /\ agent' = IF agent.i < 4 THEN [agent EXCEPT !.step = "truncate", !.i = @ + 1]
                    ELSE [agent EXCEPT !.step = "remember"]
        /\ UNCHANGED <<nodeID, savedID, boots, removed, unsaved>> /\ unsaved
        /\ ~removed => nodeID = Nobody /\ savedID = Nobody
        /\ ident[Files[agent.i]].of = agent.bundle
    BY <1>3 DEF FillFile, IdentityInv, WritingInv, UnknownInv, SavingInv
  <2>2. \A j \in 1..4 : /\ ident'[Files[j]].of = ident[Files[j]].of
                        /\ ident'[Files[j]].whole <=> (j = agent.i \/ ident[Files[j]].whole)
                        /\ ident'[Files[j]] \in [of : Bundle \cup {Nobody}, whole : BOOLEAN]
    <3>1. \A j \in 1..4 : Files[j] \in File /\ ident[Files[j]] \in [of : Bundle \cup {Nobody}, whole : BOOLEAN]
      BY <1>0, FilesInOrder
    <3>2. \A j \in 1..4 : j # agent.i => ident'[Files[j]] = ident[Files[j]]
      BY <1>0, <2>1, <3>1, FilesInOrder
    <3>3. ident'[Files[agent.i]] = [ident[Files[agent.i]] EXCEPT !.whole = TRUE]
      BY <1>0, <2>1, <3>1
    <3>4. /\ ident'[Files[agent.i]].of = ident[Files[agent.i]].of
          /\ ident'[Files[agent.i]].whole
          /\ ident'[Files[agent.i]] \in [of : Bundle \cup {Nobody}, whole : BOOLEAN]
      <4> DEFINE x == ident[Files[agent.i]]
                 y == ident'[Files[agent.i]]
      <4>1. x \in [of : Bundle \cup {Nobody}, whole : BOOLEAN] /\ y = [x EXCEPT !.whole = TRUE]
        BY <2>1, <3>1, <3>3
      <4> HIDE DEF x, y
      <4>2. y \in [of : Bundle \cup {Nobody}, whole : BOOLEAN] /\ y.of = x.of /\ y.whole
        BY <4>1, FilledRow, Zenon
      <4> QED
        BY <4>2 DEF x, y
    <3>5. ASSUME NEW j \in 1..4
          PROVE  /\ ident'[Files[j]].of = ident[Files[j]].of
                 /\ ident'[Files[j]].whole <=> (j = agent.i \/ ident[Files[j]].whole)
                 /\ ident'[Files[j]] \in [of : Bundle \cup {Nobody}, whole : BOOLEAN]
      <4>1. CASE j = agent.i
        BY <3>4, <4>1
      <4>2. CASE j # agent.i
        BY <3>1, <3>2, <4>2
      <4> QED
        BY <4>1, <4>2
    <3> QED
      BY <3>5
  <2>3. /\ agent.i < 4 => agent'.step = "truncate" /\ agent'.i = agent.i + 1
        /\ agent.i = 4 => agent'.step = "remember"
        /\ agent'.bundle = agent.bundle
    BY <1>0, <2>1
  <2>4. IdentityTypeOK'
    <3>1. \A f \in File : ident'[f] \in [of : Bundle \cup {Nobody}, whole : BOOLEAN]
      BY <2>2 DEF File
    <3>2. ident' \in [File -> [of : Bundle \cup {Nobody}, whole : BOOLEAN]]
      BY <1>0, <2>1, <3>1
    <3>3. agent' \in [step : {"off", "truncate", "fill", "remember", "save", "serve"},
                      bundle : Bundle \cup {Nobody}, i : 0..4]
      <4>1. agent.i < 4 => agent' = [agent EXCEPT !.step = "truncate", !.i = agent.i + 1]
        BY <2>1
      <4>2. ~(agent.i < 4) => agent' = [agent EXCEPT !.step = "remember"]
        BY <2>1
      <4>3. agent.i < 4 => agent.i + 1 \in 0..4
        BY <2>1
      <4>4. CASE agent.i < 4
        BY <1>0, <4>1, <4>3, <4>4
      <4>5. CASE ~(agent.i < 4)
        BY <1>0, <4>2, <4>5
      <4> QED
        BY <4>4, <4>5
    <3> QED
      BY <2>1, <3>2, <3>3 DEF IdentityInv, IdentityTypeOK
  <2>5. \A j \in 1..4 : j <= agent.i => ident'[Files[j]].of = agent.bundle /\ ident'[Files[j]].whole
    BY <1>3, <2>1, <2>2 DEF IdentityInv, WritingInv
  <2>6. WritingInv'
    BY <2>1, <2>3, <2>5 DEF WritingInv
  <2>7. agent.i < 4 => ident'["panel.fp"].of = Nobody /\ ~Provisioned'
    BY <2>1, <2>2, FilesInOrder DEF IdentityInv, LastInv, Provisioned
  <2>8. agent.i = 4 => \A f \in File : ident'[f].of = agent.bundle /\ ident'[f].whole
    <3>1. ASSUME agent.i = 4, NEW f \in File PROVE ident'[f].of = agent.bundle /\ ident'[f].whole
      <4>1. PICK j \in 1..4 : f = Files[j]
        BY DEF File
      <4> QED
        BY <2>5, <3>1, <4>1
    <3> QED
      BY <3>1
  <2>9. agent.i = 4 => Provisioned'
    BY <2>1, <2>8 DEF Provisioned
  <2>10. LastInv' /\ UnknownInv' /\ WrittenInv' /\ SavingInv'
    <3>1. agent.i < 4 \/ agent.i = 4
      BY <2>1
    <3>2. CASE agent.i < 4
      BY <2>1, <2>3, <2>7, <3>2 DEF LastInv, UnknownInv, WrittenInv, SavingInv
    <3>3. CASE agent.i = 4
      BY <2>1, <2>3, <2>8, <2>9, <3>3 DEF LastInv, UnknownInv, WrittenInv, SavingInv
    <3> QED
      BY <3>1, <3>2, <3>3
  <2>11. IdentityOfOneBundle'
    BY <2>1, <2>7, <2>8 DEF IdentityOfOneBundle
  <2> QED
    BY <2>4, <2>6, <2>10, <2>11 DEF IdentityInv
<1>4. CASE Remember
  <2>1. /\ agent.step = "remember" /\ nodeID' = NodeOf[agent.bundle]
        /\ agent' = [agent EXCEPT !.step = "save"]
        /\ UNCHANGED <<ident, savedID, boots, removed, unsaved>> /\ unsaved
        /\ ~removed => savedID = Nobody
        /\ agent.bundle \in Bundle
        /\ \A f \in File : ident[f].of = agent.bundle /\ ident[f].whole
    BY <1>4 DEF Remember, IdentityInv, WrittenInv, UnknownInv, SavingInv
  <2>2. agent'.step = "save" /\ agent'.bundle = agent.bundle /\ Provisioned /\ Provisioned'
    BY <1>0, <2>1 DEF Provisioned
  <2>3. IdentityTypeOK'
    BY <1>0, <2>1 DEF IdentityInv, IdentityTypeOK, NodeId
  <2>4. WritingInv' /\ LastInv' /\ UnknownInv' /\ WrittenInv' /\ SavingInv'
    BY <2>1, <2>2 DEF WritingInv, LastInv, UnknownInv, WrittenInv, SavingInv
  <2>5. IdentityOfOneBundle'
    BY <2>1 DEF IdentityOfOneBundle
  <2> QED
    BY <2>3, <2>4, <2>5 DEF IdentityInv
<1>5. CASE SaveID
  <2>1. /\ agent.step = "save" /\ unsaved
        /\ \/ savedID' = nodeID /\ unsaved' = FALSE
           \/ savedID' = savedID /\ unsaved' = unsaved
        /\ UNCHANGED <<ident, nodeID, boots, removed>> /\ nodeID = NodeOf[agent.bundle]
        /\ agent' \in [step : {"off", "serve"}, bundle : {Nobody}, i : {0}]
        /\ \A f \in File : ident[f].of = agent.bundle /\ ident[f].whole
        /\ agent.bundle \in Bundle
    BY <1>5 DEF SaveID, IdentityInv, WrittenInv, SavingInv, Off
  <2>2. Provisioned /\ Provisioned'
    BY <2>1 DEF Provisioned
  <2>3. IdentityTypeOK'
    <3>1. unsaved' \in BOOLEAN /\ removed' \in BOOLEAN
      BY <2>1 DEF IdentityInv, IdentityTypeOK
    <3>2. savedID' \in NodeId \cup {Nobody} /\ nodeID' \in NodeId \cup {Nobody}
      BY <2>1 DEF IdentityInv, IdentityTypeOK
    <3>3. boots' \in 0..MaxBoots /\ ident' = ident
      BY <2>1 DEF IdentityInv, IdentityTypeOK
    <3>4. agent' \in [step : {"off", "truncate", "fill", "remember", "save", "serve"},
                      bundle : Bundle \cup {Nobody}, i : 0..4]
      BY <2>1
    <3> QED
      BY <1>0, <3>1, <3>2, <3>3, <3>4 DEF IdentityTypeOK
  <2>4. WritingInv' /\ LastInv' /\ UnknownInv' /\ WrittenInv' /\ SavingInv'
    BY <2>1, <2>2, FilesInOrder DEF WritingInv, LastInv, UnknownInv, WrittenInv, SavingInv
  <2>5. ~removed => savedID \in {NodeOf[agent.bundle], Nobody}
    BY <2>1, <2>2, FilesInOrder DEF IdentityInv, IdentityOfOneBundle
  <2>6. IdentityOfOneBundle'
    BY <2>1, <2>5 DEF IdentityOfOneBundle
  <2> QED
    BY <2>3, <2>4, <2>6 DEF IdentityInv
<1>6. CASE Dies
  <2>1. /\ agent' = [step |-> "off", bundle |-> Nobody, i |-> 0] /\ nodeID' = Nobody
        /\ UNCHANGED <<ident, savedID, boots, removed, unsaved>> /\ Provisioned' = Provisioned
    BY <1>6 DEF Dies, Off, Provisioned
  <2>2. IdentityTypeOK'
    BY <1>0, <2>1 DEF IdentityInv, IdentityTypeOK
  <2>3. WritingInv' /\ LastInv' /\ UnknownInv' /\ WrittenInv' /\ SavingInv'
    BY <2>1 DEF IdentityInv, WritingInv, LastInv, UnknownInv, WrittenInv, SavingInv
  <2>4. IdentityOfOneBundle'
    BY <2>1 DEF IdentityInv, IdentityOfOneBundle
  <2> QED
    BY <2>2, <2>3, <2>4 DEF IdentityInv
<1>7. CASE RequestSaves
  <2>1. /\ agent.step = "serve" /\ nodeID # savedID /\ savedID' = nodeID /\ unsaved' = FALSE
        /\ UNCHANGED <<ident, agent, nodeID, boots, removed>> /\ Provisioned' = Provisioned
    BY <1>7 DEF RequestSaves, Provisioned
  <2>2. IdentityTypeOK'
    BY <1>0, <2>1 DEF IdentityInv, IdentityTypeOK
  <2>3. WritingInv' /\ LastInv' /\ UnknownInv' /\ WrittenInv' /\ SavingInv'
    BY <2>1 DEF IdentityInv, WritingInv, LastInv, UnknownInv, WrittenInv, SavingInv
  <2>4. IdentityOfOneBundle'
    <3> SUFFICES ASSUME Provisioned
                 PROVE  \E b \in Bundle :
                          /\ \A f \in File : ident[f].of = b /\ (ident[f].whole \/ f = "panel.fp")
                          /\ savedID' = NodeOf[b] /\ nodeID' = NodeOf[b]
      BY <2>1 DEF IdentityOfOneBundle
    <3>1. PICK b \in Bundle : \A f \in File : ident[f].of = b /\ (ident[f].whole \/ f = "panel.fp")
      BY DEF IdentityInv, IdentityOfOneBundle
    <3>2. nodeID = NodeOf[b]
      BY <2>1, <3>1, FilesInOrder DEF IdentityInv, SavingInv
    <3> QED
      BY <2>1, <3>1, <3>2
  <2> QED
    BY <2>2, <2>3, <2>4 DEF IdentityInv
<1>8. CASE RemoveIdentity
  <2>1. /\ agent.step \in {"off", "serve"} /\ ident' = [f \in File |-> Missing] /\ removed' = TRUE
        /\ UNCHANGED <<agent, nodeID, savedID, boots, unsaved>>
    BY <1>8 DEF RemoveIdentity
  <2>2. ident'["panel.fp"].of = Nobody /\ ~Provisioned'
    BY <2>1, FilesInOrder DEF Provisioned, Missing
  <2>3. IdentityTypeOK'
    BY <1>0, <2>1 DEF IdentityInv, IdentityTypeOK, Missing
  <2>4. WritingInv' /\ LastInv' /\ UnknownInv' /\ WrittenInv' /\ SavingInv'
    BY <2>1, <2>2 DEF WritingInv, LastInv, UnknownInv, WrittenInv, SavingInv
  <2> QED
    BY <2>2, <2>3, <2>4 DEF IdentityInv, IdentityOfOneBundle
<1>9. CASE UNCHANGED identityVars
  BY <1>9 DEF identityVars, IdentityInv, IdentityTypeOK, WritingInv, LastInv, UnknownInv, WrittenInv, SavingInv,
              IdentityOfOneBundle, Provisioned
<1> QED
  BY <1>1, <1>2, <1>3, <1>4, <1>5, <1>6, <1>7, <1>8, <1>9 DEF IdentityNext

\* LoadBundle, interrupted and repeated any number of times with any bundles, the
\* directory removed between them or not, never leaves a provisioned node with
\* files of two bundles, nor with another node's id once saveState has succeeded
\* or where no identity was removed.
THEOREM ProvisionsOneBundle == IdentitySpec => []IdentityOfOneBundle
<1>1. IdentityInit => IdentityInv
  <2> SUFFICES ASSUME IdentityInit PROVE IdentityInv
    OBVIOUS
  <2>1. \A f \in File : ident[f].of = Nobody
    BY DEF IdentityInit, Missing
  <2>2. ~Provisioned
    BY <2>1, FilesInOrder DEF Provisioned
  <2>3. IdentityTypeOK
    <3>1. ident \in [File -> [of : Bundle \cup {Nobody}, whole : BOOLEAN]]
      BY DEF IdentityInit, Missing
    <3>2. agent \in [step : {"off", "truncate", "fill", "remember", "save", "serve"},
                     bundle : Bundle \cup {Nobody}, i : 0..4]
      BY DEF IdentityInit, Off
    <3>3. removed \in BOOLEAN /\ unsaved \in BOOLEAN
      BY DEF IdentityInit
    <3>4. boots \in 0..MaxBoots
      <4>1. boots = 0 /\ MaxBoots \in Nat
        BY IdentityAssumption DEF IdentityInit
      <4> QED
        BY <4>1
    <3> QED
      BY <3>1, <3>2, <3>3, <3>4 DEF IdentityInit, IdentityTypeOK
  <2>4. WritingInv /\ WrittenInv /\ LastInv /\ UnknownInv /\ SavingInv
    BY <2>1, FilesInOrder DEF IdentityInit, Off, WritingInv, WrittenInv, LastInv, UnknownInv, SavingInv
  <2> QED
    BY <2>2, <2>3, <2>4 DEF IdentityInv, IdentityOfOneBundle
<1> QED
  BY <1>1, IdentityInvStep, PTL DEF IdentitySpec, IdentityInv
-----------------------------------------------------------------------------
\* Routing: matching.

\* A set of naturals that is not empty has a least element.
LEMMA LeastNatural ==
  ASSUME NEW S \in SUBSET Nat, S # {}
  PROVE  \E x \in S : \A y \in S : x <= y
<1> DEFINE R == OpToRel(<, Nat)
<1>1. IsWellFoundedOn(R, Nat)
  BY NatLessThanWellFounded
<1>2. \A x, y \in Nat : x < y => <<x, y>> \in R
  BY DEF OpToRel
<1> HIDE DEF R
<1>3. PICK x \in S : \A y \in S : ~(<<y, x>> \in R)
  BY <1>1, WFMin, Zenon
<1>4. ASSUME NEW y \in S PROVE x <= y
  <2>1. x \in Nat /\ y \in Nat
    OBVIOUS
  <2>2. ~(y < x)
    BY <1>2, <1>3, <2>1
  <2> QED
    BY <2>1, <2>2
<1> QED
  BY <1>4

\* The longest suffix of a host that a set of entries holds.
LEMMA LongestSuffix ==
  ASSUME NEW es, NEW h \in Host, Depths(es, h) # {}
  PROVE  /\ Min(Depths(es, h)) \in Depths(es, h)
         /\ Min(Depths(es, h)) \in 0..(Len(h) - 1)
         /\ Min(Depths(es, h)) \in Nat
         /\ \A d \in Depths(es, h) : Min(Depths(es, h)) <= d
<1> DEFINE S == Depths(es, h)
<1>1. Len(h) \in Nat \ {0}
  BY RoutingAssumption
<1>2. S \subseteq 0..(Len(h) - 1)
  BY DEF Depths
<1>3. S \in SUBSET Nat /\ S # {}
  BY <1>1, <1>2
<1> HIDE DEF S
<1>4. \E x \in S : \A y \in S : x <= y
  BY <1>3, LeastNatural
<1>5. Min(S) \in S /\ \A y \in S : Min(S) <= y
  BY <1>4 DEF Min
<1>6. Min(S) \in 0..(Len(h) - 1) /\ Min(S) \in Nat
  <2>1. Min(S) \in 0..(Len(h) - 1)
    BY <1>2, <1>5
  <2>2. \A x \in 0..(Len(h) - 1) : x \in Nat
    BY <1>1
  <2> QED
    BY <2>1, <2>2
<1> QED
  BY <1>5, <1>6 DEF S

\* What Specificity returns: more for an exact entry than for any suffix, less
\* for a suffix the deeper below it the host is, and -1 for no match.
LEMMA SpecificityOf ==
  ASSUME NEW es, NEW h \in Host
  PROVE  /\ Exact(es, h) => Specificity(es, h) = ExactSpec
         /\ ~Exact(es, h) /\ Depths(es, h) # {} =>
              Specificity(es, h) = SuffixSpec - Min(Depths(es, h))
         /\ ~Exact(es, h) /\ Depths(es, h) = {} /\ Regex(es, h) => Specificity(es, h) = 1
         /\ ~Match(es, h) => Specificity(es, h) = -1
         /\ Specificity(es, h) \in Int
         /\ SuffixSpec \in Nat \ {0} /\ ExactSpec \in Nat /\ ExactSpec > SuffixSpec
<1>1. SuffixSpec \in Nat \ {0} /\ ExactSpec \in Nat /\ ExactSpec > SuffixSpec
  BY RoutingAssumption DEF ExactSpec
<1>2. CASE Exact(es, h)
  BY <1>1, <1>2 DEF Specificity, Match
<1>3. CASE ~Exact(es, h) /\ Depths(es, h) # {}
  BY <1>1, <1>3, LongestSuffix DEF Specificity, Match
<1>4. CASE ~Exact(es, h) /\ Depths(es, h) = {} /\ Regex(es, h)
  BY <1>1, <1>4 DEF Specificity, Match
<1>5. CASE ~Exact(es, h) /\ Depths(es, h) = {} /\ ~Regex(es, h)
  BY <1>1, <1>5 DEF Specificity, Match
<1> QED
  BY <1>2, <1>3, <1>4, <1>5

\* Match and Specificity, for every set of entries: only matches are specific,
\* and the other way round for hosts of fewer than SuffixSpec labels.
LEMMA MatchIsSpecific ==
  ASSUME NEW es, NEW h \in Host
  PROVE  /\ Specificity(es, h) >= 0 => Match(es, h)
         /\ Len(h) < SuffixSpec =>
              /\ Match(es, h) => Specificity(es, h) >= 0
              /\ Depths(es, h) # {} => Specificity(es, h) > 1
<1>1. Exact(es, h) => Specificity(es, h) > 1
  BY SpecificityOf
<1>2. ASSUME Len(h) < SuffixSpec, ~Exact(es, h), Depths(es, h) # {} PROVE Specificity(es, h) > 1
  <2>1. Len(h) \in Nat \ {0} /\ SuffixSpec \in Nat
    BY RoutingAssumption
  <2>2. Min(Depths(es, h)) \in 0..(Len(h) - 1)
    BY <1>2, LongestSuffix
  <2>3. Specificity(es, h) = SuffixSpec - Min(Depths(es, h))
    BY <1>2, SpecificityOf
  <2> QED
    BY <1>2, <2>1, <2>2, <2>3
<1>3. ~Exact(es, h) /\ Depths(es, h) = {} /\ Regex(es, h) => Specificity(es, h) = 1
  BY SpecificityOf
<1>4. ~Match(es, h) => Specificity(es, h) = -1
  BY SpecificityOf
<1>5. Specificity(es, h) \in Int
  BY SpecificityOf
<1> QED
  BY <1>1, <1>2, <1>3, <1>4, <1>5 DEF Match

\* Of any entries and any host: what the matcher of the ingress and the DNS front
\* end finds the relay's matcher finds, and below SuffixSpec labels they never
\* disagree and a suffix outranks a regular expression.
THEOREM MatchersAgree == Spec => []MatchAgrees
<1>1. MatchAgrees
  BY MatchIsSpecific DEF MatchAgrees
<1> QED
  BY <1>1, PTL

\* More entries match more hosts.
LEMMA MatchGrows ==
  ASSUME NEW es, NEW fs, es \subseteq fs, NEW h, Match(es, h)
  PROVE  Match(fs, h)
BY DEF Match, Exact, Depths, Regex
-----------------------------------------------------------------------------
\* Routing: the owner of a host.

\* What Compile guarantees of a set of services.
WellRanked(services) ==
  /\ \A s \in services : s.slug \in Slug /\ s.priority \in Int
  /\ \A s, t \in services : s.slug = t.slug => s = t

\* Outranks is a strict total order of the services.
LEMMA OutranksOrders ==
  ASSUME NEW services, WellRanked(services), NEW h \in Host
  PROVE  /\ \A a \in services : ~Outranks(a, a, h)
         /\ \A a, b \in services : a # b => Outranks(a, b, h) \/ Outranks(b, a, h)
         /\ \A a, b, c \in services : Outranks(a, b, h) /\ Outranks(b, c, h) => Outranks(a, c, h)
<1>1. \A s \in services : /\ Specificity(s.entries, h) \in Int
                          /\ s.priority \in Int /\ s.slug \in Int
  <2>1. \A s \in services : Specificity(s.entries, h) \in Int
    BY SpecificityOf
  <2>2. \A s \in services : s.priority \in Int /\ s.slug \in Slug
    BY DEF WellRanked
  <2>3. Slug \subseteq Int
    BY RoutingAssumption
  <2> QED
    BY <2>1, <2>2, <2>3
<1> QED
  BY <1>1 DEF Outranks, WellRanked

\* Lookup finds an owner whenever a service claims the host: the claim that the
\* fewest others outrank is outranked by none.
LEMMA LookupFindsOwner ==
  ASSUME NEW services, WellRanked(services), NEW h \in Host,
         NEW c \in services, Specificity(c.entries, h) >= 0
  PROVE  Lookup(services, h) # {}
<1> DEFINE claim == {s \in services : Specificity(s.entries, h) >= 0}
           better(a, b) == Outranks(a, b, h)
           above(s) == {k \in Slug : \E o \in claim : o.slug = k /\ better(o, s)}
           counts == {Cardinality(above(s)) : s \in claim}
<1>1. /\ \A a \in claim : ~better(a, a)
      /\ \A a, b \in claim : a # b => better(a, b) \/ better(b, a)
      /\ \A a, b, d \in claim : better(a, b) /\ better(b, d) => better(a, d)
  BY OutranksOrders
<1>2. /\ \A s \in claim : s.slug \in Slug
      /\ \A s, t \in claim : s.slug = t.slug => s = t
  BY DEF WellRanked
<1>3. c \in claim
  OBVIOUS
<1>4. Lookup(services, h) = {s \in claim : \A o \in claim \ {s} : better(s, o)}
  BY DEF Lookup
<1> HIDE DEF claim, better
<1>5. \A s : above(s) \in SUBSET Slug
  OBVIOUS
<1>6. IsFiniteSet(Slug)
  BY RoutingAssumption
<1>7. \A s : IsFiniteSet(above(s)) /\ Cardinality(above(s)) \in Nat
  BY <1>5, <1>6, FS_Subset, FS_CardinalityType
<1> HIDE DEF above
<1>8. counts \in SUBSET Nat /\ counts # {}
  BY <1>3, <1>7
<1>9. PICK n \in counts : \A m \in counts : n <= m
  BY <1>8, LeastNatural
<1>10. PICK s \in claim : \A o \in claim : Cardinality(above(s)) <= Cardinality(above(o))
  BY <1>9
<1>11. ASSUME NEW o \in claim \ {s}, ~better(s, o) PROVE FALSE
  <2>1. better(o, s)
    BY <1>1, <1>11
  <2>2. above(o) \in SUBSET above(s)
    BY <1>1, <2>1 DEF above
  <2>3. o.slug \in above(s) /\ o.slug \notin above(o)
    BY <1>1, <1>2, <2>1 DEF above
  <2>4. /\ Cardinality(above(o)) <= Cardinality(above(s))
        /\ Cardinality(above(s)) = Cardinality(above(o)) => above(s) = above(o)
    BY <1>7, <2>2, FS_Subset
  <2>5. Cardinality(above(s)) <= Cardinality(above(o))
    BY <1>10
  <2>6. Cardinality(above(s)) = Cardinality(above(o))
    BY <1>7, <2>4, <2>5
  <2> QED
    BY <2>3, <2>4, <2>6
<1> QED
  BY <1>4, <1>11

\* And never two.
LEMMA LookupIsUnique ==
  ASSUME NEW services, WellRanked(services), NEW h \in Host,
         NEW a \in Lookup(services, h), NEW b \in Lookup(services, h)
  PROVE  a = b
<1>1. a \in services /\ b \in services
  BY DEF Lookup
<1>2. a # b => Outranks(a, b, h) /\ Outranks(b, a, h)
  BY DEF Lookup
<1> QED
  BY <1>1, <1>2, OutranksOrders

\* The router and the proxy find at most one owner for a host, whatever the
\* services and the host, and none that no service covers; for a host of fewer
\* than SuffixSpec labels that some service covers they do find one.
THEOREM LookupFindsTheOwner ==
  ASSUME NEW services, WellRanked(services), NEW h \in Host
  PROVE  /\ Lookup(services, h) = {} \/ \E s \in services : /\ Lookup(services, h) = {s}
                                                           /\ Match(s.entries, h)
         /\ Len(h) < SuffixSpec /\ (\E s \in services : Match(s.entries, h)) =>
              Lookup(services, h) # {}
<1>1. ASSUME Lookup(services, h) # {}
      PROVE  \E s \in services : Lookup(services, h) = {s} /\ Match(s.entries, h)
  <2>1. PICK s \in Lookup(services, h) : TRUE
    BY <1>1
  <2>2. Lookup(services, h) = {s} /\ s \in services
    BY LookupIsUnique DEF Lookup
  <2>3. Match(s.entries, h)
    BY <2>1, MatchIsSpecific DEF Lookup
  <2> QED
    BY <2>2, <2>3
<1>2. ASSUME Len(h) < SuffixSpec, NEW s \in services, Match(s.entries, h)
      PROVE  Lookup(services, h) # {}
  <2>1. Specificity(s.entries, h) >= 0
    BY <1>2, MatchIsSpecific
  <2> QED
    BY <2>1, LookupFindsOwner
<1> QED
  BY <1>1, <1>2
-----------------------------------------------------------------------------
\* Routing: revisions.

\* A finite set with two different elements has more than one.
LEMMA TwoElements ==
  ASSUME NEW S, IsFiniteSet(S), NEW a \in S, NEW b \in S, a # b
  PROVE  Cardinality(S) > 1
<1>1. Cardinality(S) \in Nat
  BY FS_CardinalityType
<1>2. Cardinality(S) # 0
  BY FS_EmptySet
<1>3. Cardinality(S) # 1
  <2> SUFFICES ASSUME Cardinality(S) = 1 PROVE FALSE
    OBVIOUS
  <2>1. PICK x : S = {x}
    BY FS_Singleton
  <2> QED
    BY <2>1
<1> QED
  BY <1>1, <1>2, <1>3

\* The operator's definitions are among the ones the constants allow.
DesiredOK ==
  /\ DOMAIN desired \subseteq Slug
  /\ \A s \in DOMAIN desired : desired[s] \in Shape[s]

\* detectConflicts found nothing: two services that claim an entry at the same
\* priority are both below a third one.
LEMMA TieIsBelow ==
  ASSUME DesiredOK, NEW a \in Enabled, NEW b \in Enabled, a # b,
         NEW e \in desired[a].entries, e \in desired[b].entries, ~Conflict(e),
         desired[a].priority = desired[b].priority
  PROVE  \E o \in Enabled : e \in desired[o].entries /\ desired[o].priority > desired[a].priority
<1> DEFINE owners == {s \in Enabled : e \in desired[s].entries}
           P == {desired[s].priority : s \in owners}
           p == desired[a].priority
           equals == {s \in owners : desired[s].priority = Max(P)}
<1> SUFFICES ASSUME \A o \in owners : ~(desired[o].priority > p) PROVE FALSE
  OBVIOUS
<1>1. \A s \in Enabled : desired[s].priority \in Int
  BY RoutingAssumption DEF DesiredOK, Enabled
<1>2. P \subseteq Int /\ p \in P
  BY <1>1
<1>3. \A x \in P : p >= x
  BY <1>1
<1>4. ~(Cardinality(equals) > 1)
  BY DEF Conflict
<1>5. a \in owners /\ b \in owners /\ desired[a].priority = p /\ desired[b].priority = p
  OBVIOUS
<1>6. owners \subseteq Slug
  BY DEF DesiredOK, Enabled
<1> HIDE DEF owners, P, p
<1>7. Max(P) = p
  <2>1. Max(P) \in P /\ \A y \in P : Max(P) >= y
    BY <1>2, <1>3 DEF Max
  <2>2. Max(P) >= p /\ p >= Max(P)
    BY <1>2, <1>3, <2>1
  <2>3. Max(P) \in Int /\ p \in Int
    BY <1>2, <2>1
  <2> QED
    BY <2>2, <2>3
<1>8. a \in equals /\ b \in equals
  BY <1>5, <1>7
<1>9. IsFiniteSet(equals)
  BY <1>6, RoutingAssumption, FS_Subset
<1> HIDE DEF equals
<1> QED
  BY <1>4, <1>8, <1>9, TwoElements

\* A revision hangs together: the addresses of a service are those of nodes that
\* carry it, its targets admit its names and ports, and where two services claim
\* an entry at one priority a third one has precedence.
RevisionOK(r) ==
  /\ WellRanked(r.services)
  /\ \A s \in r.services :
       /\ s.v4 \subseteq s.on /\ s.v6 \subseteq s.on
       /\ \A e \in s.targets \cap Egress : s.entries \subseteq r.allow[e] /\ s.ports \subseteq r.ports[e]
  /\ \A a, b \in r.services : \A e \in a.entries \cap b.entries :
       a # b /\ a.priority = b.priority =>
         \E o \in r.services : e \in o.entries /\ o.priority > a.priority

\* The revision that Compile appends.
Draft == [services |-> {Compiled(s) : s \in Enabled},
          allow |-> [n \in Egress |-> Allow(n)],
          ports |-> [n \in Egress |-> AllowPorts(n)],
          aaaa |-> IPv6]

\* What the compiler accepts is a revision that hangs together.
LEMMA CompiledHangsTogether ==
  ASSUME DesiredOK, Compilable
  PROVE  RevisionOK(Draft)
<1>1. Draft.services = {Compiled(s) : s \in Enabled}
  BY DEF Draft
<1>2. \A s : /\ Compiled(s).slug = s /\ Compiled(s).priority = desired[s].priority
             /\ Compiled(s).entries = desired[s].entries
             /\ Compiled(s).ports = PortsOrDefault(desired[s].ports)
             /\ Compiled(s).on = desired[s].ingress
             /\ Compiled(s).v4 = Eligible(desired[s].ingress) \cap IPv4
             /\ Compiled(s).v6 = Eligible(desired[s].ingress) \cap IPv6
             /\ Compiled(s).targets = Targets(s)
  BY DEF Compiled
<1>3. \A s \in Enabled : s \in Slug /\ desired[s].priority \in Int
  BY RoutingAssumption DEF DesiredOK, Enabled
<1>4. WellRanked(Draft.services)
  BY <1>1, <1>2, <1>3 DEF WellRanked
<1>5. ASSUME NEW s \in Enabled
      PROVE  Compiled(s).v4 \subseteq Compiled(s).on /\ Compiled(s).v6 \subseteq Compiled(s).on
  BY <1>2 DEF Eligible
<1>6. ASSUME NEW s \in Enabled, NEW e \in Targets(s) \cap Egress
      PROVE  /\ desired[s].entries \subseteq Draft.allow[e]
             /\ PortsOrDefault(desired[s].ports) \subseteq Draft.ports[e]
  <2>1. Draft.allow[e] = Allow(e) /\ Draft.ports[e] = AllowPorts(e)
    BY DEF Draft
  <2> QED
    BY <2>1 DEF Allow, AllowPorts
<1>7. ASSUME NEW a \in Enabled, NEW b \in Enabled, NEW e \in desired[a].entries \cap desired[b].entries,
             a # b, desired[a].priority = desired[b].priority
      PROVE  \E o \in Enabled : e \in desired[o].entries /\ desired[o].priority > desired[a].priority
  <2>1. ~Conflict(e)
    BY DEF Compilable, Conflicts, Entries
  <2> QED
    BY <1>7, <2>1, TieIsBelow
<1>8. ASSUME NEW x \in Draft.services
      PROVE  /\ x.v4 \subseteq x.on /\ x.v6 \subseteq x.on
             /\ \A e \in x.targets \cap Egress :
                  x.entries \subseteq Draft.allow[e] /\ x.ports \subseteq Draft.ports[e]
  <2>1. PICK s \in Enabled : x = Compiled(s)
    BY <1>1
  <2> QED
    BY <1>2, <1>5, <1>6, <2>1
<1>9. ASSUME NEW x \in Draft.services, NEW y \in Draft.services, NEW e \in x.entries \cap y.entries,
             x # y, x.priority = y.priority
      PROVE  \E o \in Draft.services : e \in o.entries /\ o.priority > x.priority
  <2>1. PICK a \in Enabled : x = Compiled(a)
    BY <1>1
  <2>2. PICK b \in Enabled : y = Compiled(b)
    BY <1>1
  <2>3. PICK o \in Enabled : e \in desired[o].entries /\ desired[o].priority > desired[a].priority
    BY <1>2, <1>7, <1>9, <2>1, <2>2
  <2>4. Compiled(o) \in Draft.services
    BY <1>1
  <2> QED
    BY <1>2, <2>1, <2>3, <2>4
<1> QED
  BY <1>4, <1>8, <1>9 DEF RevisionOK

\* Where nodes have met of which a connection has seen one revision only, that
\* revision still stands by what it promised: the nodes of an answer carry a
\* service that claims the host, and the egress of a route is a target of one.
Claims(s, h) == Specificity(s.entries, h) >= 0
FlowOK ==
  /\ IsFiniteSet(flow.seen)
  /\ flow.step = "answered" =>
       /\ flow.host \in Host
       /\ \E k \in 1..Len(revisions) :
            /\ flow.seen = {k}
            /\ \A i \in flow.at : \E s \in revisions[k].services : i \in s.on /\ Claims(s, flow.host)
  /\ flow.step = "routed" =>
       /\ flow.host \in Host
       /\ \/ \E j, k \in flow.seen : j # k
          \/ \E k \in 1..Len(revisions) :
               /\ flow.seen = {k}
               /\ \A e, p : <<e, p>> \in flow.at =>
                    \E s \in revisions[k].services :
                      e \in s.targets /\ p \in s.ports /\ Claims(s, flow.host)
  /\ flow.step \in {"refused", "denied"} => \E j, k \in flow.seen : j # k

RoutingInv ==
  /\ DesiredOK
  /\ \E S : revisions \in Seq(S)
  /\ \A k \in 1..Len(revisions) : RevisionOK(revisions[k])
  /\ runs \in [Node -> 0..Len(revisions)]
  /\ FlowOK

\* A longer list of revisions keeps what a connection was promised.
LEMMA FlowKeeps ==
  ASSUME FlowOK, flow' = flow, Len(revisions) \in Nat, Len(revisions') \in Nat,
         Len(revisions) <= Len(revisions'),
         \A k \in 1..Len(revisions) : revisions'[k] = revisions[k]
  PROVE  FlowOK'
<1>1. 1..Len(revisions) \subseteq 1..Len(revisions')
  OBVIOUS
<1>2. IsFiniteSet(flow.seen)'
  BY DEF FlowOK
<1>3. ASSUME flow.step = "answered"
      PROVE  /\ flow.host \in Host
             /\ \E k \in 1..Len(revisions') :
                  /\ flow.seen = {k}
                  /\ \A i \in flow.at : \E s \in revisions'[k].services : i \in s.on /\ Claims(s, flow.host)
  BY <1>1, <1>3 DEF FlowOK
<1>4. ASSUME flow.step = "routed"
      PROVE  /\ flow.host \in Host
             /\ \/ \E j, k \in flow.seen : j # k
                \/ \E k \in 1..Len(revisions') :
                     /\ flow.seen = {k}
                     /\ \A e, p : <<e, p>> \in flow.at =>
                          \E s \in revisions'[k].services :
                            e \in s.targets /\ p \in s.ports /\ Claims(s, flow.host)
  BY <1>1, <1>4 DEF FlowOK
<1>5. flow.step \in {"refused", "denied"} => \E j, k \in flow.seen : j # k
  BY DEF FlowOK
<1> QED
  BY <1>2, <1>3, <1>4, <1>5 DEF FlowOK, Claims

\* An ingress that runs the revision of the answer has an owner for the host, and
\* a target of that owner that runs it too admits the connection.
LEMMA PromiseKept ==
  ASSUME NEW r, RevisionOK(r), NEW h \in Host, NEW i, NEW s \in r.services, Claims(s, h)
  PROVE  /\ i \in s.on => Lookup({x \in r.services : i \in x.on}, h) # {}
         /\ \A e \in Egress : \A p : e \in s.targets /\ p \in s.ports =>
              p \in PortsOrDefault(r.ports[e]) /\ Match(r.allow[e], h)
<1>1. ASSUME i \in s.on PROVE Lookup({x \in r.services : i \in x.on}, h) # {}
  <2> DEFINE carried == {x \in r.services : i \in x.on}
  <2>1. WellRanked(carried)
    BY DEF RevisionOK, WellRanked
  <2>2. s \in carried
    BY <1>1
  <2> HIDE DEF carried
  <2>3. Lookup(carried, h) # {}
    BY <2>1, <2>2, LookupFindsOwner DEF Claims
  <2> QED
    BY <2>3 DEF carried
<1>2. ASSUME NEW e \in Egress, NEW p, e \in s.targets, p \in s.ports
      PROVE  p \in PortsOrDefault(r.ports[e]) /\ Match(r.allow[e], h)
  <2>1. s.entries \subseteq r.allow[e] /\ s.ports \subseteq r.ports[e]
    BY <1>2 DEF RevisionOK
  <2>2. Match(s.entries, h)
    BY MatchIsSpecific DEF Claims
  <2>3. Match(r.allow[e], h)
    BY <2>1, <2>2, MatchGrows
  <2> QED
    BY <1>2, <2>1, <2>3 DEF PortsOrDefault
<1> QED
  BY <1>1, <1>2

\* Every step of the panel and of an ingress keeps RoutingInv.
LEMMA RoutingStep == RoutingInv /\ [Next]_vars => RoutingInv'
<1> SUFFICES ASSUME RoutingInv, [Next]_vars PROVE RoutingInv'
  OBVIOUS
<1>0. PICK S : revisions \in Seq(S)
  BY DEF RoutingInv
<1>len. Len(revisions) \in Nat
  BY <1>0
<1>1. CASE Compile
  <2>1. revisions' = Append(revisions, Draft) /\ UNCHANGED <<desired, out, runs, flow>> /\ Compilable
    BY <1>1 DEF Compile, Draft
  <2>2. RevisionOK(Draft)
    BY <2>1, CompiledHangsTogether DEF RoutingInv
  <2> HIDE DEF Draft
  <2> DEFINE d == Draft
  <2> HIDE DEF d
  <2>3. revisions \in Seq(S \cup {d}) /\ revisions' \in Seq(S \cup {d})
    BY <1>0, <2>1 DEF d
  <2>4. /\ Len(revisions') = Len(revisions) + 1
        /\ \A k \in 1..Len(revisions) : revisions'[k] = revisions[k]
        /\ revisions'[Len(revisions) + 1] = Draft
    BY <2>1, <2>3
  <2>5. \A k \in 1..Len(revisions') : RevisionOK(revisions'[k])
    BY <1>len, <2>2, <2>4 DEF RoutingInv
  <2>6. FlowOK'
    BY <1>len, <2>1, <2>4, FlowKeeps DEF RoutingInv
  <2>7. runs' \in [Node -> 0..Len(revisions')]
    BY <1>len, <2>1, <2>4 DEF RoutingInv
  <2>8. DesiredOK'
    BY <2>1 DEF RoutingInv, DesiredOK
  <2> QED
    BY <2>3, <2>5, <2>6, <2>7, <2>8 DEF RoutingInv, RevisionOK, WellRanked
<1>2. CASE Edit
  <2>1. UNCHANGED <<revisions, runs, flow>>
    BY <1>2 DEF Edit
  <2>2. DesiredOK'
    BY <1>2 DEF Edit, RoutingInv, DesiredOK, Enabled
  <2>3. FlowOK'
    BY <1>len, <2>1, FlowKeeps DEF RoutingInv
  <2> QED
    BY <2>1, <2>2, <2>3 DEF RoutingInv, RevisionOK, WellRanked
<1>3. ASSUME NEW n \in Node, Push(n) PROVE RoutingInv'
  <2>1. UNCHANGED <<desired, out, revisions, flow>>
    BY <1>3 DEF Push
  <2>2. runs' \in [Node -> 0..Len(revisions')]
    BY <1>3, <1>len DEF Push, RoutingInv
  <2>3. FlowOK'
    BY <1>len, <2>1, FlowKeeps DEF RoutingInv
  <2> QED
    <3>1. DesiredOK'
      BY <2>1 DEF RoutingInv, DesiredOK
    <3>2. (\E T : revisions' \in Seq(T)) /\ \A k \in 1..Len(revisions') : RevisionOK(revisions'[k])
      BY <2>1 DEF RoutingInv
    <3> QED
      BY <2>2, <2>3, <3>1, <3>2 DEF RoutingInv, RevisionOK, WellRanked
<1>4. ASSUME UNCHANGED <<desired, out, revisions, runs>>, FlowOK' PROVE RoutingInv'
  BY <1>4 DEF RoutingInv, RevisionOK, WellRanked, DesiredOK
<1>5. ASSUME NEW n \in Ingress, NEW h \in Host, Query(n, h) PROVE RoutingInv'
  <2>1. runs[n] \in 1..Len(revisions)
    BY <1>5, <1>len DEF Query, RoutingInv, Node
  <2> DEFINE k == runs[n]
             r == revisions[k]
  <2>2. PICK s \in Lookup(Carried(n), h), v6 \in BOOLEAN :
          LET answer == IF v6 THEN IF n \in r.aaaa THEN s.v6 ELSE {} ELSE s.v4
          IN /\ answer # {}
             /\ flow' = [step |-> "answered", host |-> h, at |-> answer, seen |-> {k}]
    BY <1>5 DEF Query, Running
  <2>3. RevisionOK(r)
    BY <2>1 DEF RoutingInv
  <2>4. s \in r.services /\ Claims(s, h)
    BY DEF Lookup, Carried, Running, Claims
  <2>5. flow'.at \subseteq s.on
    BY <2>2, <2>3, <2>4 DEF RevisionOK
  <2>6. /\ flow'.step = "answered" /\ flow'.host = h /\ flow'.seen = {k}
        /\ UNCHANGED <<desired, out, revisions, runs>>
    BY <1>5, <2>2 DEF Query
  <2>7. IsFiniteSet(flow'.seen)
    BY <2>6, FS_Singleton
  <2>8. FlowOK'
    BY <2>1, <2>4, <2>5, <2>6, <2>7 DEF FlowOK, Claims
  <2> QED
    BY <1>4, <2>6, <2>8
<1>6. ASSUME NEW i \in Ingress, NEW p \in Port, Route(i, p) PROVE RoutingInv'
  <2>1. UNCHANGED <<desired, out, revisions, runs>> /\ flow.step = "answered" /\ i \in flow.at
        /\ flow.host \in Host
    BY <1>6 DEF Route, RoutingInv, FlowOK
  <2>2. runs[i] \in 1..Len(revisions)
    BY <1>6, <1>len DEF Route, RoutingInv, Node
  <2>3. PICK k \in 1..Len(revisions) :
          /\ flow.seen = {k}
          /\ \A n \in flow.at : \E s \in revisions[k].services : n \in s.on /\ Claims(s, flow.host)
    BY <2>1 DEF RoutingInv, FlowOK
  <2> DEFINE r == revisions[runs[i]]
             seen == flow.seen \cup {runs[i]}
  <2>4. Carried(i) = {x \in r.services : i \in x.on}
    BY DEF Carried, Running
  <2>5. IsFiniteSet(seen)
    BY FS_AddElement DEF RoutingInv, FlowOK
  <2>6. seen = {k} \cup {runs[i]}
    BY <2>3
  <2>7. CASE Lookup(Carried(i), flow.host) = {} /\ Meet(i, "refused", {})
    <3>1. flow'.step = "refused" /\ flow'.seen = seen
      BY <2>7 DEF Meet
    <3>2. runs[i] # k
      <4> SUFFICES ASSUME runs[i] = k PROVE FALSE
        OBVIOUS
      <4>1. RevisionOK(r)
        BY <2>2 DEF RoutingInv
      <4>2. PICK s \in r.services : i \in s.on /\ Claims(s, flow.host)
        BY <2>1, <2>3
      <4> HIDE DEF r
      <4>3. Lookup({x \in r.services : i \in x.on}, flow.host) # {}
        BY <2>1, <4>1, <4>2, PromiseKept
      <4> QED
        BY <2>4, <2>7, <4>3
    <3>3. \E j, l \in seen : j # l
      BY <2>6, <3>2
    <3> HIDE DEF seen
    <3>4. FlowOK'
      BY <2>5, <3>1, <3>3 DEF FlowOK
    <3> QED
      BY <1>4, <2>1, <3>4
  <2>8. CASE flow' = NoFlow
    <3>1. flow'.step = "none" /\ flow'.seen = {}
      BY <2>8 DEF NoFlow
    <3>2. FlowOK'
      BY <3>1, FS_EmptySet DEF FlowOK
    <3> QED
      BY <1>4, <2>1, <3>2
  <2>9. ASSUME NEW s \in Lookup(Carried(i), flow.host), p \in s.ports, NEW e \in s.targets,
               Meet(i, "routed", {<<e, p>>})
        PROVE  RoutingInv'
    <3>1. /\ flow'.step = "routed" /\ flow'.seen = seen /\ flow'.host = flow.host
          /\ flow'.at = {<<e, p>>}
      BY <2>9 DEF Meet
    <3>2. s \in r.services /\ Claims(s, flow.host)
      BY <2>4 DEF Lookup, Claims
    <3>3. CASE runs[i] = k
      <4>1. seen = {k} /\ \A f, q : <<f, q>> \in {<<e, p>>} => f = e /\ q = p
        BY <2>6, <3>3
      <4>2. \A f, q : <<f, q>> \in flow'.at =>
                 f \in s.targets /\ q \in s.ports /\ Claims(s, flow.host)
        BY <2>9, <3>1, <3>2, <4>1
      <4>3. s \in revisions'[k].services
        BY <2>1, <3>2, <3>3
      <4> HIDE DEF seen, r
      <4>4. FlowOK'
        BY <2>1, <2>3, <2>5, <3>1, <4>1, <4>2, <4>3 DEF FlowOK, Claims
      <4> QED
        BY <1>4, <2>1, <4>4
    <3>4. CASE runs[i] # k
      <4>1. \E j, l \in seen : j # l
        BY <2>6, <3>4
      <4> HIDE DEF seen
      <4>2. FlowOK'
        BY <2>1, <2>5, <3>1, <4>1 DEF FlowOK
      <4> QED
        BY <1>4, <2>1, <4>2
    <3> QED
      BY <3>3, <3>4
  <2>10. CASE Meet(i, "invalid", {})
    <3>1. flow'.step = "invalid" /\ flow'.seen = seen
      BY <2>10 DEF Meet
    <3> HIDE DEF seen
    <3>2. FlowOK'
      BY <2>5, <3>1 DEF FlowOK
    <3> QED
      BY <1>4, <2>1, <3>2
  <2> QED
    BY <1>6, <2>7, <2>8, <2>9, <2>10 DEF Route
<1>7. ASSUME NEW e \in Egress, NEW p \in Port, Admit(e, p) PROVE RoutingInv'
  <2>1. UNCHANGED <<desired, out, revisions, runs>> /\ flow.step = "routed" /\ <<e, p>> \in flow.at
        /\ flow.host \in Host
    BY <1>7 DEF Admit, RoutingInv, FlowOK
  <2>2. runs[e] \in 1..Len(revisions)
    BY <1>7, <1>len DEF Admit, RoutingInv, Node
  <2> DEFINE r == revisions[runs[e]]
             seen == flow.seen \cup {runs[e]}
  <2>3. IsFiniteSet(seen)
    BY FS_AddElement DEF RoutingInv, FlowOK
  <2>4. /\ flow'.step = IF Allowed(e, flow.host, p) THEN "done" ELSE "denied"
        /\ flow'.seen = seen
    BY <1>7 DEF Admit, Meet
  <2>5. CASE \E j, k \in flow.seen : j # k
    <3>1. \E j, k \in seen : j # k
      BY <2>5
    <3> HIDE DEF seen
    <3>2. FlowOK'
      BY <2>3, <2>4, <3>1 DEF FlowOK
    <3> QED
      BY <1>4, <2>1, <3>2
  <2>6. ASSUME NEW k \in 1..Len(revisions), flow.seen = {k},
               NEW s \in revisions[k].services, e \in s.targets, p \in s.ports, Claims(s, flow.host)
        PROVE  RoutingInv'
    <3>1. CASE runs[e] = k
      <4>1. RevisionOK(r) /\ s \in r.services
        BY <2>2, <2>6, <3>1 DEF RoutingInv
      <4>2. Allowed(e, flow.host, p) <=> p \in PortsOrDefault(r.ports[e]) /\ Match(r.allow[e], flow.host)
        BY DEF Allowed, Running
      <4> HIDE DEF r
      <4>3. Allowed(e, flow.host, p)
        BY <2>1, <2>6, <4>1, <4>2, PromiseKept
      <4> HIDE DEF seen
      <4>4. FlowOK'
        BY <2>3, <2>4, <4>3 DEF FlowOK
      <4> QED
        BY <1>4, <2>1, <4>4
    <3>2. CASE runs[e] # k
      <4>1. \E j, l \in seen : j # l
        BY <2>6, <3>2
      <4> HIDE DEF seen
      <4>2. FlowOK'
        BY <2>3, <2>4, <4>1 DEF FlowOK
      <4> QED
        BY <1>4, <2>1, <4>2
    <3> QED
      BY <3>1, <3>2
  <2> QED
    BY <2>1, <2>5, <2>6 DEF RoutingInv, FlowOK
<1>8. CASE UNCHANGED vars
  <2>1. UNCHANGED <<desired, out, revisions, runs, flow>>
    BY <1>8 DEF vars
  <2>2. FlowOK'
    BY <1>len, <2>1, FlowKeeps DEF RoutingInv
  <2> QED
    BY <1>4, <2>1, <2>2
<1> QED
  BY <1>1, <1>2, <1>3, <1>5, <1>6, <1>7, <1>8 DEF Next

\* Every revision stored or served hangs together.
LEMMA RoutingInvariant == Spec => []RoutingInv
<1>1. Init => RoutingInv
  <2> SUFFICES ASSUME Init PROVE RoutingInv
    OBVIOUS
  <2>1. DesiredOK
    BY DEF Init, Definitions, DesiredOK
  <2>2. revisions = <<>> /\ revisions \in Seq({}) /\ Len(revisions) = 0
    BY DEF Init
  <2>3. runs \in [Node -> 0..Len(revisions)]
    BY <2>2 DEF Init
  <2>4. flow.step = "none" /\ flow.seen = {}
    BY DEF Init, NoFlow
  <2>5. FlowOK
    BY <2>4, FS_EmptySet DEF FlowOK
  <2>6. \A k \in 1..Len(revisions) : RevisionOK(revisions[k])
    BY <2>2
  <2> QED
    BY <2>1, <2>2, <2>3, <2>5, <2>6 DEF RoutingInv
<1> QED
  BY <1>1, RoutingStep, PTL DEF Spec

\* A connection is refused by a node it was sent to only when it has met two
\* revisions: whatever services, groups, entries, priorities and outages a
\* revision is compiled from, it does not contradict itself.
THEOREM RevisionServes == Spec => []OneRevisionServes
<1>1. RoutingInv => OneRevisionServes
  <2> SUFFICES ASSUME RoutingInv, flow.step \in {"refused", "denied"}
               PROVE  Cardinality(flow.seen) > 1
    BY DEF OneRevisionServes
  <2>1. IsFiniteSet(flow.seen) /\ \E j, k \in flow.seen : j # k
    BY DEF RoutingInv, FlowOK
  <2> QED
    BY <2>1, TwoElements
<1> QED
  BY <1>1, RoutingInvariant, PTL

\* Two services of a revision claim an entry of the host at depth d, or exactly.
LEMMA EqualClaimsShareEntry ==
  ASSUME NEW a, NEW b, NEW h \in Host,
         Specificity(a.entries, h) >= 0, Specificity(a.entries, h) # 1,
         Specificity(a.entries, h) = Specificity(b.entries, h)
  PROVE  \E e \in a.entries \cap b.entries :
           \A o : e \in o.entries => Specificity(o.entries, h) >= Specificity(a.entries, h)
<1>1. SuffixSpec \in Nat \ {0} /\ ExactSpec \in Nat /\ ExactSpec > SuffixSpec
  BY SpecificityOf
<1>2. \A x : /\ Exact(x.entries, h) => Specificity(x.entries, h) = ExactSpec
             /\ ~Exact(x.entries, h) /\ Depths(x.entries, h) # {} =>
                  /\ Specificity(x.entries, h) = SuffixSpec - Min(Depths(x.entries, h))
                  /\ Min(Depths(x.entries, h)) \in Nat
                  /\ Min(Depths(x.entries, h)) \in Depths(x.entries, h)
                  /\ \A d \in Depths(x.entries, h) : Min(Depths(x.entries, h)) <= d
             /\ ~Exact(x.entries, h) /\ Depths(x.entries, h) = {} =>
                  Specificity(x.entries, h) \in {1, -1}
  BY SpecificityOf, LongestSuffix DEF Match
<1>3. CASE Exact(a.entries, h)
  <2>1. Exact(b.entries, h)
    BY <1>1, <1>2, <1>3
  <2>2. \A o : [kind |-> "exact", value |-> h] \in o.entries => Specificity(o.entries, h) = ExactSpec
    BY <1>2 DEF Exact
  <2> QED
    BY <1>1, <1>2, <1>3, <2>1, <2>2 DEF Exact
<1>4. CASE ~Exact(a.entries, h)
  <2>1. Depths(a.entries, h) # {}
    BY <1>1, <1>2, <1>4
  <2>2. ~Exact(b.entries, h) /\ Depths(b.entries, h) # {}
    BY <1>1, <1>2, <1>4, <2>1
  <2> DEFINE d == Min(Depths(a.entries, h))
             e == [kind |-> "suffix", value |-> Under(h, d)]
  <2>3. d \in Nat /\ Specificity(a.entries, h) = SuffixSpec - d
    BY <1>2, <1>4, <2>1
  <2>4. Min(Depths(b.entries, h)) = d
    <3> DEFINE c == Min(Depths(b.entries, h))
    <3>1. c \in Nat /\ Specificity(b.entries, h) = SuffixSpec - c
      BY <1>2, <2>2
    <3>2. SuffixSpec - c = SuffixSpec - d
      BY <2>3, <3>1
    <3> HIDE DEF c, d
    <3>3. c = d
      BY <1>1, <2>3, <3>1, <3>2
    <3> QED
      BY <3>3 DEF c
  <2>5. d \in Depths(a.entries, h) /\ d \in Depths(b.entries, h)
    BY <1>2, <1>4, <2>1, <2>2, <2>4
  <2>6. e \in a.entries /\ e \in b.entries
    BY <2>5 DEF Depths
  <2>7. ASSUME NEW o, e \in o.entries PROVE Specificity(o.entries, h) >= SuffixSpec - d
    <3>1. d \in Depths(o.entries, h)
      BY <2>5, <2>7 DEF Depths
    <3> HIDE DEF d, e
    <3>2. CASE Exact(o.entries, h)
      BY <1>1, <1>2, <2>3, <3>2
    <3>3. CASE ~Exact(o.entries, h)
      BY <1>1, <1>2, <2>3, <3>1, <3>3
    <3> QED
      BY <3>2, <3>3
  <2> HIDE DEF e, d
  <2> QED
    BY <2>3, <2>6, <2>7
<1> QED
  BY <1>3, <1>4

\* detectConflicts leaves no tie: in no revision do two services claim a host
\* with equal right, except by regular expressions.
THEOREM ConflictsLeaveOneOwner == Spec => []OneOwner
<1>1. RoutingInv => OneOwner
  <2> SUFFICES ASSUME RoutingInv, NEW k \in 1..Len(revisions), NEW h \in Host,
                      NEW a \in Lookup(revisions[k].services, h),
                      NEW b \in revisions[k].services, a # b,
                      Specificity(a.entries, h) = Specificity(b.entries, h),
                      a.priority = b.priority, Specificity(a.entries, h) # 1
               PROVE  FALSE
    BY DEF OneOwner
  <2> DEFINE all == revisions[k].services
  <2>0. a \in all
    BY DEF Lookup
  <2>1. RevisionOK(revisions[k])
    BY DEF RoutingInv
  <2>2. Specificity(a.entries, h) >= 0 /\ Specificity(a.entries, h) \in Int
    BY SpecificityOf DEF Lookup
  <2>3. PICK e \in a.entries \cap b.entries :
           \A o : e \in o.entries => Specificity(o.entries, h) >= Specificity(a.entries, h)
    BY <2>2, EqualClaimsShareEntry
  <2>4. PICK o \in all : e \in o.entries /\ o.priority > a.priority
    BY <2>0, <2>1, <2>3 DEF RevisionOK
  <2>5. o.priority \in Int /\ a.priority \in Int /\ Specificity(o.entries, h) \in Int
    BY <2>0, <2>1, SpecificityOf DEF RevisionOK, WellRanked
  <2>6. Specificity(o.entries, h) >= Specificity(a.entries, h)
    BY <2>3, <2>4
  <2>7. o # a
    BY <2>4, <2>5
  <2>8. Specificity(o.entries, h) >= 0
    BY <2>2, <2>5, <2>6
  <2>9. Outranks(a, o, h)
    BY <2>7, <2>8 DEF Lookup
  <2> QED
    BY <2>2, <2>4, <2>5, <2>6, <2>9 DEF Outranks
<1> QED
  BY <1>1, RoutingInvariant, PTL
=============================================================================
