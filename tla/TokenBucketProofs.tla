------------------------- MODULE TokenBucketProofs -------------------------
(***************************************************************************)
(* The promise of TokenBucket, for every rate, cap, grace and set of       *)
(* prefixes.                                                               *)
(***************************************************************************)
EXTENDS TokenBucket, TLAPS

\* What is earned in one more tick.
LEMMA OneMoreTick ==
  ASSUME NEW q \in Nat, NEW c \in Nat, NEW s \in 0..c
  PROVE  /\ q * (c + 1 - s) = q * (c - s) + q
         /\ q * (c - s) \in Nat
         /\ q * (c - c) = 0
OBVIOUS

\* What is forgiven once more.
LEMMA OneMoreGrace ==
  ASSUME NEW g \in Nat, NEW n \in Nat
  PROVE  /\ g * (n + 1) = g * n + g
         /\ g * n \in Nat
         /\ g * 0 = 0
OBVIOUS

\* Full buckets have admitted nothing.
LEMMA BucketInvInit == BucketInit => BucketInv
<1> SUFFICES ASSUME BucketInit PROVE BucketInv
  OBVIOUS
<1>1. /\ rate.cap \in Nat /\ rate.qps \in Nat /\ rate.qps * (clock - since) = 0
      /\ rate.grace \in Nat /\ rate.grace * 0 = 0
  BY DEF BucketInit, Rates
<1> QED
  BY <1>1 DEF BucketInit, BucketInv

\* Whatever is spent leaves the level and enters the count; what is earned or
\* forgiven raises level and bound alike.
LEMMA BucketInvStep == BucketInv /\ [BucketNext]_bucketVars => BucketInv'
<1> SUFFICES ASSUME BucketInv, [BucketNext]_bucketVars, ~loose'
             PROVE  BucketInv'
  BY DEF BucketInv
<1>0. ASSUME ~loose, NEW k \in Prefix
      PROVE  /\ rate.grace * forgiven[k] \in Nat
             /\ rate.grace * (forgiven[k] + 1) = rate.grace * forgiven[k] + rate.grace
             /\ rate.grace * 0 = 0
  BY <1>0, OneMoreGrace DEF BucketInv, Rates
<1>1. CASE UNCHANGED bucketVars
  BY <1>1 DEF BucketInv, bucketVars
<1>2. CASE Earn
  <2>1. ~loose /\ rate' = rate /\ since' = since /\ admitted' = admitted /\ clock' = clock + 1
        /\ forgiven' = forgiven
    BY <1>2 DEF Earn
  <2>2. rate \in Rates /\ rate.qps \in Nat /\ clock \in Nat /\ since \in 0..clock
    BY <2>1 DEF BucketInv, Rates
  <2>3. rate.qps * (clock' - since) = rate.qps * (clock - since) + rate.qps
    BY <2>1, <2>2, OneMoreTick
  <2>4. rate.qps * (clock - since) \in Nat
    BY <2>2, OneMoreTick
  <2>5. rate.cap \in Nat /\ \A k \in Prefix : rate.grace * forgiven[k] \in Nat
    BY <1>0, <2>1, <2>2 DEF Rates
  <2> QED
    BY <1>2, <2>1, <2>2, <2>3, <2>4, <2>5 DEF BucketInv, Earn
<1>3. CASE Recount
  <2>1. /\ ~loose /\ rate' = rate /\ level' = level /\ clock' = clock /\ since' = clock
        /\ admitted' = [k \in Prefix |-> 0] /\ forgiven' = [k \in Prefix |-> 0]
    BY <1>3 DEF Recount
  <2>2. rate.qps * (clock' - since') = 0
    BY <2>1, OneMoreTick DEF BucketInv, Rates
  <2>3. \A k \in Prefix : rate.grace * forgiven'[k] = 0
    BY <1>0, <2>1
  <2>4. rate.cap \in Nat
    BY <2>1 DEF BucketInv, Rates
  <2> QED
    BY <2>1, <2>2, <2>3, <2>4 DEF BucketInv
<1>4. ASSUME NEW A \in SUBSET Prefix, NEW F \in SUBSET Prefix, Serve(A, F) PROVE BucketInv'
  <2>1. /\ ~loose /\ rate' = rate /\ clock' = clock /\ since' = since
        /\ rate \in Rates /\ clock \in Nat /\ since \in 0..clock
        /\ level \in [Prefix -> Nat] /\ admitted \in [Prefix -> Nat] /\ forgiven \in [Prefix -> Nat]
    BY <1>4 DEF Serve, BucketInv
  <2>2. rate.qps * (clock - since) \in Nat /\ rate.cap \in Nat /\ rate.grace \in Nat
    BY <2>1, OneMoreTick DEF Rates
  <2>3. /\ admitted' \in [Prefix -> Nat] /\ forgiven' \in [Prefix -> Nat]
        /\ level' \in [Prefix -> 0..rate.cap]
    BY <1>4, <2>1 DEF Serve, Counted
  <2>4. ASSUME NEW k \in Prefix
        PROVE  /\ level'[k] <= rate.cap
               /\ admitted'[k] + level'[k] <=
                    rate.cap + rate.qps * (clock - since) + rate.grace * forgiven'[k]
    <3> DEFINE D == rate.qps * (clock - since)
               G == rate.grace * forgiven[k]
    <3>1. /\ admitted'[k] = IF k \in A THEN admitted[k] + 1 ELSE admitted[k]
          /\ forgiven'[k] = IF k \in F THEN forgiven[k] + 1 ELSE forgiven[k]
      BY <1>4 DEF Serve, Counted
    <3>2. level'[k] + (IF k \in A THEN 1 ELSE 0) <= level[k] + (IF k \in F THEN rate.grace ELSE 0)
      BY <1>4 DEF Serve
    <3>3. rate.grace * forgiven'[k] = G + (IF k \in F THEN rate.grace ELSE 0) /\ G \in Nat
      BY <1>0, <2>1, <3>1
    <3>4. admitted[k] + level[k] <= rate.cap + D + G
      BY <2>1 DEF BucketInv
    <3>5. admitted[k] \in Nat /\ level[k] \in Nat /\ level'[k] \in Nat /\ level'[k] <= rate.cap /\ D \in Nat
      BY <2>1, <2>2, <2>3
    <3> HIDE DEF D, G
    <3>6. admitted'[k] + level'[k] <= rate.cap + D + (G + (IF k \in F THEN rate.grace ELSE 0))
      BY <2>2, <3>1, <3>2, <3>3, <3>4, <3>5
    <3> QED
      BY <3>3, <3>5, <3>6 DEF D
  <2> QED
    BY <2>1, <2>2, <2>3, <2>4 DEF BucketInv
<1> QED
  <2>1. \A A \in {{}} \cup {{k} : k \in Prefix} : A \in SUBSET Prefix
    OBVIOUS
  <2> QED
    BY <1>1, <1>2, <1>3, <1>4, <2>1 DEF BucketNext

\* In no period, however queries and ticks interleave, is a prefix admitted more
\* often than the cap, what is earned in the period, and a grace for each time it
\* was forgiven: the promise the limiter of node/dnsfe/limiter.go is shown to keep.
THEOREM BucketKeepsRate == BucketSpec => []RateKept
<1>1. BucketInv => RateKept
  <2> SUFFICES ASSUME BucketInv, ~loose, NEW k \in Prefix
               PROVE  admitted[k] <= rate.cap + rate.qps * (clock - since) + rate.grace * forgiven[k]
    BY DEF RateKept
  <2>1. rate.qps * (clock - since) \in Nat /\ rate.grace * forgiven[k] \in Nat /\ rate.cap \in Nat
    BY OneMoreTick, OneMoreGrace DEF BucketInv, Rates
  <2> QED
    BY <2>1 DEF BucketInv
<1> QED
  BY BucketInvInit, BucketInvStep, <1>1, PTL DEF BucketSpec
=============================================================================
