---------------------------- MODULE TokenBucket ----------------------------
(***************************************************************************)
(* What the rate limiter of the DNS front end promises: that of a limiter  *)
(* which keeps a bucket for every client prefix for ever, refills them all *)
(* as time passes, never lets one rise above its cap, and now and then     *)
(* forgives a prefix a part of what it has spent, the grace at most.       *)
(* Nothing is promised once the limits have been changed.                  *)
(***************************************************************************)
EXTENDS Integers

CONSTANT Prefix \* client prefixes

VARIABLES
  rate,     \* tokens earned in a tick, the cap, and the grace
  level,    \* the tokens of each prefix
  clock,    \* the time in ticks
  since,    \* the time from which the rest is counted
  admitted, \* the admissions of each prefix since
  forgiven, \* how often each prefix was forgiven since
  loose     \* the limits have been changed

bucketVars == <<rate, level, clock, since, admitted, forgiven, loose>>

Rates == [qps : Nat, cap : Nat, grace : Nat]

BucketInit ==
  /\ rate \in Rates
  /\ level = [k \in Prefix |-> rate.cap]
  /\ clock = 0 /\ since = 0
  /\ admitted = [k \in Prefix |-> 0] /\ forgiven = [k \in Prefix |-> 0]
  /\ loose = FALSE

\* Time passes and every prefix earns.
Earn ==
  /\ clock' = clock + 1
  /\ level' = [k \in Prefix |-> IF level[k] + rate.qps > rate.cap THEN rate.cap
                                ELSE level[k] + rate.qps]
  /\ UNCHANGED <<rate, since, admitted, forgiven, loose>>

\* One more for each member of a set.
Counted(count, S) == [k \in Prefix |-> IF k \in S THEN count[k] + 1 ELSE count[k]]

\* The prefixes in F are forgiven and a query of the prefix in A, if any, is
\* admitted, for a token at least; it may cost more when it is served later than
\* the time it is accounted at.
Serve(A, F) ==
  /\ admitted' = Counted(admitted, A) /\ forgiven' = Counted(forgiven, F)
  /\ level' \in [Prefix -> 0..rate.cap]
  /\ \A k \in Prefix :
       LET grace == IF k \in F THEN rate.grace ELSE 0
           price == IF k \in A THEN 1 ELSE 0
       IN level'[k] + price <= level[k] + grace /\ (k \notin A => level'[k] >= level[k])
  /\ UNCHANGED <<rate, clock, since, loose>>

\* An observer begins to count.
Recount ==
  /\ since' = clock
  /\ admitted' = [k \in Prefix |-> 0] /\ forgiven' = [k \in Prefix |-> 0]
  /\ UNCHANGED <<rate, level, clock, loose>>

BucketNext ==
  \/ Earn \/ Recount
  \/ \E A \in {{}} \cup {{k} : k \in Prefix}, F \in SUBSET Prefix : Serve(A, F)
  \/ loose'

BucketSpec == BucketInit /\ [][BucketNext]_bucketVars
-----------------------------------------------------------------------------
\* The promise in one formula: in no period is a prefix admitted more often than
\* the cap, what is earned in it, and a grace for each time it was forgiven.
RateKept ==
  ~loose => \A k \in Prefix :
    admitted[k] <= rate.cap + rate.qps * (clock - since) + rate.grace * forgiven[k]

\* Its inductive strengthening: what has been spent and what is left together.
BucketInv ==
  ~loose =>
    /\ rate \in Rates
    /\ clock \in Nat /\ since \in 0..clock
    /\ level \in [Prefix -> Nat] /\ admitted \in [Prefix -> Nat] /\ forgiven \in [Prefix -> Nat]
    /\ \A k \in Prefix :
         /\ level[k] <= rate.cap
         /\ admitted[k] + level[k] <=
              rate.cap + rate.qps * (clock - since) + rate.grace * forgiven[k]
=============================================================================
