------------------------------ MODULE Limiter ------------------------------
(***************************************************************************)
(* The DNS front end's rate limiter (node/dnsfe/limiter.go): a token       *)
(* bucket per client prefix.                                               *)
(*                                                                         *)
(* allow takes the time before it takes the lock, so queries reach the     *)
(* bucket out of the order of their times: a refill may be negative and    *)
(* the bucket's time may step back.  Once a minute the buckets that were   *)
(* idle for five are deleted, and a new bucket is full.                    *)
(*                                                                         *)
(* Time is counted in ticks in which a whole number of tokens is earned.   *)
(***************************************************************************)
EXTENDS Integers

CONSTANTS
  Prefix,    \* client prefixes, the keys of the buckets
  Asker,     \* queries in progress at once
  Limit,     \* the (qps, burst) pairs a configuration may bring
  GcPeriod,  \* ticks between two collections, a minute in the code
  GcIdle,    \* ticks before an idle bucket is deleted, five minutes in the code
  MaxLag,    \* bound: ticks between a query's time and its turn at the lock
  MaxClock   \* bound: ticks

ASSUME LimiterAssumption ==
  /\ GcPeriod \in Nat /\ GcIdle \in Nat /\ MaxLag \in Nat /\ MaxClock \in Nat
  /\ \A l \in Limit : l.qps \in Nat \ {0} /\ l.burst \in Nat \ {0}

VARIABLES
  clock,   \* the time
  limit,   \* limiter.qps and limiter.burst
  bucket,  \* limiter.tokens: tokens and time of each bucket, or none
  last,    \* limiter.last: the time of the last collection
  asking,  \* the queries between time.Now and the lock: their time, their prefix
  since,   \* history: a time after which admitted queries are counted
  admitted,\* history: the queries of each prefix admitted since
  deleted, \* history: how often the bucket of each prefix was deleted since
  changed  \* history: the limits were changed

limiterVars == <<clock, limit, bucket, last, asking, since, admitted, deleted, changed>>

NoBucket == [exists |-> FALSE, tokens |-> 0, ts |-> 0]
NotAsking == [asks |-> FALSE, now |-> 0]

LimiterTypeOK ==
  /\ clock \in 0..MaxClock
  /\ limit \in Limit
  /\ bucket \in [Prefix -> [exists : BOOLEAN, tokens : Int, ts : 0..MaxClock]]
  /\ last \in 0..MaxClock
  /\ asking \in [Asker -> [asks : BOOLEAN, now : 0..MaxClock]]
  /\ since \in 0..MaxClock
  /\ admitted \in [Prefix -> Nat] /\ deleted \in [Prefix -> Nat]
  /\ changed \in BOOLEAN

LimiterInit ==
  /\ clock = 0
  /\ limit \in Limit
  /\ bucket = [k \in Prefix |-> NoBucket]
  /\ last = 0
  /\ asking = [q \in Asker |-> NotAsking]
  /\ since = 0
  /\ admitted = [k \in Prefix |-> 0] /\ deleted = [k \in Prefix |-> 0]
  /\ changed = FALSE
-----------------------------------------------------------------------------
ClockTicks ==
  /\ clock < MaxClock
  /\ \A q \in Asker : asking[q].asks => clock - asking[q].now < MaxLag
  /\ clock' = clock + 1
  /\ UNCHANGED <<limit, bucket, last, asking, since, admitted, deleted, changed>>

\* The observer starts to count.
Observes ==
  /\ since = 0 /\ clock > 0
  /\ since' = clock
  /\ admitted' = [k \in Prefix |-> 0] /\ deleted' = [k \in Prefix |-> 0]
  /\ UNCHANGED <<clock, limit, bucket, last, asking, changed>>

\* configure, on a reload.
Configure(l) ==
  /\ limit # l
  /\ limit' = l
  /\ changed' = TRUE
  /\ UNCHANGED <<clock, bucket, last, asking, since, admitted, deleted>>

\* allow: time.Now, before the lock.
Stamp(q) ==
  /\ ~asking[q].asks
  /\ asking' = [asking EXCEPT ![q] = [asks |-> TRUE, now |-> clock]]
  /\ UNCHANGED <<clock, limit, bucket, last, since, admitted, deleted, changed>>

\* Mutant: every bucket that is not in use right now is deleted.
CollectedEarly(b, now) == IF b.exists /\ now - b.ts > 0 THEN NoBucket ELSE b

\* gc.
Collected(b, now) == IF b.exists /\ now - b.ts > GcIdle THEN NoBucket ELSE b

\* allow: the bucket with what was earned since its time, clipped at burst.
Refilled(b, now) ==
  LET earned == b.tokens + limit.qps * (now - b.ts)
  IN IF ~b.exists THEN [exists |-> TRUE, tokens |-> limit.burst, ts |-> now]
     ELSE [exists |-> TRUE, ts |-> now,
           tokens |-> IF earned > limit.burst THEN limit.burst ELSE earned]

\* allow, under the lock: collect once in a period, refill, and take a token if
\* there is one.
Take(q, k) ==
  LET now == asking[q].now
      due == now - last > GcPeriod
      kept == [p \in Prefix |-> IF due THEN Collected(bucket[p], now) ELSE bucket[p]]
      b == Refilled(kept[k], now)
  IN /\ asking[q].asks
     /\ asking' = [asking EXCEPT ![q] = NotAsking]
     /\ last' = IF due THEN now ELSE last
     /\ deleted' = [p \in Prefix |-> IF bucket[p].exists /\ ~kept[p].exists THEN deleted[p] + 1
                                     ELSE deleted[p]]
     /\ IF b.tokens < 1
        THEN /\ bucket' = [kept EXCEPT ![k] = b]
             /\ UNCHANGED admitted
        ELSE /\ bucket' = [kept EXCEPT ![k] = [b EXCEPT !.tokens = @ - 1]]
             /\ admitted' = [admitted EXCEPT ![k] = @ + 1]
     /\ UNCHANGED <<clock, limit, since, changed>>

LimiterNext ==
  \/ ClockTicks \/ Observes
  \/ \E l \in Limit : Configure(l)
  \/ \E q \in Asker : Stamp(q)
  \/ \E q \in Asker, k \in Prefix : Take(q, k)

LimiterSpec == LimiterInit /\ [][LimiterNext]_limiterVars
-----------------------------------------------------------------------------
\* Properties.

\* The tokens a prefix could spend by now: what its bucket says when brought up
\* to the time, or all when it has none.
Cap == limit.burst + limit.qps * MaxLag
Level(k) ==
  LET due == bucket[k].tokens + limit.qps * (clock - bucket[k].ts)
  IN IF ~bucket[k].exists \/ due > Cap THEN Cap ELSE due

\* What the deletion of an idle bucket is worth at most: the part of the burst it
\* cannot earn in the time it is idle, also when the last query comes late to a
\* bucket whose time has stepped back.  It is 0 for the burst configure defaults
\* to, five seconds' worth, and for any burst up to about five minutes' worth.
Grace ==
  LET short == limit.burst - limit.qps * (GcIdle + 1 - 2 * MaxLag)
  IN IF short > 0 THEN short ELSE 0

Eternal ==
  INSTANCE TokenBucket
    WITH rate <- [qps |-> limit.qps, cap |-> Cap, grace |-> Grace],
         level <- [k \in Prefix |-> Level(k)],
         forgiven <- deleted,
         loose <- changed

\* Although allow creates buckets on demand, refills them only when asked, sees
\* queries in another order than their times and deletes idle buckets, it admits
\* what a limiter that keeps every bucket for ever admits whose burst is larger
\* by what is earned in the longest lag and which, where a bucket is deleted,
\* forgives the part of the burst that five idle minutes do not earn.
ForgetsLittle == Eternal!BucketSpec
=============================================================================
