------------------------------ MODULE Selector ------------------------------
(***************************************************************************)
(* An ingress chooses among the egress relays of a service                 *)
(* (node/proxy/selector.go, and Apply and StartProbes of proxy.go).        *)
(*                                                                         *)
(* Every pool keeps a verdict per target, moved by consecutive successes   *)
(* and failures that both the probe loop and the dials of user connections *)
(* report.  Apply replaces the pool by one that inherits the verdicts;     *)
(* a probe round or a dial that began before goes on with the old pool.    *)
(*                                                                         *)
(* The order of weighted (random) and of lowest_latency (measured, with    *)
(* hysteresis) pools is any order of the healthy targets: latencies are    *)
(* not modelled.  Of the counters fails and successes only the one that    *)
(* can change the verdict is kept, as a streak of outcomes against it: the *)
(* other is reset before it is read.                                       *)
(***************************************************************************)
EXTENDS Integers, Sequences, FiniteSets, Functions

CONSTANTS
  Target,        \* egress relays
  Policies,      \* the policies a revision may bring: mode, and targets by priority
  FailThreshold, \* failures in a row before a target is unhealthy
  RiseThreshold, \* successes in a row before it is healthy again
  MaxApplies     \* bound: configurations applied

\* A lowest_latency pool is one that is weighted: any order of the healthy.
Modes == {"primary_fallback", "weighted", "manual_fixed"}

ASSUME SelectorAssumption ==
  /\ FailThreshold \in Nat \ {0} /\ RiseThreshold \in Nat \ {0} /\ MaxApplies \in Nat
  /\ \A p \in Policies : /\ p.mode \in Modes
                         /\ p.targets \in Seq(Target) /\ p.targets # <<>>

VARIABLES
  pools,  \* the pools Apply made, the last one in the routes
  reach,  \* what each relay can do now
  probe,  \* the probe loop: its pool and the targets still to probe
  dial    \* a user connection: its pool and the targets left to try

selectorVars == <<pools, reach, probe, dial>>

\* "down": the relay cannot be reached; "cut": it can, but answers "dial failed"
\* for the destination; "up": it serves the destination.
Reach == {"down", "cut", "up"}
Fresh == [healthy |-> TRUE, streak |-> 0]
\* `steady' holds the relays that have been up ever since the dial began;
\* `missed', once it has failed, the ones of them it should have reached.
NoDial == [pool |-> 0, rest |-> <<>>, steady |-> {}, missed |-> {}]

Verdict == [healthy : BOOLEAN, streak : Nat]
PoolRow == [mode : Modes, targets : Seq(Target), verdict : [Target -> Verdict]]

SelectorTypeOK ==
  /\ pools \in Seq(PoolRow) /\ Len(pools) \in 1..(MaxApplies + 1)
  /\ reach \in [Target -> Reach]
  /\ probe \in [pool : 0..Len(pools), rest : Seq(Target)]
  /\ dial \in [pool : 0..Len(pools), rest : Seq(Target),
               steady : SUBSET Target, missed : SUBSET Target]

Pool(p, verdict) == [mode |-> p.mode, targets |-> p.targets, verdict |-> verdict]

SelectorInit ==
  /\ \E p \in Policies : pools = <<Pool(p, [t \in Target |-> Fresh])>>
  /\ reach = [t \in Target |-> "up"]
  /\ probe = [pool |-> 0, rest |-> <<>>]
  /\ dial = NoDial
-----------------------------------------------------------------------------
Threshold(v) == IF v.healthy THEN FailThreshold ELSE RiseThreshold

\* Mutant: an unhealthy target is not brought back.
ObservedNoRise(v, ok) ==
  IF ok = v.healthy THEN [v EXCEPT !.streak = 0]
  ELSE IF v.streak + 1 >= Threshold(v) THEN [healthy |-> FALSE, streak |-> 0]
  ELSE [v EXCEPT !.streak = @ + 1]

\* target.observe: an outcome that agrees with the verdict ends the streak
\* against it, one that completes the streak turns the verdict.
Observed(v, ok) ==
  IF ok = v.healthy THEN [v EXCEPT !.streak = 0]
  ELSE IF v.streak + 1 >= Threshold(v) THEN [healthy |-> ok, streak |-> 0]
  ELSE [v EXCEPT !.streak = @ + 1]

\* An old pool nobody uses any more is garbage: its verdicts are forgotten.
Live(ps, used) ==
  [k \in DOMAIN ps |-> IF k = Len(ps) \/ k \in used THEN ps[k]
                       ELSE [ps[k] EXCEPT !.verdict = [t \in Target |-> Fresh]]]

\* An observation in pool k by a prober or dialer that goes on with it or not.
Observe(k, t, ok, user, goesOn) ==
  pools' = Live([pools EXCEPT ![k].verdict[t] = Observed(@, ok)],
                {user} \cup IF goesOn THEN {k} ELSE {})

\* newPool: verdicts are inherited from the service's last pool, if it had one;
\* a target that is new to it, and every counter, starts afresh.
Inherited(prev, p) ==
  [t \in Target |->
     IF t \in Range(prev.targets) /\ t \in Range(p.targets)
     THEN [Fresh EXCEPT !.healthy = prev.verdict[t].healthy] ELSE Fresh]

\* Proxy.Apply; prev is nil when the service was not in the configuration.
Apply(p, known) ==
  /\ Len(pools) <= MaxApplies
  /\ LET verdict == IF known THEN Inherited(pools[Len(pools)], p)
                    ELSE [t \in Target |-> Fresh]
     IN pools' = Live(Append(pools, Pool(p, verdict)), {probe.pool, dial.pool})
  /\ UNCHANGED <<reach, probe, dial>>

\* A relay, or its way to the destination, changes.
Change(t, r) ==
  /\ reach[t] # r
  /\ reach' = [reach EXCEPT ![t] = r]
  /\ dial' = [dial EXCEPT !.steady = @ \ {t}]
  /\ UNCHANGED <<pools, probe>>

\* StartProbes: a round over the pool that is in the routes.
ProbeRound ==
  /\ probe.rest = <<>>
  /\ probe' = [pool |-> Len(pools), rest |-> pools[Len(pools)].targets]
  /\ UNCHANGED <<pools, reach, dial>>

\* pool.probe: one handshake; the pool is let go of after the last.
ProbeOne ==
  LET left == Tail(probe.rest)
  IN /\ probe.rest # <<>>
     /\ Observe(probe.pool, Head(probe.rest), reach[Head(probe.rest)] # "down",
                dial.pool, left # <<>>)
     /\ probe' = [pool |-> IF left = <<>> THEN 0 ELSE probe.pool, rest |-> left]
     /\ UNCHANGED <<reach, dial>>
-----------------------------------------------------------------------------
\* The loop that parts the targets keeps their order: the k-th of a part is the
\* target at the position with k positions of the part up to it.
Nth(I, k) == CHOOSE i \in I : Cardinality({j \in I : j <= i}) = k
Those(s, I) == [k \in 1..Cardinality(I) |-> s[Nth(I, k)]]

Healthy(pool) ==
  Those(pool.targets, {i \in DOMAIN pool.targets : pool.verdict[pool.targets[i]].healthy})
Unhealthy(pool) ==
  Those(pool.targets, {i \in DOMAIN pool.targets : ~pool.verdict[pool.targets[i]].healthy})
Orders(s) == {o \in [1..Len(s) -> Range(s)] : Range(o) = Range(s)}

\* Mutant: unhealthy targets are left out.
OrderHealthyOnly(pool) ==
  LET h == Healthy(pool)
  IN IF pool.mode = "weighted" THEN Orders(h) ELSE {h}

\* pool.order: healthy targets as the mode says, then the unhealthy ones as a
\* last resort.
Order(pool) ==
  LET h == Healthy(pool)
      first == CASE pool.mode = "weighted" -> Orders(h)
                 [] pool.mode = "manual_fixed" -> {IF Len(h) > 1 THEN <<h[1]>> ELSE h}
                 [] OTHER -> {h}
  IN {o \o Unhealthy(pool) : o \in first}

\* A connection is routed to the current pool and dial asks for the order.
DialStart ==
  /\ dial.rest = <<>>
  /\ \E o \in Order(pools[Len(pools)]) :
       dial' = [pool |-> Len(pools), rest |-> o, missed |-> {},
                steady |-> {t \in Target : reach[t] = "up"}]
  /\ UNCHANGED <<pools, reach, probe>>

\* pool.dial: the next target accepts ...
DialOk ==
  /\ dial.rest # <<>> /\ reach[Head(dial.rest)] = "up"
  /\ Observe(dial.pool, Head(dial.rest), TRUE, probe.pool, FALSE)
  /\ dial' = NoDial
  /\ UNCHANGED <<reach, probe>>

\* ... refuses the destination (not allowed, or not resolved), which is no
\* verdict on the target and ends the dial ...
DialDenied ==
  /\ dial.rest # <<>> /\ reach[Head(dial.rest)] # "down"
  /\ pools' = Live(pools, {probe.pool})
  /\ dial' = NoDial
  /\ UNCHANGED <<reach, probe>>

\* ... or fails, and the next one is tried until none is left.
DialFails ==
  LET left == Tail(dial.rest)
      pool == pools[dial.pool]
      usable == IF pool.mode = "manual_fixed" THEN {} ELSE Range(pool.targets)
  IN /\ dial.rest # <<>> /\ reach[Head(dial.rest)] # "up"
     /\ Observe(dial.pool, Head(dial.rest), FALSE, probe.pool, left # <<>>)
     /\ dial' = IF left # <<>> THEN [dial EXCEPT !.rest = left]
                ELSE [NoDial EXCEPT !.missed = dial.steady \cap usable]
     /\ UNCHANGED <<reach, probe>>

SelectorNext ==
  \/ \E p \in Policies, known \in BOOLEAN : Apply(p, known)
  \/ \E t \in Target, r \in Reach : Change(t, r)
  \/ ProbeRound \/ ProbeOne
  \/ DialStart \/ DialOk \/ DialDenied \/ DialFails

\* The probe loop runs for the life of the process and every handshake has a
\* timeout.  Nothing makes anyone dial, and no relay owes an answer.
SelectorFairness == WF_selectorVars(ProbeRound) /\ WF_selectorVars(ProbeOne)

SelectorSpec == SelectorInit /\ [][SelectorNext]_selectorVars /\ SelectorFairness
-----------------------------------------------------------------------------
\* Properties.

\* "A stale local health verdict must not make the service unreachable": a dial
\* that finds no egress has met no target of its pool that was up all the time,
\* whatever the verdicts, reloads and probes meanwhile (a manual_fixed pool
\* gives up its healthy targets but the first).
NoEgressOnlyIfNone == dial.missed = {}

\* The inductive strengthening of NoEgressOnlyIfNone: whoever works on a list of
\* targets has a pool for it, and a dial still has before it every relay of its
\* pool that has been up since it began.
DialKeepsSteady ==
  /\ probe.rest # <<>> => probe.pool # 0
  /\ dial.rest # <<>> =>
       /\ dial.pool # 0
       /\ pools[dial.pool].mode = "manual_fixed"
            \/ dial.steady \cap Range(pools[dial.pool].targets) \subseteq Range(dial.rest)
  /\ \A t \in dial.steady : reach[t] = "up"
  /\ dial.missed = {}

InPool(t) == t \in Range(pools[Len(pools)].targets)
IsHealthy(t) == pools[Len(pools)].verdict[t].healthy

\* The verdicts follow the relays: one that stays down is eventually judged
\* unhealthy, and one that stays reachable healthy once no dial disturbs its
\* probes, however many reloads dropped the counters before.
VerdictsFollow ==
  \A t \in Target :
    /\ <>[](reach[t] = "down") => <>[](InPool(t) => ~IsHealthy(t))
    /\ <>[](reach[t] # "down" /\ dial.rest = <<>>) => <>[](InPool(t) => IsHealthy(t))
=============================================================================
