----------------------------- MODULE MCIngress -----------------------------
(***************************************************************************)
(* What a node does for a client, from the certificate and the DNS answer  *)
(* to the admission of its connection by the egress: components that share *)
(* no state with each other, side by side.  Every behaviour is one of a    *)
(* single component, the part that moves; the others stay as they begin.   *)
(***************************************************************************)
EXTENDS Routing, Limiter, DnsFrontend, Certificates, Identity

VARIABLE part

ingressVars == <<part, vars, limiterVars, dnsVars, certVars, identityVars>>

\* Names under x.com, one of them longer than SuffixSpec labels, and two that
\* NormalizeHost refuses: one with a hyphen at the edge and a single label.
X == <<"x", "com">>
AX == <<"a", "x", "com">>
Short == {X, AX, <<"b", "a", "x", "com">>}
Long == {<<"c", "c", "c", "c", "b", "a", "x", "com">>}
MCInvalid == {<<"-", "x", "com">>, <<"com">>}
MCHost == Short \cup Long \cup MCInvalid
MCHits == [v \in {<<"r1">>, <<"r2">>} |->
             IF v = <<"r1">> THEN {AX} ELSE {AX, X, <<"com">>} \cup Long]

E(kind, value) == [kind |-> kind, value |-> value]
Def(es, prio, ports, in, eg) ==
  [entries |-> es, priority |-> prio, ports |-> ports, ingress |-> in, egress |-> eg]

\* Service 1 covers a suffix, service 2 a name below it, service 3 the same
\* entries again at the same or another priority, or regular expressions.
MCShape == [s \in 1..3 |->
  CASE s = 1 -> {Def({E("suffix", X), E("suffix", AX)}, 1, {}, {"i1", "i2"}, {"e1", "e2"}),
                 Def({E("suffix", X), E("regex", <<"r1">>)}, 2, {}, {"i1", "i2"}, {"e1"}),
                 Def({E("exact", AX)}, 2, {}, {"i1", "i2"}, {"e1"})}
    [] s = 2 -> {Def({E("exact", AX)}, 1, {8443}, {"i2"}, {"e2"}),
                 Def({E("suffix", AX)}, 2, {443, 8443}, {"i1", "i2"}, {"e1", "e2"})}
    [] s = 3 -> {Def({E("suffix", X), E("exact", AX)}, 1, {}, {"i1", "i2"}, {"e2"}),
                 Def({E("suffix", AX), E("regex", <<"r2">>)}, 2, {}, {"i1"}, {"e1"})}]

MCOutages == {{}, {"e1"}, {"i1"}}

\* The first burst is more than is earned before an idle bucket is deleted.
MCLimit == {[qps |-> 1, burst |-> 4], [qps |-> 2, burst |-> 3]}
MCDnsRevision ==
  {[managed |-> TRUE, aaaa |-> FALSE, blockHTTPS |-> TRUE, acl |-> TRUE],
   [managed |-> TRUE, aaaa |-> TRUE, blockHTTPS |-> FALSE, acl |-> TRUE],
   [managed |-> FALSE, aaaa |-> FALSE, blockHTTPS |-> TRUE, acl |-> FALSE]}

\* Two bundles for one node, a third for another.
MCNodeOf == [b \in {"b1", "b2", "b3"} |-> IF b = "b3" THEN "n2" ELSE "n1"]

\* A part that does not move begins in one of its initial states only.
Idles(p, v, values) == part = p \/ v = CHOOSE x \in values : TRUE

IngressInit ==
  /\ part \in {"routing", "limiter", "dns", "certificates", "identity"}
  /\ Init /\ LimiterInit /\ DnsInit /\ CertInit /\ IdentityInit
  /\ part = "routing" \/ desired = [s \in Slug |-> CHOOSE d \in Shape[s] : TRUE]
  /\ Idles("limiter", limit, Limit)
  /\ Idles("dns", router, DnsRevision)

Moves(p, q, v) == IF p = q THEN TRUE ELSE UNCHANGED v

Only(p) ==
  /\ part = p /\ UNCHANGED part
  /\ Moves(p, "routing", vars)
  /\ Moves(p, "limiter", limiterVars)
  /\ Moves(p, "dns", dnsVars)
  /\ Moves(p, "certificates", certVars)
  /\ Moves(p, "identity", identityVars)

IngressNext ==
  \/ Only("routing") /\ Next
  \/ Only("limiter") /\ LimiterNext
  \/ Only("dns") /\ DnsNext
  \/ Only("certificates") /\ CertNext
  \/ Only("identity") /\ IdentityNext

IngressSpec == IngressInit /\ [][IngressNext]_ingressVars
=============================================================================
