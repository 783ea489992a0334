---------------------------- MODULE DnsFrontend ----------------------------
(***************************************************************************)
(* One DNS query through the front end (node/dnsfe/server.go and           *)
(* router.go) while revisions are applied.                                 *)
(*                                                                         *)
(* The OnApply callback replaces the routing table, under its lock, and    *)
(* then the upstream and the limits.  A query reads the table three times: *)
(* for the access check, for the lookup and for the options of a           *)
(* synthesised answer, each time as it is then.  The number of upstream    *)
(* exchanges is bounded by a channel made when the process starts.         *)
(*                                                                         *)
(* One host is asked for.  A revision is what it says of that host and of  *)
(* the client.  Whether the limiter admits a query is left open (Limiter). *)
(***************************************************************************)
EXTENDS Integers, Sequences, FiniteSets

CONSTANTS
  DnsRevision, \* managed, aaaa, blockHTTPS, acl: BOOLEANs of a revision
  DnsQuery,    \* queries in progress at once
  MaxInflight, \* capacity of the inflight channel
  MaxReloads   \* bound: revisions applied

ASSUME DnsAssumption ==
  /\ MaxInflight \in Nat /\ MaxReloads \in Nat
  /\ \A r \in DnsRevision : r \in [managed : BOOLEAN, aaaa : BOOLEAN, blockHTTPS : BOOLEAN, acl : BOOLEAN]

VARIABLES
  router,   \* the revision of the routing table
  server,   \* the revision Reload was last called with
  inflight, \* tokens in the inflight channel
  query,    \* the queries
  reloads   \* revisions applied so far

dnsVars == <<router, server, inflight, query, reloads>>

\* The types synthesize has a case for: addresses, HTTPS and SVCB, and CNAME with
\* NS and SOA.
Covered == {"A", "AAAA", "HTTPS", "CNAME"}
\* The ones it has none for: ANY and DNAME, whose answers can hold the addresses
\* of the origin or lead to them, and MX, TXT and the rest.
Qtype == Covered \cup {"ANY", "MX"}
\* `open': a revision in force at some time since the query came does not hide
\* the origin from it.
NoQuery == [step |-> "idle", qtype |-> "A", proto |-> "udp", open |-> TRUE]

DnsTypeOK ==
  /\ router \in DnsRevision /\ server \in DnsRevision
  /\ inflight \in 0..MaxInflight
  /\ query \in [DnsQuery -> [step : {"idle", "limit", "lookup", "synthesize", "forward", "exchange", "retry"},
                             qtype : Qtype, proto : {"udp", "tcp"}, open : BOOLEAN]]
  /\ reloads \in 0..MaxReloads

DnsInit ==
  /\ router \in DnsRevision /\ server = router
  /\ inflight = 0
  /\ query = [q \in DnsQuery |-> NoQuery]
  /\ reloads = 0
-----------------------------------------------------------------------------
\* What a revision alone says of a query of type t for the host.
Hides(r, t) == r.managed /\ (t = "HTTPS" => r.blockHTTPS)

\* Router.Apply: the whole table under the lock.
RouterApply(r) ==
  /\ reloads < MaxReloads /\ server = router
  /\ reloads' = reloads + 1
  /\ router' = r
  /\ query' = [q \in DnsQuery |-> [query[q] EXCEPT !.open = @ \/ ~Hides(r, query[q].qtype)]]
  /\ UNCHANGED <<server, inflight>>

\* Server.Reload: upstream and limits.
ServerReload ==
  /\ server # router
  /\ server' = router
  /\ UNCHANGED <<router, inflight, query, reloads>>

To(q, from, to) ==
  /\ query[q].step = from
  /\ query' = [query EXCEPT ![q] = IF to = "idle" THEN NoQuery ELSE [@ EXCEPT !.step = to]]
  /\ UNCHANGED <<router, server, reloads>>

\* Handle: a well formed query from a client the table admits; others are
\* refused without a further step.
Arrive(q, t, p) ==
  /\ query[q].step = "idle"
  /\ router.acl
  /\ query' = [query EXCEPT ![q] = [step |-> "limit", qtype |-> t, proto |-> p,
                                    open |-> ~Hides(router, t)]]
  /\ UNCHANGED <<router, server, inflight, reloads>>

\* limiter.allow.
Limited(q) == \E to \in {"lookup", "idle"} : To(q, "limit", to) /\ UNCHANGED inflight

\* Router.Lookup.
LookUp(q) ==
  /\ To(q, "lookup", IF router.managed THEN "synthesize" ELSE "forward")
  /\ UNCHANGED inflight

\* Mutant: an AAAA query is forwarded while AAAA is not published.
AnswersIfPublished(t) ==
  \/ t \in {"A", "CNAME"}
  \/ t = "AAAA" /\ router.aaaa
  \/ t = "HTTPS" /\ router.blockHTTPS

\* synthesize: the types it answers itself, with the ingress addresses or with
\* NODATA (AAAA that is not published, HTTPS, CNAME).  The default case forwards
\* the others.
Answers(t) == t \in {"A", "AAAA", "CNAME"} \/ (t = "HTTPS" /\ router.blockHTTPS)

Synthesize(q) ==
  /\ To(q, "synthesize", IF Answers(query[q].qtype) THEN "idle" ELSE "forward")
  /\ UNCHANGED inflight

\* forward: a slot of the channel, or SERVFAIL when it is full.
Forward(q) ==
  \/ inflight < MaxInflight /\ To(q, "forward", "exchange") /\ inflight' = inflight + 1
  \/ inflight = MaxInflight /\ To(q, "forward", "idle") /\ UNCHANGED inflight

\* The resolver answers, or the exchange fails or times out and the client gets
\* SERVFAIL; a truncated answer is asked for again over TCP unless the client
\* came over UDP.  The slot is returned in any case.
Exchange(q) ==
  \/ To(q, "exchange", "idle") /\ inflight' = inflight - 1
  \/ query[q].proto # "udp" /\ To(q, "exchange", "retry") /\ UNCHANGED inflight
  \/ To(q, "retry", "idle") /\ inflight' = inflight - 1

DnsNext ==
  \/ \E r \in DnsRevision : RouterApply(r)
  \/ ServerReload
  \/ \E q \in DnsQuery, t \in Qtype, p \in {"udp", "tcp"} : Arrive(q, t, p)
  \/ \E q \in DnsQuery : Limited(q) \/ LookUp(q) \/ Synthesize(q) \/ Forward(q) \/ Exchange(q)

DnsSpec == DnsInit /\ [][DnsNext]_dnsVars
-----------------------------------------------------------------------------
\* Properties.

\* "Origin hints would let the client bypass the ingress": a query of a type that
\* synthesize covers goes to the resolver only if one of the revisions in force
\* since it came lets it, taken alone: the three reads of the table, which may
\* see three revisions, never put together an answer that shows the origin where
\* each of the revisions hides it.  (A query of type ANY or DNAME is forwarded
\* like MX, whatever the revision.)
OriginStaysHidden ==
  \A q \in DnsQuery :
    query[q].step \in {"forward", "exchange", "retry"} /\ query[q].qtype \in Covered
      => query[q].open
=============================================================================
