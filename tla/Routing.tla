------------------------------ MODULE Routing ------------------------------
(***************************************************************************)
(* From the desired state to a proxied connection: what the compiler puts  *)
(* in a revision (panel/internal/compiler, shared/domainset) and what the  *)
(* data plane does with it (node/dnsfe/router.go, node/proxy/proxy.go,     *)
(* node/relay/relay.go).                                                   *)
(*                                                                         *)
(* A revision is compiled as a whole but reaches the nodes one by one, so  *)
(* the DNS front end that names an ingress, the ingress that names an      *)
(* egress and the egress that admits the destination may each run another  *)
(* revision.  One connection at a time is followed through the three.      *)
(*                                                                         *)
(* A host is the sequence of the labels of a name as a client sends it, in *)
(* lower case and without the final dot: that is all NormalizeQName does,  *)
(* and all the DNS front end asks of a name.  NormalizeHost, by which the  *)
(* ingress and the relay take the same name, leaves such a name as it is   *)
(* or refuses it, as it does the names in Invalid.                         *)
(*                                                                         *)
(* An entry's value is a sequence of labels too; the value of a regular    *)
(* expression is a name, and Hits tells what it matches.  A slug is a      *)
(* number: only the order of slugs matters.                                *)
(***************************************************************************)
EXTENDS Integers, Sequences, FiniteSets, FiniteSetsExt

CONSTANTS
  Slug,        \* the services
  Ingress,     \* ingress nodes
  Egress,      \* egress nodes
  IPv4, IPv6,  \* the nodes that have such a public address
  Endpoint,    \* the egress nodes that have a relay endpoint of their own
  Host,        \* the names clients ask for, sequences of labels
  Invalid,     \* those NormalizeHost refuses: one label, a label that begins or
               \* ends with a hyphen, bad punycode
  Hits,        \* Hits[v]: the hosts the regular expression named v matches
  Port,        \* destination ports
  Shape,       \* Shape[s]: the definitions of service s an operator may store
  Outages,     \* the sets of nodes that may be ineligible together
  SuffixSpec,  \* specificity of a suffix that is the whole host (100 in the code)
  MaxRevisions \* bound: revisions compiled

Node == Ingress \cup Egress
DefaultPort == 443
ExactSpec == 10 * SuffixSpec

ASSUME RoutingAssumption ==
  /\ Slug \subseteq Nat /\ IsFiniteSet(Slug) /\ Ingress \cap Egress = {}
  /\ DefaultPort \in Port
  /\ Invalid \subseteq Host /\ \A h \in Host : Len(h) \in Nat \ {0}
  /\ SuffixSpec \in Nat \ {0} /\ MaxRevisions \in Nat \ {0}
  /\ \A s \in Slug : \A d \in Shape[s] : d.priority \in Int

VARIABLES
  desired,   \* the enabled services and their definitions
  out,       \* nodes in maintenance, disabled or unhealthy
  revisions, \* the compiled revisions, in sequence
  runs,      \* the revision each node runs
  flow       \* the connection being followed

vars == <<desired, out, revisions, runs, flow>>
-----------------------------------------------------------------------------
\* shared/domainset: matching.

\* The suffix of h that starts after its first d labels.
Under(h, d) == SubSeq(h, d + 1, Len(h))
Depths(es, h) == {d \in 0..(Len(h) - 1) : [kind |-> "suffix", value |-> Under(h, d)] \in es}
Exact(es, h) == [kind |-> "exact", value |-> h] \in es
Regex(es, h) == \E e \in es : e.kind = "regex" /\ h \in Hits[e.value]

\* Matcher.Match.
Match(es, h) == Exact(es, h) \/ Depths(es, h) # {} \/ Regex(es, h)

\* Mutant: the regular expressions are tried before the suffixes.
SpecificityRegexFirst(es, h) ==
  CASE Exact(es, h) -> ExactSpec
    [] ~Exact(es, h) /\ Regex(es, h) -> 1
    [] ~Exact(es, h) /\ ~Regex(es, h) /\ Depths(es, h) # {} -> SuffixSpec - Min(Depths(es, h))
    [] OTHER -> -1

\* Matcher.Specificity: the longest suffix is met first.  For a name with
\* SuffixSpec labels or more, what it returns for a suffix may be 1, as for a
\* regular expression, or less, down to what stands for no match.
Specificity(es, h) ==
  CASE Exact(es, h) -> ExactSpec
    [] ~Exact(es, h) /\ Depths(es, h) # {} -> SuffixSpec - Min(Depths(es, h))
    [] ~Exact(es, h) /\ Depths(es, h) = {} /\ Regex(es, h) -> 1
    [] OTHER -> -1

\* Lookup's comparison: more specific, then of higher priority, then earlier in
\* the compiled order.
Outranks(a, b, h) ==
  LET sa == Specificity(a.entries, h)
      sb == Specificity(b.entries, h)
  IN \/ sa > sb
     \/ sa = sb /\ a.priority > b.priority
     \/ sa = sb /\ a.priority = b.priority /\ a.slug < b.slug

\* Router.Lookup and Proxy.lookup: the services that own h, at most one.
Lookup(services, h) ==
  LET claim == {s \in services : Specificity(s.entries, h) >= 0}
  IN {s \in claim : \A o \in claim \ {s} : Outranks(s, o, h)}
-----------------------------------------------------------------------------
\* panel/internal/compiler.

Enabled == DOMAIN desired

\* The members that get into answers and routes.
Eligible(ns) == ns \ out

\* Mutant: the first claim's priority is taken for the highest.
ConflictAtFirst(e) ==
  LET owners == {s \in Enabled : e \in desired[s].entries}
      first == Min(owners)
  IN Cardinality({s \in owners : desired[s].priority = desired[first].priority}) > 1

\* detectConflicts: an entry with more than one owner at the highest priority.
Conflict(e) ==
  LET owners == {s \in Enabled : e \in desired[s].entries}
      top == Max({desired[s].priority : s \in owners})
  IN Cardinality({s \in owners : desired[s].priority = top}) > 1

Entries == UNION {desired[s].entries : s \in Enabled}
Conflicts == {e \in Entries : Conflict(e)}

PortsOrDefault(ps) == IF ps = {} THEN {DefaultPort} ELSE ps

\* The policy's targets: eligible members with an endpoint, or an address that
\* gives them one.
Targets(s) == {n \in Eligible(desired[s].egress) : n \in Endpoint \cup IPv4}

\* One service as the ingress nodes get it.  `on' is servicesForIngress: every
\* member carries the service, eligible or not.
Compiled(s) ==
  [slug |-> s, priority |-> desired[s].priority,
   entries |-> desired[s].entries,
   ports |-> PortsOrDefault(desired[s].ports),
   on |-> desired[s].ingress,
   v4 |-> Eligible(desired[s].ingress) \cap IPv4,
   v6 |-> Eligible(desired[s].ingress) \cap IPv6,
   targets |-> Targets(s)]

\* Mutant: the allowlist is that of the last service that uses the egress.
AllowLast(n) ==
  LET users == {s \in Enabled : n \in Targets(s)}
  IN IF users = {} THEN {} ELSE desired[Max(users)].entries

\* egressAllow and egressPorts: the union over the services that target n.
Allow(n) == UNION {desired[s].entries : s \in {s \in Enabled : n \in Targets(s)}}
AllowPorts(n) ==
  UNION {PortsOrDefault(desired[s].ports) : s \in {s \in Enabled : n \in Targets(s)}}

\* Compile succeeds: there are services, none without members or targets, and
\* no two services claim an entry with equal right.
Compilable ==
  /\ Enabled # {}
  /\ \A s \in Enabled : desired[s].ingress # {} /\ Targets(s) # {}
  /\ Conflicts = {}

\* Every service set Init and the operator can store.
Definitions == UNION {[S -> UNION {Shape[s] : s \in Slug}] : S \in SUBSET Slug}

NoFlow == [step |-> "none", host |-> <<>>, at |-> {}, seen |-> {}]

Init ==
  /\ desired \in {d \in Definitions : \A s \in DOMAIN d : d[s] \in Shape[s]}
  /\ out = {}
  /\ revisions = <<>>
  /\ runs = [n \in Node |-> 0]
  /\ flow = NoFlow

\* Bound: the desired state changes and a further revision is compiled when the
\* last one runs everywhere, so that two revisions meet and not more.
RolledOut == \A n \in Node : runs[n] = Len(revisions)

\* compile: the revision is stored with its artifacts, or nothing is.
Compile ==
  /\ Len(revisions) < MaxRevisions /\ RolledOut
  /\ Compilable
  /\ revisions' = Append(revisions,
                   [services |-> {Compiled(s) : s \in Enabled},
                    allow |-> [n \in Egress |-> Allow(n)],
                    ports |-> [n \in Egress |-> AllowPorts(n)],
                    aaaa |-> IPv6])
  /\ UNCHANGED <<desired, out, runs, flow>>

\* The operator stores another definition of a service, or a node goes out of
\* service.
Edit ==
  /\ Len(revisions) \in 1..(MaxRevisions - 1) /\ RolledOut
  /\ \/ \E s \in Enabled : \E d \in Shape[s] :
          /\ desired' = [desired EXCEPT ![s] = d]
          /\ UNCHANGED out
     \/ \E ns \in Outages : out' = ns /\ UNCHANGED desired
  /\ UNCHANGED <<revisions, runs, flow>>

\* A node switches to a newer revision (Agent and Loader say how).
Push(n) ==
  /\ \E r \in (runs[n] + 1)..Len(revisions) : runs' = [runs EXCEPT ![n] = r]
  /\ UNCHANGED <<desired, out, revisions, flow>>
-----------------------------------------------------------------------------
\* node: what a node does with the revision it runs.

Running(n) == revisions[runs[n]]
\* The services of the node's configuration.
Carried(n) == {s \in Running(n).services : n \in s.on}

\* The connection goes on, or ends, at n; the revisions it met are remembered.
Meet(n, step, at) ==
  flow' = [step |-> step, host |-> IF at = {} THEN <<>> ELSE flow.host,
           at |-> at, seen |-> flow.seen \cup {runs[n]}]

\* A client asks node n for h.  A managed name is answered with the addresses
\* of its ingress nodes, AAAA only by a node that has IPv6 itself; the client
\* connects to one of them.  Other names are resolved upstream.  Names that
\* NormalizeHost refuses are answered like any other.
Query(n, h) ==
  /\ flow.at = {} /\ runs[n] # 0
  /\ \E s \in Lookup(Carried(n), h) :
       \E v6 \in BOOLEAN :
         LET answer == IF v6 THEN IF n \in Running(n).aaaa THEN s.v6 ELSE {} ELSE s.v4
         IN /\ answer # {}
            /\ flow' = [step |-> "answered", host |-> h, at |-> answer, seen |-> {runs[n]}]
  /\ UNCHANGED <<desired, out, revisions, runs>>

\* The ingress refuses a name that cannot be normalised, or routes the sniffed
\* name and dials one of the service's targets: any of them, since the ones
\* before it may be down.
Route(i, p) ==
  /\ flow.step = "answered" /\ i \in flow.at /\ runs[i] # 0
  /\ \/ flow.host \in Invalid /\ Meet(i, "invalid", {})
     \/ /\ flow.host \notin Invalid
        /\ LET owner == Lookup(Carried(i), flow.host)
           IN \/ owner = {} /\ Meet(i, "refused", {})
              \/ \E s \in owner :
                   \/ p \notin s.ports /\ flow' = NoFlow
                   \/ /\ p \in s.ports
                      /\ \E e \in s.targets : Meet(i, "routed", {<<e, p>>})
  /\ UNCHANGED <<desired, out, revisions, runs>>

\* Relay.Allowed, with the ports Relay.Apply takes.
Allowed(e, h, p) ==
  p \in PortsOrDefault(Running(e).ports[e]) /\ Match(Running(e).allow[e], h)

\* The relay admits the destination or answers "destination not allowed", which
\* ends the dial without trying another egress.  (Only names that the ingress
\* could normalise get here, and NormalizeHost takes those again.)
Admit(e, p) ==
  /\ flow.step = "routed" /\ <<e, p>> \in flow.at /\ runs[e] # 0
  /\ Meet(e, IF Allowed(e, flow.host, p) THEN "done" ELSE "denied", {})
  /\ UNCHANGED <<desired, out, revisions, runs>>

Next ==
  \/ Compile \/ Edit
  \/ \E n \in Node : Push(n)
  \/ \E i \in Ingress : \/ \E h \in Host : Query(i, h)
                        \/ \E p \in Port : Route(i, p)
  \/ \E e \in Egress, p \in Port : Admit(e, p)

Spec == Init /\ [][Next]_vars
-----------------------------------------------------------------------------
\* Properties.

\* A revision hangs together: when the three nodes of a connection run one
\* revision, the ingress a DNS answer names routes the host and the egress it
\* dials admits it, whatever the groups, priorities, ports and outages.  Only
\* nodes on different revisions refuse what another one promised.  (A name that
\* NormalizeHost refuses ends as "invalid" and not as "refused": the DNS front
\* end promises such names, and no ingress, of whatever revision, takes them.)
OneRevisionServes ==
  flow.step \in {"refused", "denied"} => Cardinality(flow.seen) > 1

\* detectConflicts leaves no ambiguity: on an ingress that carries all services,
\* two services never claim a host with equal right, except by two different
\* regular expressions or, for a name of SuffixSpec labels or more, by a suffix
\* that ranks like one.  (An ingress that lacks the service of the highest
\* priority can see such a tie: only the highest priority is compared.)
OneOwner ==
  \A k \in 1..Len(revisions) :
    LET all == revisions[k].services IN
    \A i \in Ingress : (\A s \in all : i \in s.on) =>
      \A h \in Host : \A a \in Lookup(all, h) : \A b \in all \ {a} :
        Specificity(a.entries, h) = Specificity(b.entries, h) /\ a.priority = b.priority
          => Specificity(a.entries, h) = 1

\* Match, which the relay uses, and Specificity, which the ingress and the DNS
\* front end use: what the ingress routes the relay always admits, and for names
\* of fewer than SuffixSpec labels they agree on what a rule set covers and a
\* suffix outranks a regular expression.  (Of longer names, up to 127 labels, the
\* relay may admit what the ingress takes for unmanaged.)
MatchAgrees ==
  \A k \in 1..Len(revisions) : \A s \in revisions[k].services : \A h \in Host :
    /\ Specificity(s.entries, h) >= 0 => Match(s.entries, h)
    /\ Len(h) < SuffixSpec =>
         /\ Match(s.entries, h) => Specificity(s.entries, h) >= 0
         /\ Depths(s.entries, h) # {} => Specificity(s.entries, h) > 1
=============================================================================
