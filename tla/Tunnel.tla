------------------------------- MODULE Tunnel -------------------------------
(***************************************************************************)
(* The life of a proxied connection: the handlers of the SNI proxy         *)
(* (node/proxy/proxy.go) and of the egress relay (node/relay/relay.go),    *)
(* with the session limit they share the shape of, and tunnel.Splice,      *)
(* which both end in.                                                      *)
(*                                                                         *)
(* A handler counts itself with an atomic add, compares what the add       *)
(* returned with a limit that Apply may change meanwhile, sets the session *)
(* up (client hello or handshake, route or allowlist, dial, status), and   *)
(* splices: two copiers, each of which ends on EOF, on an error or after   *)
(* an idle timeout and then half-closes the connection it writes to.       *)
(*                                                                         *)
(* One process is modelled, a proxy or a relay.  Bytes are chunks that are *)
(* counted; the sockets' buffers are part of the peers.                    *)
(***************************************************************************)
EXTENDS Integers, FiniteSets

CONSTANTS
  Conn,        \* connections the process accepts
  Limits,      \* the values of MaxSessions a configuration may bring
  MaxChunks    \* bound: chunks a peer sends in one direction

Dir == {"up", "down"}

ASSUME TunnelAssumption ==
  /\ Limits \subseteq Nat \ {0} /\ MaxChunks \in Nat

VARIABLES
  side,     \* what the process is
  session,  \* where each handler is
  ticket,   \* what its atomic add returned
  active,   \* Proxy.active or Relay.active
  maxSess,  \* the limit in force
  peak,     \* history: the largest limit so far
  flowing,  \* each direction of a splice: its chunks, its source, its copier
  lost      \* history: chunks of an unbroken direction were not delivered

tunnelVars == <<side, session, ticket, active, maxSess, peak, flowing, lost>>
\* "handshake" is the relay's TLS handshake, the only wait without a deadline;
\* "setup" everything else up to the splice.
Stages == {"new", "counted", "over", "handshake", "setup", "splice", "closing", "closed"}
InService == {c \in Conn : session[c] \in {"handshake", "setup", "splice", "closing"}}
Still == [sent |-> 0, delivered |-> 0, ended |-> FALSE, copier |-> "read"]
Broken == [sent |-> 0, delivered |-> 0, ended |-> FALSE, copier |-> "broken"]

TunnelTypeOK ==
  /\ side \in {"proxy", "relay"}
  /\ session \in [Conn -> Stages]
  /\ ticket \in [Conn -> Nat]
  /\ active \in Nat
  /\ maxSess \in Limits /\ peak \in Limits
  /\ flowing \in [Conn -> [Dir -> [sent : 0..MaxChunks, delivered : 0..MaxChunks, ended : BOOLEAN,
                                   copier : {"read", "write", "done", "broken"}]]]
  /\ lost \in BOOLEAN

TunnelInit ==
  /\ side \in {"proxy", "relay"}
  /\ session = [c \in Conn |-> "new"]
  /\ ticket = [c \in Conn |-> 0]
  /\ active = 0
  /\ maxSess \in Limits /\ peak = maxSess
  /\ flowing = [c \in Conn |-> [d \in Dir |-> Still]]
  /\ lost = FALSE
-----------------------------------------------------------------------------
At(c, from, to) == session[c] = from /\ session' = [session EXCEPT ![c] = to]

\* Proxy.Apply and Relay.Apply replace the limit.
ApplyLimit(m) ==
  /\ maxSess' = m /\ maxSess # m
  /\ peak' = IF m > peak THEN m ELSE peak
  /\ UNCHANGED <<side, session, ticket, active, flowing, lost>>

\* Mutant: the counter is read for the comparison before it is raised.
CountStale(c) ==
  /\ At(c, "new", "counted")
  /\ active' = active + 1
  /\ ticket' = [ticket EXCEPT ![c] = active]
  /\ UNCHANGED <<side, maxSess, peak, flowing, lost>>

\* handle: active.Add(1).
Count(c) ==
  /\ At(c, "new", "counted")
  /\ active' = active + 1
  /\ ticket' = [ticket EXCEPT ![c] = active + 1]
  /\ UNCHANGED <<side, maxSess, peak, flowing, lost>>

\* n > maxSess: refused, the counter still has to be lowered ...
Refuse(c) ==
  /\ ticket[c] > maxSess
  /\ At(c, "counted", "over")
  /\ ticket' = [ticket EXCEPT ![c] = 0]
  /\ UNCHANGED <<side, active, maxSess, peak, flowing, lost>>

\* ... or admitted.
Admit(c) ==
  /\ ticket[c] <= maxSess
  /\ At(c, "counted", IF side = "relay" THEN "handshake" ELSE "setup")
  /\ ticket' = [ticket EXCEPT ![c] = 0]
  /\ UNCHANGED <<side, active, maxSess, peak, flowing, lost>>

\* Add(-1), at once or deferred, and the connection is closed.
Uncount(c) ==
  /\ session[c] \in {"over", "closing"}
  /\ session' = [session EXCEPT ![c] = "closed"]
  /\ active' = active - 1
  /\ UNCHANGED <<side, ticket, maxSess, peak, flowing, lost>>

\* The relay's peer completes its handshake, or closes.
Handshake(c) ==
  /\ \/ At(c, "handshake", "setup")
     \/ At(c, "handshake", "closing")
  /\ UNCHANGED <<side, ticket, active, maxSess, peak, flowing, lost>>

\* The rest of the set up succeeds, or ends the session: no client hello in
\* time, name or port not managed, frame not read in time, destination denied,
\* not resolved or not reached, no egress.  Every wait has a deadline.
SetUp(c) ==
  /\ \/ At(c, "setup", "splice")
     \/ At(c, "setup", "closing")
  /\ UNCHANGED <<side, ticket, active, maxSess, peak, flowing, lost>>
-----------------------------------------------------------------------------
\* One direction d of connection c moves on.
Flows(c, d, f) ==
  /\ session[c] = "splice"
  /\ flowing' = [flowing EXCEPT ![c][d] = f]
  /\ UNCHANGED <<side, session, ticket, active, maxSess, peak, lost>>

Pending(f) == f.sent > f.delivered

\* The peer that is the source sends, or has nothing more to send.
Send(c, d) ==
  LET f == flowing[c][d]
  IN /\ f.copier \in {"read", "write"} /\ ~f.ended
     /\ \/ f.sent < MaxChunks /\ Flows(c, d, [f EXCEPT !.sent = @ + 1])
        \/ Flows(c, d, [f EXCEPT !.ended = TRUE])

\* Splice's copier reads a chunk ...
ReadChunk(c, d) ==
  LET f == flowing[c][d]
  IN f.copier = "read" /\ Pending(f) /\ Flows(c, d, [f EXCEPT !.copier = "write"])

\* ... and writes it, or fails to: the peer is gone or has not read for the idle
\* time.
WriteChunk(c, d) ==
  LET f == flowing[c][d]
  IN /\ f.copier = "write"
     /\ \/ Flows(c, d, [f EXCEPT !.copier = "read", !.delivered = @ + 1])
        \/ Flows(c, d, Broken)

\* Read returns EOF once everything sent has been read, and the copier
\* half-closes its destination; or nothing came for the idle time.
ReadEnds(c, d) ==
  LET f == flowing[c][d]
  IN /\ f.copier = "read" /\ ~Pending(f)
     /\ IF f.ended THEN Flows(c, d, [f EXCEPT !.copier = "done"]) ELSE Flows(c, d, Broken)

\* Both connections are closed.
CloseBoth(c) ==
  /\ At(c, "splice", "closing")
  /\ lost' = (lost \/ \E d \in Dir : Pending(flowing[c][d]))
  /\ flowing' = [flowing EXCEPT ![c] = [d \in Dir |-> Still]]
  /\ UNCHANGED <<side, ticket, active, maxSess, peak>>

\* Mutant: Splice returns with the first copier that ends.
SpliceEither(c) ==
  /\ \E d \in Dir : flowing[c][d].copier \in {"done", "broken"}
  /\ CloseBoth(c)

\* Mutant: a copier that breaks off does not report.
SpliceCleanly(c) ==
  /\ \A d \in Dir : flowing[c][d].copier = "done"
  /\ CloseBoth(c)

\* Splice waits for both copiers.
SpliceEnds(c) ==
  /\ \A d \in Dir : flowing[c][d].copier \in {"done", "broken"}
  /\ CloseBoth(c)

Handle(c) == Count(c) \/ Refuse(c) \/ Admit(c) \/ Uncount(c) \/ SetUp(c) \/ SpliceEnds(c)
Copy(c, d) == ReadChunk(c, d) \/ WriteChunk(c, d) \/ ReadEnds(c, d)

TunnelNext ==
  \/ \E m \in Limits : ApplyLimit(m)
  \/ \E c \in Conn : Handle(c) \/ Handshake(c)
  \/ \E c \in Conn, d \in Dir : Send(c, d) \/ Copy(c, d)

\* An accepted connection's handler runs, each of its waits has a deadline, and
\* so has each read and write of a copier.  Peers owe nothing: they need not
\* send, end, or complete a handshake.
TunnelFairness ==
  \A c \in Conn :
    /\ WF_tunnelVars(Handle(c))
    /\ \A d \in Dir : WF_tunnelVars(Copy(c, d))

TunnelSpec == TunnelInit /\ [][TunnelNext]_tunnelVars /\ TunnelFairness
-----------------------------------------------------------------------------
\* Properties.

\* The limit holds although no lock joins the count and the comparison: the
\* sessions never outnumber the largest limit there was, and when all are over
\* no slot is lost.
SlotsKept ==
  /\ Cardinality(InService) <= peak
  /\ (\A c \in Conn : session[c] \in {"new", "closed"}) => active = 0

\* Half-closing loses nothing: whatever a peer sent before it ended is delivered
\* before Splice closes the connections, also what it sent after the other had
\* ended, unless a timeout or a write error broke its direction.
HalfCloseDelivers == ~lost

\* Every session that began ends and returns its slot: no peer can hold a handler for ever
\* by silence, except one that never completes the handshake with a relay.
SessionsEnd ==
  \A c \in Conn :
    session[c] \notin {"new", "handshake", "closed"} ~> session[c] \in {"handshake", "closed"}
=============================================================================
