---------------------------- MODULE Certificates ----------------------------
(***************************************************************************)
(* The node's DoT/DoH certificate: issued by the agent                     *)
(* (agent/internal/agentcore/cert.go), served by the DNS front end, which  *)
(* reloads it at handshake time (shared/tlsutil).                          *)
(*                                                                         *)
(* The agent replaces privkey.pem and then fullchain.pem, each by a        *)
(* rename; a crash may come between.  A handshake takes the chain's mtime, *)
(* and unless that is the one of the pair in memory reads the chain and    *)
(* then the key, keeps the pair if it matches, and otherwise serves the    *)
(* last good one.  Handshakes run concurrently.                            *)
(*                                                                         *)
(* A version numbers the issues; a chain's version is also its mtime.      *)
(***************************************************************************)
EXTENDS Integers

CONSTANTS
  Client,     \* handshakes in progress at once
  MaxIssues,  \* bound: certificates issued
  MaxStarts   \* bound: starts of the front end

ASSUME CertAssumption == MaxIssues \in Nat /\ MaxStarts \in Nat

VARIABLES
  disk,    \* the versions of the key and the chain in the TLS directory
  issued,  \* the last version issued
  issuing, \* the agent is between the two writes
  expiring,\* the chain on disk has less than 30 days left
  front,   \* the front end: "down", "plain" (no TLS) or "tls", and starts so far
  loaded,  \* certReloader: the pair in memory and its mtime
  hand     \* the handshakes

certVars == <<disk, issued, issuing, expiring, front, loaded, hand>>

Version == 0..MaxIssues
\* `want': the version that was complete on disk when the handshake began, 0
\* when the pair was not whole then or did not stay so.
NoHand == [step |-> "idle", mtime |-> 0, chain |-> 0, want |-> 0, served |-> 0]

CertTypeOK ==
  /\ disk \in [key : Version, chain : Version]
  /\ issued \in Version
  /\ issuing \in BOOLEAN /\ expiring \in BOOLEAN
  /\ front \in [state : {"down", "plain", "tls"}, starts : 0..MaxStarts]
  /\ loaded \in [cert : Version, mtime : Version]
  /\ hand \in [Client -> [step : {"idle", "stat", "chain", "key", "served"}, mtime : Version,
                          chain : Version, want : Version, served : Version]]

CertInit ==
  /\ disk = [key |-> 0, chain |-> 0]
  /\ issued = 0
  /\ issuing = FALSE /\ expiring = FALSE
  /\ front = [state |-> "down", starts |-> 0]
  /\ loaded = [cert |-> 0, mtime |-> 0]
  /\ hand = [c \in Client |-> NoHand]
-----------------------------------------------------------------------------
\* currentCertNotAfter: without force a chain with time left is left alone.
Skips(force) == ~force /\ disk.chain # 0 /\ ~expiring

\* issueCert succeeds with the authority; the key is written.  certMu keeps
\* other requests out.  A failing order changes nothing.
IssueKey(force) ==
  /\ ~issuing /\ issued < MaxIssues /\ ~Skips(force)
  /\ issued' = issued + 1
  /\ disk' = [disk EXCEPT !.key = issued + 1]
  /\ issuing' = TRUE
  /\ hand' = [c \in Client |-> [hand[c] EXCEPT !.want = 0]]
  /\ UNCHANGED <<expiring, front, loaded>>

IssueChain ==
  /\ issuing
  /\ disk' = [disk EXCEPT !.chain = issued]
  /\ issuing' = FALSE /\ expiring' = FALSE
  /\ UNCHANGED <<issued, front, loaded, hand>>

\* The agent dies, or cannot write, between the two.
IssueBreaks ==
  /\ issuing
  /\ issuing' = FALSE
  /\ UNCHANGED <<disk, issued, expiring, front, loaded, hand>>

TimePasses ==
  /\ disk.chain # 0 /\ ~expiring
  /\ expiring' = TRUE
  /\ UNCHANGED <<disk, issued, issuing, front, loaded, hand>>
-----------------------------------------------------------------------------
Whole == disk.key = disk.chain /\ disk.chain # 0

\* main: ReloadingServerConfig loads the pair, or TLS is off for this process.
Start ==
  /\ front.starts < MaxStarts
  /\ front' = [state |-> IF Whole THEN "tls" ELSE "plain", starts |-> front.starts + 1]
  /\ loaded' = IF Whole THEN [cert |-> disk.chain, mtime |-> disk.chain] ELSE [cert |-> 0, mtime |-> 0]
  /\ hand' = [c \in Client |-> NoHand]
  /\ UNCHANGED <<disk, issued, issuing, expiring>>

\* A handshake begins: the chain's mtime is taken.
Stat(c) ==
  /\ front.state = "tls" /\ hand[c].step = "idle"
  /\ hand' = [hand EXCEPT ![c] = [NoHand EXCEPT !.step = "stat", !.mtime = disk.chain,
                                                !.want = IF Whole THEN disk.chain ELSE 0]]
  /\ UNCHANGED <<disk, issued, issuing, expiring, front, loaded>>

Serves(c, v) == hand' = [hand EXCEPT ![c].step = "served", ![c].served = v]

\* reload: the pair in memory has this mtime ...
Cached(c) ==
  /\ hand[c].step = "stat" /\ loaded.mtime = hand[c].mtime
  /\ Serves(c, loaded.cert)
  /\ UNCHANGED <<disk, issued, issuing, expiring, front, loaded>>

\* ... or the chain is read ...
ReadChain(c) ==
  /\ hand[c].step = "stat" /\ loaded.mtime # hand[c].mtime
  /\ hand' = [hand EXCEPT ![c].step = "chain", ![c].chain = disk.chain]
  /\ UNCHANGED <<disk, issued, issuing, expiring, front, loaded>>

\* ... and the key; if the two do not match get falls back on the last good pair.
ReadKey(c) ==
  /\ hand[c].step = "chain"
  /\ IF disk.key = hand[c].chain
     THEN hand' = [hand EXCEPT ![c].step = "key"] /\ UNCHANGED loaded
     ELSE UNCHANGED loaded /\ Serves(c, loaded.cert)
  /\ UNCHANGED <<disk, issued, issuing, expiring, front>>

\* Mutant: the mtime is taken when the pair is stored.
StoreStatLate(c) ==
  /\ hand[c].step = "key"
  /\ loaded' = [cert |-> hand[c].chain, mtime |-> disk.chain]
  /\ Serves(c, hand[c].chain)
  /\ UNCHANGED <<disk, issued, issuing, expiring, front>>

\* The pair is stored with the mtime taken at the beginning, under the lock; the
\* store may come after that of a later handshake.
Store(c) ==
  /\ hand[c].step = "key"
  /\ loaded' = [cert |-> hand[c].chain, mtime |-> hand[c].mtime]
  /\ Serves(c, hand[c].chain)
  /\ UNCHANGED <<disk, issued, issuing, expiring, front>>

Done(c) ==
  /\ hand[c].step = "served"
  /\ hand' = [hand EXCEPT ![c] = NoHand]
  /\ UNCHANGED <<disk, issued, issuing, expiring, front, loaded>>

CertNext ==
  \/ \E force \in BOOLEAN : IssueKey(force)
  \/ IssueChain \/ IssueBreaks \/ TimePasses \/ Start
  \/ \E c \in Client : Stat(c) \/ Cached(c) \/ ReadChain(c) \/ ReadKey(c) \/ Store(c) \/ Done(c)

CertSpec == CertInit /\ [][CertNext]_certVars
-----------------------------------------------------------------------------
\* Properties.

\* "A renewed certificate is picked up without restarting the process": once
\* the TLS listener is up every handshake gets a certificate, and one that
\* begins when an issue is complete gets that certificate or a newer one, also
\* while other handshakes reload and store older pairs.  (A handshake overtaken by
\* the next write of a key may meet the gap between the two files: it gets some
\* certificate, not necessarily the one it began with.)
RenewalServed ==
  \A c \in Client : hand[c].step = "served" =>
                      hand[c].served # 0 /\ hand[c].served >= hand[c].want
=============================================================================
