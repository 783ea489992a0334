---------------------------- MODULE ProxyProofs -----------------------------
(***************************************************************************)
(* The proxy's sessions and its choice of an egress (Tunnel, Selector).    *)
(*                                                                         *)
(* For any number of connections and any limits the atomic counter alone   *)
(* keeps the sessions within the limit and loses no slot, and Splice       *)
(* delivers what a peer sent before it ended.  For any relays, policies    *)
(* and reloads a dial finds a relay that was up all the time.              *)
(***************************************************************************)
EXTENDS Tunnel, Selector, FiniteSetTheorems, TLAPS

USE TunnelAssumption

\* The connections the counter stands for.
Counted == {c \in Conn : session[c] \notin {"new", "closed"}}

\* The connections in service and those that a limit of t would admit.
Within(t) == InService \cup {c \in Conn : session[c] = "counted" /\ ticket[c] <= t}

\* The counter counts.
CounterExact == IsFiniteSet(Counted) /\ active = Cardinality(Counted)

\* What the tickets say: a ticket was the number of those counted when it was
\* drawn, so that t or less is never on more than t of them.
TicketsBound ==
  /\ maxSess <= peak
  /\ \A t \in Nat : t >= peak => Cardinality(Within(t)) <= t

\* A copier that is done has delivered all, one that broke off owes nothing.
CopierInv ==
  \A c \in Conn, d \in Dir :
    LET f == flowing[c][d]
    IN /\ f.copier = "write" => f.delivered < f.sent
       /\ f.copier = "read" => f.delivered <= f.sent
       /\ f.copier \in {"done", "broken"} => f.delivered = f.sent

TunnelInv == TunnelTypeOK /\ CounterExact /\ TicketsBound /\ CopierInv /\ ~lost
-----------------------------------------------------------------------------
\* Facts about counting.

\* The sets the limit is about are parts of what is counted.
LEMMA PartsOfCounted ==
  ASSUME TunnelTypeOK, IsFiniteSet(Counted), NEW t \in Nat
  PROVE  /\ Within(t) \subseteq Counted /\ InService \subseteq Within(t)
         /\ IsFiniteSet(Within(t)) /\ IsFiniteSet(InService)
         /\ Cardinality(Within(t)) \in Nat /\ Cardinality(InService) \in Nat
         /\ Cardinality(Within(t)) <= Cardinality(Counted)
         /\ Cardinality(InService) <= Cardinality(Within(t))
<1>1. Within(t) \subseteq Counted /\ InService \subseteq Within(t)
  BY DEF Within, Counted, InService
<1>2. IsFiniteSet(Within(t)) /\ Cardinality(Within(t)) <= Cardinality(Counted)
  BY <1>1, FS_Subset
<1>3. IsFiniteSet(InService) /\ Cardinality(InService) <= Cardinality(Within(t))
  BY <1>1, <1>2, FS_Subset
<1> QED
  BY <1>1, <1>2, <1>3, FS_CardinalityType

\* A step that counts nobody new and lets in only whom the limit admits keeps
\* the bound.
LEMMA BoundKept ==
  ASSUME TunnelTypeOK, IsFiniteSet(Counted), TicketsBound,
         peak' \in Nat, peak <= peak', maxSess' <= peak',
         \A t \in Nat : t >= peak' => Within(t)' \subseteq Within(t)
  PROVE  TicketsBound'
<1> SUFFICES ASSUME NEW t \in Nat, t >= peak'
             PROVE  Cardinality(Within(t)') <= t
  BY DEF TicketsBound
<1>1. t >= peak
  BY DEF TunnelTypeOK
<1>2. Cardinality(Within(t)) <= t /\ IsFiniteSet(Within(t)) /\ Cardinality(Within(t)) \in Nat
  BY <1>1, PartsOfCounted DEF TicketsBound
<1>3. Within(t)' \subseteq Within(t)
  OBVIOUS
<1>4. Cardinality(Within(t)') <= Cardinality(Within(t)) /\ IsFiniteSet(Within(t)')
  BY <1>2, <1>3, FS_Subset
<1> QED
  BY <1>2, <1>4, FS_CardinalityType

\* A step that moves no connection across the counter.
LEMMA CountKept ==
  ASSUME CounterExact, active' = active, Counted' = Counted
  PROVE  CounterExact'
BY DEF CounterExact
-----------------------------------------------------------------------------
\* No session holds a slot.
LEMMA TunnelInvInit == TunnelInit => TunnelInv
<1> SUFFICES ASSUME TunnelInit PROVE TunnelInv
  OBVIOUS
<1>1. TunnelTypeOK
  <2>1. /\ side \in {"proxy", "relay"} /\ session \in [Conn -> Stages] /\ ticket \in [Conn -> Nat]
        /\ active \in Nat /\ maxSess \in Limits /\ peak \in Limits /\ lost \in BOOLEAN
    BY DEF TunnelInit, Stages
  <2>2. flowing \in [Conn -> [Dir -> [sent : 0..MaxChunks, delivered : 0..MaxChunks, ended : BOOLEAN,
                                     copier : {"read", "write", "done", "broken"}]]]
    BY DEF TunnelInit, Still
  <2> QED
    BY <2>1, <2>2 DEF TunnelTypeOK
<1>2. Counted = {}
  BY DEF TunnelInit, Counted
<1>3. CounterExact
  BY <1>2, FS_EmptySet DEF CounterExact, TunnelInit
<1>4. TicketsBound
  <2>1. \A t \in Nat : Within(t) = {}
    BY DEF TunnelInit, Within, InService
  <2> QED
    BY <2>1, FS_EmptySet DEF TicketsBound, TunnelInit
<1>5. CopierInv /\ ~lost
  BY DEF TunnelInit, CopierInv, Still, Dir
<1> QED
  BY <1>1, <1>3, <1>4, <1>5 DEF TunnelInv

\* The handlers' steps up to the splice, and after it.
LEMMA HandlerStep ==
  ASSUME TunnelInv, NEW c \in Conn,
         Count(c) \/ Refuse(c) \/ Admit(c) \/ Uncount(c) \/ SetUp(c) \/ Handshake(c)
  PROVE  TunnelInv'
<1> USE DEF TunnelInv
<1>0. /\ maxSess \in Nat /\ peak \in Nat /\ active \in Nat /\ IsFiniteSet(Counted)
      /\ UNCHANGED <<side, maxSess, peak, flowing, lost>>
  BY DEF TunnelTypeOK, CounterExact, Count, Refuse, Admit, Uncount, SetUp, Handshake
<1>1. CopierInv' /\ ~lost'
  BY <1>0 DEF CopierInv
<1>2. CASE Count(c)
  <2>1. session[c] = "new" /\ session' = [session EXCEPT ![c] = "counted"]
        /\ active' = active + 1 /\ ticket' = [ticket EXCEPT ![c] = active + 1]
    BY <1>2 DEF Count, At
  <2>2. TunnelTypeOK'
    BY <1>0, <2>1 DEF TunnelTypeOK, Stages
  <2>3. Counted' = Counted \cup {c} /\ c \notin Counted
    BY <2>1 DEF Counted, TunnelTypeOK
  <2>4. CounterExact'
    BY <1>0, <2>1, <2>3, FS_AddElement DEF CounterExact
  <2>5. TicketsBound'
    <3> SUFFICES ASSUME NEW t \in Nat, t >= peak
                 PROVE  Cardinality(Within(t)') <= t
      BY <1>0 DEF TicketsBound
    <3>1. CASE t < active + 1
      <4>1. Within(t)' = Within(t)
        BY <1>0, <2>1, <3>1 DEF Within, InService, TunnelTypeOK
      <4> QED
        BY <4>1 DEF TicketsBound
    <3>2. CASE t >= active + 1
      <4>1. Within(t)' \subseteq Counted'
        BY DEF Within, Counted, InService
      <4>2. IsFiniteSet(Counted') /\ Cardinality(Counted') = active + 1
        BY <2>1, <2>4 DEF CounterExact
      <4>3. Cardinality(Within(t)') <= active + 1 /\ IsFiniteSet(Within(t)')
        BY <4>1, <4>2, FS_Subset
      <4> QED
        BY <1>0, <3>2, <4>3, FS_CardinalityType
    <3> QED
      BY <1>0, <3>1, <3>2
  <2> QED
    BY <1>1, <2>2, <2>4, <2>5
<1>3. CASE Refuse(c) \/ Admit(c)
  <2>1. /\ session[c] = "counted" /\ active' = active
        /\ \/ session' = [session EXCEPT ![c] = "over"]
           \/ /\ ticket[c] <= maxSess
              /\ \E s \in {"handshake", "setup"} : session' = [session EXCEPT ![c] = s]
        /\ ticket' = [ticket EXCEPT ![c] = 0]
    BY <1>3 DEF Refuse, Admit, At
  <2>2. TunnelTypeOK'
    BY <1>0, <2>1 DEF TunnelTypeOK, Stages
  <2>3. CounterExact'
    <3>1. Counted' = Counted
      BY <2>1 DEF Counted, TunnelTypeOK
    <3> QED
      BY <2>1, <3>1, CountKept
  <2>4. \A t \in Nat : t >= peak => Within(t)' \subseteq Within(t)
    <3> SUFFICES ASSUME NEW t \in Nat, t >= peak, NEW x \in Within(t)'
                 PROVE  x \in Within(t)
      OBVIOUS
    <3>1. CASE x # c
      BY <2>1, <3>1 DEF Within, InService, TunnelTypeOK
    <3>2. CASE x = c
      <4>1. ticket[c] <= maxSess
        BY <2>1, <3>2 DEF Within, InService, TunnelTypeOK
      <4>2. ticket[c] <= t
        BY <1>0, <4>1 DEF TunnelTypeOK, TicketsBound
      <4> QED
        BY <2>1, <3>2, <4>2 DEF Within
    <3> QED
      BY <3>1, <3>2
  <2>5. TicketsBound'
    BY <1>0, <2>4, BoundKept DEF TicketsBound
  <2> QED
    BY <1>1, <2>2, <2>3, <2>5
<1>4. CASE Uncount(c)
  <2>1. /\ session[c] \in {"over", "closing"} /\ session' = [session EXCEPT ![c] = "closed"]
        /\ active' = active - 1 /\ ticket' = ticket
    BY <1>4 DEF Uncount
  <2>2. Counted' = Counted \ {c} /\ c \in Counted
    BY <2>1 DEF Counted, TunnelTypeOK
  <2>3. CounterExact'
    BY <1>0, <2>1, <2>2, FS_RemoveElement DEF CounterExact
  <2>4. active' \in Nat
    BY <2>3, FS_CardinalityType DEF CounterExact
  <2>5. TunnelTypeOK'
    BY <1>0, <2>1, <2>4 DEF TunnelTypeOK, Stages
  <2>6. \A t \in Nat : Within(t)' \subseteq Within(t)
    BY <2>1 DEF Within, InService, TunnelTypeOK
  <2>7. TicketsBound'
    BY <1>0, <2>6, BoundKept DEF TicketsBound
  <2> QED
    BY <1>1, <2>3, <2>5, <2>7
<1>5. CASE SetUp(c) \/ Handshake(c)
  <2>1. /\ session[c] \in {"handshake", "setup"} /\ active' = active /\ ticket' = ticket
        /\ \E s \in {"setup", "splice", "closing"} : session' = [session EXCEPT ![c] = s]
    BY <1>5 DEF SetUp, Handshake, At
  <2>2. TunnelTypeOK'
    BY <1>0, <2>1 DEF TunnelTypeOK, Stages
  <2>3. Counted' = Counted
    BY <2>1 DEF Counted, TunnelTypeOK
  <2>4. \A t \in Nat : Within(t)' \subseteq Within(t)
    BY <2>1 DEF Within, InService, TunnelTypeOK
  <2>5. TicketsBound' /\ CounterExact'
    BY <1>0, <2>1, <2>3, <2>4, BoundKept, CountKept DEF TicketsBound
  <2> QED
    BY <1>1, <2>2, <2>5
<1> QED
  BY <1>2, <1>3, <1>4, <1>5

\* A step of one direction that moves it from one proper state to another.
FlowType == [sent : 0..MaxChunks, delivered : 0..MaxChunks, ended : BOOLEAN,
             copier : {"read", "write", "done", "broken"}]
FlowOK(f) ==
  /\ f.copier = "write" => f.delivered < f.sent
  /\ f.copier = "read" => f.delivered <= f.sent
  /\ f.copier \in {"done", "broken"} => f.delivered = f.sent

\* A step that leaves every session and the counter alone.
LEMMA SessionsKept ==
  ASSUME TunnelInv, UNCHANGED <<session, ticket, active, maxSess, peak>>
  PROVE  CounterExact' /\ TicketsBound'
<1>1. Counted' = Counted
  BY DEF Counted
<1>2. \A t \in Nat : Within(t)' = Within(t)
  BY DEF Within, InService
<1> QED
  BY <1>1, <1>2 DEF TunnelInv, CounterExact, TicketsBound

\* A direction of a session moves.
LEMMA FlowsStep ==
  ASSUME TunnelInv, NEW c \in Conn, NEW d \in Dir, NEW f \in FlowType, FlowOK(f), Flows(c, d, f)
  PROVE  TunnelInv'
<1>1. /\ flowing' = [flowing EXCEPT ![c][d] = f]
      /\ UNCHANGED <<side, session, ticket, active, maxSess, peak, lost>>
  BY DEF Flows
<1>2. flowing \in [Conn -> [Dir -> FlowType]]
  BY DEF TunnelInv, TunnelTypeOK, FlowType
<1>3. flowing' \in [Conn -> [Dir -> FlowType]]
  BY <1>1, <1>2
<1>4. TunnelTypeOK'
  BY <1>1, <1>3 DEF TunnelInv, TunnelTypeOK, FlowType
<1>5. \A x \in Conn, e \in Dir : FlowOK(flowing[x][e])
  BY DEF TunnelInv, CopierInv, FlowOK
<1>6. \A x \in Conn, e \in Dir : flowing'[x][e] = IF x = c /\ e = d THEN f ELSE flowing[x][e]
  BY <1>1, <1>2
<1>7. CopierInv'
  <2>1. \A x \in Conn, e \in Dir : FlowOK(flowing'[x][e])
    BY <1>5, <1>6
  <2> QED
    BY <2>1 DEF CopierInv, FlowOK
<1> QED
  BY <1>1, <1>4, <1>7, SessionsKept DEF TunnelInv

\* The peers and the copiers.
LEMMA CopyStep ==
  ASSUME TunnelInv, NEW c \in Conn, NEW d \in Dir, Send(c, d) \/ Copy(c, d)
  PROVE  TunnelInv'
<1> DEFINE f == flowing[c][d]
<1>1. f \in FlowType /\ FlowOK(f)
  BY DEF TunnelInv, TunnelTypeOK, CopierInv, FlowType, FlowOK
<1>2. Broken \in FlowType /\ FlowOK(Broken)
  BY DEF Broken, FlowType, FlowOK
<1>3. CASE Send(c, d)
  <2>1. f.copier \in {"read", "write"}
    BY <1>3 DEF Send
  <2>2. CASE f.sent < MaxChunks /\ Flows(c, d, [f EXCEPT !.sent = @ + 1])
    <3>1. [f EXCEPT !.sent = @ + 1] \in FlowType /\ FlowOK([f EXCEPT !.sent = @ + 1])
      BY <1>1, <2>1, <2>2 DEF FlowType, FlowOK
    <3> QED
      BY <2>2, <3>1, FlowsStep
  <2>3. CASE Flows(c, d, [f EXCEPT !.ended = TRUE])
    <3>1. [f EXCEPT !.ended = TRUE] \in FlowType /\ FlowOK([f EXCEPT !.ended = TRUE])
      BY <1>1 DEF FlowType, FlowOK
    <3> QED
      BY <2>3, <3>1, FlowsStep
  <2> QED
    BY <1>3, <2>2, <2>3 DEF Send
<1>4. CASE ReadChunk(c, d)
  <2>1. Flows(c, d, [f EXCEPT !.copier = "write"]) /\ Pending(f)
    BY <1>4 DEF ReadChunk
  <2>2. [f EXCEPT !.copier = "write"] \in FlowType /\ FlowOK([f EXCEPT !.copier = "write"])
    BY <1>1, <2>1 DEF FlowType, FlowOK, Pending
  <2> QED
    BY <2>1, <2>2, FlowsStep
<1>5. CASE WriteChunk(c, d)
  <2> DEFINE g == [f EXCEPT !.copier = "read", !.delivered = @ + 1]
  <2>1. f.copier = "write" /\ (Flows(c, d, g) \/ Flows(c, d, Broken))
    BY <1>5 DEF WriteChunk
  <2>2. g \in FlowType /\ FlowOK(g)
    <3>1. f.delivered + 1 \in 0..MaxChunks /\ f.delivered + 1 <= f.sent
      BY <1>1, <2>1 DEF FlowType, FlowOK
    <3>2. g.copier = "read" /\ g.delivered = f.delivered + 1 /\ g.sent = f.sent
      BY <1>1 DEF FlowType
    <3>3. g \in FlowType
      BY <1>1, <3>1 DEF FlowType
    <3> QED
      BY <3>1, <3>2, <3>3 DEF FlowOK
  <2> HIDE DEF g
  <2> QED
    BY <1>2, <2>1, <2>2, FlowsStep
<1>6. CASE ReadEnds(c, d)
  <2> DEFINE g == [f EXCEPT !.copier = "done"]
  <2>1. f.copier = "read" /\ ~Pending(f) /\ (Flows(c, d, g) \/ Flows(c, d, Broken))
    BY <1>6 DEF ReadEnds
  <2>2. g \in FlowType /\ FlowOK(g)
    BY <1>1, <2>1 DEF FlowType, FlowOK, Pending
  <2> HIDE DEF g
  <2> QED
    BY <1>2, <2>1, <2>2, FlowsStep
<1> QED
  BY <1>3, <1>4, <1>5, <1>6 DEF Copy

\* Splice returns: both copiers have ended, so nothing is left in either
\* direction.
LEMMA SpliceStep ==
  ASSUME TunnelInv, NEW c \in Conn, SpliceEnds(c)
  PROVE  TunnelInv'
<1>1. /\ session[c] = "splice" /\ session' = [session EXCEPT ![c] = "closing"]
      /\ flowing' = [flowing EXCEPT ![c] = [d \in Dir |-> Still]]
      /\ UNCHANGED <<side, ticket, active, maxSess, peak>>
      /\ \A d \in Dir : flowing[c][d].copier \in {"done", "broken"}
  BY DEF SpliceEnds, CloseBoth, At
<1>2. flowing \in [Conn -> [Dir -> FlowType]] /\ Still \in FlowType
  BY DEF TunnelInv, TunnelTypeOK, FlowType, Still
<1>3. flowing' \in [Conn -> [Dir -> FlowType]]
  BY <1>1, <1>2
<1>4. \A d \in Dir : ~Pending(flowing[c][d])
  BY <1>1, <1>2 DEF TunnelInv, CopierInv, Pending, FlowType
<1>5. ~lost'
  BY <1>4 DEF SpliceEnds, CloseBoth, TunnelInv
<1>6. CopierInv'
  <2>1. \A x \in Conn, d \in Dir : flowing'[x][d] = IF x = c THEN Still ELSE flowing[x][d]
    BY <1>1, <1>2
  <2> QED
    BY <2>1 DEF TunnelInv, CopierInv, Still
<1>7. TunnelTypeOK'
  <2>1. lost' \in BOOLEAN
    BY Zenon DEF SpliceEnds, CloseBoth
  <2>2. session' \in [Conn -> Stages]
    BY <1>1 DEF TunnelInv, TunnelTypeOK, Stages
  <2> QED
    BY <1>1, <1>3, <2>1, <2>2 DEF TunnelInv, TunnelTypeOK, FlowType
<1>8. Counted' = Counted
  BY <1>1 DEF Counted, TunnelInv, TunnelTypeOK
<1>9. \A t \in Nat : Within(t)' \subseteq Within(t)
  BY <1>1 DEF Within, InService, TunnelInv, TunnelTypeOK
<1>10. peak \in Nat /\ IsFiniteSet(Counted)
  BY DEF TunnelInv, TunnelTypeOK, CounterExact
<1>11. CounterExact' /\ TicketsBound'
  BY <1>1, <1>8, <1>9, <1>10, CountKept, BoundKept DEF TunnelInv, TicketsBound
<1> QED
  BY <1>5, <1>6, <1>7, <1>11 DEF TunnelInv

\* Every step keeps TunnelInv.
LEMMA TunnelStep == TunnelInv /\ [TunnelNext]_tunnelVars => TunnelInv'
<1> SUFFICES ASSUME TunnelInv, [TunnelNext]_tunnelVars PROVE TunnelInv'
  OBVIOUS
<1>1. ASSUME NEW m \in Limits, ApplyLimit(m) PROVE TunnelInv'
  <2>1. /\ maxSess' = m /\ peak' = (IF m > peak THEN m ELSE peak)
        /\ UNCHANGED <<side, session, ticket, active, flowing, lost>>
    BY <1>1 DEF ApplyLimit
  <2>2. peak' \in Nat /\ peak <= peak' /\ maxSess' <= peak' /\ IsFiniteSet(Counted)
    BY <2>1 DEF TunnelInv, TunnelTypeOK, CounterExact
  <2>3. TunnelTypeOK' /\ CopierInv' /\ ~lost'
    BY <2>1 DEF TunnelInv, TunnelTypeOK, CopierInv
  <2>4. Counted' = Counted /\ \A t \in Nat : Within(t)' = Within(t)
    BY <2>1 DEF Counted, Within, InService
  <2>5. CounterExact' /\ TicketsBound'
    BY <2>1, <2>2, <2>4, CountKept, BoundKept DEF TunnelInv
  <2> QED
    BY <2>3, <2>5 DEF TunnelInv
<1>2. ASSUME NEW c \in Conn, Handle(c) \/ Handshake(c) PROVE TunnelInv'
  BY <1>2, HandlerStep, SpliceStep DEF Handle
<1>3. ASSUME NEW c \in Conn, NEW d \in Dir, Send(c, d) \/ Copy(c, d) PROVE TunnelInv'
  BY <1>3, CopyStep
<1>4. CASE UNCHANGED tunnelVars
  <2>1. TunnelTypeOK' /\ CopierInv' /\ ~lost'
    BY <1>4 DEF tunnelVars, TunnelInv, TunnelTypeOK, CopierInv
  <2> QED
    BY <1>4, <2>1, SessionsKept DEF tunnelVars, TunnelInv
<1> QED
  BY <1>1, <1>2, <1>3, <1>4 DEF TunnelNext

\* TunnelInv holds throughout.
LEMMA TunnelInvariant == TunnelSpec => []TunnelInv
BY TunnelInvInit, TunnelStep, PTL DEF TunnelSpec
-----------------------------------------------------------------------------
\* Counting with an atomic add and comparing later keeps the session limit of
\* proxy and relay, for any number of connections and any sequence of limits:
\* the sessions never outnumber the largest limit, and no slot is lost.
THEOREM SessionLimitHolds == TunnelSpec => []SlotsKept
<1>1. TunnelInv => SlotsKept
  <2> SUFFICES ASSUME TunnelInv PROVE SlotsKept
    OBVIOUS
  <2>1. peak \in Nat /\ IsFiniteSet(Counted)
    BY DEF TunnelInv, TunnelTypeOK, CounterExact
  <2>2. Cardinality(Within(peak)) <= peak
    BY <2>1 DEF TunnelInv, TicketsBound
  <2>3. Cardinality(InService) <= peak
    BY <2>1, <2>2, PartsOfCounted DEF TunnelInv
  <2>4. ASSUME \A c \in Conn : session[c] \in {"new", "closed"} PROVE active = 0
    <3>1. Counted = {}
      BY <2>4 DEF Counted
    <3> QED
      BY <3>1, FS_EmptySet DEF TunnelInv, CounterExact
  <2> QED
    BY <2>3, <2>4 DEF SlotsKept
<1> QED
  BY <1>1, TunnelInvariant, PTL

\* Splice's half-close loses nothing: whatever was sent in a direction that no
\* timeout or error broke is delivered before the connections are closed.
THEOREM SpliceDelivers == TunnelSpec => []HalfCloseDelivers
<1>1. TunnelInv => HalfCloseDelivers
  BY DEF TunnelInv, HalfCloseDelivers
<1> QED
  BY <1>1, TunnelInvariant, PTL
-----------------------------------------------------------------------------
\* The selector.  Order is built from positions by rank: every rank up to the
\* number of positions is somebody's, so that nobody is left out.

USE SelectorAssumption

\* The number of positions of I up to i.
Rank(I, i) == Cardinality({j \in I : j <= i})

\* No two positions of a finite set have the same rank.
LEMMA RanksDiffer ==
  ASSUME NEW I \in SUBSET Nat, IsFiniteSet(I)
  PROVE  \A i, j \in I : Rank(I, i) = Rank(I, j) => i = j
<1> DEFINE Upto(i) == {j \in I : j <= i}
<1>1. ASSUME NEW i \in I, NEW j \in I, i < j PROVE Rank(I, i) # Rank(I, j)
  <2> SUFFICES ASSUME Rank(I, i) = Rank(I, j) PROVE FALSE
    OBVIOUS
  <2>1. Upto(i) \subseteq Upto(j) /\ j \in Upto(j) /\ j \notin Upto(i)
    <3>1. i \in Nat /\ j \in Nat
      OBVIOUS
    <3>2. \A k \in I : k \in Nat
      OBVIOUS
    <3>3. \A k \in I : k <= i => k <= j
      BY <1>1, <3>1, <3>2
    <3>4. j <= j /\ ~ j <= i
      BY <1>1, <3>1
    <3> QED
      BY <3>3, <3>4
  <2>2. IsFiniteSet(Upto(j)) /\ Cardinality(Upto(i)) = Cardinality(Upto(j))
    BY FS_Subset DEF Rank
  <2>3. Upto(i) = Upto(j)
    <3> HIDE DEF Upto
    <3> QED
      BY <2>1, <2>2, FS_Subset
  <2> QED
    BY <2>1, <2>3
<1> QED
  BY <1>1

\* The positions of a finite set have the ranks 1, 2, ... up to their number,
\* each one of them.
LEMMA RanksAreAll ==
  ASSUME NEW I \in SUBSET Nat, IsFiniteSet(I)
  PROVE  /\ Cardinality(I) \in Nat
         /\ \A i \in I : Rank(I, i) \in 1..Cardinality(I)
         /\ \A k \in 1..Cardinality(I) : \E i \in I : Rank(I, i) = k
<1> DEFINE Upto(i) == {j \in I : j <= i}
           f == [i \in I |-> Rank(I, i)]
           n == Cardinality(I)
<1>1. n \in Nat
  BY FS_CardinalityType
<1>2. \A i \in I : /\ IsFiniteSet(Upto(i)) /\ Cardinality(Upto(i)) \in Nat
                   /\ Cardinality(Upto(i)) <= n
  BY FS_Subset, FS_CardinalityType
<1>3. \A i \in I : Cardinality(Upto(i)) # 0
  <2> TAKE i \in I
  <2>1. i \in Upto(i)
    OBVIOUS
  <2> QED
    BY <1>2, <2>1, FS_EmptySet
<1>4. \A i \in I : Rank(I, i) \in 1..n
  <2>1. \A i \in I : Rank(I, i) = Cardinality(Upto(i))
    BY DEF Rank
  <2> HIDE DEF Upto, n
  <2> QED
    BY <1>1, <1>2, <1>3, <2>1
<1>5. \A i, j \in I : Rank(I, i) = Rank(I, j) => i = j
  BY RanksDiffer
<1>6. f \in Injection(I, 1..n)
  <2>1. f \in [I -> 1..n]
    BY <1>4
  <2>2. \A i, j \in I : f[i] = f[j] => i = j
    BY <1>5
  <2> QED
    BY <2>1, <2>2 DEF Injection, IsInjective
<1>7. IsFiniteSet(1..n) /\ Cardinality(1..n) = n
  BY <1>1, FS_Interval
<1>8. f \in Surjection(I, 1..n)
  <2> HIDE DEF f
  <2> QED
    BY <1>6, <1>7, FS_Injection
<1>9. \A k \in 1..n : \E i \in I : f[i] = k
  BY <1>8 DEF Surjection
<1> QED
  BY <1>1, <1>4, <1>9

\* Cutting a list down to some of its positions keeps what is there and nothing else.
LEMMA ThoseAreThere ==
  ASSUME NEW s \in Seq(Target), NEW I \in SUBSET DOMAIN s
  PROVE  /\ Those(s, I) \in Seq(Target)
         /\ Range(Those(s, I)) = {s[i] : i \in I}
         /\ Cardinality(I) \in Nat /\ Len(Those(s, I)) = Cardinality(I)
<1>1. I \in SUBSET Nat /\ IsFiniteSet(I)
  <2>1. DOMAIN s = 1..Len(s) /\ Len(s) \in Nat
    OBVIOUS
  <2>2. IsFiniteSet(1..Len(s)) /\ I \in SUBSET (1..Len(s))
    BY <2>1, FS_Interval
  <2>3. IsFiniteSet(I)
    BY <2>2, FS_Subset
  <2> QED
    BY <2>2, <2>3
<1> DEFINE n == Cardinality(I)
<1>2. /\ n \in Nat
      /\ \A i \in I : Rank(I, i) \in 1..n
      /\ \A k \in 1..n : \E i \in I : Rank(I, i) = k
  BY <1>1, RanksAreAll
<1>3. \A k \in 1..n : Nth(I, k) \in I /\ Rank(I, Nth(I, k)) = k
  BY <1>2 DEF Nth, Rank
<1>4. \A i \in I : s[i] \in Target
  OBVIOUS
<1>5. Those(s, I) \in Seq(Target) /\ Len(Those(s, I)) = n
  BY <1>2, <1>3, <1>4 DEF Those
<1>6. Range(Those(s, I)) \subseteq {s[i] : i \in I}
  BY <1>3 DEF Those, Range
<1>7. ASSUME NEW i \in I PROVE s[i] \in Range(Those(s, I))
  <2>1. Nth(I, Rank(I, i)) = i
    <3>1. \A a, b \in I : Rank(I, a) = Rank(I, b) => a = b
      BY <1>1, RanksDiffer
    <3> QED
      BY <1>2, <1>3, <3>1
  <2> QED
    BY <1>2, <2>1 DEF Those, Range
<1> QED
  BY <1>2, <1>5, <1>6, <1>7

\* What two lists have between them, one behind the other has.
LEMMA RangeOfConcat ==
  ASSUME NEW s \in Seq(Target), NEW u \in Seq(Target)
  PROVE  s \o u \in Seq(Target) /\ Range(s \o u) = Range(s) \cup Range(u)
<1>1. s \o u \in Seq(Target)
  OBVIOUS
<1>2. Range(s \o u) \subseteq Range(s) \cup Range(u)
  BY DEF Range
<1>3. Range(s) \subseteq Range(s \o u)
  BY DEF Range
<1>4. ASSUME NEW i \in DOMAIN u PROVE u[i] \in Range(s \o u)
  <2>1. Len(s) + i \in DOMAIN (s \o u) /\ (s \o u)[Len(s) + i] = u[i]
    OBVIOUS
  <2> QED
    BY <2>1 DEF Range
<1> QED
  BY <1>1, <1>2, <1>3, <1>4 DEF Range

\* order leaves out no target, unless the pool is manual_fixed.
LEMMA OrderIsComplete ==
  ASSUME NEW pool \in PoolRow, NEW o \in Order(pool)
  PROVE  /\ o \in Seq(Target)
         /\ pool.mode # "manual_fixed" => Range(o) = Range(pool.targets)
<1> DEFINE s == pool.targets
           H == {i \in DOMAIN s : pool.verdict[s[i]].healthy}
           U == {i \in DOMAIN s : ~pool.verdict[s[i]].healthy}
           h == Healthy(pool)
           u == Unhealthy(pool)
<1>1. s \in Seq(Target)
  BY DEF PoolRow
<1>2. h = Those(s, H) /\ u = Those(s, U)
  BY DEF Healthy, Unhealthy
<1>3. H \subseteq DOMAIN s /\ U \subseteq DOMAIN s /\ H \cup U = DOMAIN s
  OBVIOUS
<1> HIDE DEF s, H, U, h, u
<1>4. /\ h \in Seq(Target) /\ Range(h) = {s[i] : i \in H}
      /\ u \in Seq(Target) /\ Range(u) = {s[i] : i \in U}
  BY <1>1, <1>2, <1>3, ThoseAreThere
<1>5. Range(h) \cup Range(u) = Range(s)
  BY <1>3, <1>4 DEF Range
<1>6. PICK x : /\ o = x \o u /\ x \in Seq(Target)
               /\ pool.mode # "manual_fixed" => Range(x) = Range(h)
  <2>1. \A x \in Orders(h) : x \in Seq(Target) /\ Range(x) = Range(h)
    <3>1. Len(h) \in Nat /\ Range(h) \subseteq Target
      BY <1>4 DEF Range
    <3> QED
      BY <3>1 DEF Orders
  <2>2. CASE pool.mode = "weighted"
    BY <1>4, <2>1, <2>2 DEF Order, h, u
  <2>3. CASE pool.mode = "manual_fixed"
    <3>1. Len(h) > 1 => <<h[1]>> \in Seq(Target)
      BY <1>4
    <3> QED
      BY <1>4, <2>3, <3>1 DEF Order, h, u
  <2>4. CASE pool.mode \notin {"weighted", "manual_fixed"}
    BY <1>4, <2>4 DEF Order, h, u
  <2> QED
    BY <2>2, <2>3, <2>4
<1> QED
  BY <1>4, <1>5, <1>6, RangeOfConcat DEF s

\* Two lists of pools that differ in verdicts only.
SamePolicies(ps, qs) ==
  /\ Len(ps) = Len(qs)
  /\ \A k \in 1..Len(ps) : ps[k].mode = qs[k].mode /\ ps[k].targets = qs[k].targets

\* Forgetting verdicts keeps the policies.
LEMMA LiveKeeps ==
  ASSUME NEW ps \in Seq(PoolRow), NEW used
  PROVE  Live(ps, used) \in Seq(PoolRow) /\ SamePolicies(Live(ps, used), ps)
<1> DEFINE fresh == [t \in Target |-> Fresh]
           qs == Live(ps, used)
<1>1. fresh \in [Target -> Verdict]
  BY DEF Fresh, Verdict
<1> HIDE DEF fresh
<1>2. ASSUME NEW k \in 1..Len(ps)
      PROVE  qs[k] \in PoolRow /\ qs[k].mode = ps[k].mode /\ qs[k].targets = ps[k].targets
  <2>1. ps[k] \in PoolRow
    OBVIOUS
  <2>2. qs[k] = ps[k] \/ qs[k] = [ps[k] EXCEPT !.verdict = fresh]
    BY DEF Live, fresh
  <2>3. [ps[k] EXCEPT !.verdict = fresh] \in PoolRow
    BY <1>1, <2>1 DEF PoolRow
  <2> QED
    BY <2>1, <2>2, <2>3 DEF PoolRow
<1>3. Len(ps) \in Nat /\ qs = [k \in 1..Len(ps) |-> qs[k]]
  BY DEF Live
<1> HIDE DEF qs
<1>4. qs \in Seq(PoolRow) /\ Len(qs) = Len(ps)
  BY <1>2, <1>3
<1> QED
  BY <1>2, <1>4 DEF SamePolicies, qs

\* A verdict stays one.
LEMMA ObservedType ==
  ASSUME NEW v \in Verdict, NEW ok \in BOOLEAN
  PROVE  Observed(v, ok) \in Verdict
<1>1. v.streak \in Nat /\ v.healthy \in BOOLEAN
  BY DEF Verdict
<1>2. [healthy |-> ok, streak |-> 0] \in Verdict
  BY DEF Verdict
<1>3. [v EXCEPT !.streak = 0] \in Verdict /\ [v EXCEPT !.streak = @ + 1] \in Verdict
  BY <1>1 DEF Verdict
<1> QED
  BY <1>2, <1>3 DEF Observed

\* An observation in a pool keeps the policies.
LEMMA ObservationKeeps ==
  ASSUME NEW ps \in Seq(PoolRow), NEW k \in 1..Len(ps), NEW t \in Target,
         NEW ok \in BOOLEAN
  PROVE  LET qs == [ps EXCEPT ![k].verdict[t] = Observed(@, ok)]
         IN qs \in Seq(PoolRow) /\ SamePolicies(qs, ps)
<1> DEFINE v == Observed(ps[k].verdict[t], ok)
           w == [ps[k].verdict EXCEPT ![t] = v]
           row == [ps[k] EXCEPT !.verdict = w]
           qs == [ps EXCEPT ![k] = row]
<1>1. ps[k] \in PoolRow
  OBVIOUS
<1>2. v \in Verdict
  BY <1>1, ObservedType DEF PoolRow
<1>3. w \in [Target -> Verdict]
  <2> HIDE DEF v
  <2> QED
    BY <1>1, <1>2 DEF PoolRow
<1>4. row \in PoolRow /\ row.mode = ps[k].mode /\ row.targets = ps[k].targets
  <2> HIDE DEF w
  <2> QED
    BY <1>1, <1>3 DEF PoolRow
<1>5. qs \in Seq(PoolRow) /\ Len(qs) = Len(ps) /\ qs[k] = row
      /\ \A j \in 1..Len(ps) : j # k => qs[j] = ps[j]
  <2> HIDE DEF row
  <2> QED
    BY <1>4
<1>6. SamePolicies(qs, ps)
  <2> HIDE DEF row, qs
  <2> QED
    BY <1>4, <1>5 DEF SamePolicies
<1> QED
  BY <1>5, <1>6

\* What an observing step does to the pools.
LEMMA ObserveKeeps ==
  ASSUME pools \in Seq(PoolRow), NEW k \in 1..Len(pools), NEW t \in Target,
         NEW ok \in BOOLEAN, NEW user, NEW goesOn, Observe(k, t, ok, user, goesOn)
  PROVE  pools' \in Seq(PoolRow) /\ SamePolicies(pools', pools)
<1> DEFINE qs == [pools EXCEPT ![k].verdict[t] = Observed(@, ok)]
           used == {user} \cup IF goesOn THEN {k} ELSE {}
<1>1. qs \in Seq(PoolRow) /\ SamePolicies(qs, pools)
  BY ObservationKeeps
<1>2. pools' = Live(qs, used)
  BY DEF Observe
<1> HIDE DEF qs, used
<1>3. Live(qs, used) \in Seq(PoolRow) /\ SamePolicies(Live(qs, used), qs)
  BY <1>1, LiveKeeps
<1> QED
  BY <1>1, <1>2, <1>3 DEF SamePolicies

\* The first of a list of targets, and what is left of it.
LEMMA HeadAndTail ==
  ASSUME NEW s \in Seq(Target), s # <<>>
  PROVE  /\ Head(s) \in Target /\ Tail(s) \in Seq(Target)
         /\ Range(s) \subseteq {Head(s)} \cup Range(Tail(s))
         /\ Tail(s) = <<>> => Range(s) \subseteq {Head(s)}
<1>1. Head(s) \in Target /\ Tail(s) \in Seq(Target) /\ Len(s) \in Nat \ {0}
  OBVIOUS
<1>2. ASSUME NEW i \in DOMAIN s, s[i] # Head(s) PROVE s[i] \in Range(Tail(s))
  <2>1. i \in 2..Len(s)
    BY <1>2
  <2>2. i - 1 \in DOMAIN Tail(s) /\ Tail(s)[i - 1] = s[i]
    BY <2>1
  <2> QED
    BY <2>2 DEF Range
<1>3. Range(<<>>) = {}
  BY DEF Range
<1> QED
  BY <1>1, <1>2, <1>3 DEF Range

SelectorInv == SelectorTypeOK /\ DialKeepsSteady

\* Nobody dials or probes yet.
LEMMA SelectorInitial == SelectorInit => SelectorInv
<1> SUFFICES ASSUME SelectorInit PROVE SelectorInv
  OBVIOUS
<1>1. PICK p \in Policies : pools = <<Pool(p, [t \in Target |-> Fresh])>>
  BY DEF SelectorInit
<1>2. [t \in Target |-> Fresh] \in [Target -> Verdict]
  BY DEF Fresh, Verdict
<1>3. Pool(p, [t \in Target |-> Fresh]) \in PoolRow
  BY <1>2 DEF Pool, PoolRow
<1>4. pools \in Seq(PoolRow) /\ Len(pools) = 1
  BY <1>1, <1>3
<1>5. reach \in [Target -> Reach]
  BY DEF SelectorInit, Reach
<1>6. probe = [pool |-> 0, rest |-> <<>>] /\ dial = NoDial
  BY DEF SelectorInit
<1>7. SelectorTypeOK
  BY <1>4, <1>5, <1>6 DEF SelectorTypeOK, NoDial
<1>8. DialKeepsSteady
  BY <1>6 DEF DialKeepsSteady, NoDial
<1> QED
  BY <1>7, <1>8 DEF SelectorInv

\* A step that only looks after the pools keeps the invariant of the dial.
LEMMA PoolsOnly ==
  ASSUME SelectorInv, UNCHANGED <<reach, dial>>, pools' \in Seq(PoolRow),
         Len(pools') \in 1..(MaxApplies + 1), Len(pools) <= Len(pools'),
         \A k \in 1..Len(pools) : /\ pools'[k].mode = pools[k].mode
                                  /\ pools'[k].targets = pools[k].targets,
         probe' \in [pool : 0..Len(pools'), rest : Seq(Target)],
         probe'.rest # <<>> => probe'.pool # 0
  PROVE  SelectorInv'
<1> USE DEF SelectorInv
<1>1. SelectorTypeOK'
  <2>1. Len(pools) \in Nat /\ Len(pools') \in Nat
    BY DEF SelectorTypeOK
  <2>2. dial.pool \in 0..Len(pools')
    BY <2>1 DEF SelectorTypeOK
  <2> QED
    BY <2>2 DEF SelectorTypeOK
<1>2. DialKeepsSteady'
  <2>1. dial.rest # <<>> => dial.pool \in 1..Len(pools)
    BY DEF SelectorTypeOK, DialKeepsSteady
  <2> QED
    BY <2>1 DEF DialKeepsSteady
<1> QED
  BY <1>1, <1>2

\* Every step keeps the invariant of the selector.
LEMMA SelectorStep == SelectorInv /\ [SelectorNext]_selectorVars => SelectorInv'
<1> SUFFICES ASSUME SelectorTypeOK, DialKeepsSteady, [SelectorNext]_selectorVars
             PROVE  SelectorInv'
  BY DEF SelectorInv
<1> DEFINE n == Len(pools)
<1>1. /\ pools \in Seq(PoolRow) /\ n \in 1..(MaxApplies + 1) /\ n \in Nat
      /\ probe.rest \in Seq(Target) /\ dial.rest \in Seq(Target)
      /\ probe.pool \in 0..n /\ dial.pool \in 0..n
      /\ pools[n] \in PoolRow
  BY DEF SelectorTypeOK
<1>2. SelectorInv
  BY DEF SelectorInv
<1>3. ASSUME NEW p \in Policies, NEW known \in BOOLEAN, Apply(p, known) PROVE SelectorInv'
  <2> DEFINE prev == pools[n]
             verdict == IF known THEN Inherited(prev, p) ELSE [t \in Target |-> Fresh]
             qs == Append(pools, Pool(p, verdict))
             used == {probe.pool, dial.pool}
  <2>1. [t \in Target |-> Fresh] \in [Target -> Verdict]
    BY DEF Fresh, Verdict
  <2>2. Inherited(prev, p) \in [Target -> Verdict]
    <3>1. \A t \in Target : prev.verdict[t].healthy \in BOOLEAN
      BY <1>1 DEF PoolRow, Verdict
    <3>2. \A h \in BOOLEAN : [Fresh EXCEPT !.healthy = h] \in Verdict
      BY DEF Fresh, Verdict
    <3>3. Fresh \in Verdict
      BY DEF Fresh, Verdict
    <3> QED
      BY <3>1, <3>2, <3>3 DEF Inherited
  <2>3. verdict \in [Target -> Verdict]
    BY <2>1, <2>2
  <2>4. Pool(p, verdict) \in PoolRow
    <3> HIDE DEF verdict
    <3> QED
      BY <2>3 DEF Pool, PoolRow
  <2>5. pools' = Live(qs, used) /\ n <= MaxApplies /\ UNCHANGED <<reach, probe, dial>>
    BY <1>3 DEF Apply
  <2>6. /\ qs \in Seq(PoolRow) /\ Len(qs) = n + 1
        /\ \A k \in 1..n : qs[k] = pools[k]
    <3> HIDE DEF verdict
    <3> QED
      BY <1>1, <2>4
  <2> HIDE DEF qs, used
  <2>7. pools' \in Seq(PoolRow) /\ SamePolicies(pools', qs)
    BY <2>5, <2>6, LiveKeeps
  <2>8. /\ Len(pools') = n + 1
        /\ \A k \in 1..n : pools'[k].mode = pools[k].mode /\ pools'[k].targets = pools[k].targets
    BY <1>1, <2>6, <2>7 DEF SamePolicies
  <2>9. probe' \in [pool : 0..Len(pools'), rest : Seq(Target)]
    BY <1>1, <2>5, <2>8 DEF SelectorTypeOK
  <2>10. probe'.rest # <<>> => probe'.pool # 0
    BY <2>5 DEF DialKeepsSteady
  <2>11. Len(pools') \in 1..(MaxApplies + 1) /\ Len(pools) <= Len(pools')
    BY <1>1, <2>5, <2>8
  <2> QED
    BY <1>2, <2>5, <2>7, <2>8, <2>9, <2>10, <2>11, PoolsOnly
<1>4. ASSUME NEW t \in Target, NEW r \in Reach, Change(t, r) PROVE SelectorInv'
  <2>1. SelectorTypeOK'
    BY <1>4 DEF SelectorTypeOK, Change
  <2>2. /\ dial'.rest = dial.rest /\ dial'.pool = dial.pool /\ dial'.missed = dial.missed
        /\ dial'.steady = dial.steady \ {t}
    BY <1>4 DEF SelectorTypeOK, Change
  <2>3. \A u \in dial'.steady : reach'[u] = "up"
    BY <1>4, <2>2 DEF SelectorTypeOK, Change, DialKeepsSteady
  <2> QED
    BY <1>4, <2>1, <2>2, <2>3 DEF SelectorInv, DialKeepsSteady, Change
<1>5. CASE ProbeRound
  <2>1. /\ probe' = [pool |-> n, rest |-> pools[n].targets]
        /\ UNCHANGED <<pools, reach, dial>>
    BY <1>5 DEF ProbeRound
  <2>2. probe' \in [pool : 0..Len(pools'), rest : Seq(Target)] /\ probe'.pool # 0
    BY <1>1, <2>1 DEF PoolRow
  <2> QED
    BY <1>1, <1>2, <2>1, <2>2, PoolsOnly
<1>6. CASE ProbeOne
  <2> DEFINE t == Head(probe.rest)
             left == Tail(probe.rest)
  <2>1. /\ probe.rest # <<>> /\ UNCHANGED <<reach, dial>>
        /\ probe' = [pool |-> IF left = <<>> THEN 0 ELSE probe.pool, rest |-> left]
        /\ Observe(probe.pool, t, reach[t] # "down", dial.pool, left # <<>>)
    BY <1>6 DEF ProbeOne
  <2>2. t \in Target /\ left \in Seq(Target) /\ probe.pool \in 1..n
    BY <1>1, <2>1, HeadAndTail DEF DialKeepsSteady
  <2> HIDE DEF t, left
  <2>3. pools' \in Seq(PoolRow) /\ SamePolicies(pools', pools)
    BY <1>1, <2>1, <2>2, ObserveKeeps
  <2>4. probe' \in [pool : 0..Len(pools'), rest : Seq(Target)]
    BY <1>1, <2>1, <2>2, <2>3 DEF SamePolicies
  <2>5. probe'.rest # <<>> => probe'.pool # 0
    BY <1>1, <2>1, <2>2
  <2> QED
    BY <1>1, <1>2, <2>1, <2>3, <2>4, <2>5, PoolsOnly DEF SamePolicies
<1>7. CASE DialStart
  <2>1. PICK o \in Order(pools[n]) :
          dial' = [pool |-> n, rest |-> o, missed |-> {},
                   steady |-> {t \in Target : reach[t] = "up"}]
    BY <1>7 DEF DialStart
  <2>2. UNCHANGED <<pools, reach, probe>>
    BY <1>7 DEF DialStart
  <2>3. /\ o \in Seq(Target)
        /\ pools[n].mode # "manual_fixed" => Range(o) = Range(pools[n].targets)
    BY <1>1, OrderIsComplete
  <2>4. SelectorTypeOK'
    BY <1>1, <2>1, <2>2, <2>3 DEF SelectorTypeOK
  <2>5. DialKeepsSteady'
    BY <1>1, <2>1, <2>2, <2>3 DEF DialKeepsSteady
  <2> QED
    BY <2>4, <2>5 DEF SelectorInv
<1>8. ASSUME dial' = NoDial, UNCHANGED <<reach, probe>>,
             pools' \in Seq(PoolRow), SamePolicies(pools', pools)
      PROVE  SelectorInv'
  <2>1. SelectorTypeOK'
    BY <1>1, <1>8 DEF SelectorTypeOK, NoDial, SamePolicies
  <2>2. DialKeepsSteady'
    BY <1>8 DEF DialKeepsSteady, NoDial
  <2> QED
    BY <2>1, <2>2 DEF SelectorInv
<1>9. CASE DialOk
  <2> DEFINE t == Head(dial.rest)
  <2>1. /\ dial.rest # <<>> /\ dial' = NoDial /\ UNCHANGED <<reach, probe>>
        /\ Observe(dial.pool, t, TRUE, probe.pool, FALSE)
    BY <1>9 DEF DialOk
  <2>2. t \in Target /\ dial.pool \in 1..n
    BY <1>1, <2>1, HeadAndTail DEF DialKeepsSteady
  <2> HIDE DEF t
  <2>3. pools' \in Seq(PoolRow) /\ SamePolicies(pools', pools)
    BY <1>1, <2>1, <2>2, ObserveKeeps
  <2> QED
    BY <1>8, <2>1, <2>3
<1>10. CASE DialDenied
  BY <1>1, <1>8, <1>10, LiveKeeps DEF DialDenied
<1>11. CASE DialFails
  <2> DEFINE t == Head(dial.rest)
             left == Tail(dial.rest)
             row == pools[dial.pool]
             usable == IF row.mode = "manual_fixed" THEN {} ELSE Range(row.targets)
  <2>1. /\ dial.rest # <<>> /\ reach[t] # "up" /\ UNCHANGED <<reach, probe>>
        /\ Observe(dial.pool, t, FALSE, probe.pool, left # <<>>)
        /\ dial' = IF left # <<>> THEN [dial EXCEPT !.rest = left]
                   ELSE [NoDial EXCEPT !.missed = dial.steady \cap usable]
    BY <1>11 DEF DialFails
  <2>2. /\ t \in Target /\ left \in Seq(Target) /\ dial.pool \in 1..n
        /\ Range(dial.rest) \subseteq {t} \cup Range(left)
        /\ left = <<>> => Range(dial.rest) \subseteq {t}
    <3>1. dial.pool \in 1..n
      BY <1>1, <2>1 DEF DialKeepsSteady
    <3>2. dial.rest \in Seq(Target) /\ dial.rest # <<>>
      BY <1>1, <2>1
    <3> QED
      BY <3>1, <3>2, HeadAndTail
  <2>3. t \notin dial.steady
    BY <2>1 DEF DialKeepsSteady
  <2>4. row.mode = "manual_fixed" \/ dial.steady \cap Range(row.targets) \subseteq Range(dial.rest)
    BY <2>1 DEF DialKeepsSteady
  <2> HIDE DEF t, left
  <2>5. pools' \in Seq(PoolRow) /\ SamePolicies(pools', pools)
    BY <1>1, <2>1, <2>2, ObserveKeeps
  <2>6. CASE left = <<>>
    <3>1. dial.steady \cap usable = {}
      BY <2>2, <2>3, <2>4, <2>6
    <3>2. dial' = NoDial
      <4> HIDE DEF usable
      <4> QED
        BY <2>1, <2>6, <3>1 DEF NoDial
    <3> QED
      BY <1>8, <2>1, <2>5, <3>2
  <2>7. CASE left # <<>>
    <3>1. dial' = [dial EXCEPT !.rest = left]
      BY <2>1, <2>7
    <3>2. SelectorTypeOK'
      BY <1>1, <2>1, <2>2, <2>5, <3>1 DEF SelectorTypeOK, SamePolicies
    <3>3. /\ dial'.rest = left /\ dial'.pool = dial.pool /\ dial'.steady = dial.steady
          /\ dial'.missed = dial.missed
      BY <3>1 DEF SelectorTypeOK
    <3>4. pools'[dial.pool].mode = row.mode /\ pools'[dial.pool].targets = row.targets
      BY <1>1, <2>2, <2>5 DEF SamePolicies
    <3>5. row.mode = "manual_fixed" \/ dial.steady \cap Range(row.targets) \subseteq Range(left)
      BY <2>2, <2>3, <2>4
    <3>6. DialKeepsSteady'
      <4> HIDE DEF row
      <4> QED
        BY <2>1, <2>2, <3>3, <3>4, <3>5 DEF DialKeepsSteady
    <3> QED
      BY <3>2, <3>6 DEF SelectorInv
  <2> QED
    BY <2>6, <2>7
<1>12. CASE UNCHANGED selectorVars
  BY <1>2, <1>12 DEF SelectorInv, SelectorTypeOK, DialKeepsSteady, selectorVars
<1> QED
  BY <1>3, <1>4, <1>5, <1>6, <1>7, <1>9, <1>10, <1>11, <1>12 DEF SelectorNext

\* The invariant of the selector holds throughout.
LEMMA SelectorInvariant == SelectorSpec => []SelectorInv
BY SelectorInitial, SelectorStep, PTL DEF SelectorSpec

\* Type correctness of the selector.
THEOREM SelectorTypeCorrect == SelectorSpec => []SelectorTypeOK
<1>1. SelectorInv => SelectorTypeOK
  BY DEF SelectorInv
<1> QED
  BY <1>1, SelectorInvariant, PTL

\* A dial finds an egress that was up all the time, in any pool that is not
\* manual_fixed, with any number of targets, reloads and outcomes.
THEOREM SteadyEgressIsFound == SelectorSpec => []NoEgressOnlyIfNone
<1>1. SelectorInv => NoEgressOnlyIfNone
  BY DEF SelectorInv, DialKeepsSteady, NoEgressOnlyIfNone
<1> QED
  BY <1>1, SelectorInvariant, PTL
=============================================================================
