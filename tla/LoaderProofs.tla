---------------------------- MODULE LoaderProofs ----------------------------
(***************************************************************************)
(* Loader for any number of data plane processes, writes and restarts:     *)
(* what a process runs on is the active file whenever no tick is pending,  *)
(* except after the read/stat race NoMissedSwap exhibits.                  *)
(***************************************************************************)
EXTENDS Loader, TLAPS

USE LoaderAssumption

LoaderInv == TypeOK /\ StampOfRead

\* A step in an environment that may write whatever and as often as it likes.
OpenNext ==
  \/ \E s \in FileStates : AgentWrites(s)
  \/ \E l \in Loaders : Poll(l) \/ Reload(l) \/ Restart(l)

\* No process has started.
LEMMA LoaderInit == Init => LoaderInv
<1> SUFFICES ASSUME Init PROVE LoaderInv
  OBVIOUS
<1>1. TypeOK
  BY DEF Init, TypeOK, Versions, FileStates, Steps
<1>2. StampOfRead
  BY DEF Init, StampOfRead
<1> QED
  BY <1>1, <1>2 DEF LoaderInv

\* Every step keeps the invariant of the loaders.
LEMMA LoaderStep == LoaderInv /\ [OpenNext]_vars => LoaderInv'
<1> SUFFICES ASSUME TypeOK, StampOfRead, [OpenNext]_vars PROVE TypeOK' /\ StampOfRead'
  BY DEF LoaderInv
<1> USE DEF TypeOK, StampOfRead, Versions, FileStates, Steps, Go
<1>1. ASSUME NEW s \in FileStates, AgentWrites(s) PROVE TypeOK' /\ StampOfRead'
  <2>1. TypeOK'
    BY <1>1 DEF AgentWrites
  <2>2. \A l \in Loaders : raced'[l] <=> (raced[l] \/ pc[l] = "stat")
    BY <1>1, Zenon DEF AgentWrites
  <2>3. /\ UNCHANGED <<pc, cur, stamp, live>>
        /\ file'.version # 0
    BY <1>1 DEF AgentWrites
  <2>4. StampOfRead'
    BY <2>2, <2>3
  <2> QED
    BY <2>1, <2>4
<1>3. ASSUME NEW l \in Loaders, Attempt(l) PROVE TypeOK' /\ StampOfRead'
  BY <1>3 DEF Attempt
<1>4. ASSUME NEW l \in Loaders, Tick(l) PROVE TypeOK' /\ StampOfRead'
  BY <1>4 DEF Tick
<1>5. ASSUME NEW l \in Loaders, Read(l) PROVE TypeOK' /\ StampOfRead'
  <2>1. TypeOK'
    BY <1>5 DEF Read
  <2>2. \A k \in Loaders \ {l} : /\ pc'[k] = pc[k] /\ cur'[k] = cur[k]
                                 /\ raced'[k] = raced[k]
    BY <1>5 DEF Read
  <2>3. pc'[l] = "stat" /\ cur'[l] = file.version /\ file.state = "valid"
    BY <1>5 DEF Read
  <2>4. UNCHANGED <<file, stamp, live>>
    BY <1>5 DEF Read
  <2> QED
    BY <2>1, <2>2, <2>3, <2>4
<1>6. ASSUME NEW l \in Loaders, ReadError(l) PROVE TypeOK' /\ StampOfRead'
  BY <1>6 DEF ReadError
<1>7. ASSUME NEW l \in Loaders, StatAfter(l) PROVE TypeOK' /\ StampOfRead'
  BY <1>7 DEF StatAfter
<1>8. ASSUME NEW l \in Loaders, Notify(l) PROVE TypeOK' /\ StampOfRead'
  BY <1>8 DEF Notify
<1>9. ASSUME NEW l \in Loaders, Restart(l) PROVE TypeOK' /\ StampOfRead'
  BY <1>9 DEF Restart
<1>10. CASE UNCHANGED vars
  BY <1>10 DEF vars
<1> QED
  BY <1>1, <1>3, <1>4, <1>5, <1>6, <1>7, <1>8, <1>9, <1>10 DEF OpenNext, Poll, Reload

\* The invariant of the loaders holds throughout.
LEMMA LoaderInvariant == Spec => []LoaderInv
<1>1. Next => OpenNext
  BY DEF Next, OpenNext, Swap, Truncate, Remove, Writes, FileStates
<1> QED
  BY <1>1, LoaderInit, LoaderStep, PTL DEF Spec

\* Type correctness of the loaders.
THEOREM LoaderTypeCorrect == Spec => []TypeOK
<1>1. LoaderInv => TypeOK
  BY DEF LoaderInv
<1> QED
  BY <1>1, LoaderInvariant, PTL

\* Get returns a configuration in every process past WaitFor.
THEOREM GetIsNeverNil == Spec => []GetNeverNil
<1>1. LoaderInv => GetNeverNil
  BY DEF LoaderInv, StampOfRead, GetNeverNil
<1> QED
  BY <1>1, LoaderInvariant, PTL

\* A settled process that was not raced runs the active file.
THEOREM SettledRunsActiveFile == Spec => []SettledIsFresh
<1>1. LoaderInv => SettledIsFresh
  BY DEF LoaderInv, StampOfRead, SettledIsFresh, Settled
<1> QED
  BY <1>1, LoaderInvariant, PTL
=============================================================================
