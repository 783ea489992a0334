----------------------------- MODULE DataPlane -----------------------------
(***************************************************************************)
(* A node: the agent that applies revisions and the data plane processes   *)
(* that follow the file it makes active.  They share nothing but the path  *)
(* active/config.json, whose two halves the agent changes one by one: the  *)
(* symlink, and the file it leads to.                                      *)
(*                                                                         *)
(* The agent's steps are those of Agent, the processes' those of Loader;   *)
(* `trail' numbers what the path has led to, so that a Loader's versions   *)
(* have a revision and the file of a Loader is the agent's disk.  (When    *)
(* overlapping requests take the path back to a file it led to before, the *)
(* trail counts a change where the stamp may be the old one: a reload of   *)
(* the same revision that the code is spared.)                             *)
(***************************************************************************)
EXTENDS Agent, Sequences

CONSTANTS
  Loaders,    \* data plane processes
  MaxRestarts \* bound: restarts of a data plane process

ASSUME DataPlaneAssumption == MaxRestarts \in Nat

VARIABLES
  trail, \* what the path has led to, change by change
  ran,   \* history: every revision the agent has reported as applied
  at, cur, stamp, live, raced, restarts \* the processes: pc, cur, ... of Loader

loaderVars == <<at, cur, stamp, live, raced, restarts>>
planeVars == <<vars, trail, ran, loaderVars>>

\* What reading active/config.json finds.
Missing == [rev |-> None, state |-> "missing"]
Path ==
  IF active \notin Present THEN Missing
  ELSE [rev |-> active, state |-> IF content[active] = "complete" THEN "valid" ELSE "torn"]

File == [version |-> Len(trail), state |-> Path.state]

\* The agent takes the place of the Loader's environment and its bounded writes.
L == INSTANCE Loader WITH file <- File, pc <- at, MaxWrites <- 0

\* The node as the panel sees it.
M == INSTANCE ManagedNode
       WITH asked <- {rev[h] : h \in Handlers} \ {None}, applied <- mem.applied

DataPlaneTypeOK ==
  /\ trail \in Seq([rev : RevOrNone, state : L!FileStates])
  /\ Path = IF trail = <<>> THEN Missing ELSE trail[Len(trail)]

DataPlaneInit == Init /\ trail = <<>> /\ ran = {} /\ L!Init

\* A step of the agent.  When it changes what the path leads to, a process that
\* has read the file and not yet taken its stamp is raced.
AgentStep ==
  /\ Next
  /\ ran' = ran \cup ({mem'.applied} \ {None})
  /\ IF Path' = Path THEN UNCHANGED <<trail, raced>>
     ELSE /\ trail' = Append(trail, Path')
          /\ raced' = [l \in Loaders |-> raced[l] \/ at[l] = "stat"]
  /\ UNCHANGED <<at, cur, stamp, live, restarts>>

\* The steps of a process leave the agent alone.
PollStep(l) == UNCHANGED <<vars, trail, ran>> /\ L!Poll(l)
ReloadStep(l) == UNCHANGED <<vars, trail, ran>> /\ L!Reload(l)
RestartStep(l) == UNCHANGED <<vars, trail, ran>> /\ L!Restart(l)

DataPlaneNext ==
  \/ AgentStep
  \/ \E l \in Loaders : PollStep(l) \/ ReloadStep(l) \/ RestartStep(l)

\* The fairness of Loader.  The agent owes nobody a step.
DataPlaneFairness ==
  \A l \in Loaders : WF_planeVars(PollStep(l)) /\ WF_planeVars(ReloadStep(l))

DataPlaneSpec == DataPlaneInit /\ [][DataPlaneNext]_planeVars /\ DataPlaneFairness
-----------------------------------------------------------------------------
\* Properties.

\* The revision a process runs on.
Running(l) == IF live[l] = 0 THEN None ELSE trail[live[l]].rev

\* No process is ever given half a file or a revision that validate() refused,
\* in Get or in a subscriber, however its reads fall between the system calls of
\* overlapping, failing and interrupted requests.
RunsWholeAccepted ==
  \A l \in Loaders : \A v \in {cur[l], live[l]} \ {0} :
    trail[v].state = "valid" /\ trail[v].rev \notin Rejected

\* What the agent reports is what runs: between requests, after one undisturbed
\* application, a process that has no reload ahead of it and was not raced runs
\* the applied revision.
ReportedIsRunning ==
  Idle /\ clean >= 1 =>
    \A l \in Loaders : L!Settled(l) /\ ~raced[l] => Running(l) = mem.applied

\* ... and every process comes to run it, whatever it had to run before, unless
\* it is raced.
ReportedComesToRun ==
  \A l \in Loaders :
    <>[](Idle /\ clean >= 1 => Running(l) = mem.applied \/ raced[l])

\* The node keeps the contract of ManagedNode: through overlapping requests, late
\* ones, failed saves and crashes, the applied revision becomes one that is being
\* pushed and was not refused, or goes back to one that had been applied before.
KeepsContract == M!NodeSpec
=============================================================================
