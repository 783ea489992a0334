---------------------------- MODULE MCBackground ----------------------------
(***************************************************************************)
(* What comes to pass by itself: the processes of a node follow its agent, *)
(* and the panel works off its jobs.  The two share no state; every        *)
(* behaviour is one of a single part, and the other stays as it begins.    *)
(***************************************************************************)
EXTENDS DataPlane, Jobs

VARIABLE part

backgroundVars == <<part, planeVars, jobsVars>>

BackgroundInit == part \in {"node", "jobs"} /\ DataPlaneInit /\ JobsInit

InNode == part = "node" /\ UNCHANGED <<part, jobsVars>>
InJobs == part = "jobs" /\ UNCHANGED <<part, planeVars>>

\* Bound: two jobs without faults, or one with them.
FaultsAlone == jobFaults' = 0 \/ Cardinality({j \in Job : jobState'[j] # "absent"}) <= 1

BackgroundNext ==
  \/ InNode /\ DataPlaneNext
  \/ InJobs /\ JobsNext /\ FaultsAlone

\* The fairness of the parts, each while it is the one that moves.
BackgroundFairness ==
  /\ \A l \in Loaders : /\ WF_planeVars(InNode /\ PollStep(l))
                        /\ WF_planeVars(InNode /\ ReloadStep(l))
  /\ \A w \in Worker : /\ WF_jobsVars(InJobs /\ Execute(w))
                       /\ WF_jobsVars(InJobs /\ Finish(w))
  /\ WF_jobsVars(InJobs /\ \E w \in Worker, j \in Job : Lease(w, j))
  /\ \A j \in Job : /\ WF_jobsVars(InJobs /\ LeaseExpires(j))
                    /\ WF_jobsVars(InJobs /\ BackoffEnds(j))

BackgroundSpec == BackgroundInit /\ [][BackgroundNext]_backgroundVars /\ BackgroundFairness
=============================================================================
