----------------------------- MODULE JobsProofs -----------------------------
(***************************************************************************)
(* The job queue for any number of jobs, panel processes, crashes and lost *)
(* outcomes: while no lease runs out under a live worker a job has one     *)
(* holder, succeeds once, and is not attempted beyond its limit.           *)
(***************************************************************************)
EXTENDS Jobs, FiniteSetTheorems, TLAPS

USE JobsAssumption

\* The lease is what excludes: a worker holds only a job that is running with
\* a lease in force, and nobody else does.
LeaseExcludes ==
  ~overrun =>
    /\ \A w \in Worker : work[w].job # NoJob => /\ jobState[work[w].job] = "running"
                                               /\ ~expired[work[w].job]
                                               /\ work[w].attempts = attempts[work[w].job]
    /\ \A v, w \in Worker : work[v].job # NoJob /\ work[v].job = work[w].job => v = w

\* What a success leaves until the job is done: without faults it is in the
\* hands of the worker that had it.
SuccessHeld ==
  ~overrun /\ jobFaults = 0 =>
    \A j \in Job :
      /\ runs[j] <= 1
      /\ jobState[j] = "running" => \E w \in Worker : work[w].job = j
      /\ jobState[j] = "queued" => runs[j] = 0
      /\ jobState[j] = "absent" => past[j] \/ runs[j] = 0
      /\ \A w \in Worker : work[w].job = j => (work[w].step = "ok" <=> runs[j] = 1)

\* The attempts of a job that may still be leased, of one that runs, and of any.
AttemptsInv ==
  ~overrun =>
    \A j \in Job :
      /\ attempts[j] <= MaxAttempts + jobFaults
      /\ jobState[j] \in {"absent", "queued"} => attempts[j] < MaxAttempts + jobFaults
      /\ jobState[j] = "running" /\ (\A w \in Worker : work[w].job # j) =>
           attempts[j] < MaxAttempts + jobFaults

JobsInv == JobsTypeOK /\ LeaseExcludes /\ SuccessHeld /\ AttemptsInv
-----------------------------------------------------------------------------
\* The empty queue.
LEMMA QueueInit == JobsInit => JobsInv
<1> SUFFICES ASSUME JobsInit PROVE JobsInv
  OBVIOUS
<1>1. JobsTypeOK
  <2>1. /\ jobState \in [Job -> {"absent", "queued", "running", "done", "failed"}]
        /\ attempts \in [Job -> Nat] /\ runs \in [Job -> 0..2] /\ jobFaults \in 0..MaxJobFaults
    BY DEF JobsInit
  <2>2. /\ due \in [Job -> BOOLEAN] /\ expired \in [Job -> BOOLEAN] /\ past \in [Job -> BOOLEAN]
        /\ overrun \in BOOLEAN
    BY DEF JobsInit
  <2>3. /\ work \in [Worker -> [step : {"idle", "execute", "ok", "error"},
                                job : Job \cup {NoJob}, attempts : Nat]]
        /\ \A w \in Worker : work[w].step = "idle" <=> work[w].job = NoJob
    BY DEF JobsInit, WorkerIdle
  <2> QED
    BY <2>1, <2>2, <2>3 DEF JobsTypeOK
<1>2. LeaseExcludes /\ SuccessHeld /\ AttemptsInv
  BY DEF JobsInit, LeaseExcludes, SuccessHeld, AttemptsInv, WorkerIdle
<1> QED
  BY <1>1, <1>2 DEF JobsInv

\* Type correctness.
LEMMA TypeStep == JobsTypeOK /\ [JobsNext]_jobsVars => JobsTypeOK'
<1> SUFFICES ASSUME JobsTypeOK, [JobsNext]_jobsVars PROVE JobsTypeOK'
  OBVIOUS
<1> USE DEF JobsTypeOK, WorkerIdle
<1>1. ASSUME NEW j \in Job, Enqueue(j) PROVE JobsTypeOK'
  BY <1>1 DEF Enqueue
<1>2. ASSUME NEW j \in Job, MinuteEnds(j) PROVE JobsTypeOK'
  BY <1>2 DEF MinuteEnds
<1>3. ASSUME NEW j \in Job, LeaseExpires(j) PROVE JobsTypeOK'
  BY <1>3 DEF LeaseExpires
<1>4. ASSUME NEW j \in Job, BackoffEnds(j) PROVE JobsTypeOK'
  BY <1>4 DEF BackoffEnds
<1>5. ASSUME NEW j \in Job, Retention(j) PROVE JobsTypeOK'
  BY <1>5 DEF Retention
<1>6. ASSUME NEW w \in Worker, NEW j \in Job, Lease(w, j) PROVE JobsTypeOK'
  BY <1>6 DEF Lease, Leasable
<1>7. ASSUME NEW w \in Worker, Execute(w) PROVE JobsTypeOK'
  BY <1>7 DEF Execute
<1>8. ASSUME NEW w \in Worker, Finish(w) PROVE JobsTypeOK'
  BY <1>8 DEF Finish, GivesUp
<1>9. ASSUME NEW w \in Worker, Lost(w) PROVE JobsTypeOK'
  BY <1>9 DEF Lost
<1>10. CASE UNCHANGED jobsVars
  BY <1>10 DEF jobsVars
<1> QED
  BY <1>1, <1>2, <1>3, <1>4, <1>5, <1>6, <1>7, <1>8, <1>9, <1>10 DEF JobsNext, Finished

\* A worker that takes a job takes it from the queue or from a lease nobody lives on.
LEMMA LeaseStep == JobsTypeOK /\ LeaseExcludes /\ [JobsNext]_jobsVars => LeaseExcludes'
<1> SUFFICES ASSUME JobsTypeOK, LeaseExcludes, [JobsNext]_jobsVars PROVE LeaseExcludes'
  OBVIOUS
<1> USE DEF JobsTypeOK, LeaseExcludes, WorkerIdle, Holders
<1>1. ASSUME NEW j \in Job, Enqueue(j) PROVE LeaseExcludes'
  BY <1>1 DEF Enqueue
<1>2. ASSUME NEW j \in Job, MinuteEnds(j) PROVE LeaseExcludes'
  BY <1>2 DEF MinuteEnds
<1>3. ASSUME NEW j \in Job, LeaseExpires(j) PROVE LeaseExcludes'
  BY <1>3 DEF LeaseExpires
<1>4. ASSUME NEW j \in Job, BackoffEnds(j) PROVE LeaseExcludes'
  BY <1>4 DEF BackoffEnds
<1>5. ASSUME NEW j \in Job, Retention(j) PROVE LeaseExcludes'
  BY <1>5 DEF Retention
<1>6. ASSUME NEW w \in Worker, NEW j \in Job, Lease(w, j) PROVE LeaseExcludes'
  BY <1>6 DEF Lease, Leasable
<1>7. ASSUME NEW w \in Worker, Execute(w) PROVE LeaseExcludes'
  <2>1. \A v \in Worker : work'[v].job = work[v].job /\ work'[v].attempts = work[v].attempts
    BY <1>7 DEF Execute
  <2>2. UNCHANGED <<jobState, attempts, expired, overrun>>
    BY <1>7 DEF Execute
  <2> QED
    BY <2>1, <2>2
<1>8. ASSUME NEW w \in Worker, Finish(w) PROVE LeaseExcludes'
  BY <1>8 DEF Finish, GivesUp
<1>9. ASSUME NEW w \in Worker, Lost(w) PROVE LeaseExcludes'
  BY <1>9 DEF Lost
<1>10. CASE UNCHANGED jobsVars
  BY <1>10 DEF jobsVars
<1> QED
  BY <1>1, <1>2, <1>3, <1>4, <1>5, <1>6, <1>7, <1>8, <1>9, <1>10 DEF JobsNext, Finished

\* A success stays with its worker until the job is done.
LEMMA SuccessStep == JobsTypeOK /\ LeaseExcludes /\ SuccessHeld /\ [JobsNext]_jobsVars => SuccessHeld'
<1> SUFFICES ASSUME JobsTypeOK, LeaseExcludes, SuccessHeld, [JobsNext]_jobsVars PROVE SuccessHeld'
  OBVIOUS
<1> USE DEF JobsTypeOK, LeaseExcludes, SuccessHeld, WorkerIdle, Holders
<1>1. ASSUME NEW j \in Job, Enqueue(j) PROVE SuccessHeld'
  BY <1>1 DEF Enqueue
<1>2. ASSUME NEW j \in Job, MinuteEnds(j) PROVE SuccessHeld'
  BY <1>2 DEF MinuteEnds
<1>3. ASSUME NEW j \in Job, LeaseExpires(j) PROVE SuccessHeld'
  BY <1>3 DEF LeaseExpires
<1>4. ASSUME NEW j \in Job, BackoffEnds(j) PROVE SuccessHeld'
  BY <1>4 DEF BackoffEnds
<1>5. ASSUME NEW j \in Job, Retention(j) PROVE SuccessHeld'
  BY <1>5 DEF Retention
<1>6. ASSUME NEW w \in Worker, NEW j \in Job, Lease(w, j) PROVE SuccessHeld'
  BY <1>6 DEF Lease, Leasable
<1>7. ASSUME NEW w \in Worker, Execute(w) PROVE SuccessHeld'
  BY <1>7 DEF Execute
<1>8. ASSUME NEW w \in Worker, Finish(w) PROVE SuccessHeld'
  BY <1>8 DEF Finish, GivesUp
<1>9. ASSUME NEW w \in Worker, Lost(w) PROVE SuccessHeld'
  BY <1>9 DEF Lost
<1>10. CASE UNCHANGED jobsVars
  BY <1>10 DEF jobsVars
<1> QED
  BY <1>1, <1>2, <1>3, <1>4, <1>5, <1>6, <1>7, <1>8, <1>9, <1>10 DEF JobsNext, Finished

\* Every attempt ends in an outcome that counts it, or costs a fault.
LEMMA AttemptsStep == JobsTypeOK /\ LeaseExcludes /\ AttemptsInv /\ [JobsNext]_jobsVars => AttemptsInv'
<1> SUFFICES ASSUME JobsTypeOK, LeaseExcludes, AttemptsInv, [JobsNext]_jobsVars PROVE AttemptsInv'
  OBVIOUS
<1> USE DEF JobsTypeOK, LeaseExcludes, AttemptsInv, WorkerIdle, Holders
<1>1. ASSUME NEW j \in Job, Enqueue(j) PROVE AttemptsInv'
  BY <1>1 DEF Enqueue
<1>2. ASSUME NEW j \in Job, MinuteEnds(j) PROVE AttemptsInv'
  BY <1>2 DEF MinuteEnds
<1>3. ASSUME NEW j \in Job, LeaseExpires(j) PROVE AttemptsInv'
  BY <1>3 DEF LeaseExpires
<1>4. ASSUME NEW j \in Job, BackoffEnds(j) PROVE AttemptsInv'
  BY <1>4 DEF BackoffEnds
<1>5. ASSUME NEW j \in Job, Retention(j) PROVE AttemptsInv'
  BY <1>5 DEF Retention
<1>6. ASSUME NEW w \in Worker, NEW j \in Job, Lease(w, j) PROVE AttemptsInv'
  BY <1>6 DEF Lease, Leasable
<1>7. ASSUME NEW w \in Worker, Execute(w) PROVE AttemptsInv'
  BY <1>7 DEF Execute
<1>8. ASSUME NEW w \in Worker, Finish(w) PROVE AttemptsInv'
  BY <1>8 DEF Finish, GivesUp
<1>9. ASSUME NEW w \in Worker, Lost(w) PROVE AttemptsInv'
  BY <1>9 DEF Lost
<1>10. CASE UNCHANGED jobsVars
  BY <1>10 DEF jobsVars
<1> QED
  BY <1>1, <1>2, <1>3, <1>4, <1>5, <1>6, <1>7, <1>8, <1>9, <1>10 DEF JobsNext, Finished
-----------------------------------------------------------------------------
\* JobsInv holds throughout.
LEMMA JobsInvariant == JobsSpec => []JobsInv
<1>1. JobsInv /\ [JobsNext]_jobsVars => JobsInv'
  BY TypeStep, LeaseStep, SuccessStep, AttemptsStep DEF JobsInv
<1> QED
  BY QueueInit, <1>1, PTL DEF JobsSpec

\* A set no two elements of which differ has at most one.
LEMMA AtMostOneElement ==
  ASSUME NEW S, \A x, y \in S : x = y
  PROVE  Cardinality(S) <= 1
<1>1. CASE S = {}
  BY <1>1, FS_EmptySet
<1>2. CASE S # {}
  <2>1. PICK x \in S : S = {x}
    BY <1>2
  <2> QED
    BY <2>1, FS_Singleton
<1> QED
  BY <1>1, <1>2

\* As long as no lease runs out under a live worker, runOnce never gives a job
\* to two workers at once, for any number of panels, crashes and retries.
THEOREM JobIsExclusive == JobsSpec => []Exclusive
<1>1. JobsInv => Exclusive
  <2> SUFFICES ASSUME JobsInv, ~overrun, NEW j \in Job
               PROVE  Cardinality(Holders(j)) <= 1
    BY DEF Exclusive
  <2>1. \A v, w \in Holders(j) : v = w
    BY DEF JobsInv, LeaseExcludes, Holders
  <2> QED
    BY <2>1, AtMostOneElement
<1> QED
  BY <1>1, JobsInvariant, PTL

\* ... and without faults a scheduled fetch or probe succeeds at most once for
\* its key: done is final, and a job in progress is not leased again.
THEOREM JobSucceedsOnce == JobsSpec => []SucceedsOnce
<1>1. JobsInv => SucceedsOnce
  BY DEF JobsInv, SuccessHeld, SucceedsOnce
<1> QED
  BY <1>1, JobsInvariant, PTL

\* The retry limit of runOnce holds for every limit and every number of faults:
\* a crash or a lost outcome costs at most one attempt beyond it.
THEOREM JobAttemptsBounded == JobsSpec => []AttemptsBounded
<1>1. JobsInv => AttemptsBounded
  BY DEF JobsInv, AttemptsInv, AttemptsBounded
<1> QED
  BY <1>1, JobsInvariant, PTL
=============================================================================
