-------------------------------- MODULE Jobs --------------------------------
(***************************************************************************)
(* The panel's job queue (panel/internal/jobs/runner.go): a table of jobs  *)
(* with leases, retries and backoff, and one worker per panel process.     *)
(*                                                                         *)
(* A worker leases a job in one statement, executes it outside any         *)
(* transaction, and writes the outcome by job id alone: neither the owner  *)
(* nor the lease is checked again.  A lease can run out while its worker   *)
(* is still executing, the process can die anywhere, and the writing of    *)
(* the outcome can fail unnoticed.                                         *)
(*                                                                         *)
(* A scheduled job is identified with its dedupe key, which names a rule   *)
(* set or a service and the minute it was scheduled in.                    *)
(***************************************************************************)
EXTENDS Integers, FiniteSets

CONSTANTS
  Job,          \* dedupe keys
  Worker,       \* panel processes
  MaxAttempts,  \* jobs.max_attempts
  MaxJobFaults, \* bound: crashes and lost outcomes
  NoJob         \* what an idle worker holds

ASSUME JobsAssumption ==
  /\ MaxAttempts \in Nat \ {0} /\ MaxJobFaults \in Nat
  /\ NoJob \notin Job

VARIABLES
  jobState, \* jobs.state, "absent" when there is no such row
  attempts, \* jobs.attempts
  due,      \* run_at <= now()
  expired,  \* lease_until < now()
  past,     \* the minute in the key is over
  work,     \* what each worker holds: the job and the attempts it was told
  overrun,  \* history: a lease ran out under a worker still executing
  runs,     \* history: executions of each job that succeeded, up to 2
  jobFaults \* crashes and lost outcomes so far

jobsVars == <<jobState, attempts, due, expired, past, work, overrun, runs, jobFaults>>

WorkerIdle == [step |-> "idle", job |-> NoJob, attempts |-> 0]
Holders(j) == {w \in Worker : work[w].job = j}

JobsTypeOK ==
  /\ jobState \in [Job -> {"absent", "queued", "running", "done", "failed"}]
  /\ attempts \in [Job -> Nat]
  /\ due \in [Job -> BOOLEAN] /\ expired \in [Job -> BOOLEAN] /\ past \in [Job -> BOOLEAN]
  /\ work \in [Worker -> [step : {"idle", "execute", "ok", "error"},
                          job : Job \cup {NoJob}, attempts : Nat]]
  /\ overrun \in BOOLEAN
  /\ runs \in [Job -> 0..2]
  /\ jobFaults \in 0..MaxJobFaults
  /\ \A w \in Worker : work[w].step = "idle" <=> work[w].job = NoJob

JobsInit ==
  /\ jobState = [j \in Job |-> "absent"]
  /\ attempts = [j \in Job |-> 0]
  /\ due = [j \in Job |-> FALSE]
  /\ expired = [j \in Job |-> FALSE]
  /\ past = [j \in Job |-> FALSE]
  /\ work = [w \in Worker |-> WorkerIdle]
  /\ overrun = FALSE
  /\ runs = [j \in Job |-> 0]
  /\ jobFaults = 0
-----------------------------------------------------------------------------
\* Mutant: the insert replaces what the key already names.
EnqueueAgain(j) ==
  /\ ~past[j]
  /\ jobState' = [jobState EXCEPT ![j] = "queued"]
  /\ due' = [due EXCEPT ![j] = TRUE]
  /\ UNCHANGED <<attempts, expired, past, work, overrun, runs, jobFaults>>

\* scheduleRuleFetches and scheduleProbes, every tick of every process within
\* the key's minute; the unique key lets only the first insert through.
Enqueue(j) ==
  /\ ~past[j]
  /\ jobState[j] = "absent"
  /\ jobState' = [jobState EXCEPT ![j] = "queued"]
  /\ due' = [due EXCEPT ![j] = TRUE]
  /\ UNCHANGED <<attempts, expired, past, work, overrun, runs, jobFaults>>

MinuteEnds(j) ==
  /\ ~past[j]
  /\ past' = [past EXCEPT ![j] = TRUE]
  /\ UNCHANGED <<jobState, attempts, due, expired, work, overrun, runs, jobFaults>>

\* Mutant: only queued jobs are picked up.
LeasableQueued(j) == jobState[j] = "queued" /\ due[j]

\* Mutant: a running job is picked up whatever its lease.
LeasableRunning(j) == \/ jobState[j] = "queued" /\ due[j]
                      \/ jobState[j] = "running"

\* The WHERE of runOnce's SELECT.
Leasable(j) == \/ jobState[j] = "queued" /\ due[j]
               \/ jobState[j] = "running" /\ expired[j]

\* runOnce: the lease, one statement with a row lock.
Lease(w, j) ==
  /\ work[w].step = "idle"
  /\ Leasable(j)
  /\ jobState' = [jobState EXCEPT ![j] = "running"]
  /\ attempts' = [attempts EXCEPT ![j] = @ + 1]
  /\ expired' = [expired EXCEPT ![j] = FALSE]
  /\ work' = [work EXCEPT ![w] = [step |-> "execute", job |-> j, attempts |-> attempts[j] + 1]]
  /\ UNCHANGED <<due, past, overrun, runs, jobFaults>>

\* execute: the fetch or the probe succeeds or fails.
Execute(w) ==
  LET j == work[w].job
  IN /\ work[w].step = "execute"
     /\ \/ /\ work' = [work EXCEPT ![w].step = "ok"]
           /\ runs' = [runs EXCEPT ![j] = IF @ < 2 THEN @ + 1 ELSE @]
        \/ /\ work' = [work EXCEPT ![w].step = "error"]
           /\ UNCHANGED runs
     /\ UNCHANGED <<jobState, attempts, due, expired, past, overrun, jobFaults>>

\* Mutant: one attempt too many.
GivesUpLate(n) == n > MaxAttempts

\* The last attempt allowed has failed.
GivesUp(n) == n >= MaxAttempts

\* runOnce: the outcome, by job id.  No row is there to update when retention
\* has deleted a job that another worker had finished.
Finish(w) ==
  LET j == work[w].job
      outcome == IF work[w].step = "ok" THEN "done"
                 ELSE IF GivesUp(work[w].attempts) THEN "failed" ELSE "queued"
  IN /\ work[w].step \in {"ok", "error"}
     /\ IF jobState[j] = "absent"
        THEN UNCHANGED <<jobState, due, expired>>
        ELSE /\ jobState' = [jobState EXCEPT ![j] = outcome]
             /\ due' = [due EXCEPT ![j] = @ /\ outcome = "done"]
             /\ expired' = [expired EXCEPT ![j] = FALSE]
     /\ work' = [work EXCEPT ![w] = WorkerIdle]
     /\ UNCHANGED <<attempts, past, overrun, runs, jobFaults>>

\* The process is killed while it holds a job, or the statement that writes the
\* outcome fails: its error is ignored.
Lost(w) ==
  /\ work[w].step # "idle"
  /\ jobFaults < MaxJobFaults /\ jobFaults' = jobFaults + 1
  /\ work' = [work EXCEPT ![w] = WorkerIdle]
  /\ UNCHANGED <<jobState, attempts, due, expired, past, overrun, runs>>

\* Five minutes pass, whether or not the worker is still executing.
LeaseExpires(j) ==
  /\ jobState[j] = "running" /\ ~expired[j]
  /\ expired' = [expired EXCEPT ![j] = TRUE]
  /\ overrun' = (overrun \/ Holders(j) # {})
  /\ UNCHANGED <<jobState, attempts, due, past, work, runs, jobFaults>>

BackoffEnds(j) ==
  /\ jobState[j] = "queued" /\ ~due[j]
  /\ due' = [due EXCEPT ![j] = TRUE]
  /\ UNCHANGED <<jobState, attempts, expired, past, work, overrun, runs, jobFaults>>

\* retention: a day after it finished; a failed job stays for ever.
Retention(j) ==
  /\ jobState[j] = "done" /\ past[j]
  /\ jobState' = [jobState EXCEPT ![j] = "absent"]
  /\ attempts' = [attempts EXCEPT ![j] = 0]
  /\ due' = [due EXCEPT ![j] = FALSE]
  /\ UNCHANGED <<expired, past, work, overrun, runs, jobFaults>>

\* Every job is settled or was never scheduled, and its key cannot return.
Finished ==
  /\ \A j \in Job : past[j] /\ jobState[j] \in {"absent", "failed"}
  /\ \A w \in Worker : work[w] = WorkerIdle
  /\ UNCHANGED jobsVars

JobsNext ==
  \/ \E j \in Job : \/ Enqueue(j) \/ MinuteEnds(j) \/ LeaseExpires(j)
                    \/ BackoffEnds(j) \/ Retention(j)
  \/ \E w \in Worker, j \in Job : Lease(w, j)
  \/ \E w \in Worker : Execute(w) \/ Finish(w) \/ Lost(w)
  \/ Finished

\* Workers keep ticking and their calls return (every fetch and every dial has
\* a timeout), and time passes.  The scheduler owes no job.
JobsFairness ==
  /\ \A w \in Worker : WF_jobsVars(Execute(w)) /\ WF_jobsVars(Finish(w))
  /\ WF_jobsVars(\E w \in Worker, j \in Job : Lease(w, j))
  /\ \A j \in Job : WF_jobsVars(LeaseExpires(j)) /\ WF_jobsVars(BackoffEnds(j))

JobsSpec == JobsInit /\ [][JobsNext]_jobsVars /\ JobsFairness
-----------------------------------------------------------------------------
\* Properties.

\* As long as no lease runs out under a live worker, a job is never executed by
\* two workers at once, however many panels, crashes and retries there are.
Exclusive == ~overrun => \A j \in Job : Cardinality(Holders(j)) <= 1

\* ... and the success of a job is final: one that is done is never run again,
\* so a scheduled fetch or probe succeeds at most once per minute key unless a
\* crash or a lost outcome hid its success.
SucceedsOnce == ~overrun /\ jobFaults = 0 => \A j \in Job : runs[j] <= 1

\* A job that keeps failing is attempted MaxAttempts times and no more; only a
\* crash, a lost outcome or an overrun costs an attempt beyond that, and each
\* crash at most one.
AttemptsBounded == ~overrun => \A j \in Job : attempts[j] <= MaxAttempts + jobFaults

\* Every scheduled job is eventually settled: a crashed panel does not block
\* the queue, because an expired lease returns the job to work.
Settles ==
  \A j \in Job : jobState[j] = "queued" ~> jobState[j] \in {"done", "failed", "absent"}
=============================================================================
