------------------------------ MODULE Rollout ------------------------------
(***************************************************************************)
(* The panel's rollout of a revision (panel/internal/api/revisions.go and  *)
(* dispatch.go).                                                           *)
(*                                                                         *)
(* startRollout records one deployment per node and the node's desired     *)
(* revision in one transaction, then pushes to all nodes from a detached   *)
(* goroutine.  Independently the poll loop asks every node what it runs    *)
(* and re-pushes the desired revision (as it was when the round began) to  *)
(* a node that runs something else.  pushOne records the outcome, and a    *)
(* successful one counts the reports and promotes the revision, one SQL    *)
(* statement at a time.  All of these run concurrently with each other and *)
(* with the operator's next deploy or rollback.                            *)
(*                                                                         *)
(* A node is what Agent provides: it applies a pushed revision or refuses  *)
(* it, and reports the one it applied.  Calls may fail before or after     *)
(* they took effect; the panel process may be restarted, and so may an     *)
(* agent, which then may report an earlier revision.                       *)
(***************************************************************************)
EXTENDS Integers, FiniteSets, Sequences

CONSTANTS
  Node,       \* the nodes every revision has an artifact for; each has an address
              \* and an identity and is not disabled, so that every round polls it
  Rev,        \* compiled revisions
  None,       \* no revision
  Refused,    \* pairs <<r, n>>: validate() on n refuses the artifact of r
  CanaryOf,   \* CanaryOf[n]: the wave-0 node of n's role
  FanOut,     \* pushFanOut: how many nodes one forEachNode serves at once
  MaxDeploys, \* bound: calls of startRollout
  MaxFaults   \* bound: failed calls and restarts

ASSUME RolloutAssumption ==
  /\ None \notin Rev
  /\ Refused \subseteq Rev \X Node
  /\ CanaryOf \in [Node -> Node]
  /\ FanOut \in Nat \ {0}
  /\ MaxDeploys \in Nat /\ MaxFaults \in Nat

VARIABLES
  state,      \* revisions.state
  activated,  \* revisions by activated_at, oldest first
  depl,       \* node_deployments.state by revision and node
  desired,    \* nodes.desired_revision_id
  reported,   \* nodes.applied_revision_id
  running,    \* what each node's agent has applied
  proc,       \* the goroutines: pushRevision's, one per node, and the poller's
  rolling,    \* the revision rollbackRevision is about to mark rolled back
  deploys,    \* startRollout calls so far
  faults,     \* failures so far
  ran         \* history: ran[n] is every revision n ever applied

db == <<state, activated, depl, desired, reported>>
vars == <<db, running, proc, rolling, deploys, faults, ran>>

RevOrNone == Rev \cup {None}
RevStates == {"compiled", "deploying", "active", "partially_active",
              "validation_failed", "superseded", "rolled_back"}
DeplStates == {"none", "pending", "applied", "failed"}
Poller == 0
Procs == (0..MaxDeploys) \X Node
Steps == {"idle", "ask", "send", "record", "count", "promote", "supersede"}
Verdicts == {"none", "ok", "error", "active", "partially_active", "validation_failed"}

\* A goroutine's locals: the revision it is about and the outcome of a push or
\* of a count.
Idle == [step |-> "idle", rev |-> None, verdict |-> "none"]

TypeOK ==
  /\ state \in [Rev -> RevStates]
  /\ activated \in Seq(Rev)
  /\ depl \in [Rev -> [Node -> DeplStates]]
  /\ desired \in [Node -> RevOrNone]
  /\ reported \in [Node -> RevOrNone]
  /\ running \in [Node -> RevOrNone]
  /\ proc \in [Procs -> [step : Steps, rev : RevOrNone, verdict : Verdicts]]
  /\ rolling \in RevOrNone
  /\ deploys \in 0..MaxDeploys /\ faults \in 0..MaxFaults
  /\ ran \in [Node -> SUBSET Rev]
  \* at most one first activation per revision
  /\ \A i, j \in 1..Len(activated) : activated[i] = activated[j] => i = j

Init ==
  /\ state = [r \in Rev |-> "compiled"]
  /\ activated = <<>>
  /\ depl = [r \in Rev |-> [n \in Node |-> "none"]]
  /\ desired = [n \in Node |-> None]
  /\ reported = [n \in Node |-> None]
  /\ running = [n \in Node |-> None]
  /\ proc = [p \in Procs |-> Idle]
  /\ rolling = None
  /\ deploys = 0 /\ faults = 0
  /\ ran = [n \in Node |-> {}]
-----------------------------------------------------------------------------
\* startRollout: one transaction, then `go pushRevision'.
StartRollout(r) ==
  /\ deploys < MaxDeploys
  /\ state[r] # "validation_failed"
  /\ deploys' = deploys + 1
  /\ depl' = [depl EXCEPT ![r] = [n \in Node |-> "pending"]]
  /\ desired' = [n \in Node |-> r]
  /\ state' = [state EXCEPT ![r] = "deploying"]
  /\ proc' = [p \in Procs |-> IF p[1] = deploys + 1
                              THEN [Idle EXCEPT !.step = "send", !.rev = r]
                              ELSE proc[p]]

Deploy(r) ==
  /\ StartRollout(r)
  /\ UNCHANGED <<activated, reported, running, rolling, faults, ran>>

\* rollbackRevision's choice: the last activated among the revisions that are
\* or were active, other than r.
Newest(r) ==
  LET candidates == {i \in 1..Len(activated) :
                       /\ activated[i] # r
                       /\ state[activated[i]] \in {"active", "superseded", "partially_active"}}
  IN {activated[i] : i \in {i \in candidates : \A j \in candidates : j <= i}}

Rollback(r) ==
  /\ rolling = None
  /\ \E prev \in Newest(r) : StartRollout(prev)
  /\ rolling' = r
  /\ UNCHANGED <<activated, reported, running, faults, ran>>

\* rollbackRevision, after startRollout has returned.
MarkRolledBack ==
  /\ rolling # None
  /\ state' = [state EXCEPT ![rolling] = "rolled_back"]
  /\ rolling' = None
  /\ UNCHANGED <<activated, depl, desired, reported, running, proc, deploys, faults, ran>>
-----------------------------------------------------------------------------
\* pushOne, for any goroutine p = <<k, n>>.

Fault == faults < MaxFaults /\ faults' = faults + 1

\* forEachNode: the semaphore of p's group, held from the first step of one
\* node's function (a send, or for the poller a question) to its end.
First(k) == IF k = Poller THEN "ask" ELSE "send"
Slot(p) ==
  proc[p].step = First(p[1]) =>
    Cardinality({n \in Node : proc[<<p[1], n>>].step \notin {"idle", First(p[1])}}) < FanOut

\* PushConfig: the node applies the artifact and answers.
Send(p) ==
  LET n == p[2]
      r == proc[p].rev
  IN /\ proc[p].step = "send" /\ Slot(p)
     /\ <<r, n>> \notin Refused
     /\ running' = [running EXCEPT ![n] = r]
     /\ ran' = [ran EXCEPT ![n] = @ \cup {r}]
     /\ proc' = [proc EXCEPT ![p].step = "record", ![p].verdict = "ok"]
     /\ UNCHANGED <<db, rolling, deploys, faults>>

\* PushConfig: the node answers 400.
SendRefused(p) ==
  /\ proc[p].step = "send" /\ Slot(p)
  /\ <<proc[p].rev, p[2]>> \in Refused
  /\ proc' = [proc EXCEPT ![p].step = "record", ![p].verdict = "error"]
  /\ UNCHANGED <<db, running, rolling, deploys, faults, ran>>

\* targetFor or PushConfig fails without effect, or PushConfig's answer is lost
\* or late after the node has applied the artifact.
SendFails(p) ==
  LET n == p[2]
      r == proc[p].rev
  IN /\ proc[p].step = "send" /\ Slot(p)
     /\ Fault
     /\ \/ UNCHANGED <<running, ran>>
        \/ /\ <<r, n>> \notin Refused
           /\ running' = [running EXCEPT ![n] = r]
           /\ ran' = [ran EXCEPT ![n] = @ \cup {r}]
     /\ proc' = [proc EXCEPT ![p].step = "record", ![p].verdict = "error"]
     /\ UNCHANGED <<db, rolling, deploys>>

\* Mutant: an unreachable node counts as applied.
RecordFailureAsApplied(p) ==
  LET n == p[2]
      r == proc[p].rev
  IN /\ proc[p].step = "record"
     /\ depl' = [depl EXCEPT ![r][n] = "applied"]
     /\ reported' = [reported EXCEPT ![n] = r]
     /\ proc' = [proc EXCEPT ![p].step = "count", ![p].verdict = "none"]
     /\ UNCHANGED <<state, activated, desired, running, rolling, deploys, faults, ran>>

\* recordPush and, after a success, the node's applied revision.  Only then is
\* the revision reconciled.
Record(p) ==
  LET n == p[2]
      r == proc[p].rev
  IN /\ proc[p].step = "record"
     /\ \/ /\ proc[p].verdict = "ok"
           /\ depl' = [depl EXCEPT ![r][n] = "applied"]
           /\ reported' = [reported EXCEPT ![n] = r]
           /\ proc' = [proc EXCEPT ![p].step = "count", ![p].verdict = "none"]
        \/ /\ proc[p].verdict = "error"
           /\ depl' = [depl EXCEPT ![r][n] = "failed"]
           /\ proc' = [proc EXCEPT ![p] = Idle]
           /\ UNCHANGED reported
     /\ UNCHANGED <<state, activated, desired, running, rolling, deploys, faults, ran>>

\* Mutant: a revision with nothing but successes is left deploying.
VerdictNeverActive(r) ==
  IF /\ \E n \in Node : depl[r][n] = "failed"
     /\ \A n \in Node : depl[r][n] \in {"applied", "failed"}
  THEN "partially_active" ELSE "none"

\* reconcileRevisionState's verdict on the deployments of r.
Verdict(r) ==
  LET rows == {n \in Node : depl[r][n] # "none"}
      applied == {n \in rows : depl[r][n] = "applied"}
      failed == {n \in rows : depl[r][n] = "failed"}
  IN CASE rows # {} /\ applied = rows -> "active"
       [] applied # {} /\ applied # rows /\ applied \cup failed = rows -> "partially_active"
       [] rows # {} /\ failed = rows -> "validation_failed"
       [] OTHER -> "none"

\* reconcileRevisionState: the SELECT.
Count(p) ==
  /\ proc[p].step = "count"
  /\ proc' = [proc EXCEPT ![p] = IF Verdict(proc[p].rev) = "none" THEN Idle
                                 ELSE [@ EXCEPT !.step = "promote", !.verdict = Verdict(proc[p].rev)]]
  /\ UNCHANGED <<db, running, rolling, deploys, faults, ran>>

\* reconcileRevisionState: the UPDATE of the revision; activated_at keeps its
\* first value.
Promote(p) ==
  LET r == proc[p].rev
      v == proc[p].verdict
      first == /\ v \in {"active", "partially_active"}
               /\ \A i \in 1..Len(activated) : activated[i] # r
  IN /\ proc[p].step = "promote"
     /\ state' = [state EXCEPT ![r] = v]
     /\ activated' = IF first THEN Append(activated, r) ELSE activated
     /\ proc' = [proc EXCEPT ![p] = IF v = "active" THEN [@ EXCEPT !.step = "supersede"] ELSE Idle]
     /\ UNCHANGED <<depl, desired, reported, running, rolling, deploys, faults, ran>>

\* Mutant: the previously active revision is not superseded.
SupersedeNone(p) ==
  /\ proc[p].step = "supersede"
  /\ proc' = [proc EXCEPT ![p] = Idle]
  /\ UNCHANGED <<db, running, rolling, deploys, faults, ran>>

\* reconcileRevisionState: the UPDATE of the others.
Supersede(p) ==
  /\ proc[p].step = "supersede"
  /\ state' = [r \in Rev |-> IF state[r] = "active" /\ r # proc[p].rev THEN "superseded" ELSE state[r]]
  /\ proc' = [proc EXCEPT ![p] = Idle]
  /\ UNCHANGED <<activated, depl, desired, reported, running, rolling, deploys, faults, ran>>
-----------------------------------------------------------------------------
\* pollOnce: a round begins with one SELECT and ends when every node is done.
PollRound ==
  /\ \A n \in Node : proc[<<Poller, n>>].step = "idle"
  /\ proc' = [p \in Procs |-> IF p[1] = Poller
                              THEN [Idle EXCEPT !.step = "ask", !.rev = desired[p[2]]]
                              ELSE proc[p]]
  /\ UNCHANGED <<db, running, rolling, deploys, faults, ran>>

\* Mutant: drift is measured against the panel's own record of the node.
AskTheRecord(p) ==
  LET n == p[2]
      want == proc[p].rev
  IN /\ proc[p].step = "ask" /\ Slot(p)
     /\ proc' = [proc EXCEPT ![p] = IF want # None /\ reported[n] # want
                                    THEN [Idle EXCEPT !.step = "send", !.rev = want]
                                    ELSE Idle]
     /\ UNCHANGED <<db, running, rolling, deploys, faults, ran>>

\* Poll answers with what the node runs; the answer is stored (an empty one
\* leaves the record alone), and a node that runs anything but the revision
\* desired when the round began is pushed to again.
Ask(p) ==
  LET n == p[2]
      want == proc[p].rev
      seen == running[n]
  IN /\ proc[p].step = "ask" /\ Slot(p)
     /\ reported' = [reported EXCEPT ![n] = IF seen = None THEN @ ELSE seen]
     /\ proc' = [proc EXCEPT ![p] = IF want # None /\ seen # want
                                    THEN [Idle EXCEPT !.step = "send", !.rev = want]
                                    ELSE Idle]
     /\ UNCHANGED <<state, activated, depl, desired, running, rolling, deploys, faults, ran>>

\* Poll fails, which ends the node's part of the round.
AskFails(p) ==
  /\ proc[p].step = "ask" /\ Slot(p)
  /\ Fault
  /\ proc' = [proc EXCEPT ![p] = Idle]
  /\ UNCHANGED <<db, running, rolling, deploys, ran>>

\* The panel process is restarted; its goroutines are gone.
PanelRestart ==
  /\ Fault
  /\ proc' = [p \in Procs |-> Idle]
  /\ rolling' = None
  /\ UNCHANGED <<db, running, deploys, ran>>

\* A node's agent is restarted and knows what state.json says: an earlier
\* revision, or none, if it died before it saved or could not save.
NodeForgets(n) ==
  /\ Fault
  /\ \E r \in (ran[n] \cup {None}) \ {running[n]} : running' = [running EXCEPT ![n] = r]
  /\ UNCHANGED <<db, proc, rolling, deploys, ran>>

\* The context of a push ends before the push does: PushConfig, or the database,
\* took too long.  The statements that are left fail, and nobody looks.
Expires(p) ==
  /\ proc[p].step \in {"record", "count", "promote", "supersede"}
  /\ Fault
  /\ proc' = [proc EXCEPT ![p] = Idle]
  /\ UNCHANGED <<db, running, rolling, deploys, ran>>

Push(p) ==
  \/ Send(p) \/ SendRefused(p) \/ SendFails(p)
  \/ Record(p) \/ Count(p) \/ Promote(p) \/ Supersede(p) \/ Expires(p)
Poll(p) == Ask(p) \/ AskFails(p)

Next ==
  \/ \E r \in Rev : Deploy(r) \/ Rollback(r)
  \/ MarkRolledBack
  \/ \E p \in Procs : Push(p) \/ Poll(p)
  \/ PollRound
  \/ PanelRestart
  \/ \E n \in Node : NodeForgets(n)

\* Goroutines run and the ticker keeps firing; the operator owes nothing.
Fairness ==
  /\ WF_vars(PollRound)
  /\ WF_vars(MarkRolledBack)
  /\ \A p \in Procs : WF_vars(Push(p) \/ Poll(p))

Spec == Init /\ [][Next]_vars /\ Fairness
-----------------------------------------------------------------------------
\* Properties.

\* No push or rollback is in progress: all that may run is a poll.
Quiet == rolling = None /\ \A p \in Procs : proc[p].step \in {"idle", "ask"}

\* Two revisions are active only while a reconcile is about to supersede one,
\* whatever rollouts, rollbacks and polls interleave; only a restart of the
\* panel between the two UPDATEs can leave both.
OneActive ==
  faults = 0 /\ (\A p \in Procs : proc[p].step # "supersede")
    => Cardinality({r \in Rev : state[r] = "active"}) <= 1

\* A revision is promoted to active only after every node has really run it,
\* even if answers are lost, late or from an earlier rollout.
ActiveRanEverywhere ==
  [][\A r \in Rev : state'[r] = "active" /\ state[r] # "active" => \A n \in Node : r \in ran[n]]_vars

\* Drift heals: once the operator and the failures stop, every node that does
\* not refuse it ends up running its desired revision and the panel knows, even
\* if a late push of an older revision overtook it or its agent has forgotten it.
Converges ==
  <>[](\A n \in Node : desired[n] # None /\ <<desired[n], n>> \notin Refused
         => running[n] = desired[n] /\ reported[n] = desired[n])

\* Without failed calls, refusals and restarts no rollout stays unfinished.
Finishes ==
  \A r \in Rev : state[r] = "deploying" ~>
    state[r] # "deploying" \/ faults > 0 \/ \E n \in Node : <<r, n>> \in Refused

\* The comment of reconcileRevisionState ("promotes a revision once every node
\* has reported"): with nothing in progress, a revision all of whose nodes have
\* reported is not still deploying.
PromotedOnceReported ==
  Quiet => \A r \in Rev : (\A n \in Node : depl[r][n] \in {"applied", "failed"})
                             => state[r] # "deploying"

\* The notice of the Revisions page ("Первая нода каждой роли получает
\* конфигурацию как канарейка, остальные - после её успешного отчёта"): a node
\* runs a revision only after the canary of its role has reported it applied.
CanaryFirst ==
  \A n \in Node, r \in Rev :
    running[n] = r /\ CanaryOf[n] # n => depl[r][CanaryOf[n]] = "applied"
=============================================================================
