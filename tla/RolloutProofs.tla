--------------------------- MODULE RolloutProofs ---------------------------
(***************************************************************************)
(* What MCRollout checks on a small instance, for any number of nodes,     *)
(* revisions, rollouts and failures: a revision becomes active only after  *)
(* every node has run it, and without a restart only one is active.        *)
(***************************************************************************)
EXTENDS Rollout, FiniteSetTheorems, TLAPS

ProcRow == [step : Steps, rev : RevOrNone, verdict : Verdicts]

\* The goroutines of a rollout that has not begun do nothing.
UnbornIdle == \A p \in Procs : p[1] > deploys => proc[p] = Idle

\* Two revisions are active only while one of them is about to be superseded.
SupersedeDue ==
  faults = 0 =>
    \/ \E p \in Procs : proc[p].step = "supersede"
    \/ \A r, s \in Rev : state[r] = "active" /\ state[s] = "active" => r = s

\* A revision has a deployment on every node or on none, and on every node once
\* it is desired somewhere or a goroutine is about it.
Deployed(d, r) == \A n \in Node : d[r][n] # "none"
DeploymentsWhole ==
  /\ \A r \in Rev : Deployed(depl, r) \/ \A n \in Node : depl[r][n] = "none"
  /\ \A n \in Node : desired[n] # None => Deployed(depl, desired[n])
  /\ \A p \in Procs : /\ proc[p].step # "idle" /\ proc[p].rev # None => Deployed(depl, proc[p].rev)
                      /\ proc[p].step \notin {"idle", "ask"} => proc[p].rev # None

\* What is recorded, or about to be recorded, as applied has run.
RecordsRan ==
  /\ \A r \in Rev, n \in Node : depl[r][n] = "applied" => r \in ran[n]
  /\ \A p \in Procs :
       /\ proc[p].step = "record" /\ proc[p].verdict = "ok" => proc[p].rev \in ran[p[2]]
       /\ proc[p].step = "promote" /\ proc[p].verdict = "active" =>
            \A n \in Node : proc[p].rev \in ran[n]

\* A verdict that is about to be stored is a state of a revision.
VerdictsKnown ==
  \A p \in Procs : proc[p].step = "promote" =>
                     proc[p].verdict \in {"active", "partially_active", "validation_failed"}

RolloutInv ==
  TypeOK /\ UnbornIdle /\ SupersedeDue /\ DeploymentsWhole /\ RecordsRan /\ VerdictsKnown
-----------------------------------------------------------------------------
\* Before the first rollout nothing is active.
LEMMA RolloutInvInit == Init => RolloutInv
<1> SUFFICES ASSUME Init PROVE RolloutInv
  OBVIOUS
<1>1. Idle \in ProcRow /\ Idle.step = "idle" /\ Idle.rev = None
  BY DEF Idle, ProcRow, Steps, RevOrNone, Verdicts
<1>2. proc \in [Procs -> ProcRow] /\ \A p \in Procs : proc[p] = Idle
  BY <1>1 DEF Init
<1>3. TypeOK
  BY <1>2, RolloutAssumption DEF Init, TypeOK, RevStates, DeplStates, RevOrNone, ProcRow
<1>4. UnbornIdle /\ SupersedeDue
  BY <1>2 DEF Init, UnbornIdle, SupersedeDue
<1>5. DeploymentsWhole /\ RecordsRan
  BY <1>1, <1>2 DEF Init, DeploymentsWhole, RecordsRan
<1>6. VerdictsKnown
  BY <1>1, <1>2 DEF VerdictsKnown
<1> QED
  BY <1>3, <1>4, <1>5, <1>6 DEF RolloutInv

\* A step of the goroutine p that is not idle: the others stand.
LEMMA OneGoroutine ==
  ASSUME RolloutInv, NEW p \in Procs, NEW row \in ProcRow, proc[p].step # "idle",
         proc' = [proc EXCEPT ![p] = row], deploys' = deploys
  PROVE  /\ proc' \in [Procs -> ProcRow] /\ proc'[p] = row
         /\ \A q \in Procs \ {p} : proc'[q] = proc[q]
         /\ UnbornIdle'
<1>1. proc \in [Procs -> ProcRow]
  BY DEF RolloutInv, TypeOK, ProcRow
<1>2. ~(p[1] > deploys)
  BY DEF RolloutInv, UnbornIdle, Idle
<1> QED
  BY <1>1, <1>2 DEF RolloutInv, UnbornIdle

\* A new rollout touches no other.
LEMMA StartRolloutStep ==
  ASSUME RolloutInv, NEW r \in Rev, StartRollout(r), UNCHANGED <<activated, reported, running, faults, ran>>,
         rolling' \in RevOrNone
  PROVE  RolloutInv'
<1> DEFINE begun == [Idle EXCEPT !.step = "send", !.rev = r]
<1>1. /\ deploys < MaxDeploys /\ deploys' = deploys + 1
      /\ depl' = [depl EXCEPT ![r] = [n \in Node |-> "pending"]]
      /\ desired' = [n \in Node |-> r]
      /\ state' = [state EXCEPT ![r] = "deploying"]
      /\ proc' = [p \in Procs |-> IF p[1] = deploys + 1 THEN begun ELSE proc[p]]
  BY DEF StartRollout
<1>2. begun \in ProcRow /\ begun.step = "send" /\ begun.rev = r /\ begun.verdict = "none"
  BY DEF Idle, ProcRow, Steps, RevOrNone, Verdicts
<1> HIDE DEF begun
<1>3. /\ proc' \in [Procs -> ProcRow]
      /\ \A p \in Procs : proc'[p] = IF p[1] = deploys + 1 THEN begun ELSE proc[p]
  BY <1>1, <1>2 DEF RolloutInv, TypeOK, ProcRow
<1>4. \A p \in Procs : p[1] \in Nat
  BY RolloutAssumption DEF Procs
<1>5. deploys \in Nat /\ r # None
  BY RolloutAssumption DEF RolloutInv, TypeOK
<1>6. TypeOK'
  BY <1>1, <1>3, RolloutAssumption
     DEF RolloutInv, TypeOK, ProcRow, RevStates, DeplStates, RevOrNone
<1>7. UnbornIdle'
  BY <1>1, <1>3, <1>4, <1>5 DEF RolloutInv, UnbornIdle
<1>8. SupersedeDue'
  <2>1. \A q \in Procs : proc[q].step = "supersede" => proc'[q] = proc[q]
    BY <1>3, <1>4, <1>5 DEF RolloutInv, UnbornIdle, Idle
  <2>2. \A s \in Rev : state'[s] = "active" => state[s] = "active"
    BY <1>1 DEF RolloutInv, TypeOK
  <2> QED
    BY <2>1, <2>2 DEF RolloutInv, SupersedeDue
<1>9. /\ \A n \in Node : depl'[r][n] = "pending"
      /\ \A s \in Rev \ {r} : depl'[s] = depl[s]
  BY <1>1 DEF RolloutInv, TypeOK
<1>10. \A s \in Rev : Deployed(depl, s) => Deployed(depl', s)
  BY <1>9 DEF Deployed
<1>11. DeploymentsWhole'
  <2>1. Deployed(depl', r)
    BY <1>9 DEF Deployed
  <2>2. \A s \in Rev : Deployed(depl', s) \/ \A n \in Node : depl'[s][n] = "none"
    BY <1>9, <1>10, <2>1 DEF RolloutInv, DeploymentsWhole
  <2>3. \A n \in Node : desired'[n] = r
    BY <1>1
  <2>4. \A p \in Procs : proc'[p] \in ProcRow
    BY <1>3
  <2>5. \A p \in Procs : proc'[p].step # "idle" /\ proc'[p].rev # None => Deployed(depl', proc'[p].rev)
    BY <1>2, <1>3, <1>10, <2>1, <2>4 DEF RolloutInv, DeploymentsWhole, ProcRow, RevOrNone
  <2>6. \A p \in Procs : proc'[p].step \notin {"idle", "ask"} => proc'[p].rev # None
    BY <1>2, <1>3, <1>5 DEF RolloutInv, DeploymentsWhole
  <2> QED
    BY <2>1, <2>2, <2>3, <2>5, <2>6 DEF DeploymentsWhole, Deployed
<1>12. RecordsRan'
  BY <1>2, <1>3, <1>9 DEF RolloutInv, RecordsRan
<1>13. VerdictsKnown'
  BY <1>2, <1>3 DEF RolloutInv, VerdictsKnown
<1> QED
  BY <1>6, <1>7, <1>8, <1>11, <1>12, <1>13 DEF RolloutInv

\* What a step of one goroutine that leaves the database alone, or changes the
\* states of revisions only, must see to.
LEMMA GoroutineStep ==
  ASSUME RolloutInv, NEW p \in Procs, NEW row \in ProcRow, proc[p].step # "idle",
         proc' = [proc EXCEPT ![p] = row], UNCHANGED <<depl, desired, deploys>>,
         row.step \notin {"idle", "ask"} => row.rev # None,
         row.step # "idle" => row.rev = proc[p].rev,
         \A n \in Node : ran[n] \subseteq ran'[n],
         row.step = "record" /\ row.verdict = "ok" => row.rev \in ran'[p[2]],
         row.step = "promote" /\ row.verdict = "active" => \A n \in Node : row.rev \in ran'[n]
  PROVE  UnbornIdle' /\ DeploymentsWhole' /\ RecordsRan' /\ proc' \in [Procs -> ProcRow]
<1>1. /\ proc' \in [Procs -> ProcRow] /\ proc'[p] = row
      /\ \A q \in Procs \ {p} : proc'[q] = proc[q]
      /\ UnbornIdle'
  BY OneGoroutine
<1>2. DeploymentsWhole'
  <2>1. \A q \in Procs : /\ proc'[q].step # "idle" /\ proc'[q].rev # None => Deployed(depl', proc'[q].rev)
                         /\ proc'[q].step \notin {"idle", "ask"} => proc'[q].rev # None
    BY <1>1 DEF RolloutInv, DeploymentsWhole
  <2>2. /\ \A r \in Rev : Deployed(depl', r) \/ \A n \in Node : depl'[r][n] = "none"
        /\ \A n \in Node : desired'[n] # None => Deployed(depl', desired'[n])
    BY DEF RolloutInv, DeploymentsWhole
  <2> QED
    BY <2>1, <2>2 DEF DeploymentsWhole
<1>3. RecordsRan'
  <2>1. \A q \in Procs : q[2] \in Node
    BY DEF Procs
  <2>2. \A r \in Rev, n \in Node : depl'[r][n] = "applied" => r \in ran'[n]
    BY DEF RolloutInv, RecordsRan
  <2>3. \A q \in Procs :
           /\ proc'[q].step = "record" /\ proc'[q].verdict = "ok" => proc'[q].rev \in ran'[q[2]]
           /\ proc'[q].step = "promote" /\ proc'[q].verdict = "active" =>
                \A n \in Node : proc'[q].rev \in ran'[n]
    BY <1>1, <2>1 DEF RolloutInv, RecordsRan
  <2> QED
    BY <2>2, <2>3 DEF RecordsRan
<1> QED
  BY <1>1, <1>2, <1>3

\* A goroutine that is about a revision.
LEMMA Busy ==
  ASSUME RolloutInv, NEW p \in Procs, proc[p].step \notin {"idle", "ask"}
  PROVE  /\ proc[p] \in ProcRow /\ proc[p].rev \in Rev /\ p[2] \in Node
         /\ Deployed(depl, proc[p].rev)
<1>1. proc[p] \in ProcRow
  BY DEF RolloutInv, TypeOK, ProcRow
<1>2. proc[p].rev # None
  BY DEF RolloutInv, DeploymentsWhole
<1> QED
  BY <1>1, <1>2 DEF RolloutInv, DeploymentsWhole, ProcRow, RevOrNone, Procs

\* Send, SendRefused and SendFails: the answer, or its absence, is taken.
LEMMA SendStep ==
  ASSUME RolloutInv, NEW p \in Procs, Send(p) \/ SendRefused(p) \/ SendFails(p)
  PROVE  RolloutInv'
<1> DEFINE r == proc[p].rev
           n == p[2]
           ok == [proc[p] EXCEPT !.step = "record", !.verdict = "ok"]
           error == [proc[p] EXCEPT !.step = "record", !.verdict = "error"]
<1>1. proc[p].step = "send" /\ UNCHANGED <<db, rolling, deploys>>
  BY DEF Send, SendRefused, SendFails
<1>2. proc[p] \in ProcRow /\ r \in Rev /\ n \in Node /\ r # None
  BY <1>1, Busy, RolloutAssumption
<1>3. /\ ok \in ProcRow /\ ok.step = "record" /\ ok.rev = r /\ ok.verdict = "ok"
      /\ error \in ProcRow /\ error.step = "record" /\ error.rev = r /\ error.verdict = "error"
  BY <1>2 DEF ProcRow, Steps, Verdicts
<1>4. \/ /\ proc' = [proc EXCEPT ![p] = ok] /\ UNCHANGED faults
         /\ running' = [running EXCEPT ![n] = r] /\ ran' = [ran EXCEPT ![n] = @ \cup {r}]
      \/ /\ proc' = [proc EXCEPT ![p] = error]
         /\ faults' = faults \/ (faults < MaxFaults /\ faults' = faults + 1)
         /\ \/ UNCHANGED <<running, ran>>
            \/ running' = [running EXCEPT ![n] = r] /\ ran' = [ran EXCEPT ![n] = @ \cup {r}]
  BY <1>2 DEF Send, SendRefused, SendFails, Fault, RolloutInv, TypeOK
<1> HIDE DEF r, n, ok, error
<1>5. /\ running' \in [Node -> RevOrNone] /\ ran' \in [Node -> SUBSET Rev]
      /\ \A m \in Node : ran[m] \subseteq ran'[m]
      /\ faults' \in 0..MaxFaults /\ (faults' = 0 => faults = 0)
  <2>1. running \in [Node -> RevOrNone] /\ ran \in [Node -> SUBSET Rev] /\ faults \in 0..MaxFaults
    BY DEF RolloutInv, TypeOK
  <2>2. faults' \in 0..MaxFaults /\ (faults' = 0 => faults = 0)
    BY <1>4, <2>1, RolloutAssumption
  <2>3. \/ UNCHANGED <<running, ran>>
        \/ running' = [running EXCEPT ![n] = r] /\ ran' = [ran EXCEPT ![n] = @ \cup {r}]
    BY <1>4
  <2> QED
    BY <1>2, <2>1, <2>2, <2>3 DEF RevOrNone
<1>6. PICK row \in {ok, error} : /\ proc' = [proc EXCEPT ![p] = row]
                                 /\ row.verdict = "ok" => r \in ran'[n]
  BY <1>2, <1>3, <1>4 DEF RolloutInv, TypeOK
<1>7. UnbornIdle' /\ DeploymentsWhole' /\ RecordsRan' /\ proc' \in [Procs -> ProcRow]
  BY <1>1, <1>2, <1>3, <1>5, <1>6, GoroutineStep DEF db, r, n
<1>8. TypeOK'
  BY <1>1, <1>5, <1>7 DEF RolloutInv, TypeOK, db, ProcRow
<1>9. \A q \in Procs : proc[q].step = "supersede" => proc'[q].step = "supersede"
  BY <1>1, <1>3, <1>6 DEF RolloutInv, TypeOK
<1>10. SupersedeDue'
  BY <1>1, <1>5, <1>9 DEF RolloutInv, SupersedeDue, db
<1>11. VerdictsKnown'
  BY <1>3, <1>6 DEF RolloutInv, TypeOK, VerdictsKnown
<1> QED
  BY <1>7, <1>8, <1>10, <1>11 DEF RolloutInv

\* recordPush: what is recorded as applied has run.
LEMMA RecordStep ==
  ASSUME RolloutInv, NEW p \in Procs, Record(p)
  PROVE  RolloutInv'
<1> DEFINE r == proc[p].rev
           n == p[2]
           count == [proc[p] EXCEPT !.step = "count", !.verdict = "none"]
<1>1. proc[p].step = "record" /\ UNCHANGED <<state, activated, desired, running, rolling, deploys, faults, ran>>
  BY DEF Record
<1>2. proc[p] \in ProcRow /\ r \in Rev /\ n \in Node /\ r # None /\ Deployed(depl, r)
  BY <1>1, Busy, RolloutAssumption
<1>3. /\ count \in ProcRow /\ count.step = "count" /\ count.rev = r
      /\ Idle \in ProcRow /\ Idle.step = "idle"
  BY <1>2 DEF ProcRow, Steps, Verdicts, Idle, RevOrNone
<1>4. \/ /\ proc' = [proc EXCEPT ![p] = count] /\ proc[p].verdict = "ok"
         /\ depl' = [depl EXCEPT ![r][n] = "applied"] /\ reported' = [reported EXCEPT ![n] = r]
      \/ /\ proc' = [proc EXCEPT ![p] = Idle]
         /\ depl' = [depl EXCEPT ![r][n] = "failed"] /\ reported' = reported
  BY <1>2 DEF Record, RolloutInv, TypeOK
<1>5. proc[p].verdict = "ok" => r \in ran[n]
  BY <1>1 DEF RolloutInv, RecordsRan
<1> HIDE DEF r, n, count
<1>6. PICK row \in {count, Idle}, v \in {"applied", "failed"} :
         /\ proc' = [proc EXCEPT ![p] = row]
         /\ depl' = [depl EXCEPT ![r][n] = v]
         /\ v = "applied" => r \in ran[n]
  BY <1>4, <1>5
<1>7. depl \in [Rev -> [Node -> DeplStates]]
  BY DEF RolloutInv, TypeOK
<1>8. /\ depl' \in [Rev -> [Node -> DeplStates]]
      /\ depl'[r][n] = v
      /\ \A s \in Rev, m \in Node : s # r \/ m # n => depl'[s][m] = depl[s][m]
  BY <1>2, <1>6, <1>7 DEF DeplStates
<1>9. /\ proc' \in [Procs -> ProcRow] /\ proc'[p] = row
      /\ \A q \in Procs \ {p} : proc'[q] = proc[q]
      /\ UnbornIdle'
  BY <1>1, <1>3, <1>6, OneGoroutine
<1>10. TypeOK'
  <2>1. reported' \in [Node -> RevOrNone]
    BY <1>2, <1>4 DEF RolloutInv, TypeOK, RevOrNone
  <2> QED
    BY <1>1, <1>8, <1>9, <2>1 DEF RolloutInv, TypeOK, ProcRow
<1>11. SupersedeDue'
  BY <1>1, <1>9 DEF RolloutInv, SupersedeDue
<1>12. \A s \in Rev : Deployed(depl, s) => Deployed(depl', s)
  BY <1>2, <1>8 DEF Deployed
<1>13. DeploymentsWhole'
  <2>1. \A s \in Rev : Deployed(depl', s) \/ \A m \in Node : depl'[s][m] = "none"
    <3>1. Deployed(depl', r)
      BY <1>2, <1>12
    <3>2. \A s \in Rev \ {r} : \A m \in Node : depl'[s][m] = depl[s][m]
      BY <1>8
    <3> QED
      BY <1>12, <3>1, <3>2 DEF RolloutInv, DeploymentsWhole
  <2>2. \A m \in Node : desired'[m] # None => Deployed(depl', desired'[m])
    BY <1>1, <1>12 DEF RolloutInv, DeploymentsWhole, TypeOK, RevOrNone
  <2>3. \A q \in Procs : proc'[q].step # "idle" /\ proc'[q].rev # None => proc'[q].rev \in Rev
    BY <1>9 DEF ProcRow, RevOrNone
  <2>4. Deployed(depl, r)
    BY <1>2
  <2>5. \A q \in Procs : /\ proc'[q].step # "idle" /\ proc'[q].rev # None => Deployed(depl', proc'[q].rev)
                         /\ proc'[q].step \notin {"idle", "ask"} => proc'[q].rev # None
    BY <1>2, <1>3, <1>9, <1>12, <2>3, <2>4 DEF RolloutInv, DeploymentsWhole
  <2> QED
    BY <2>1, <2>2, <2>5 DEF DeploymentsWhole
<1>14. RecordsRan'
  <2>1. \A s \in Rev, m \in Node : depl'[s][m] = "applied" => s \in ran'[m]
    BY <1>1, <1>2, <1>6, <1>8 DEF RolloutInv, RecordsRan
  <2>2. \A q \in Procs :
           /\ proc'[q].step = "record" /\ proc'[q].verdict = "ok" => proc'[q].rev \in ran'[q[2]]
           /\ proc'[q].step = "promote" /\ proc'[q].verdict = "active" =>
                \A m \in Node : proc'[q].rev \in ran'[m]
    BY <1>1, <1>3, <1>9 DEF RolloutInv, RecordsRan
  <2> QED
    BY <2>1, <2>2 DEF RecordsRan
<1>15. VerdictsKnown'
  BY <1>3, <1>9 DEF RolloutInv, VerdictsKnown
<1> QED
  BY <1>9, <1>10, <1>11, <1>13, <1>14, <1>15 DEF RolloutInv

\* The SELECT of reconcileRevisionState: when it says active every node has run
\* the revision, since its deployments exist on every node.
LEMMA CountStep ==
  ASSUME RolloutInv, NEW p \in Procs, Count(p)
  PROVE  RolloutInv'
<1> DEFINE r == proc[p].rev
           v == Verdict(r)
           promote == [proc[p] EXCEPT !.step = "promote", !.verdict = v]
           row == IF v = "none" THEN Idle ELSE promote
<1>1. /\ proc[p].step = "count" /\ UNCHANGED <<db, running, rolling, deploys, faults, ran>>
      /\ proc' = [proc EXCEPT ![p] = row]
  BY DEF Count, RolloutInv, TypeOK
<1>2. proc[p] \in ProcRow /\ r \in Rev /\ r # None /\ Deployed(depl, r)
  BY <1>1, Busy, RolloutAssumption
<1>3. v \in {"active", "partially_active", "validation_failed", "none"}
  BY DEF Verdict
<1>4. v = "active" => \A n \in Node : depl[r][n] = "applied"
  <2>1. {n \in Node : depl[r][n] # "none"} = Node
    BY <1>2 DEF Deployed
  <2> HIDE DEF r
  <2>2. ASSUME ~\A n \in Node : depl[r][n] = "applied" PROVE v # "active"
    <3>1. {n \in {n \in Node : depl[r][n] # "none"} : depl[r][n] = "applied"}
              # {n \in Node : depl[r][n] # "none"}
      BY <2>1, <2>2
    <3> QED
      BY <3>1 DEF Verdict
  <2> QED
    BY <2>2
<1>5. v = "active" => \A n \in Node : r \in ran[n]
  BY <1>2, <1>4 DEF RolloutInv, RecordsRan
<1> HIDE DEF v, r
<1>6. /\ promote \in ProcRow /\ promote.step = "promote" /\ promote.rev = r /\ promote.verdict = v
      /\ Idle \in ProcRow /\ Idle.step = "idle"
  BY <1>2, <1>3 DEF ProcRow, Steps, Verdicts, Idle, RevOrNone, r
<1> HIDE DEF promote
<1>7. /\ row \in ProcRow /\ row.step \in {"idle", "promote"}
      /\ row.step = "promote" => row.rev = r /\ row.verdict = v /\ v # "none"
  BY <1>6
<1> HIDE DEF row
<1>8. UnbornIdle' /\ DeploymentsWhole' /\ RecordsRan' /\ proc' \in [Procs -> ProcRow]
  BY <1>1, <1>2, <1>5, <1>7, GoroutineStep DEF db, r
<1>9. TypeOK'
  BY <1>1, <1>8 DEF RolloutInv, TypeOK, db, ProcRow
<1>10. \A q \in Procs : proc[q].step = "supersede" => proc'[q].step = "supersede"
  BY <1>1 DEF RolloutInv, TypeOK
<1>11. SupersedeDue'
  BY <1>1, <1>10 DEF RolloutInv, SupersedeDue, db
<1>12. VerdictsKnown'
  BY <1>1, <1>3, <1>7 DEF RolloutInv, TypeOK, VerdictsKnown
<1> QED
  BY <1>8, <1>9, <1>11, <1>12 DEF RolloutInv

\* The first UPDATE of reconcileRevisionState: another revision may be active as
\* well, but the second UPDATE is due.
LEMMA PromoteStep ==
  ASSUME RolloutInv, NEW p \in Procs, Promote(p)
  PROVE  RolloutInv'
<1> DEFINE r == proc[p].rev
           v == proc[p].verdict
           supersede == [proc[p] EXCEPT !.step = "supersede"]
           row == IF v = "active" THEN supersede ELSE Idle
           first == /\ v \in {"active", "partially_active"}
                    /\ \A i \in 1..Len(activated) : activated[i] # r
<1>1. /\ proc[p].step = "promote"
      /\ UNCHANGED <<depl, desired, reported, running, rolling, deploys, faults, ran>>
      /\ state' = [state EXCEPT ![r] = v]
      /\ activated' = IF first THEN Append(activated, r) ELSE activated
      /\ proc' = [proc EXCEPT ![p] = row]
  BY DEF Promote, RolloutInv, TypeOK
<1>2. proc[p] \in ProcRow /\ r \in Rev /\ r # None
  BY <1>1, Busy, RolloutAssumption
<1>3. /\ supersede \in ProcRow /\ supersede.step = "supersede" /\ supersede.rev = r
      /\ Idle \in ProcRow /\ Idle.step = "idle"
  BY <1>2 DEF ProcRow, Steps, Verdicts, Idle, RevOrNone
<1> HIDE DEF r, v, supersede
<1>4. /\ row \in ProcRow /\ row.step \in {"idle", "supersede"}
      /\ row.step = "supersede" <=> v = "active"
      /\ row.step = "supersede" => row.rev = r
  BY <1>3
<1> HIDE DEF row
<1>5. UnbornIdle' /\ DeploymentsWhole' /\ RecordsRan' /\ proc' \in [Procs -> ProcRow]
  BY <1>1, <1>2, <1>4, GoroutineStep DEF r
<1>6. v \in RevStates
  <2>1. v \in {"active", "partially_active", "validation_failed"}
    BY <1>1 DEF RolloutInv, VerdictsKnown, v
  <2> QED
    BY <2>1 DEF RevStates
<1>7. /\ activated' \in Seq(Rev)
      /\ \A i, j \in 1..Len(activated') : activated'[i] = activated'[j] => i = j
  <2>1. activated \in Seq(Rev) /\ \A i, j \in 1..Len(activated) : activated[i] = activated[j] => i = j
    BY DEF RolloutInv, TypeOK
  <2>2. CASE first
    <3>1. activated' = Append(activated, r) /\ \A i \in 1..Len(activated) : activated[i] # r
      BY <1>1, <2>2
    <3> QED
      BY <1>2, <2>1, <3>1
  <2>3. CASE ~first
    BY <1>1, <2>1, <2>3
  <2> QED
    BY <2>2, <2>3
<1>8. TypeOK'
  <2>1. state' \in [Rev -> RevStates]
    BY <1>1, <1>2, <1>6 DEF RolloutInv, TypeOK
  <2> QED
    BY <1>1, <1>5, <1>7, <2>1 DEF RolloutInv, TypeOK, ProcRow
<1>9. VerdictsKnown'
  BY <1>1, <1>4 DEF RolloutInv, TypeOK, VerdictsKnown
<1>10. SupersedeDue'
  <2>1. CASE v = "active"
    <3>1. proc'[p].step = "supersede"
      BY <1>1, <1>4, <2>1 DEF RolloutInv, TypeOK
    <3> QED
      BY <3>1 DEF SupersedeDue
  <2>2. CASE v # "active"
    <3>1. \A s \in Rev : state'[s] = "active" => state[s] = "active"
      BY <1>1, <1>2, <2>2 DEF RolloutInv, TypeOK
    <3>2. \A q \in Procs : proc[q].step = "supersede" => proc'[q].step = "supersede"
      BY <1>1 DEF RolloutInv, TypeOK
    <3> QED
      BY <1>1, <3>1, <3>2 DEF RolloutInv, SupersedeDue
  <2> QED
    BY <2>1, <2>2
<1> QED
  BY <1>5, <1>8, <1>9, <1>10 DEF RolloutInv

\* The second one: no other revision stays active.
LEMMA SupersedeStep ==
  ASSUME RolloutInv, NEW p \in Procs, Supersede(p)
  PROVE  RolloutInv'
<1>1. /\ proc[p].step = "supersede"
      /\ state' = [r \in Rev |-> IF state[r] = "active" /\ r # proc[p].rev THEN "superseded" ELSE state[r]]
      /\ proc' = [proc EXCEPT ![p] = Idle]
      /\ UNCHANGED <<activated, depl, desired, reported, running, rolling, deploys, faults, ran>>
  BY DEF Supersede
<1>2. Idle \in ProcRow /\ Idle.step = "idle"
  BY DEF ProcRow, Steps, Verdicts, Idle, RevOrNone
<1>3. UnbornIdle' /\ DeploymentsWhole' /\ RecordsRan' /\ proc' \in [Procs -> ProcRow]
  BY <1>1, <1>2, GoroutineStep
<1>4. TypeOK'
  <2>1. state' \in [Rev -> RevStates]
    BY <1>1 DEF RolloutInv, TypeOK, RevStates
  <2> QED
    BY <1>1, <1>3, <2>1 DEF RolloutInv, TypeOK, ProcRow
<1>5. SupersedeDue'
  BY <1>1 DEF SupersedeDue
<1>6. VerdictsKnown'
  BY <1>1, <1>2 DEF RolloutInv, TypeOK, VerdictsKnown
<1> QED
  BY <1>3, <1>4, <1>5, <1>6 DEF RolloutInv

\* One node's part of a poll.
LEMMA PollStep ==
  ASSUME RolloutInv, NEW p \in Procs, Poll(p)
  PROVE  RolloutInv'
<1> DEFINE want == proc[p].rev
           again == [Idle EXCEPT !.step = "send", !.rev = want]
<1>1. proc[p].step = "ask" /\ UNCHANGED <<state, activated, depl, desired, running, rolling, deploys, ran>>
  BY DEF Poll, Ask, AskFails, db
<1>2. proc[p] \in ProcRow /\ p[2] \in Node
  BY DEF RolloutInv, TypeOK, ProcRow, Procs
<1>3. /\ again \in ProcRow /\ again.step = "send" /\ again.rev = want
      /\ Idle \in ProcRow /\ Idle.step = "idle"
  BY <1>2 DEF ProcRow, Steps, Verdicts, Idle, RevOrNone
<1> HIDE DEF again, want
<1>4. PICK row \in {again, Idle} :
         /\ proc' = [proc EXCEPT ![p] = row]
         /\ row.step = "send" => row.rev = want /\ want # None
  <2>1. \/ proc' = [proc EXCEPT ![p] = Idle]
        \/ proc' = [proc EXCEPT ![p] = again] /\ want # None
    BY DEF Poll, Ask, AskFails, again, want
  <2> QED
    BY <1>3, <2>1
<1>5. row \in ProcRow /\ row.step \in {"idle", "send"}
  BY <1>3
<1>6. UnbornIdle' /\ DeploymentsWhole' /\ RecordsRan' /\ proc' \in [Procs -> ProcRow]
  BY <1>1, <1>4, <1>5, GoroutineStep DEF want
<1>7. reported' \in [Node -> RevOrNone] /\ faults' \in 0..MaxFaults /\ (faults' = 0 => faults = 0)
  <2>1. CASE Ask(p)
    <3>1. faults' = faults
      BY <2>1 DEF Ask
    <3>2. reported' = [reported EXCEPT ![p[2]] = IF running[p[2]] = None THEN @ ELSE running[p[2]]]
      BY <2>1 DEF Ask
    <3>3. reported' \in [Node -> RevOrNone]
      BY <1>2, <3>2 DEF RolloutInv, TypeOK
    <3> QED
      BY <3>1, <3>3 DEF RolloutInv, TypeOK
  <2>2. CASE AskFails(p)
    <3>1. reported' = reported /\ faults' = faults + 1 /\ faults < MaxFaults
      BY <2>2 DEF AskFails, db, Fault
    <3> QED
      BY <3>1, RolloutAssumption DEF RolloutInv, TypeOK
  <2> QED
    BY <2>1, <2>2 DEF Poll
<1>8. TypeOK'
  BY <1>1, <1>6, <1>7 DEF RolloutInv, TypeOK, ProcRow
<1>9. \A q \in Procs : proc[q].step = "supersede" => proc'[q].step = "supersede"
  BY <1>1, <1>4 DEF RolloutInv, TypeOK
<1>10. SupersedeDue'
  BY <1>1, <1>7, <1>9 DEF RolloutInv, SupersedeDue
<1>11. VerdictsKnown'
  BY <1>4, <1>5 DEF RolloutInv, TypeOK, VerdictsKnown
<1> QED
  BY <1>6, <1>8, <1>10, <1>11 DEF RolloutInv

\* Expires: what is left of a push is lost.
LEMMA ExpiresStep ==
  ASSUME RolloutInv, NEW p \in Procs, Expires(p)
  PROVE  RolloutInv'
<1>1. /\ proc[p].step \in {"record", "count", "promote", "supersede"} /\ proc' = [proc EXCEPT ![p] = Idle]
      /\ faults < MaxFaults /\ faults' = faults + 1
      /\ UNCHANGED <<state, activated, depl, desired, reported, running, rolling, deploys, ran>>
  BY DEF Expires, Fault, db
<1>2. Idle \in ProcRow /\ Idle.step = "idle" /\ proc[p].step # "idle"
  BY <1>1 DEF ProcRow, Steps, Verdicts, Idle, RevOrNone
<1>3. /\ proc' \in [Procs -> ProcRow] /\ proc'[p] = Idle
      /\ \A q \in Procs \ {p} : proc'[q] = proc[q]
  BY <1>1, <1>2, OneGoroutine
<1>4. UnbornIdle' /\ DeploymentsWhole' /\ RecordsRan'
  BY <1>1, <1>2, GoroutineStep
<1>5. faults' \in 0..MaxFaults /\ faults' # 0
  BY <1>1, RolloutAssumption DEF RolloutInv, TypeOK
<1>6. TypeOK'
  BY <1>1, <1>3, <1>5 DEF RolloutInv, TypeOK, ProcRow, RevOrNone
<1>7. SupersedeDue' /\ VerdictsKnown'
  BY <1>2, <1>3, <1>5 DEF RolloutInv, SupersedeDue, VerdictsKnown
<1> QED
  BY <1>4, <1>6, <1>7 DEF RolloutInv

\* Every step keeps RolloutInv.
LEMMA RolloutStep == RolloutInv /\ [Next]_vars => RolloutInv'
<1> SUFFICES ASSUME RolloutInv, [Next]_vars PROVE RolloutInv'
  OBVIOUS
<1>0. Idle \in ProcRow /\ Idle.step = "idle" /\ Idle.rev = None
  BY DEF ProcRow, Steps, Verdicts, Idle, RevOrNone
<1>1. ASSUME NEW r \in Rev, Deploy(r) PROVE RolloutInv'
  BY <1>1, StartRolloutStep DEF Deploy, RolloutInv, TypeOK
<1>2. ASSUME NEW r \in Rev, Rollback(r) PROVE RolloutInv'
  <2>1. \A prev \in Newest(r) : prev \in Rev
    BY DEF Newest, RolloutInv, TypeOK
  <2> QED
    BY <1>2, <2>1, StartRolloutStep DEF Rollback, RevOrNone
<1>3. CASE MarkRolledBack
  <2>1. /\ state' = [state EXCEPT ![rolling] = "rolled_back"] /\ rolling' = None /\ rolling \in Rev
        /\ UNCHANGED <<activated, depl, desired, reported, running, proc, deploys, faults, ran>>
    BY <1>3 DEF MarkRolledBack, RolloutInv, TypeOK, RevOrNone
  <2>2. state' \in [Rev -> RevStates] /\ \A s \in Rev : state'[s] = "active" => state[s] = "active"
    BY <2>1 DEF RolloutInv, TypeOK, RevStates
  <2>3. TypeOK'
    BY <2>1, <2>2 DEF RolloutInv, TypeOK, RevOrNone
  <2>4. UnbornIdle' /\ DeploymentsWhole' /\ RecordsRan' /\ VerdictsKnown'
    BY <2>1 DEF RolloutInv, UnbornIdle, DeploymentsWhole, Deployed, RecordsRan, VerdictsKnown
  <2>5. SupersedeDue'
    BY <2>1, <2>2 DEF RolloutInv, SupersedeDue
  <2> QED
    BY <2>3, <2>4, <2>5 DEF RolloutInv
<1>4. ASSUME NEW p \in Procs, Push(p) PROVE RolloutInv'
  BY <1>4, SendStep, RecordStep, CountStep, PromoteStep, SupersedeStep, ExpiresStep DEF Push
<1>5. ASSUME NEW p \in Procs, Poll(p) PROVE RolloutInv'
  BY <1>5, PollStep
<1>6. CASE PollRound
  <2> DEFINE ask(n) == [Idle EXCEPT !.step = "ask", !.rev = desired[n]]
  <2>1. /\ proc' = [p \in Procs |-> IF p[1] = Poller THEN ask(p[2]) ELSE proc[p]]
        /\ UNCHANGED <<state, activated, depl, desired, reported, running, rolling, deploys, faults, ran>>
        /\ \A n \in Node : proc[<<Poller, n>>].step = "idle"
    BY <1>6 DEF PollRound, db
  <2>2. \A n \in Node : /\ ask(n) \in ProcRow /\ ask(n).step = "ask" /\ ask(n).rev = desired[n]
    BY DEF Idle, ProcRow, Steps, Verdicts, RolloutInv, TypeOK
  <2> HIDE DEF ask
  <2>3. \A p \in Procs : p[2] \in Node /\ p = <<p[1], p[2]>> /\ p[1] \in 0..MaxDeploys
    BY DEF Procs
  <2>4. /\ proc' \in [Procs -> ProcRow]
        /\ \A p \in Procs : proc'[p] = IF p[1] = Poller THEN ask(p[2]) ELSE proc[p]
        /\ \A p \in Procs : p[1] = Poller => proc[p].step = "idle"
    BY <2>1, <2>2, <2>3 DEF RolloutInv, TypeOK, ProcRow
  <2>5. TypeOK'
    BY <2>1, <2>4 DEF RolloutInv, TypeOK, ProcRow
  <2>6. UnbornIdle'
    BY <2>1, <2>3, <2>4, RolloutAssumption DEF RolloutInv, TypeOK, UnbornIdle, Poller
  <2>7. SupersedeDue'
    BY <2>1, <2>4 DEF RolloutInv, SupersedeDue
  <2>8. DeploymentsWhole'
    BY <2>1, <2>2, <2>3, <2>4 DEF RolloutInv, DeploymentsWhole, Deployed
  <2>9. RecordsRan' /\ VerdictsKnown'
    BY <2>1, <2>2, <2>3, <2>4 DEF RolloutInv, RecordsRan, VerdictsKnown
  <2> QED
    BY <2>5, <2>6, <2>7, <2>8, <2>9 DEF RolloutInv
<1>7. CASE PanelRestart
  <2>1. /\ proc' = [p \in Procs |-> Idle] /\ rolling' = None
        /\ faults < MaxFaults /\ faults' = faults + 1
        /\ UNCHANGED <<state, activated, depl, desired, reported, running, deploys, ran>>
    BY <1>7 DEF PanelRestart, Fault, db
  <2>2. proc' \in [Procs -> ProcRow] /\ \A p \in Procs : proc'[p] = Idle
    BY <1>0, <2>1
  <2>3. faults' \in 0..MaxFaults /\ faults' # 0
    BY <2>1, RolloutAssumption DEF RolloutInv, TypeOK
  <2>4. TypeOK'
    BY <2>1, <2>2, <2>3 DEF RolloutInv, TypeOK, ProcRow, RevOrNone
  <2>5. UnbornIdle' /\ SupersedeDue' /\ VerdictsKnown'
    BY <1>0, <2>2, <2>3 DEF UnbornIdle, SupersedeDue, VerdictsKnown
  <2>6. DeploymentsWhole'
    BY <1>0, <2>1, <2>2 DEF RolloutInv, DeploymentsWhole, Deployed
  <2>7. RecordsRan'
    BY <1>0, <2>1, <2>2 DEF RolloutInv, RecordsRan
  <2> QED
    BY <2>4, <2>5, <2>6, <2>7 DEF RolloutInv
<1>8. CASE UNCHANGED vars
  <2>1. UNCHANGED <<state, activated, depl, desired, reported, running, proc, rolling, deploys, faults, ran>>
    BY <1>8 DEF vars, db
  <2>2. TypeOK'
    BY <2>1 DEF RolloutInv, TypeOK
  <2>3. UnbornIdle' /\ SupersedeDue' /\ DeploymentsWhole' /\ RecordsRan' /\ VerdictsKnown'
    BY <2>1 DEF RolloutInv, UnbornIdle, SupersedeDue, DeploymentsWhole, Deployed, RecordsRan, VerdictsKnown
  <2> QED
    BY <2>2, <2>3 DEF RolloutInv
<1>9. ASSUME NEW n \in Node, NodeForgets(n) PROVE RolloutInv'
  <2>1. /\ faults < MaxFaults /\ faults' = faults + 1
        /\ UNCHANGED <<state, activated, depl, desired, reported, proc, rolling, deploys, ran>>
    BY <1>9 DEF NodeForgets, Fault, db
  <2>2. PICK r \in ran[n] \cup {None} : running' = [running EXCEPT ![n] = r]
    BY <1>9 DEF NodeForgets
  <2>3. running' \in [Node -> RevOrNone]
    BY <2>2 DEF RolloutInv, TypeOK, RevOrNone
  <2>4. faults' \in 0..MaxFaults /\ faults' # 0
    BY <2>1, RolloutAssumption DEF RolloutInv, TypeOK
  <2>5. TypeOK'
    BY <2>1, <2>3, <2>4 DEF RolloutInv, TypeOK
  <2>6. UnbornIdle' /\ SupersedeDue' /\ DeploymentsWhole' /\ RecordsRan' /\ VerdictsKnown'
    BY <2>1, <2>4 DEF RolloutInv, UnbornIdle, SupersedeDue, DeploymentsWhole, Deployed, RecordsRan, VerdictsKnown
  <2> QED
    BY <2>5, <2>6 DEF RolloutInv
<1> QED
  BY <1>1, <1>2, <1>3, <1>4, <1>5, <1>6, <1>7, <1>8, <1>9 DEF Next

\* RolloutInv holds throughout.
LEMMA RolloutInvariant == Spec => []RolloutInv
BY RolloutInvInit, RolloutStep, PTL DEF Spec

\* Every state of the panel's tables and goroutines is of its type, and a
\* revision is activated for the first time once at most.
THEOREM RolloutTypeCorrect == Spec => []TypeOK
BY RolloutInvariant, PTL DEF RolloutInv

\* Without a restart or a failed call two revisions are active only between the
\* two UPDATEs of a reconcile, however many pushes, rollbacks and polls
\* interleave.
THEOREM OnlyOneActive == Spec => []OneActive
<1>1. RolloutInv => OneActive
  <2> SUFFICES ASSUME RolloutInv, faults = 0, \A p \in Procs : proc[p].step # "supersede"
               PROVE  Cardinality({r \in Rev : state[r] = "active"}) <= 1
    BY DEF OneActive
  <2> DEFINE A == {r \in Rev : state[r] = "active"}
  <2>1. \A r, s \in A : r = s
    BY DEF RolloutInv, SupersedeDue
  <2>2. CASE A = {}
    BY <2>2, FS_EmptySet
  <2>3. CASE A # {}
    <3>1. PICK r : A = {r}
      BY <2>1, <2>3
    <3>2. Cardinality({r}) = 1
      BY FS_Singleton
    <3> QED
      BY <3>1, <3>2
  <2> QED
    BY <2>2, <2>3
<1> QED
  BY <1>1, RolloutInvariant, PTL

\* A step that makes a revision active finds that every node has run it,
\* whatever answers were lost or late and whatever other rollouts went on.
THEOREM ActiveMeansRan == Spec => ActiveRanEverywhere
<1>1. RolloutInv /\ [Next]_vars =>
        [\A r \in Rev : state'[r] = "active" /\ state[r] # "active" => \A n \in Node : r \in ran[n]]_vars
  <2> SUFFICES ASSUME RolloutInv, Next, NEW s \in Rev, state'[s] = "active", state[s] # "active"
               PROVE  \A n \in Node : s \in ran[n]
    OBVIOUS
  <2>1. state \in [Rev -> RevStates]
    BY DEF RolloutInv, TypeOK
  <2>2. \A r : ~StartRollout(r)
    BY <2>1 DEF StartRollout
  <2>3. ~MarkRolledBack
    BY <2>1 DEF MarkRolledBack
  <2>4. \A p \in Procs : ~(Send(p) \/ SendRefused(p) \/ SendFails(p) \/ Record(p) \/ Count(p) \/ Supersede(p)
                           \/ Expires(p))
    BY <2>1 DEF Send, SendRefused, SendFails, Record, Count, Supersede, Expires, db
  <2>5. \A p \in Procs : ~Poll(p)
    BY DEF Poll, Ask, AskFails, db
  <2>6. ~PollRound /\ ~PanelRestart /\ \A n \in Node : ~NodeForgets(n)
    BY DEF PollRound, PanelRestart, NodeForgets, db
  <2>7. PICK p \in Procs : Promote(p)
    BY <2>2, <2>3, <2>4, <2>5, <2>6 DEF Next, Push, Deploy, Rollback
  <2>8. proc[p].step = "promote" /\ proc[p].verdict = "active" /\ proc[p].rev = s
    BY <2>1, <2>7 DEF Promote
  <2> QED
    BY <2>8 DEF RolloutInv, RecordsRan
<1> QED
  BY <1>1, RolloutInvariant, PTL DEF Spec, ActiveRanEverywhere
=============================================================================
