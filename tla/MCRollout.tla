----------------------------- MODULE MCRollout -----------------------------
(* Rollout for TLC: the nodes have one role and n1 is its canary; where x1   *)
(* is a revision, n2 refuses it.  The other revisions are interchangeable.   *)
EXTENDS Rollout, TLC

CONSTANTS n1, n2, r1, r2, x1

MCCanaryOf == [n \in Node |-> n1]
NoneRefused == {}
OneRefused == {<<x1, n2>>}
Symmetric == Permutations({r1, r2})

\* Bound on the run about safety: with a fault, at most one of the revisions that
\* every node accepts is rolled out, beside itself or the refused one.
FaultsApart == faults = 0 \/ Cardinality({r \in {r1, r2} : state[r] # "compiled"}) <= 1

\* Bound on the run about liveness: two rollouts without faults, or one with
\* them.  Nodes are interchangeable there, and so are revisions: the first rollout
\* is always r1's and pushes to n1 first.
FaultsWithOne ==
  /\ faults' = 0 \/ deploys' <= 1
  /\ deploys' = 1 => \A n \in Node : desired'[n] = r1
  /\ proc'[<<1, n1>>].step = "send" => \A n \in Node : proc'[<<1, n>>].step = "send"

LiveSpec == Init /\ [][Next /\ FaultsWithOne]_vars /\ Fairness
=============================================================================
