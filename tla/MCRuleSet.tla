----------------------------- MODULE MCRuleSet -----------------------------
(* RuleSet for TLC: a list of four domains, the same with one of them gone  *)
(* (25%, within the threshold) and the empty list; at most three additions, *)
(* so that the first build of the longer list needs approval.               *)
EXTENDS RuleSet, TLC

MCContents == {{}, 1..3, 1..4}
Symmetry == Permutations(Builder)
=============================================================================
