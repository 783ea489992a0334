------------------------------- MODULE MCNode -------------------------------
(***************************************************************************)
(* The components of a data plane process that share no state with each    *)
(* other, side by side.  Every behaviour is one of a single component, the *)
(* part that moves; the others stay as they begin.                         *)
(***************************************************************************)
EXTENDS Loader, Selector, Tunnel

VARIABLE part

nodeVars == <<part, vars, selectorVars, tunnelVars>>

MCPolicies == {[mode |-> "weighted", targets |-> <<"t2", "t1">>],
               [mode |-> "manual_fixed", targets |-> <<"t1", "t2">>]}

\* A part that does not move begins in one of its initial states only.
Idles(p, v, values) == part = p \/ v = CHOOSE x \in values : TRUE

NodeInit ==
  /\ part \in {"loader", "selector", "tunnel"}
  /\ Init /\ SelectorInit /\ TunnelInit
  /\ Idles("selector", [mode |-> pools[1].mode, targets |-> pools[1].targets], Policies)
  /\ Idles("tunnel", side, {"proxy", "relay"}) /\ Idles("tunnel", maxSess, Limits)

Moves(p, q, v) == IF p = q THEN TRUE ELSE UNCHANGED v

Only(p) ==
  /\ part = p /\ UNCHANGED part
  /\ Moves(p, "loader", vars)
  /\ Moves(p, "selector", selectorVars)
  /\ Moves(p, "tunnel", tunnelVars)

NodeNext ==
  \/ Only("loader") /\ Next
  \/ Only("selector") /\ SelectorNext
  \/ Only("tunnel") /\ TunnelNext

\* The fairness of the parts, each while it is the one that moves.
NodeFairness ==
  /\ WF_selectorVars(Only("selector") /\ ProbeRound)
  /\ WF_selectorVars(Only("selector") /\ ProbeOne)
  /\ \A c \in Conn : /\ WF_tunnelVars(Only("tunnel") /\ Handle(c))
                     /\ \A d \in Dir : WF_tunnelVars(Only("tunnel") /\ Copy(c, d))

NodeSpec == NodeInit /\ [][NodeNext]_nodeVars /\ NodeFairness
=============================================================================
