------------------------------ MODULE Identity ------------------------------
(***************************************************************************)
(* Provisioning: an agent without an identity writes the one of the bundle *)
(* it was given (LoadBundle, Provisioned and Serve of                      *)
(* agent/internal/agentcore/agent.go, called by cmd/node-agent).           *)
(*                                                                         *)
(* Four files are written one after the other, none of them atomically:    *)
(* each is truncated and then filled, and the process may die anywhere.    *)
(* The operator may start it again with another bundle.  To give a node a  *)
(* new identity the operator removes the directory, as the agent's message *)
(* and SECURITY.md say; state.json, with the old node id, stays.           *)
(***************************************************************************)
EXTENDS Integers, Sequences

CONSTANTS
  Bundle,   \* bundles
  NodeOf,   \* NodeOf[b]: the node id bundle b names
  Nobody,   \* no node id, or no file
  MaxBoots  \* bound: starts of the agent

NodeId == {NodeOf[b] : b \in Bundle}

ASSUME IdentityAssumption == MaxBoots \in Nat /\ Nobody \notin Bundle \cup NodeId

VARIABLES
  ident,   \* the files of the identity directory: whose they are, and if whole
  agent,   \* the process: where it is, its bundle, the file it writes
  nodeID,  \* state.NodeID in memory
  savedID, \* state.NodeID in state.json
  boots,   \* starts so far
  removed, \* history: the operator removed the directory at least once
  unsaved  \* history: no saveState succeeded since a file of it was last written

identityVars == <<ident, agent, nodeID, savedID, boots, removed, unsaved>>

\* In the order LoadBundle writes them.
Files == <<"node.key", "node.crt", "ca.crt", "panel.fp">>
File == {Files[i] : i \in 1..4}
Missing == [of |-> Nobody, whole |-> FALSE]
Off == [step |-> "off", bundle |-> Nobody, i |-> 0]

IdentityTypeOK ==
  /\ ident \in [File -> [of : Bundle \cup {Nobody}, whole : BOOLEAN]]
  /\ agent \in [step : {"off", "truncate", "fill", "remember", "save", "serve"},
                bundle : Bundle \cup {Nobody}, i : 0..4]
  /\ nodeID \in NodeId \cup {Nobody} /\ savedID \in NodeId \cup {Nobody}
  /\ boots \in 0..MaxBoots
  /\ removed \in BOOLEAN /\ unsaved \in BOOLEAN

IdentityInit ==
  /\ ident = [f \in File |-> Missing]
  /\ agent = Off
  /\ nodeID = Nobody /\ savedID = Nobody
  /\ boots = 0
  /\ removed = FALSE /\ unsaved = FALSE
-----------------------------------------------------------------------------
Provisioned == \A f \in File : ident[f].of # Nobody

\* Serve reads the identity: the key pair must match and the CA be a
\* certificate; the panel's fingerprint is taken as it is.
Loadable ==
  /\ \A f \in File \ {"panel.fp"} : ident[f].whole
  /\ ident["node.key"].of = ident["node.crt"].of

\* New and main: a provisioned agent ignores the bundle and serves, or exits.
Boot(b) ==
  /\ agent.step = "off" /\ boots < MaxBoots
  /\ boots' = boots + 1
  /\ nodeID' = savedID
  /\ agent' = IF ~Provisioned THEN [step |-> "truncate", bundle |-> b, i |-> 1]
              ELSE IF Loadable THEN [Off EXCEPT !.step = "serve"] ELSE Off
  /\ UNCHANGED <<ident, savedID, removed, unsaved>>

\* Mutant: a file that is there already is not written again.
TruncateMissing ==
  LET f == Files[agent.i]
  IN /\ agent.step = "truncate"
     /\ IF ident[f].of # Nobody
        THEN /\ agent' = IF agent.i < 4 THEN [agent EXCEPT !.i = @ + 1] ELSE [agent EXCEPT !.step = "remember"]
             /\ UNCHANGED ident
        ELSE /\ ident' = [ident EXCEPT ![f] = [of |-> agent.bundle, whole |-> FALSE]]
             /\ agent' = [agent EXCEPT !.step = "fill"]
     /\ unsaved' = TRUE
     /\ UNCHANGED <<nodeID, savedID, boots, removed>>

\* writeFile: the file is created or truncated ...
TruncateFile ==
  /\ agent.step = "truncate"
  /\ ident' = [ident EXCEPT ![Files[agent.i]] = [of |-> agent.bundle, whole |-> FALSE]]
  /\ agent' = [agent EXCEPT !.step = "fill"]
  /\ unsaved' = TRUE
  /\ UNCHANGED <<nodeID, savedID, boots, removed>>

\* ... and filled.
FillFile ==
  /\ agent.step = "fill"
  /\ ident' = [ident EXCEPT ![Files[agent.i]].whole = TRUE]
  /\ agent' = IF agent.i < 4 THEN [agent EXCEPT !.step = "truncate", !.i = @ + 1]
              ELSE [agent EXCEPT !.step = "remember"]
  /\ UNCHANGED <<nodeID, savedID, boots, removed, unsaved>>

Remember ==
  /\ agent.step = "remember"
  /\ nodeID' = NodeOf[agent.bundle]
  /\ agent' = [agent EXCEPT !.step = "save"]
  /\ UNCHANGED <<ident, savedID, boots, removed, unsaved>>

\* saveState, whose error is ignored; Serve follows.
SaveID ==
  /\ agent.step = "save"
  /\ \/ savedID' = nodeID /\ unsaved' = FALSE
     \/ UNCHANGED <<savedID, unsaved>>
  /\ agent' = IF Loadable THEN [Off EXCEPT !.step = "serve"] ELSE Off
  /\ UNCHANGED <<ident, nodeID, boots, removed>>

\* A request saves the state again (Agent says when), the node id with it.
RequestSaves ==
  /\ agent.step = "serve" /\ nodeID # savedID
  /\ savedID' = nodeID /\ unsaved' = FALSE
  /\ UNCHANGED <<ident, agent, nodeID, boots, removed>>

\* The process is killed, or a write fails and it exits.
Dies ==
  /\ agent.step # "off"
  /\ agent' = Off
  /\ nodeID' = Nobody
  /\ UNCHANGED <<ident, savedID, boots, removed, unsaved>>

\* The operator removes identity/, of an agent that is stopped or serves.
RemoveIdentity ==
  /\ agent.step \in {"off", "serve"}
  /\ ident' = [f \in File |-> Missing]
  /\ removed' = TRUE
  /\ UNCHANGED <<agent, nodeID, savedID, boots, unsaved>>

IdentityNext ==
  \/ \E b \in Bundle : Boot(b)
  \/ TruncateFile \/ FillFile \/ Remember \/ SaveID \/ RequestSaves
  \/ Dies \/ RemoveIdentity

IdentitySpec == IdentityInit /\ [][IdentityNext]_identityVars
-----------------------------------------------------------------------------
\* Properties.

\* However often provisioning is interrupted and repeated, with whatever
\* bundles, and the identity removed: a provisioned node has the key,
\* certificate, CA and pinned panel of one bundle, all whole but at most the pin.
\* Once a saveState has succeeded since they were written, state.json names that
\* bundle's node.  Before, it names that node or none, if the node never had
\* another identity; a node that had one may be left with that one's id, by an
\* agent that died before saveState or whose saveState failed.
IdentityOfOneBundle ==
  Provisioned =>
    \E b \in Bundle :
      /\ \A f \in File : ident[f].of = b /\ (ident[f].whole \/ f = "panel.fp")
      /\ ~unsaved => savedID = NodeOf[b] /\ nodeID \in {NodeOf[b], Nobody}
      /\ ~removed => {nodeID, savedID} \subseteq {NodeOf[b], Nobody}
=============================================================================
