----------------------------- MODULE Inventory -----------------------------
(***************************************************************************)
(* Nodes, their groups and the services on them: the panel's operations    *)
(* (panel/internal/api/nodes.go, groups.go, services.go, idempotent and    *)
(* ifMatch of server.go), and the two loops that write a node's status     *)
(* (PollNodes of dispatch.go, markStaleNodes of jobs/runner.go).           *)
(*                                                                         *)
(* A handler is a few statements; those of others come between.  Foreign   *)
(* keys are part of the statement that would break them.  Of a node's      *)
(* columns only the status is written by the loops; the others, written by *)
(* operators alone, are its content.  There is one group and one service,  *)
(* and nodes are created with one idempotency key, without a name.         *)
(***************************************************************************)
EXTENDS Integers, FiniteSets

CONSTANTS
  Node,    \* nodes that can be created
  Handler, \* requests in progress at once
  MaxOps,  \* bound: edits, requests that took more than a step, and restarts
  Nil      \* no node

ASSUME InventoryAssumption == MaxOps \in Nat /\ Nil \notin Node /\ IsFiniteSet(Handler)

VARIABLES
  nodes,   \* the rows of nodes
  members, \* the nodes in the group
  group,   \* the group exists
  service, \* the service exists; it refers to the group
  request, \* the requests in progress
  polling, \* the node PollNodes waits for
  key,     \* the idempotency key is stored
  ops,     \* operations so far
  word,    \* history: each node's last status as an operator set it
  undone,  \* history: an operator's decision was undone without notice
  made,    \* history: nodes created with the key
  lapses   \* history: what the key could not prevent (see LookUpKey, Abandon, ExpireKey)

inventoryVars == <<nodes, members, group, service, request, polling, key, ops,
                   word, undone, made, lapses>>

Status == {"unknown", "healthy", "unhealthy", "maintenance"}
NoNode == [exists |-> FALSE, content |-> 0, version |-> 0, status |-> "unknown"]
\* `seen' and `ver': the content and the version the operator edits; `raced': the
\* node was added to the group after the check.
NoRequest == [step |-> "idle", node |-> Nil, seen |-> 0, ver |-> 0, raced |-> FALSE]

InventoryTypeOK ==
  /\ nodes \in [Node -> [exists : BOOLEAN, content : Nat, version : Nat, status : Status]]
  /\ members \subseteq Node
  /\ group \in BOOLEAN /\ service \in BOOLEAN /\ key \in BOOLEAN
  /\ request \in [Handler -> [step : {"idle", "edit", "create", "store", "delete", "add", "drop"},
                              node : Node \cup {Nil}, seen : Nat, ver : Nat, raced : BOOLEAN]]
  /\ polling \in Node \cup {Nil}
  /\ ops \in 0..MaxOps
  /\ word \in [Node -> Status] /\ undone \in BOOLEAN
  /\ made \in Nat /\ lapses \in Nat

InventoryInit ==
  /\ nodes = [n \in Node |-> NoNode]
  /\ members = {}
  /\ group = FALSE /\ service = FALSE /\ key = FALSE
  /\ request = [r \in Handler |-> NoRequest]
  /\ polling = Nil
  /\ ops = 0
  /\ word = [n \in Node |-> "unknown"] /\ undone = FALSE
  /\ made = 0 /\ lapses = 0
-----------------------------------------------------------------------------
Counts == ops < MaxOps /\ ops' = ops + 1
Begins(r, n, step) ==
  /\ request[r].step = "idle"
  /\ request' = [request EXCEPT ![r] = [NoRequest EXCEPT !.step = step, !.node = n]]
Closes(r, step) == request[r].step = step /\ request' = [request EXCEPT ![r] = NoRequest]

\* createNode: idempotent looks the key up and answers as before when it finds
\* it; a lookup that fails counts as one that finds nothing ...
LookUpKey(r) ==
  /\ Counts
  /\ Begins(r, Nil, "create")
  /\ lapses' = IF key \/ \E q \in Handler : request[q].step \in {"create", "store"}
               THEN lapses + 1 ELSE lapses
  /\ UNCHANGED <<nodes, members, group, service, polling, key, word, undone, made>>

\* ... or the node and its identity are inserted in a transaction ...
InsertNode(r, n) ==
  /\ request[r].step = "create" /\ ~nodes[n].exists /\ nodes[n].version = 0
  /\ request' = [request EXCEPT ![r].step = "store"]
  /\ nodes' = [nodes EXCEPT ![n] = [NoNode EXCEPT !.exists = TRUE, !.version = 1]]
  /\ made' = made + 1
  /\ UNCHANGED <<members, group, service, polling, key, ops, word, undone, lapses>>

\* Mutant: the answer is not kept.
StoreNothing(r) ==
  /\ Closes(r, "store")
  /\ UNCHANGED <<nodes, members, group, service, polling, key, ops, word, undone, made, lapses>>

\* ... and the answer stored under the key.
StoreKey(r) ==
  /\ Closes(r, "store")
  /\ key' = TRUE
  /\ UNCHANGED <<nodes, members, group, service, polling, ops, word, undone, made, lapses>>

\* A request is cut off before its next statement: its client is gone and its
\* context cancelled, or the database fails.  idempotent ignores that its INSERT
\* failed.
Abandon(r) ==
  /\ request[r].step # "idle"
  /\ request' = [request EXCEPT ![r] = NoRequest]
  /\ lapses' = IF request[r].step = "store" THEN lapses + 1 ELSE lapses
  /\ UNCHANGED <<nodes, members, group, service, polling, key, ops, word, undone, made>>

\* pruneRetention: a key is kept for two days.
ExpireKey ==
  /\ Counts
  /\ key /\ key' = FALSE
  /\ lapses' = lapses + 1
  /\ UNCHANGED <<nodes, members, group, service, request, polling, word, undone, made>>

\* The panel dies: requests and polls are gone.
PanelDies ==
  /\ Counts
  /\ request' = [r \in Handler |-> NoRequest]
  /\ polling' = Nil
  /\ lapses' = IF \E r \in Handler : request[r].step = "store" THEN lapses + 1 ELSE lapses
  /\ UNCHANGED <<nodes, members, group, service, key, word, undone, made>>
-----------------------------------------------------------------------------
\* getNode: an operator loads a node and its version.
Load(r, n) ==
  /\ nodes[n].exists /\ request[r].step = "idle"
  /\ request' = [request EXCEPT ![r] = [NoRequest EXCEPT !.step = "edit", !.node = n,
                                          !.seen = nodes[n].content, !.ver = nodes[n].version]]
  /\ UNCHANGED <<nodes, members, group, service, polling, key, ops, word, undone, made, lapses>>

\* Mutant: the version is not compared.
MatchesAny(n, expected) == nodes[n].exists

\* The condition of patchNode's update: If-Match, or 0 for none.
Matches(n, expected) == nodes[n].exists /\ (expected = 0 \/ nodes[n].version = expected)

\* patchNode: the columns of the request, with or without If-Match; the status
\* may be one of them ("same" when it is not).
Patch(r, expected, status) ==
  LET n == request[r].node
      row == [nodes[n] EXCEPT !.content = ops + 1, !.version = @ + 1,
                              !.status = IF status = "same" THEN @ ELSE status]
  IN /\ Counts
     /\ expected \in {0, request[r].ver}
     /\ Closes(r, "edit")
     /\ IF Matches(n, expected)
        THEN /\ nodes' = [nodes EXCEPT ![n] = row]
             /\ word' = IF status = "same" THEN word ELSE [word EXCEPT ![n] = status]
             /\ undone' = (undone \/ (expected # 0 /\ nodes[n].content # request[r].seen))
        ELSE UNCHANGED <<nodes, word, undone>>
     /\ UNCHANGED <<members, group, service, polling, key, made, lapses>>

\* nodeMaintenance.
Maintain(n, on) ==
  LET status == IF on THEN "maintenance" ELSE "unknown"
  IN /\ Counts
     /\ nodes[n].exists
     /\ nodes' = [nodes EXCEPT ![n].status = status, ![n].version = @ + 1]
     /\ word' = [word EXCEPT ![n] = status]
     /\ UNCHANGED <<members, group, service, request, polling, key, undone, made, lapses>>

\* pollOnce: the node is asked ...
Ask(n) ==
  /\ polling = Nil /\ nodes[n].exists
  /\ polling' = n
  /\ UNCHANGED <<nodes, members, group, service, request, key, ops, word, undone, made, lapses>>

\* ... and what it says, or its silence, written unless an operator has taken
\* it out by then.
Answer(status) ==
  /\ polling # Nil
  /\ polling' = Nil
  /\ nodes' = IF nodes[polling].exists /\ nodes[polling].status # "maintenance"
              THEN [nodes EXCEPT ![polling].status = status] ELSE nodes
  /\ UNCHANGED <<members, group, service, request, key, ops, word, undone, made, lapses>>

\* markStaleNodes.
MarkStale(n) ==
  /\ nodes[n].exists /\ nodes[n].status \notin {"maintenance", "unhealthy"}
  /\ nodes' = [nodes EXCEPT ![n].status = "unhealthy"]
  /\ UNCHANGED <<members, group, service, request, polling, key, ops, word, undone, made, lapses>>
-----------------------------------------------------------------------------
\* deleteNode: only a node in no group ...
CheckNode(r, n) ==
  /\ Counts
  /\ nodes[n].exists /\ n \notin members
  /\ Begins(r, n, "delete")
  /\ UNCHANGED <<nodes, members, group, service, polling, key, word, undone, made, lapses>>

\* ... is deleted, and its memberships with it.
DeleteNode(r) ==
  LET n == request[r].node
  IN /\ Closes(r, "delete")
     /\ nodes' = [nodes EXCEPT ![n] = [@ EXCEPT !.exists = FALSE, !.status = "unknown"]]
     /\ word' = [word EXCEPT ![n] = "unknown"]
     /\ members' = members \ {n}
     /\ undone' = (undone \/ (n \in members /\ ~request[r].raced))
     /\ UNCHANGED <<group, service, polling, key, ops, made, lapses>>

\* addMember: the node's role is read, and the member inserted.
CheckRole(r, n) ==
  /\ Counts
  /\ nodes[n].exists /\ Begins(r, n, "add")
  /\ UNCHANGED <<nodes, members, group, service, polling, key, word, undone, made, lapses>>

AddMember(r) ==
  LET n == request[r].node
      works == nodes[n].exists /\ group
  IN /\ request[r].step = "add"
     /\ members' = IF works THEN members \cup {n} ELSE members
     /\ request' = [q \in Handler |->
                      IF q = r THEN NoRequest
                      ELSE [request[q] EXCEPT !.raced = @ \/ (request[q].step = "delete" /\ request[q].node = n)]]
     /\ UNCHANGED <<nodes, group, service, polling, key, ops, word, undone, made, lapses>>

RemoveMember(n) ==
  /\ n \in members
  /\ members' = members \ {n}
  /\ UNCHANGED <<nodes, group, service, request, polling, key, ops, word, undone, made, lapses>>

\* createGroup, createService and deleteService are one statement each.
CreateGroup ==
  /\ Counts /\ ~group /\ group' = TRUE
  /\ UNCHANGED <<nodes, members, service, request, polling, key, word, undone, made, lapses>>

CreateService ==
  /\ Counts /\ group /\ ~service /\ service' = TRUE
  /\ UNCHANGED <<nodes, members, group, request, polling, key, word, undone, made, lapses>>

DeleteService ==
  /\ service /\ service' = FALSE
  /\ UNCHANGED <<nodes, members, group, request, polling, key, ops, word, undone, made, lapses>>

\* deleteGroup: only a group without services ...
CheckGroup(r) ==
  /\ Counts
  /\ group /\ ~service /\ Begins(r, Nil, "drop")
  /\ UNCHANGED <<nodes, members, group, service, polling, key, word, undone, made, lapses>>

\* ... is deleted with its members; the foreign key refuses when a service has
\* come meanwhile.
DeleteGroup(r) ==
  /\ Closes(r, "drop")
  /\ group' = (group /\ service)
  /\ members' = IF service THEN members ELSE {}
  /\ UNCHANGED <<nodes, service, polling, key, ops, word, undone, made, lapses>>

InventoryNext ==
  \/ PanelDies \/ ExpireKey \/ CreateGroup \/ CreateService \/ DeleteService
  \/ \E r \in Handler :
       \/ LookUpKey(r) \/ StoreKey(r) \/ Abandon(r) \/ DeleteNode(r) \/ AddMember(r)
       \/ CheckGroup(r) \/ DeleteGroup(r)
       \/ \E e \in {0, request[r].ver}, s \in {"same", "maintenance", "unknown"} : Patch(r, e, s)
  \/ \E r \in Handler, n \in Node : InsertNode(r, n) \/ Load(r, n) \/ CheckNode(r, n) \/ CheckRole(r, n)
  \/ \E n \in Node : Ask(n) \/ MarkStale(n) \/ RemoveMember(n)
  \/ \E n \in Node, on \in BOOLEAN : Maintain(n, on)
  \/ \E s \in {"healthy", "unknown", "unhealthy"} : Answer(s)

InventorySpec == InventoryInit /\ [][InventoryNext]_inventoryVars
-----------------------------------------------------------------------------
\* Properties.

\* What an operator decided stands until an operator changes it: an edit with
\* If-Match overwrites nothing its author has not seen, no late answer of a poll
\* and no stale mark takes a node out of maintenance, and a node in a group is
\* not deleted, unless it was added after the check.
OperatorsWordStands ==
  /\ ~undone
  /\ \A n \in Node : nodes[n].exists /\ word[n] = "maintenance" => nodes[n].status = "maintenance"
  /\ service => group

\* A request repeated with its idempotency key creates its node once, and every
\* node beyond the first is owed to one of the gaps idempotent leaves: a request
\* that looked the key up while another was in progress, or whose lookup failed;
\* a request, or a panel, that ended between the node and the key; a key that
\* expired.
CreatedOnce == made <= 1 + lapses
=============================================================================
