---------------------------- MODULE ManagedNode ----------------------------
(***************************************************************************)
(* What the panel may rely on of a node: the contract between DataPlane,   *)
(* which keeps it, and Rollout, whose Send and SendFails are a request     *)
(* with its application and whose NodeForgets is Forget.                   *)
(*                                                                         *)
(* A node applies only what it is being asked to apply and has not         *)
(* refused, and it may do so until the request ends, whatever the request  *)
(* is told in the end.  It may forget what it applied last, but only for   *)
(* something it had applied before, and then it forgets the requests too.  *)
(***************************************************************************)
CONSTANTS
  Rev,      \* revisions
  Rejected, \* those the node refuses
  None      \* no revision

VARIABLES
  asked,   \* the revisions of the requests in progress
  applied, \* the revision the node reports
  ran      \* every revision it has ever reported

nodeVars == <<asked, applied, ran>>

NodeInit == asked = {} /\ applied = None /\ ran = {}

Request(r) ==
  /\ r \in Rev \ Rejected
  /\ asked' = asked \cup {r}
  /\ UNCHANGED <<applied, ran>>

Apply(r) ==
  /\ r \in asked
  /\ applied' = r
  /\ ran' = ran \cup {r}
  /\ UNCHANGED asked

\* A request is answered or fails.
Return ==
  /\ asked' \subseteq asked
  /\ UNCHANGED <<applied, ran>>

Forget ==
  /\ asked' = {}
  /\ applied' \in ran \cup {None}
  /\ UNCHANGED ran

NodeNext == (\E r \in Rev : Request(r) \/ Apply(r)) \/ Return \/ Forget

NodeSpec == NodeInit /\ [][NodeNext]_nodeVars
=============================================================================
