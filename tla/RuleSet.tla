------------------------------ MODULE RuleSet ------------------------------
(***************************************************************************)
(* One rule set of the panel: building a version from its sources and      *)
(* approving or rejecting one (panel/internal/rules/pipeline.go and        *)
(* panel/internal/api/rulesets.go).                                        *)
(*                                                                         *)
(* Build reads the rule set once, downloads for up to minutes, compares    *)
(* the result with the version that was active when it began, and stores   *)
(* it in a transaction; Approve is a transaction of its own.  The operator *)
(* and the scheduler start builds independently.  PostgreSQL runs these    *)
(* transactions at READ COMMITTED: a statement sees what was committed     *)
(* when it began, waits for rows another transaction has changed and then  *)
(* looks at those rows, and only those, again.                             *)
(*                                                                         *)
(* A version's content is a set of domains; a download may bring any       *)
(* member of Contents.                                                     *)
(***************************************************************************)
EXTENDS Integers, FiniteSets

CONSTANTS
  Builder,          \* concurrent Build calls
  Approver,         \* concurrent Approve calls
  Contents,         \* what the sources and the manual lists may add up to
  MaxRemovedPercent,\* Thresholds
  MaxAdded,
  MaxVersions,      \* bound: rows of rule_set_versions
  MaxBuilds         \* bound: Build calls

ASSUME RuleSetAssumption ==
  /\ Builder \cap Approver = {}
  /\ \A c \in Contents : IsFiniteSet(c)
  /\ MaxRemovedPercent \in Nat /\ MaxAdded \in Nat
  /\ MaxVersions \in Nat /\ MaxBuilds \in Nat

VARIABLES
  status,   \* rule_set_versions.status by sequence, "none" for no row
  content,  \* the version's rule_entries
  active,   \* rule_sets.active_version_id, 0 for NULL
  mode,     \* rule_sets.update_mode
  tx,       \* what each call knows and has written but not committed
  builds,   \* Build calls so far
  approved, \* history: versions the operator has approved
  partial,  \* history: versions built while a source had failed
  blind,    \* history: versions built when the list in force could not be read
  overlap,  \* history: two calls have been in progress at once
  disowned  \* history: a version was rejected while it was active

vars == <<status, content, active, mode, tx, builds, approved, partial, blind, overlap, disowned>>

Actor == Builder \cup Approver
Version == 1..MaxVersions
\* manual_only is manual_approve without scheduled builds.
Modes == {"auto_apply", "manual_approve"}
Statuses == {"none", "awaiting_approval", "active", "rejected", "superseded"}
Steps == {"idle", "fetch", "number", "insert", "scan", "supersede", "set", "point", "commit"}

\* base, auto, new, failed and verdict are Build's locals (blind: it could not
\* read the list in force); row is the version the transaction inserts or
\* activates, old the rows it is superseding.
Idle == [step |-> "idle", base |-> 0, auto |-> FALSE, new |-> {}, failed |-> FALSE,
         blind |-> FALSE, verdict |-> "none", row |-> 0, old |-> {}]

TypeOK ==
  /\ status \in [Version -> Statuses]
  /\ content \in [Version -> Contents \cup {{}}]
  /\ active \in {0} \cup {v \in Version : status[v] # "none"}
  /\ mode \in Modes
  /\ tx \in [Actor -> [step : Steps, base : 0..MaxVersions, auto : BOOLEAN,
                       new : Contents \cup {{}}, failed : BOOLEAN, blind : BOOLEAN,
                       verdict : Statuses, row : 0..MaxVersions, old : SUBSET Version]]
  /\ builds \in 0..MaxBuilds
  /\ approved \subseteq Version /\ partial \subseteq Version /\ blind \subseteq Version
  /\ overlap \in BOOLEAN /\ disowned \in BOOLEAN

Init ==
  /\ status = [v \in Version |-> "none"]
  /\ content = [v \in Version |-> {}]
  /\ active = 0
  /\ mode \in Modes
  /\ tx = [a \in Actor |-> Idle]
  /\ builds = 0
  /\ approved = {} /\ partial = {} /\ blind = {}
  /\ overlap = FALSE /\ disowned = FALSE
-----------------------------------------------------------------------------
Quiet == \A a \in Actor : tx[a].step = "idle"
Entries(v) == IF v = 0 THEN {} ELSE content[v]

\* Committed rows of rule_set_versions that a transaction has changed.
Held(a) ==
  {v \in tx[a].old : tx[a].step \in {"set", "point", "commit"}} \cup
  {v \in {tx[a].row} : a \in Approver /\ tx[a].step \in {"point", "commit"}}
Free(a, rows) == \A b \in Actor \ {a} : rows \cap Held(b) = {}

\* Build: the rule set as it is now.
Begin(b) ==
  /\ tx[b].step = "idle" /\ builds < MaxBuilds
  /\ builds' = builds + 1
  /\ overlap' = (overlap \/ ~Quiet)
  /\ tx' = [tx EXCEPT ![b] = [Idle EXCEPT !.step = "fetch", !.base = active,
                                          !.auto = (mode = "auto_apply")]]
  /\ UNCHANGED <<status, content, active, mode, approved, partial, blind, disowned>>

\* The call ends early: every enabled source failed and there is no manual list,
\* a statement failed, or the request was cancelled.  The transaction is rolled
\* back.
Abort(a) ==
  /\ tx[a].step # "idle"
  /\ tx' = [tx EXCEPT ![a] = Idle]
  /\ UNCHANGED <<status, content, active, mode, builds, approved, partial, blind, overlap, disowned>>

\* Mutant: an empty result is not suspicious.
SuspiciousUnlessEmpty(prev, new, failed) ==
  \/ new # {} /\ Cardinality(prev \ new) * 100 > Cardinality(prev) * MaxRemovedPercent
  \/ Cardinality(new \ prev) > MaxAdded
  \/ failed

\* Mutant: a failed source is only a warning.
SuspiciousUnlessFailed(prev, new, failed) ==
  \/ prev # {} /\ Cardinality(prev \ new) * 100 > Cardinality(prev) * MaxRemovedPercent
  \/ Cardinality(new \ prev) > MaxAdded

\* When a change needs a human.
Suspicious(prev, new, failed) ==
  \/ prev # {} /\ new = {}
  \/ prev # {} /\ Cardinality(prev \ new) * 100 > Cardinality(prev) * MaxRemovedPercent
  \/ Cardinality(new \ prev) > MaxAdded
  \/ failed

\* A first non-empty build has nothing to lose.
Verdict(prev, new, failed, auto) ==
  IF ~Suspicious(prev, new, failed) /\ (auto \/ (prev = {} /\ new # {}))
  THEN "active" ELSE "awaiting_approval"

\* Build: the download is over and has brought `new'; it is compared with the
\* entries of the version that was active when the build began.  An unchanged
\* list ends the build.  Reading the hash and the entries of that version may
\* fail, and the errors are ignored: the list then counts as changed, and the
\* previous one as empty.
Compare(b) ==
  \E new \in Contents, failed, hashRead, listRead \in BOOLEAN :
    LET prev == IF listRead THEN Entries(tx[b].base) ELSE {}
        same == tx[b].base # 0 /\ hashRead /\ Entries(tx[b].base) = new
    IN /\ tx[b].step = "fetch"
       /\ tx' = [tx EXCEPT ![b] =
                  IF same THEN Idle
                  ELSE [Idle EXCEPT !.step = "number", !.new = new, !.failed = failed,
                                 !.blind = ~listRead,
                                 !.verdict = Verdict(prev, new, failed, tx[b].auto)]]
       /\ UNCHANGED <<status, content, active, mode, builds, approved, partial, blind, overlap, disowned>>

\* Build's transaction: max(sequence)+1 among the committed rows.
Number(b) ==
  LET next == Cardinality({v \in Version : status[v] # "none"}) + 1
  IN /\ tx[b].step = "number"
     /\ next \in Version
     /\ tx' = [tx EXCEPT ![b].row = next, ![b].step = "insert"]
     /\ UNCHANGED <<status, content, active, mode, builds, approved, partial, blind, overlap, disowned>>

\* The INSERT waits for a transaction that has inserted the same number, and
\* violates the unique constraint if that one was committed.
Insert(b) ==
  /\ tx[b].step = "insert"
  /\ \A c \in Builder \ {b} : tx[c].row = tx[b].row => tx[c].step = "insert"
  /\ tx' = [tx EXCEPT ![b] =
             IF status[@.row] # "none" THEN Idle
             ELSE [@ EXCEPT !.step = IF tx[b].verdict = "active" THEN "scan" ELSE "point"]]
  /\ UNCHANGED <<status, content, active, mode, builds, approved, partial, blind, overlap, disowned>>

\* Approve: any version that has not been rejected, older ones included.
BeginApprove(a, v) ==
  /\ tx[a].step = "idle"
  /\ status[v] \notin {"none", "rejected"}
  /\ overlap' = (overlap \/ ~Quiet)
  /\ tx' = [tx EXCEPT ![a] = [Idle EXCEPT !.step = "scan", !.row = v]]
  /\ UNCHANGED <<status, content, active, mode, builds, approved, partial, blind, disowned>>

\* UPDATE ... SET status='superseded' WHERE status='active': the rows the
\* statement sees when it begins ...
Scan(a) ==
  /\ tx[a].step = "scan"
  /\ tx' = [tx EXCEPT ![a].step = "supersede", ![a].old = {v \in Version : status[v] = "active"}]
  /\ UNCHANGED <<status, content, active, mode, builds, approved, partial, blind, overlap, disowned>>

\* Mutant: nothing is superseded.
SupersedeNone(a) ==
  /\ tx[a].step = "supersede"
  /\ tx' = [tx EXCEPT ![a].step = "set", ![a].old = {}]
  /\ UNCHANGED <<status, content, active, mode, builds, approved, partial, blind, overlap, disowned>>

\* ... and, once no other transaction holds one of them, those still active.
Supersede(a) ==
  /\ tx[a].step = "supersede"
  /\ Free(a, tx[a].old)
  /\ tx' = [tx EXCEPT ![a].step = "set", ![a].old = {v \in @ : status[v] = "active"}]
  /\ UNCHANGED <<status, content, active, mode, builds, approved, partial, blind, overlap, disowned>>

\* Approve's UPDATE of the version itself; Build has inserted its own as active.
SetActive(a) ==
  /\ tx[a].step = "set"
  /\ a \in Approver => Free(a, {tx[a].row})
  /\ tx' = [tx EXCEPT ![a].step = "point"]
  /\ UNCHANGED <<status, content, active, mode, builds, approved, partial, blind, overlap, disowned>>

\* UPDATE rule_sets, the pointer or only last_fetch_at; at most one uncommitted
\* transaction can have done it.
Point(a) ==
  /\ tx[a].step = "point"
  /\ \A b \in Actor \ {a} : tx[b].step # "commit"
  /\ tx' = [tx EXCEPT ![a].step = "commit"]
  /\ UNCHANGED <<status, content, active, mode, builds, approved, partial, blind, overlap, disowned>>

\* Commit of a build.
CommitBuild(b) ==
  LET t == tx[b]
  IN /\ b \in Builder /\ t.step = "commit"
     /\ status' = [v \in Version |-> IF v = t.row THEN t.verdict
                                     ELSE IF v \in t.old THEN "superseded" ELSE status[v]]
     /\ content' = [content EXCEPT ![t.row] = t.new]
     /\ active' = IF t.verdict = "active" THEN t.row ELSE active
     /\ partial' = IF t.failed THEN partial \cup {t.row} ELSE partial
     /\ blind' = IF t.blind THEN blind \cup {t.row} ELSE blind
     /\ tx' = [tx EXCEPT ![b] = Idle]
     /\ UNCHANGED <<mode, builds, approved, overlap, disowned>>

\* Commit of an approval.
CommitApprove(a) ==
  LET t == tx[a]
  IN /\ a \in Approver /\ t.step = "commit"
     /\ status' = [v \in Version |-> IF v = t.row THEN "active"
                                     ELSE IF v \in t.old THEN "superseded" ELSE status[v]]
     /\ active' = t.row
     /\ approved' = approved \cup {t.row}
     /\ tx' = [tx EXCEPT ![a] = Idle]
     /\ UNCHANGED <<content, mode, builds, partial, blind, overlap, disowned>>

\* approveRuleSet with reject: one statement, whatever the version's status.
Reject(v) ==
  /\ status[v] # "none"
  /\ \A a \in Actor : v \notin Held(a)
  /\ status' = [status EXCEPT ![v] = "rejected"]
  /\ disowned' = (disowned \/ v = active)
  /\ overlap' = (overlap \/ ~Quiet)
  /\ UNCHANGED <<content, active, mode, tx, builds, approved, partial, blind>>

\* patchRuleSet.
SetMode ==
  /\ \A a \in Actor : tx[a].step # "commit"
  /\ mode' \in Modes \ {mode}
  /\ UNCHANGED <<status, content, active, tx, builds, approved, partial, blind, overlap, disowned>>

Next ==
  \/ \E b \in Builder : Begin(b) \/ Compare(b) \/ Number(b) \/ Insert(b) \/ CommitBuild(b)
  \/ \E a \in Approver : CommitApprove(a) \/ \E v \in Version : BeginApprove(a, v)
  \/ \E a \in Actor : Scan(a) \/ Supersede(a) \/ SetActive(a) \/ Point(a) \/ Abort(a)
  \/ \E v \in Version : Reject(v)
  \/ SetMode

Spec == Init /\ [][Next]_vars
-----------------------------------------------------------------------------
\* Properties.

\* The comment of Build ("A non-empty list must never be silently replaced by an
\* empty one"): the entries in force go from some to none only by an approval.
\* Builds that could not read the list they were compared with are left aside:
\* the promise fails without them too.
NeverEmptiedSilently ==
  [][Entries(active) # {} /\ (Entries(active))' = {} => active' \in approved' \cup blind']_vars

\* Used by one call at a time the pipeline empties the entries in force only by
\* an approval, or by a build that could not read them and so took them for
\* empty, across any number of builds, approvals, rejections, failures and
\* changes of mode.
EmptiedOnlyByApproval ==
  [][~overlap /\ Entries(active) # {} /\ (Entries(active))' = {} =>
       active' \in approved' \cup blind']_vars

\* Used by one call at a time, the status column and the pointer agree: exactly
\* the version in force is marked active, unless it was rejected in force.
PointerAgrees ==
  ~overlap /\ Quiet /\ ~disowned =>
    {v \in Version : status[v] = "active"} = {active} \ {0}

\* What was built while a source had failed is in force only if the operator
\* approved it, whatever overlaps.
PartialNeedsApproval == active \in partial => active \in approved
=============================================================================
