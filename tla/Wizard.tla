------------------------------- MODULE Wizard -------------------------------
(***************************************************************************)
(* The service wizard (serviceWizard of panel/internal/api/catalog.go): a  *)
(* rule set, its sources, its first version and the service on it, created *)
(* one after the other with nothing but the wizard's own undoing to hold   *)
(* them together.  Operators meanwhile create and delete services on any   *)
(* rule set they see, and delete rule sets (services.go, rulesets.go).     *)
(*                                                                         *)
(* The names of rule sets and the names and slugs of services are unique,  *)
(* and the foreign keys of services are checked by the statement that      *)
(* would break them.  A wizard gives its rule set and its service one name *)
(* and draws the slug from the request, so that names may differ where     *)
(* slugs do not.                                                           *)
(***************************************************************************)
EXTENDS Integers, FiniteSets

CONSTANTS
  Call,     \* wizards in progress at once
  Name,     \* names asked for
  Slugged,  \* slugs asked for
  MaxSets,  \* bound: rule sets created
  MaxExtra, \* bound: services created and rule sets deleted by operators
  MaxAborts \* bound: requests cancelled and restarts of the panel

ASSUME WizardAssumption == MaxSets \in Nat /\ MaxExtra \in Nat /\ MaxAborts \in Nat

VARIABLES
  sets,    \* rule_sets: ids and names
  offered, \* services: the name, the slug and the rule set of each
  wizard,  \* the wizards in progress
  lastId,  \* rule sets created so far
  extra,   \* what operators have done by hand so far
  aborts,  \* requests cancelled and restarts so far
  excused  \* history: rule sets a service was once on, or whose wizard was cut off

wizardVars == <<sets, offered, wizard, lastId, extra, aborts, excused>>

SetId == 1..MaxSets
NoCall == [step |-> "idle", id |-> 0, name |-> "", slug |-> "", open |-> TRUE]

WizardTypeOK ==
  /\ sets \subseteq [id : SetId, name : Name]
  /\ offered \subseteq [name : Name, slug : Slugged, on : SetId]
  /\ wizard \in [Call -> [step : {"idle", "sources", "build", "check", "service", "undo"},
                          id : 0..MaxSets, name : Name \cup {""}, slug : Slugged \cup {""}, open : BOOLEAN]]
  /\ lastId \in 0..MaxSets
  /\ extra \in 0..MaxExtra /\ aborts \in 0..MaxAborts
  /\ excused \subseteq SetId

WizardInit ==
  /\ sets = {} /\ offered = {}
  /\ wizard = [c \in Call |-> NoCall]
  /\ lastId = 0 /\ extra = 0 /\ aborts = 0
  /\ excused = {}
-----------------------------------------------------------------------------
Ids == {s.id : s \in sets}
Names(rows) == {x.name : x \in rows}
At(c, step) == wizard[c].step = step
To(c, step) == wizard' = [wizard EXCEPT ![c].step = step]

\* The rule set is inserted under the name; a name already taken is an error
\* before there is anything to undo.
InsertSet(c, name, slug) ==
  /\ At(c, "idle") /\ lastId < MaxSets
  /\ name \notin Names(sets)
  /\ lastId' = lastId + 1
  /\ sets' = sets \cup {[id |-> lastId + 1, name |-> name]}
  /\ wizard' = [wizard EXCEPT ![c] = [step |-> "sources", id |-> lastId + 1, name |-> name,
                                      slug |-> slug, open |-> TRUE]]
  /\ UNCHANGED <<offered, extra, aborts, excused>>

\* addSrc and then Build work as long as the request is open and the rule set
\* is there.
Works(c) == wizard[c].open /\ wizard[c].id \in Ids

Proceed(c) ==
  /\ Works(c)
  /\ \/ At(c, "sources") /\ To(c, "build")
     \/ At(c, "build") /\ To(c, "check")
     \/ At(c, "check") /\ To(c, "service")
  /\ UNCHANGED <<sets, offered, lastId, extra, aborts, excused>>

\* Mutant: the error of Build is returned without undoing.
FailLeavingBuild(c) ==
  /\ wizard[c].step \in {"sources", "build", "check"}
  /\ IF At(c, "build") THEN wizard' = [wizard EXCEPT ![c] = NoCall] ELSE To(c, "undo")
  /\ UNCHANGED <<sets, offered, lastId, extra, aborts, excused>>

\* A source is refused, the build fails, or the TTL or UDP mode is found to be
\* invalid once the list is built.
Fail(c) ==
  /\ wizard[c].step \in {"sources", "build", "check"}
  /\ To(c, "undo")
  /\ UNCHANGED <<sets, offered, lastId, extra, aborts, excused>>

\* The service is inserted, unless its name or its slug is taken or the rule set
\* is gone.
InsertService(c) ==
  LET w == wizard[c]
  IN /\ At(c, "service")
     /\ IF Works(c) /\ w.name \notin Names(offered) /\ w.slug \notin {x.slug : x \in offered}
        THEN /\ offered' = offered \cup {[name |-> w.name, slug |-> w.slug, on |-> w.id]}
             /\ excused' = excused \cup {w.id}
             /\ wizard' = [wizard EXCEPT ![c] = NoCall]
        ELSE To(c, "undo") /\ UNCHANGED <<offered, excused>>
     /\ UNCHANGED <<sets, lastId, extra, aborts>>

\* The rows of `sets' a DELETE of the id leaves, when no service is on it.
Without(id) ==
  IF id \in {x.on : x \in offered} THEN sets ELSE {s \in sets : s.id # id}

\* fail: the rule set is deleted with the context of the request, and the
\* outcome not looked at.
Undo(c) ==
  /\ At(c, "undo")
  /\ sets' = IF wizard[c].open THEN Without(wizard[c].id) ELSE sets
  /\ wizard' = [wizard EXCEPT ![c] = NoCall]
  /\ UNCHANGED <<offered, lastId, extra, aborts, excused>>

\* The client goes away, or the database does: the statements that follow fail,
\* those of fail too.
Cancel(c) ==
  /\ aborts < MaxAborts /\ aborts' = aborts + 1
  /\ ~At(c, "idle") /\ wizard[c].open
  /\ wizard' = [wizard EXCEPT ![c].open = FALSE]
  /\ excused' = excused \cup {wizard[c].id}
  /\ UNCHANGED <<sets, offered, lastId, extra>>

WizardsDie ==
  /\ aborts < MaxAborts /\ aborts' = aborts + 1
  /\ wizard' = [c \in Call |-> NoCall]
  /\ excused' = excused \cup {wizard[c].id : c \in {d \in Call : ~At(d, "idle")}}
  /\ UNCHANGED <<sets, offered, lastId, extra>>
-----------------------------------------------------------------------------
\* createService, deleteService and deleteRuleSet by hand.  The check of
\* deleteRuleSet only words the refusal: the foreign key decides.
OfferByHand(name, slug, id) ==
  /\ extra < MaxExtra /\ extra' = extra + 1
  /\ name \notin Names(offered) /\ slug \notin {x.slug : x \in offered} /\ id \in Ids
  /\ offered' = offered \cup {[name |-> name, slug |-> slug, on |-> id]}
  /\ excused' = excused \cup {id}
  /\ UNCHANGED <<sets, wizard, lastId, aborts>>

Withdraw(x) ==
  /\ x \in offered
  /\ offered' = offered \ {x}
  /\ UNCHANGED <<sets, wizard, lastId, extra, aborts, excused>>

DropSet(id) ==
  /\ extra < MaxExtra /\ extra' = extra + 1
  /\ id \in Ids
  /\ sets' = Without(id)
  /\ UNCHANGED <<offered, wizard, lastId, aborts, excused>>

WizardNext ==
  \/ \E c \in Call : \/ Proceed(c) \/ Fail(c) \/ InsertService(c) \/ Undo(c) \/ Cancel(c)
                     \/ \E n \in Name, s \in Slugged : InsertSet(c, n, s)
  \/ WizardsDie
  \/ \E id \in SetId : \/ DropSet(id)
                       \/ \E n \in Name, s \in Slugged : OfferByHand(n, s, id)
  \/ \E x \in offered : Withdraw(x)

WizardSpec == WizardInit /\ [][WizardNext]_wizardVars
-----------------------------------------------------------------------------
\* Properties.

\* A wizard that fails leaves no rule set behind, so that it can be retried
\* under the same name, unless its request was cancelled, the panel died or a
\* service has been put on the rule set; and whatever wizards undo and operators
\* delete, every service keeps the rule set it is on.
WizardRetries ==
  /\ \A x \in offered : x.on \in Ids
  /\ \A id \in Ids \ excused : \E c \in Call : wizard[c].id = id
=============================================================================
